------------------------------- MODULE DataWal -------------------------------
(***************************************************************************)
(* The key-value projection of datawal.rs over the log: a keydir that maps *)
(* each live key to the RecordRef of its last Put, rebuilt by a scan when  *)
(* the store opens, kept up to date by put and delete, and used by get to  *)
(* read the value back from the segment file.                              *)
(*                                                                         *)
(* A handle is a DataWal or a plain RecordLog; a directory may be used     *)
(* through both, one after the other.  Only the latter can rotate, and     *)
(* append Raw records.                                                     *)
(***************************************************************************)
EXTENDS RecordLog, Keydir

VARIABLES
    wal,    \* the handle is a DataWal
    map,    \* the keydir: live key -> RecordRef
    kv      \* history: the values the store's operations should have left

store == <<wal, map, kv>>
kvars == <<vars, store>>

KeydirRef == [segment : Ids, offset : Nat, len : Nat]

\* Types, and: the keydir holds the keys that are live.
DataWalTypeOK ==
    /\ wal \in BOOLEAN
    /\ DOMAIN map \subseteq Keys
    /\ map \in [DOMAIN map -> KeydirRef]
    /\ DOMAIN kv \subseteq Keys
    /\ kv \in [DOMAIN kv -> Values]
    /\ DOMAIN map = DOMAIN kv

DataWalInit ==
    /\ Init
    /\ wal = FALSE
    /\ map = <<>>
    /\ kv = <<>>

------------------------------------------------------------------------------
(* Reading *)

None == "None"
Failed == "Err"

(***************************************************************************)
(* FdPool::read_at and decode_payload_for_get: exactly len bytes at        *)
(* offset, decoded as one frame.  They are a record if a complete Put of   *)
(* that length starts there, whatever its key.                             *)
(***************************************************************************)
ReadBack(ref) ==
    LET s == files[ref.segment]
        starts == {i \in 1 .. Len(s) :
                      /\ s[i].at = ref.offset
                      /\ s[i].state = "whole"
                      /\ s[i].len = ref.len
                      /\ s[i].data.type = "Put"}
    IN  IF starts = {} THEN Failed ELSE s[CHOOSE i \in starts : TRUE].data.value

Get(k) == IF k \in DOMAIN map THEN ReadBack(map[k]) ELSE None

------------------------------------------------------------------------------
(* Operations *)

NoStore ==
    /\ wal' = FALSE
    /\ map' = <<>>
    /\ kv' = <<>>

\* DataWal::open, or RecordLog::open, up to its successful end.
DataWalOpen ==
    /\ OpenCreated \/ OpenExisting
    /\ \/ /\ wal' = TRUE
          /\ map' = Rebuild(files)
          /\ kv' = Projection(files)
       \/ NoStore

\* put and delete, or append_record: the frame is being written.
StoreAppend(d, cut) ==
    /\ wal => d.type # "Raw"
    /\ AppendBegin(d, cut)
    /\ UNCHANGED store

Without(f, k) == [x \in DOMAIN f \ {k} |-> f[x]]
With(f, k, v) == [x \in DOMAIN f \cup {k} |-> IF x = k THEN v ELSE f[x]]

\* Mutant of UpdateKeydir: delete leaves the key in the keydir.
UpdateKeydirKeepsDeleted(r) ==
    IF r.data.type = "Put"
    THEN map' = With(map, r.data.key,
                     [segment |-> r.segment, offset |-> r.offset, len |-> r.len])
    ELSE UNCHANGED map

\* What put or delete does to the keydir with the RecordRef it got.
UpdateKeydir(r) ==
    IF r.data.type = "Put"
    THEN map' = With(map, r.data.key,
                     [segment |-> r.segment, offset |-> r.offset, len |-> r.len])
    ELSE map' = Without(map, r.data.key)

\* put and delete: append_record returned; on Err the keydir stays as it was.
StoreAppended ==
    /\ AppendFinish
    /\ UNCHANGED wal
    /\ \/ /\ ~wal \/ pending' = pending
          /\ UNCHANGED <<map, kv>>
       \/ \E r \in pending' \ pending :
             /\ wal
             /\ UpdateKeydir(r)
             /\ kv' = IF r.data.type = "Put" THEN With(kv, r.data.key, r.data.value)
                      ELSE Without(kv, r.data.key)

\* Calls that leave the keydir alone; fsync is one of the store's.
StoreUnaffected ==
    /\ \/ OpenCreate
       \/ OpenRefused
       \/ AppendError
       \/ FsyncBegin
       \/ SyncAllError
       \/ FsyncFinish
       \/ DirectoryError
    /\ UNCHANGED store

\* Calls that only a plain RecordLog offers.
LogOnly ==
    /\ ~wal
    /\ \/ RotateBegin
       \/ RotateCreate
       \/ RotateListError
       \/ RotateSyncDir
       \/ RotateFinish
       \/ Scan
    /\ UNCHANGED store

StoreGone ==
    /\ \/ OpenFails
       \/ Close
       \/ Crash
       \/ PowerLoss
    /\ NoStore

DataWalNext ==
    \/ DataWalOpen
    \/ \E d \in Data, cut \in Cuts : StoreAppend(d, cut)
    \/ StoreAppended
    \/ StoreUnaffected
    \/ LogOnly
    \/ StoreGone

DataWalSpec == DataWalInit /\ [][DataWalNext]_kvars

------------------------------------------------------------------------------
(* Properties *)

\* get, keys, items and compact_to can be called.
Readable == wal /\ pc = "idle"

(***************************************************************************)
(* get reads what the last put or delete of the key left, through the      *)
(* reference in the keydir and the bytes of the file, poisoned or not.     *)
(***************************************************************************)
GetReturnsLatest ==
    Readable => \A k \in Keys : Get(k) = IF k \in DOMAIN kv THEN kv[k] ELSE None

(***************************************************************************)
(* get never returns the value of another key or an older value: it gives  *)
(* the live value or an error.                                             *)
(***************************************************************************)
GetNeverWrong ==
    Readable => \A k \in Keys : Get(k) \in {Failed, IF k \in DOMAIN kv THEN kv[k] ELSE None}

(***************************************************************************)
(* The keydir that put and delete keep up to date is the one that a reopen *)
(* would rebuild from the files, also after a failed append.               *)
(***************************************************************************)
ReopenAgrees == Readable => map = Rebuild(files)

(***************************************************************************)
(* Whatever crashed in between, a store shows for every key the effect of  *)
(* its last fsynced put or delete, or of a later one: no fsynced value is  *)
(* lost and no fsynced delete is undone.                                   *)
(***************************************************************************)
KvReflectsDurable ==
    Readable =>
      \A r \in durable : r.data.type # "Raw" =>
        \E id \in DOMAIN files : \E i \in 1 .. Len(files[id]) :
          LET c == files[id][i]
          IN  /\ c.data.key = r.data.key
              /\ c.data.type # "Raw"
              /\ c.txid >= r.txid
              /\ Get(r.data.key) = IF c.data.type = "Put" THEN c.data.value ELSE None
=============================================================================
