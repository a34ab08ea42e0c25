-------------------------------- MODULE Wire --------------------------------
(***************************************************************************)
(* The record frame of format.rs, at the grain of whole write_all calls.   *)
(*                                                                         *)
(* A segment file is the sequence of the CHUNKS that write_all put at its  *)
(* end: a chunk is the frame of one record, complete or cut short.  What   *)
(* the bytes of a frame say is abstracted to the record it carries; where  *)
(* the frame starts, how many of its bytes are in the file and whether     *)
(* they are intact is kept, because that is what decode_next tells apart.  *)
(*                                                                         *)
(* CRC32C collisions are ignored: bytes that are not an intact frame never *)
(* pass the checksum.                                                      *)
(***************************************************************************)
EXTENDS Integers, Sequences, FiniteSets, FiniteSetsExt

CONSTANTS
    HeaderLen,      \* HEADER_LEN: bytes of the fixed frame header
    CrcLen,         \* CRC_LEN: bytes of the trailing checksum
    Data,           \* what a caller appends: record type, key and payload
    DataSize,       \* DataSize[d]: the bytes of d's key and payload
    MaxDataLen,     \* MAX_KEY_LEN / MAX_PAYLOAD_LEN: more is not encoded
    MaxTxid,        \* u64::MAX
    ZeroTails,      \* power loss may leave zeros where a frame began: the
                    \* file's new length is on disk, its data is not
    StructuralCuts  \* header prefixes that, followed by the bytes of another
                    \* frame, fail the magic, version, type, flags or length
                    \* check instead of passing for a header

ASSUME WireAssumption ==
    /\ HeaderLen \in Nat \ {0}
    /\ CrcLen \in Nat \ {0}
    /\ DataSize \in [Data -> Nat]
    /\ MaxDataLen \in Nat
    /\ MaxTxid \in Nat \ {0}
    /\ ZeroTails \in BOOLEAN
    /\ StructuralCuts \subseteq 1 .. (HeaderLen - 1)

(***************************************************************************)
(* "whole": the complete frame; "torn": only its first len bytes; "crc":   *)
(* as long as the frame and with its header intact, but damaged after it;  *)
(* "zeros": as long as the frame, but its header reads as zeros.           *)
(***************************************************************************)
ChunkState == {"whole", "torn", "crc"} \cup IF ZeroTails THEN {"zeros"} ELSE {}

Chunk == [txid : 1 .. MaxTxid, data : Data, at : Nat, len : Nat,
          state : ChunkState]

\* record_wire_size: header, key, payload and checksum.
FrameLen(d) == HeaderLen + DataSize[d] + CrcLen

\* The limits encode_record checks before it allocates anything.
Encodable(d) == DataSize[d] <= MaxDataLen

\* The complete frame of record d under txid, written at byte offset at.
EncodeRecord(txid, d, at) ==
    [txid |-> txid, data |-> d, at |-> at, len |-> FrameLen(d),
     state |-> "whole"]

\* The first n bytes of a frame.
CutTo(chunk, n) == [chunk EXCEPT !.len = n, !.state = "torn"]

FileSize(s) == IF s = <<>> THEN 0 ELSE s[Len(s)].at + s[Len(s)].len

(***************************************************************************)
(* decode_next at the start of chunk i.  A cut frame is decoded together   *)
(* with whatever follows it in the file: if the cut is inside the header,  *)
(* the missing header bytes are taken from the next frame, and the header  *)
(* so made is refused (Structural) or announces a record that fails its    *)
(* checksum (or overruns the file: scans treat the two alike); if it is    *)
(* after the header, the record is completed with foreign bytes.  Zeros    *)
(* are not the magic.                                                      *)
(***************************************************************************)
DecodeNext(s, i) ==
    LET available == FileSize(s) - s[i].at
    IN  CASE s[i].state = "whole" -> "Ok"
          [] s[i].state = "crc" -> "CrcMismatch"
          [] s[i].state = "zeros" -> "Structural"
          [] s[i].state = "torn" ->
               IF available < HeaderLen THEN "Truncated"
               ELSE IF s[i].len \in StructuralCuts THEN "Structural"
               ELSE IF /\ s[i].len >= HeaderLen
                       /\ available < FrameLen(s[i].data) THEN "Truncated"
               ELSE "CrcMismatch"
=============================================================================
