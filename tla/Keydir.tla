------------------------------- MODULE Keydir -------------------------------
(***************************************************************************)
(* What replaying a log means for keys (rebuild_keydir_lazy of datawal.rs):*)
(* the last Put or Delete of a key decides, in the order of the scan.      *)
(***************************************************************************)
EXTENDS Segments

CONSTANTS Keys, Values

(***************************************************************************)
(* Keys are numbers for their byte order.  Data is a set of records        *)
(* [type, key, value]; a Delete has some value that nothing looks at,      *)
(* standing for its empty payload.                                         *)
(***************************************************************************)
ASSUME KeydirAssumption ==
    /\ Keys \subseteq Nat
    /\ Data \subseteq [type : {"Put", "Delete", "Raw"}, key : Keys, value : Values]

\* Where a scan of F meets a Put or Delete of key k.
Touches(F, k) ==
    UNION {{<<id, i>> : i \in {j \in Replayed(F[id]) :
                                  F[id][j].data.key = k /\ F[id][j].data.type # "Raw"}} :
              id \in ListSegmentIds(F)}

\* Scan order.
Before(p, q) == p[1] < q[1] \/ (p[1] = q[1] /\ p[2] < q[2])

LastTouch(F, k) ==
    CHOOSE p \in Touches(F, k) : \A q \in Touches(F, k) : q = p \/ Before(q, p)

LastRecord(F, k) == F[LastTouch(F, k)[1]][LastTouch(F, k)[2]]

\* Mutant of LiveKeys: tombstones are not replayed.
LiveKeysWithDeleted(F) == {k \in Keys : Touches(F, k) # {}}

LiveKeys(F) ==
    {k \in Keys : Touches(F, k) # {} /\ LastRecord(F, k).data.type = "Put"}

\* Mutant of Rebuild: the first Put of a live key stays in the keydir.
RebuildFirst(F) ==
    [k \in LiveKeys(F) |->
        LET p == CHOOSE p \in Touches(F, k) :
                    \A q \in Touches(F, k) : q = p \/ Before(p, q)
        IN  [segment |-> p[1], offset |-> F[p[1]][p[2]].at, len |-> F[p[1]][p[2]].len]]

\* rebuild_keydir_lazy: last write wins, by physical order.
Rebuild(F) ==
    [k \in LiveKeys(F) |->
        [segment |-> LastTouch(F, k)[1],
         offset |-> LastRecord(F, k).at,
         len |-> LastRecord(F, k).len]]

\* The values a scan finds for the live keys.
Projection(F) == [k \in LiveKeys(F) |-> LastRecord(F, k).data.value]
=============================================================================
