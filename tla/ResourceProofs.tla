--------------------------- MODULE ResourceProofs ---------------------------
(***************************************************************************)
(* The two resources that a store holds: segment descriptors, which the    *)
(* pool keeps as an LRU, for every set of segments, every capacity and any *)
(* number of reads; and the directory lock, for any set of processes.      *)
(***************************************************************************)
EXTENDS Resources, SequenceTheorems, TLAPS

------------------------------------------------------------------------------
(* The inductive invariants *)

NoRepeats(s) == \A i, j \in DOMAIN s : s[i] = s[j] => i = j

\* PoolHoldsMostRecent, and what a pool of capacity 0 does: it keeps one.
HoldsMostRecent ==
    LET size == IF capacity = 0 THEN 1 ELSE capacity
    IN  entries = SubSeq(recent,
                         IF Len(recent) > size THEN Len(recent) - size + 1 ELSE 1,
                         Len(recent))

\* Each segment has one place in the order of use.
FdPoolInv ==
    /\ capacity \in Nat
    /\ entries \in Seq(SegmentIds)
    /\ recent \in Seq(SegmentIds)
    /\ NoRepeats(recent)
    /\ HoldsMostRecent

(***************************************************************************)
(* Why Exclusive holds: there is one inode, since the sentinel is never    *)
(* removed, whoever is past open has it open, and holders own its lock.    *)
(***************************************************************************)
LockInv ==
    /\ DirLockTypeOK
    /\ sentinel = inodes
    /\ inodes <= 1
    /\ \A p \in Procs : state[p] # "out" => fd[p] = 1 /\ inodes = 1
    /\ \A p \in Procs : state[p] \in Holding => owner[1] = p
    /\ HolderNamed
    /\ NoStaleLock

------------------------------------------------------------------------------
(* The descriptor pool *)

\* The length of a pool that is full, and how many of n segments it holds.
Size(c) == IF c = 0 THEN 1 ELSE c
Held(c, n) == IF n > Size(c) THEN Size(c) ELSE n

\* HoldsMostRecent position by position: e is what the pool holds of r.
IsBackOf(e, r, c) ==
    /\ Len(e) = Held(c, Len(r))
    /\ \A i \in 1 .. Len(e) : e[i] = r[Len(r) - Len(e) + i]

\* The two readings of HoldsMostRecent agree.
LEMMA BackIsSubSeq ==
    ASSUME NEW S, NEW e \in Seq(S), NEW r \in Seq(S), NEW c \in Nat
    PROVE  IsBackOf(e, r, c) <=>
           e = SubSeq(r, IF Len(r) > Size(c) THEN Len(r) - Size(c) + 1 ELSE 1, Len(r))
<1> DEFINE lo == IF Len(r) > Size(c) THEN Len(r) - Size(c) + 1 ELSE 1
           b == SubSeq(r, lo, Len(r))
<1>1. /\ Len(r) \in Nat /\ Len(e) \in Nat /\ Size(c) \in Nat \ {0}
      /\ lo \in 1 .. Len(r) + 1
  BY LenProperties DEF Size
<1>2. /\ b \in Seq(S)
      /\ Len(b) = Held(c, Len(r))
      /\ \A i \in 1 .. Len(b) : b[i] = r[Len(r) - Len(b) + i]
  <2>1. b \in Seq(S) /\ Len(b) = Len(r) - lo + 1
    BY <1>1, SubSeqProperties
  <2>2. Len(b) = Held(c, Len(r))
    BY <1>1, <2>1 DEF Held
  <2> HIDE DEF lo
  <2>3. \A i \in 1 .. Len(b) : b[i] = r[lo + i - 1]
    <3>1. \A i \in lo .. Len(r) : r[i] \in S
      BY <1>1, ElementOfSeq
    <3>2. \A i \in 1 .. Len(r) - lo + 1 : SubSeq(r, lo, Len(r))[i] = r[lo + i - 1]
      BY <1>1, <3>1, SubSeqProperties
    <3> QED BY <2>1, <3>2
  <2> HIDE DEF b
  <2>4. \A i \in 1 .. Len(b) : lo + i - 1 = Len(r) - Len(b) + i
    BY <1>1, <2>1
  <2> QED BY <2>1, <2>2, <2>3, <2>4
<1> HIDE DEF b, lo
<1>3. ASSUME IsBackOf(e, r, c) PROVE e = b
  BY <1>1, <1>2, <1>3, SeqEqual DEF IsBackOf
<1>4. ASSUME e = b PROVE IsBackOf(e, r, c)
  BY <1>2, <1>4 DEF IsBackOf
<1> QED BY <1>3, <1>4 DEF b, lo

\* The first position of a segment that has one is its only position when
\* none repeats.
LEMMA FirstIsOnly ==
    ASSUME NEW S, NEW s \in Seq(S), NoRepeats(s), NEW p \in 1 .. Len(s)
    PROVE  RemoveFirst(s, s[p]) = RemoveAt(s, p)
<1> DEFINE I == {i \in 1 .. Len(s) : s[i] = s[p]}
<1>1. I = {p}
  BY LenProperties DEF NoRepeats
<1>2. Min(I) = p
  BY <1>1 DEF Min
<1>3. SelectInSeq(s, LAMBDA v : v = s[p]) = p
  BY <1>1, <1>2 DEF SelectInSeq
<1> QED BY <1>3 DEF RemoveFirst

\* Moving a segment to the back: those behind it close up.
LEMMA MovedFound ==
    ASSUME NEW S, NEW s \in Seq(S), NoRepeats(s), NEW p \in 1 .. Len(s)
    PROVE  LET t == MoveToBack(s, s[p])
           IN  /\ t \in Seq(S)
               /\ Len(t) = Len(s)
               /\ \A i \in 1 .. Len(s) :
                     t[i] = IF i < p THEN s[i] ELSE IF i < Len(s) THEN s[i + 1] ELSE s[p]
<1> DEFINE a == SubSeq(s, 1, p - 1)
           b == SubSeq(s, p + 1, Len(s))
           t == MoveToBack(s, s[p])
<1>1. /\ Len(s) \in Nat /\ p \in Nat /\ s[p] \in S
  BY LenProperties, ElementOfSeq
<1>2. a \in Seq(S) /\ Len(a) = p - 1 /\ \A i \in 1 .. p - 1 : a[i] = s[i]
  BY <1>1, SubSeqProperties
<1>3. b \in Seq(S) /\ Len(b) = Len(s) - p /\ \A i \in 1 .. Len(s) - p : b[i] = s[p + i]
  BY <1>1, SubSeqProperties
<1>4. t = Append(a \o b, s[p])
  BY FirstIsOnly DEF MoveToBack, RemoveAt
<1> HIDE DEF a, b, t
<1>5. /\ a \o b \in Seq(S)
      /\ Len(a \o b) = Len(s) - 1
      /\ \A i \in 1 .. Len(s) - 1 : (a \o b)[i] = IF i < p THEN s[i] ELSE s[i + 1]
  <2>1. a \o b \in Seq(S) /\ Len(a \o b) = Len(s) - 1
    <3>1. a \o b \in Seq(S) /\ Len(a \o b) = Len(a) + Len(b)
      BY <1>2, <1>3, ConcatProperties
    <3> QED BY <1>1, <1>2, <1>3, <3>1
  <2>2. ASSUME NEW i \in 1 .. Len(s) - 1
        PROVE  (a \o b)[i] = IF i < p THEN s[i] ELSE s[i + 1]
    <3>1. (a \o b)[i] = IF i <= Len(a) THEN a[i] ELSE b[i - Len(a)]
      BY <1>1, <1>2, <1>3
    <3>2. CASE i < p
      <4>1. i \in 1 .. p - 1 /\ i <= Len(a)
        BY <1>1, <1>2, <3>2
      <4> QED BY <1>2, <3>1, <3>2, <4>1
    <3>3. CASE i >= p
      <4>1. i - Len(a) \in 1 .. Len(s) - p /\ ~(i <= Len(a)) /\ p + (i - Len(a)) = i + 1
        BY <1>1, <1>2, <3>3
      <4>2. ~(i < p) BY <1>1, <3>3
      <4> QED BY <1>3, <3>1, <4>1, <4>2
    <3>4. i < p \/ i >= p BY <1>1
    <3> QED BY <3>2, <3>3, <3>4
  <2> QED BY <2>1, <2>2
<1>6. /\ t \in Seq(S)
      /\ Len(t) = Len(s)
      /\ \A i \in 1 .. Len(s) - 1 : t[i] = (a \o b)[i]
      /\ t[Len(s)] = s[p]
  BY <1>1, <1>4, <1>5, AppendProperties
<1>7. ASSUME NEW i \in 1 .. Len(s)
      PROVE  t[i] = IF i < p THEN s[i] ELSE IF i < Len(s) THEN s[i + 1] ELSE s[p]
  <2>1. CASE i = Len(s)
    BY <1>1, <1>6, <2>1
  <2>2. CASE i \in 1 .. Len(s) - 1
    <3> DEFINE ab == a \o b
    <3>0. \A k \in 1 .. Len(s) - 1 : t[k] = ab[k]
      BY <1>6
    <3> HIDE DEF ab
    <3>1. t[i] = ab[i] /\ i < Len(s)
      BY <1>1, <2>2, <3>0
    <3> QED BY <1>5, <2>2, <3>1 DEF ab
  <2> QED BY <1>1, <2>1, <2>2
<1> QED BY <1>6, <1>7 DEF t

\* A segment without an entry gets one at the back.
LEMMA MovedNew ==
    ASSUME NEW S, NEW s \in Seq(S), NEW id \in S, ~Contains(s, id)
    PROVE  MoveToBack(s, id) = Append(s, id)
BY DEF MoveToBack, RemoveFirst, Contains

\* Moving a segment to the back keeps the others' order free of repetition.
LEMMA MovedNoRepeats ==
    ASSUME NEW S, NEW s \in Seq(S), NoRepeats(s), NEW id \in S
    PROVE  MoveToBack(s, id) \in Seq(S) /\ NoRepeats(MoveToBack(s, id))
<1> DEFINE t == MoveToBack(s, id)
<1>1. CASE ~Contains(s, id)
  <2>1. t = Append(s, id)
    BY <1>1, MovedNew
  <2>2. /\ t \in Seq(S)
        /\ Len(t) = Len(s) + 1 /\ Len(s) \in Nat
        /\ \A i \in 1 .. Len(s) : t[i] = s[i] /\ s[i] # id
        /\ t[Len(s) + 1] = id
    BY <1>1, <2>1 DEF Contains
  <2> HIDE DEF t
  <2>3. DOMAIN t = 1 .. Len(s) + 1 /\ DOMAIN s = 1 .. Len(s)
    BY <2>2, LenProperties
  <2>4. ASSUME NEW i \in DOMAIN t, NEW j \in DOMAIN t, t[i] = t[j] PROVE i = j
    <3>1. CASE i \in 1 .. Len(s) /\ j \in 1 .. Len(s)
      BY <2>2, <2>3, <2>4, <3>1 DEF NoRepeats
    <3>2. CASE i = Len(s) + 1 \/ j = Len(s) + 1
      <4>1. i \in 1 .. Len(s) \/ i = Len(s) + 1 BY <2>2, <2>3
      <4>2. j \in 1 .. Len(s) \/ j = Len(s) + 1 BY <2>2, <2>3
      <4> QED BY <2>2, <2>4, <3>2, <4>1, <4>2
    <3> QED BY <2>2, <2>3, <3>1, <3>2
  <2> QED BY <2>2, <2>4 DEF t, NoRepeats
<1>2. CASE Contains(s, id)
  <2>1. PICK p \in 1 .. Len(s) : s[p] = id
    BY <1>2 DEF Contains
  <2>2. /\ t \in Seq(S)
        /\ Len(t) = Len(s)
        /\ \A i \in 1 .. Len(s) :
              t[i] = IF i < p THEN s[i] ELSE IF i < Len(s) THEN s[i + 1] ELSE s[p]
    BY <2>1, MovedFound
  <2> HIDE DEF t
  <2> DEFINE from(i) == IF i < p THEN i ELSE IF i < Len(s) THEN i + 1 ELSE p
  <2>3. Len(s) \in Nat /\ DOMAIN t = 1 .. Len(s) /\ DOMAIN s = 1 .. Len(s)
    BY <2>2, LenProperties
  <2>4. \A i \in 1 .. Len(s) : from(i) \in 1 .. Len(s) /\ t[i] = s[from(i)]
    BY <2>2, <2>3
  <2>5. \A i, j \in 1 .. Len(s) : from(i) = from(j) => i = j
    BY <2>3
  <2> HIDE DEF from
  <2>6. \A i, j \in DOMAIN t : t[i] = t[j] => i = j
    BY <2>3, <2>4, <2>5 DEF NoRepeats
  <2> QED BY <2>2, <2>6 DEF t, NoRepeats
<1> QED BY <1>1, <1>2

\* Room drops the front entry of a full pool.
LEMMA RoomFacts ==
    ASSUME FdPoolInv
    PROVE  /\ Room \in Seq(SegmentIds)
           /\ Len(Room) = IF Len(entries) = Size(capacity) THEN Len(entries) - 1
                          ELSE Len(entries)
           /\ \A i \in 1 .. Len(Room) :
                 Room[i] = entries[Len(entries) - Len(Room) + i]
<1>1. /\ capacity \in Nat /\ entries \in Seq(SegmentIds) /\ Len(entries) \in Nat
      /\ Size(capacity) \in Nat \ {0}
  BY LenProperties DEF FdPoolInv, Size
<1>2. Len(entries) <= Size(capacity)
  <2>1. IsBackOf(entries, recent, capacity)
    <3>1. entries = SubSeq(recent, IF Len(recent) > Size(capacity)
                                   THEN Len(recent) - Size(capacity) + 1 ELSE 1, Len(recent))
      BY DEF FdPoolInv, HoldsMostRecent, Size
    <3>2. recent \in Seq(SegmentIds)
      BY DEF FdPoolInv
    <3> QED BY <1>1, <3>1, <3>2, BackIsSubSeq
  <2>2. Len(recent) \in Nat
    BY LenProperties DEF FdPoolInv
  <2> QED BY <1>1, <2>1, <2>2 DEF IsBackOf, Held
<1>3. CASE Len(entries) = Size(capacity)
  <2>1. Room = Tail(entries)
    <3>1. CASE capacity = 0
      <4>1. Len(entries) = 1 BY <1>3, <3>1 DEF Size
      <4>2. Tail(entries) \in Seq(SegmentIds) /\ Len(Tail(entries)) = 0
        BY <1>1, <4>1
      <4>3. Tail(entries) = <<>> BY <4>2, EmptySeq
      <4> QED BY <3>1, <4>3 DEF Room
    <3>2. CASE capacity # 0
      BY <1>1, <1>3, <3>2 DEF Room, Size
    <3> QED BY <3>1, <3>2
  <2>2. /\ Tail(entries) \in Seq(SegmentIds)
        /\ Len(Tail(entries)) = Len(entries) - 1
        /\ \A i \in 1 .. Len(entries) - 1 : Tail(entries)[i] = entries[i + 1]
    BY <1>1, <1>3
  <2>3. Len(Room) = Len(entries) - 1 /\ Len(entries) - Len(Room) = 1
    BY <1>1, <2>1, <2>2
  <2>4. \A i \in 1 .. Len(Room) : Len(entries) - Len(Room) + i = i + 1
    BY <1>1, <2>3
  <2> QED BY <1>3, <2>1, <2>2, <2>3, <2>4
<1>4. CASE Len(entries) # Size(capacity)
  <2>1. Room = entries
    <3>1. CASE capacity = 0
      <4> DEFINE k == Len(entries)
      <4>0. k \in Nat /\ k <= 1 /\ k # 1 BY <1>1, <1>2, <1>4, <3>1 DEF Size
      <4> HIDE DEF k
      <4>1. k = 0 BY <4>0
      <4>2. entries = <<>> BY <1>1, <4>1, EmptySeq DEF k
      <4> QED BY <3>1, <4>2 DEF Room
    <3>2. CASE capacity # 0
      BY <1>1, <1>2, <1>4, <3>2 DEF Room, Size
    <3> QED BY <3>1, <3>2
  <2>2. \A i \in 1 .. Len(entries) : Len(entries) - Len(entries) + i = i
    BY <1>1
  <2> QED BY <1>1, <1>4, <2>1, <2>2
<1> QED BY <1>3, <1>4

------------------------------------------------------------------------------
\* What the next state has to show.
LEMMA BackNext ==
    ASSUME entries' \in Seq(SegmentIds), recent' \in Seq(SegmentIds),
           capacity' \in Nat, IsBackOf(entries', recent', capacity')
    PROVE  HoldsMostRecent'
<1> DEFINE e == entries'
           r == recent'
           c == capacity'
<1>1. e = SubSeq(r, IF Len(r) > Size(c) THEN Len(r) - Size(c) + 1 ELSE 1, Len(r))
  <2> HIDE DEF e, r, c
  <2>1. e \in Seq(SegmentIds) /\ r \in Seq(SegmentIds) /\ c \in Nat /\ IsBackOf(e, r, c)
    BY DEF e, r, c
  <2> QED BY <2>1, BackIsSubSeq
<1> QED BY <1>1 DEF HoldsMostRecent, Size

\* A read that finds the descriptor: the segment moves to the back of both.
LEMMA HitKeeps ==
    ASSUME FdPoolInv, NEW id \in SegmentIds, Hit(id)
    PROVE  FdPoolInv'
<1> DEFINE e == entries
           r == recent
           n == Len(recent)
           k == Len(entries)
<1>1. /\ e \in Seq(SegmentIds) /\ r \in Seq(SegmentIds) /\ NoRepeats(r)
      /\ capacity \in Nat /\ capacity' = capacity /\ Size(capacity) \in Nat \ {0}
      /\ n \in Nat /\ k \in Nat
      /\ entries' = MoveToBack(e, id) /\ recent' = MoveToBack(r, id)
  BY LenProperties DEF FdPoolInv, Hit, Used, Size
<1>2. IsBackOf(e, r, capacity)
  <2>1. entries = SubSeq(recent, IF Len(recent) > Size(capacity)
                                 THEN Len(recent) - Size(capacity) + 1 ELSE 1, Len(recent))
    BY DEF FdPoolInv, HoldsMostRecent, Size
  <2> QED BY <1>1, <2>1, BackIsSubSeq
<1>3. k = Held(capacity, n) /\ k <= n /\ \A i \in 1 .. k : e[i] = r[n - k + i]
  BY <1>1, <1>2 DEF IsBackOf, Held
<1>4. NoRepeats(e)
  <2>1. DOMAIN e = 1 .. k /\ DOMAIN r = 1 .. n
    BY <1>1, LenProperties
  <2>2. \A i \in 1 .. k : n - k + i \in 1 .. n
    BY <1>1, <1>3
  <2>3. \A i, j \in 1 .. k : n - k + i = n - k + j => i = j
    BY <1>1
  <2> HIDE DEF e, r, n, k
  <2> QED BY <1>1, <1>3, <2>1, <2>2, <2>3 DEF NoRepeats
<1>5. PICK p \in 1 .. k : e[p] = id
  BY DEF Hit, Contains
<1>6. n - k + p \in 1 .. n /\ r[n - k + p] = id
  BY <1>1, <1>3, <1>5
<1>7. /\ entries' \in Seq(SegmentIds) /\ Len(entries') = k
      /\ \A i \in 1 .. k :
            entries'[i] = IF i < p THEN e[i] ELSE IF i < k THEN e[i + 1] ELSE e[p]
  BY <1>1, <1>4, <1>5, MovedFound
<1> DEFINE q == n - k + p
<1>8. /\ recent' \in Seq(SegmentIds) /\ Len(recent') = n
      /\ \A i \in 1 .. n :
            recent'[i] = IF i < q THEN r[i] ELSE IF i < n THEN r[i + 1] ELSE r[q]
  <2> HIDE DEF n, k
  <2>1. q \in 1 .. n /\ r[q] = id
    BY <1>6
  <2> HIDE DEF q
  <2> QED BY <1>1, <2>1, MovedFound DEF n
<1>9. ASSUME NEW i \in 1 .. k
      PROVE  entries'[i] = recent'[n - k + i]
  <2>1. /\ n - k + i \in 1 .. n
        /\ i < p <=> n - k + i < q
        /\ i < k <=> n - k + i < n
        /\ i < k => i + 1 \in 1 .. k /\ n - k + (i + 1) = (n - k + i) + 1
    BY <1>1, <1>3, <1>5
  <2>2. recent'[n - k + i] = IF n - k + i < q THEN r[n - k + i]
                             ELSE IF n - k + i < n THEN r[(n - k + i) + 1] ELSE r[q]
    BY <1>8, <2>1
  <2> HIDE DEF e, r, n, k, q
  <2>3. e[i] = r[n - k + i] /\ (i < k => e[i + 1] = r[(n - k + i) + 1])
    BY <1>3, <2>1
  <2>4. e[p] = r[q]
    BY <1>5, <1>6 DEF q
  <2> QED BY <1>7, <2>1, <2>2, <2>3, <2>4
<1>10. IsBackOf(entries', recent', capacity)
  BY <1>3, <1>7, <1>8, <1>9 DEF IsBackOf
<1>11. NoRepeats(recent')
  BY <1>1, MovedNoRepeats
<1>12. HoldsMostRecent'
  BY <1>1, <1>7, <1>8, <1>10, BackNext
<1> QED BY <1>1, <1>7, <1>8, <1>11, <1>12 DEF FdPoolInv

\* A read that opens the segment: it was used longer ago than what the pool
\* holds, or never, and the pool drops its front when it is full.
LEMMA MissKeeps ==
    ASSUME FdPoolInv, NEW id \in SegmentIds, Miss(id)
    PROVE  FdPoolInv'
<1> DEFINE e == entries
           r == recent
           n == Len(recent)
           k == Len(entries)
           c == Len(Room)
<1>1. /\ e \in Seq(SegmentIds) /\ r \in Seq(SegmentIds) /\ NoRepeats(r)
      /\ capacity \in Nat /\ capacity' = capacity /\ Size(capacity) \in Nat \ {0}
      /\ n \in Nat /\ k \in Nat
      /\ entries' = Append(Room, id) /\ recent' = MoveToBack(r, id)
  BY LenProperties DEF FdPoolInv, Miss, Used, Size
<1>2. IsBackOf(e, r, capacity)
  <2>1. entries = SubSeq(recent, IF Len(recent) > Size(capacity)
                                 THEN Len(recent) - Size(capacity) + 1 ELSE 1, Len(recent))
    BY DEF FdPoolInv, HoldsMostRecent, Size
  <2> QED BY <1>1, <2>1, BackIsSubSeq
<1>3. k = Held(capacity, n) /\ k <= n /\ \A i \in 1 .. k : e[i] = r[n - k + i]
  BY <1>1, <1>2 DEF IsBackOf, Held
<1>4. /\ Room \in Seq(SegmentIds) /\ c \in Nat
      /\ c = IF k = Size(capacity) THEN k - 1 ELSE k
      /\ \A i \in 1 .. c : Room[i] = e[k - c + i]
  BY RoomFacts, LenProperties
<1>5. /\ entries' \in Seq(SegmentIds) /\ Len(entries') = c + 1
      /\ \A i \in 1 .. c : entries'[i] = Room[i]
      /\ entries'[c + 1] = id
  BY <1>1, <1>4, AppendProperties
<1> HIDE DEF e, r, n, k, c
<1>6. c \in Nat /\ k \in Nat /\ n \in Nat /\ c <= k /\ k <= n
  BY <1>1, <1>3, <1>4
<1>7. ASSUME NEW i \in 1 .. c PROVE entries'[i] = r[n - c + i]
  <2>1. k - c + i \in 1 .. k /\ n - k + (k - c + i) = n - c + i
    BY <1>1, <1>4, <1>6
  <2>2. e[k - c + i] = r[n - c + i]
    BY <1>3, <2>1
  <2> QED BY <1>4, <1>5, <2>2
<1>8. recent' \in Seq(SegmentIds) /\ NoRepeats(recent')
  BY <1>1, MovedNoRepeats
<1>9. IsBackOf(entries', recent', capacity)
  <2>1. CASE ~Contains(r, id)
    <3>1. recent' = Append(r, id)
      BY <1>1, <2>1, MovedNew
    <3>2. /\ Len(recent') = n + 1
          /\ \A i \in 1 .. n : recent'[i] = r[i]
          /\ recent'[n + 1] = id
      BY <1>1, <3>1, AppendProperties DEF n, r
    <3>3. c + 1 = Held(capacity, n + 1)
      BY <1>1, <1>3, <1>4 DEF Held
    <3>4. ASSUME NEW i \in 1 .. c + 1
          PROVE  entries'[i] = recent'[(n + 1) - (c + 1) + i]
      <4>1. CASE i = c + 1
        <5>1. (n + 1) - (c + 1) + i = n + 1 BY <1>1, <1>4, <4>1
        <5> QED BY <1>5, <3>2, <4>1, <5>1
      <4>2. CASE i \in 1 .. c
        <5>1. (n + 1) - (c + 1) + i = n - c + i /\ n - c + i \in 1 .. n
          BY <1>6, <4>2
        <5> QED BY <1>7, <3>2, <4>2, <5>1
      <4> QED BY <1>4, <4>1, <4>2
    <3> QED BY <1>5, <3>2, <3>3, <3>4 DEF IsBackOf
  <2>2. CASE Contains(r, id)
    <3>1. PICK p \in 1 .. n : r[p] = id
      BY <2>2 DEF Contains, n, r
    <3>2. p <= n - k
      <4> SUFFICES ASSUME p > n - k PROVE FALSE
        BY <1>1, <3>1
      <4>1. p - (n - k) \in 1 .. k /\ n - k + (p - (n - k)) = p
        BY <1>6
      <4>2. e[p - (n - k)] = id
        BY <1>3, <3>1, <4>1
      <4> QED BY <4>1, <4>2 DEF Miss, Contains, e, k
    <3>3. k = Size(capacity) /\ c = k - 1 /\ n > k
      BY <1>1, <1>3, <1>4, <3>1, <3>2 DEF Held
    <3>4. /\ Len(recent') = n
          /\ \A i \in 1 .. n :
                recent'[i] = IF i < p THEN r[i] ELSE IF i < n THEN r[i + 1] ELSE r[p]
      BY <1>1, <3>1, MovedFound DEF n, r
    <3>5. c + 1 = Held(capacity, n)
      BY <1>1, <1>3, <3>3 DEF Held
    <3>6. ASSUME NEW i \in 1 .. c + 1
          PROVE  entries'[i] = recent'[n - (c + 1) + i]
      <4>1. CASE i = c + 1
        <5>1. n - (c + 1) + i = n /\ n \in 1 .. n /\ ~(n < p)
          BY <1>1, <1>4, <3>1, <4>1
        <5>2. recent'[n] = id
          BY <1>1, <3>1, <3>4, <5>1
        <5> QED BY <1>5, <4>1, <5>1, <5>2
      <4>2. CASE i \in 1 .. c
        <5>1. /\ n - (c + 1) + i \in 1 .. n
              /\ ~(n - (c + 1) + i < p) /\ n - (c + 1) + i < n
              /\ (n - (c + 1) + i) + 1 = n - c + i
          BY <1>6, <3>2, <3>3, <4>2
        <5>2. recent'[n - (c + 1) + i] = r[n - c + i]
          BY <3>4, <5>1
        <5> QED BY <1>7, <4>2, <5>2
      <4> QED BY <1>4, <4>1, <4>2
    <3> QED BY <1>5, <3>4, <3>5, <3>6 DEF IsBackOf
  <2> QED BY <2>1, <2>2
<1>10. HoldsMostRecent'
  BY <1>1, <1>5, <1>8, <1>9, BackNext
<1> QED BY <1>1, <1>5, <1>8, <1>10 DEF FdPoolInv

\* A pool that has gone with its store.
LEMMA EmptyKeeps ==
    ASSUME capacity' \in Nat, entries' = <<>>, recent' = <<>>
    PROVE  FdPoolInv'
<1>1. <<>> \in Seq(SegmentIds) /\ Len(<<>>) = 0 /\ DOMAIN <<>> = {}
  OBVIOUS
<1>2. IsBackOf(entries', recent', capacity')
  BY <1>1 DEF IsBackOf, Held, Size
<1>3. HoldsMostRecent'
  BY <1>1, <1>2, BackNext
<1> QED BY <1>1, <1>3 DEF FdPoolInv, NoRepeats

(***************************************************************************)
(* touch_or_open keeps the pool of every store an LRU, for any capacity    *)
(* but 0 and however many reads: the descriptors it holds are those of     *)
(* the segments this store used last, in the order of their last use, and  *)
(* no more than the capacity.                                              *)
(***************************************************************************)
THEOREM PoolIsLru == ResourceSpec => []PoolHoldsMostRecent
<1>1. ResourceInit => FdPoolInv
  <2> SUFFICES ASSUME ResourceInit PROVE FdPoolInv
    OBVIOUS
  <2>1. /\ capacity \in Nat
        /\ entries = <<>> /\ recent = <<>>
        /\ <<>> \in Seq(SegmentIds) /\ Len(<<>>) = 0 /\ DOMAIN <<>> = {}
    BY FdPoolAssumption DEF ResourceInit, FdPoolInit
  <2>2. IsBackOf(entries, recent, capacity)
    BY <2>1 DEF IsBackOf, Held, Size
  <2>3. HoldsMostRecent
    BY <2>1, <2>2, BackIsSubSeq DEF HoldsMostRecent, Size
  <2> QED BY <2>1, <2>3 DEF FdPoolInv, NoRepeats
<1>2. FdPoolInv /\ [ResourceNext]_rvars => FdPoolInv'
  <2> SUFFICES ASSUME FdPoolInv, [ResourceNext]_rvars PROVE FdPoolInv'
    OBVIOUS
  <2>1. ASSUME NEW id \in SegmentIds, Hit(id) PROVE FdPoolInv'
    BY <2>1, HitKeeps
  <2>2. ASSUME NEW id \in SegmentIds, Miss(id) PROVE FdPoolInv'
    BY <2>2, MissKeeps
  <2>3. ASSUME UNCHANGED fvars PROVE FdPoolInv'
    BY <2>3 DEF FdPoolInv, HoldsMostRecent, NoRepeats, fvars
  <2>4. ASSUME PoolGone PROVE FdPoolInv'
    BY <2>4, EmptyKeeps DEF PoolGone, FdPoolInv
  <2>5. CASE LockStep
    BY <2>3, <2>4, <2>5 DEF LockStep
  <2>6. CASE PoolStep
    BY <2>1, <2>2, <2>3, <2>6 DEF PoolStep, FdPoolNext, MissFails
  <2> QED BY <2>3, <2>5, <2>6 DEF ResourceNext, rvars
<1>3. FdPoolInv => PoolHoldsMostRecent
  <2> SUFFICES ASSUME FdPoolInv, capacity > 0 PROVE PoolHoldsMostRecent
    BY DEF PoolHoldsMostRecent
  <2>1. capacity # 0
    OBVIOUS
  <2> QED BY <2>1 DEF FdPoolInv, HoldsMostRecent, PoolHoldsMostRecent
<1> QED BY <1>1, <1>2, <1>3, PTL DEF ResourceSpec

------------------------------------------------------------------------------
(* The directory lock *)

(* Before anyone has called acquire, the invariant holds. *)
LEMMA LockInit == DirLockInit => LockInv
  BY DirLockAssumption DEF DirLockInit, LockInv, DirLockTypeOK, Holding, HolderNamed, NoStaleLock

(* The sentinel inode is made at most once, and nobody owns a new one. *)
LEMMA SentinelMade ==
    ASSUME LockInv, EnsureSentinel
    PROVE  /\ sentinel' = 1
           /\ inodes' = 1
           /\ owner' \in [1 .. 1 -> Procs \cup {Nobody}]
           /\ inodes = 1 => owner' = owner
           /\ inodes = 0 => owner'[1] = Nobody
  <1>1. /\ inodes \in Nat /\ sentinel = inodes /\ inodes <= 1
        /\ owner \in [1 .. inodes -> Procs \cup {Nobody}]
    BY DEF LockInv, DirLockTypeOK
  <1>2. CASE sentinel = 0
    <2>1. inodes = 0 /\ inodes' = 1 /\ sentinel' = 1
      BY <1>1, <1>2 DEF EnsureSentinel
    <2>2. owner' = [i \in 1 .. 1 |-> IF i <= 0 THEN owner[i] ELSE Nobody]
      BY <1>2, <2>1 DEF EnsureSentinel
    <2>3. owner'[1] = Nobody /\ owner' \in [1 .. 1 -> Procs \cup {Nobody}]
      BY <2>2
    <2> QED
      BY <2>1, <2>3
  <1>3. CASE sentinel # 0
    BY <1>1, <1>3 DEF EnsureSentinel
  <1> QED
    BY <1>2, <1>3

(* Closing the descriptor of p gives up its lock and no other. *)
LEMMA Released ==
    ASSUME LockInv, NEW p \in Procs, state[p] # "out", Release(p),
           UNCHANGED <<sentinel, inodes, pid>>
    PROVE  LockInv'
  <1>1. /\ inodes = 1
        /\ owner \in [1 .. 1 -> Procs \cup {Nobody}]
        /\ owner' \in [1 .. 1 -> Procs \cup {Nobody}]
        /\ owner'[1] = IF owner[1] = p THEN Nobody ELSE owner[1]
    BY DirLockAssumption DEF LockInv, DirLockTypeOK, Release
  <1>2. DirLockTypeOK'
    BY <1>1 DEF LockInv, DirLockTypeOK, Release
  <1>3. \A q \in Procs : q # p => state'[q] = state[q] /\ fd'[q] = fd[q]
    BY DEF LockInv, DirLockTypeOK, Release
  <1>4. state'[p] = "out"
    BY DEF LockInv, DirLockTypeOK, Release
  <1>5. \A q \in Procs : state'[q] \in Holding => owner'[1] = q
    BY <1>1, <1>3, <1>4 DEF LockInv, Holding
  <1>6. NoStaleLock'
    BY <1>1, <1>3, DirLockAssumption DEF LockInv, NoStaleLock, DirLockTypeOK
  <1>7. HolderNamed'
    BY <1>3, <1>4 DEF LockInv, HolderNamed
  <1> QED
    BY <1>2, <1>3, <1>4, <1>5, <1>6, <1>7 DEF LockInv

(* Every step of any process keeps it. *)
LEMMA LockStepKeeps == LockInv /\ [DirLockNext]_lvars => LockInv'
  <1> SUFFICES ASSUME LockInv, [DirLockNext]_lvars PROVE LockInv'
    OBVIOUS
  <1> USE DirLockAssumption
  <1>1. ASSUME NEW p \in Procs, OpenSentinel(p) PROVE LockInv'
    <2>1. /\ sentinel' = 1 /\ inodes' = 1
          /\ owner' \in [1 .. 1 -> Procs \cup {Nobody}]
          /\ inodes = 1 => owner' = owner
          /\ inodes = 0 => owner'[1] = Nobody
      BY <1>1, SentinelMade DEF OpenSentinel
    <2>2. /\ fd' \in [Procs -> 0 .. 1]
          /\ \A q \in Procs : fd'[q] = IF q = p THEN 1 ELSE fd[q]
      BY <1>1, <2>1 DEF LockInv, DirLockTypeOK, OpenSentinel
    <2>3. /\ state' \in [Procs -> {"out", "opened"} \cup Holding]
          /\ \A q \in Procs : state'[q] = IF q = p THEN "opened" ELSE state[q]
      BY <1>1 DEF LockInv, DirLockTypeOK, OpenSentinel
    <2>4. DirLockTypeOK'
      BY <1>1, <2>1, <2>2, <2>3 DEF LockInv, DirLockTypeOK, OpenSentinel
    <2>5. \A q \in Procs : state'[q] \in Holding => q # p /\ owner'[1] = q
      BY <2>1, <2>3 DEF LockInv, Holding
    <2>6. NoStaleLock'
      BY <1>1, <2>1, <2>3 DEF LockInv, DirLockTypeOK, NoStaleLock, Holding, OpenSentinel
    <2>7. HolderNamed'
      BY <1>1, <2>3 DEF LockInv, HolderNamed, OpenSentinel
    <2> QED
      BY <2>1, <2>2, <2>3, <2>4, <2>5, <2>6, <2>7 DEF LockInv
  <1>2. ASSUME NEW p \in Procs, TryLock(p) PROVE LockInv'
    <2>1. inodes = 1 /\ fd[p] = 1 /\ owner[1] = Nobody
      BY <1>2 DEF TryLock, LockInv
    <2>2. /\ owner' \in [1 .. 1 -> Procs \cup {Nobody}]
          /\ owner'[1] = p
      BY <1>2, <2>1 DEF TryLock, LockInv, DirLockTypeOK
    <2>3. /\ state' \in [Procs -> {"out", "opened"} \cup Holding]
          /\ \A q \in Procs : state'[q] = IF q = p THEN "held" ELSE state[q]
      BY <1>2 DEF TryLock, LockInv, DirLockTypeOK, Holding
    <2>4. \A q \in Procs : state'[q] \in Holding => q = p
      BY <2>1, <2>3 DEF LockInv
    <2>5. state'[p] \in Holding /\ state[p] # "out"
      BY <1>2, <2>3 DEF Holding, TryLock
    <2>6. DirLockTypeOK' /\ HolderNamed'
      BY <1>2, <2>1, <2>2, <2>3 DEF TryLock, LockInv, DirLockTypeOK, HolderNamed
    <2>7. NoStaleLock'
      BY <1>2, <2>1, <2>2, <2>5 DEF NoStaleLock, TryLock
    <2> QED
      BY <1>2, <2>1, <2>2, <2>3, <2>4, <2>5, <2>6, <2>7 DEF LockInv, TryLock
  <1>3. ASSUME NEW p \in Procs, TryLockFails(p) PROVE LockInv'
    <2>1. /\ state' \in [Procs -> {"out", "opened"} \cup Holding]
          /\ \A q \in Procs : state'[q] = IF q = p THEN "out" ELSE state[q]
          /\ fd' \in [Procs -> 0 .. inodes]
          /\ \A q \in Procs : fd'[q] = IF q = p THEN 0 ELSE fd[q]
      BY <1>3 DEF TryLockFails, LockInv, DirLockTypeOK
    <2>2. DirLockTypeOK' /\ HolderNamed'
      BY <1>3, <2>1 DEF TryLockFails, LockInv, DirLockTypeOK, HolderNamed
    <2>3. NoStaleLock'
      BY <1>3, <2>1 DEF TryLockFails, LockInv, NoStaleLock, DirLockTypeOK, Holding
    <2>4. \A q \in Procs : state'[q] \in Holding => state[q] \in Holding
      BY <2>1 DEF Holding
    <2> QED
      BY <1>3, <2>1, <2>2, <2>3, <2>4 DEF LockInv, TryLockFails
  <1>4. ASSUME NEW p \in Procs, WritePid(p) PROVE LockInv'
    <2>1. PICK named \in {"ready", "unnamed"} :
             /\ state' = [state EXCEPT ![p] = named]
             /\ pid' \in {pid, p, Nobody}
             /\ named = "ready" => pid' = p
      BY <1>4 DEF WritePid
    <2>2. state[p] \in Holding /\ state[p] # "out"
      BY <1>4 DEF WritePid, Holding
    <2>3. /\ state' \in [Procs -> {"out", "opened"} \cup Holding]
          /\ \A q \in Procs : state'[q] = IF q = p THEN named ELSE state[q]
      BY <2>1 DEF LockInv, DirLockTypeOK, Holding
    <2>4. \A q \in Procs : state[q] \in Holding => q = p
      BY <2>2 DEF LockInv
    <2>5. HolderNamed'
      BY <2>1, <2>3, <2>4 DEF HolderNamed, Holding
    <2>6. NoStaleLock'
      BY <1>4, <2>1, <2>3 DEF LockInv, NoStaleLock, WritePid, Holding, DirLockTypeOK
    <2>7. DirLockTypeOK'
      BY <1>4, <2>1, <2>3 DEF LockInv, DirLockTypeOK, WritePid
    <2>8. \A q \in Procs : /\ state'[q] # "out" => state[q] # "out"
                           /\ state'[q] \in Holding => state[q] \in Holding
      BY <2>2, <2>3
    <2> QED
      BY <1>4, <2>5, <2>6, <2>7, <2>8 DEF LockInv, WritePid
  <1>5. ASSUME NEW p \in Procs, Drop(p) \/ Die(p) PROVE LockInv'
    BY <1>5, Released DEF Drop, Die
  <1>6. CASE UNCHANGED lvars
    BY <1>6 DEF lvars, LockInv, DirLockTypeOK, HolderNamed, NoStaleLock
  <1> QED
    BY <1>1, <1>2, <1>3, <1>4, <1>5, <1>6 DEF DirLockNext

(* The invariant of the lock. *)
LEMMA LockInvariant == ResourceSpec => []LockInv
  <1>1. ResourceInit => LockInv
    BY LockInit DEF ResourceInit
  <1>2. [ResourceNext]_rvars => [DirLockNext]_lvars
    BY DEF ResourceNext, LockStep, PoolStep, rvars
  <1>3. LockInv /\ [ResourceNext]_rvars => LockInv'
    BY <1>2, LockStepKeeps
  <1> QED
    BY <1>1, <1>3, PTL DEF ResourceSpec

(***************************************************************************)
(* However many processes open a directory, and die at any point of        *)
(* DirLock::acquire or later, at most one at a time holds the lock.        *)
(***************************************************************************)
THEOREM LockExcludes == ResourceSpec => []Exclusive
  <1>1. LockInv => Exclusive
    BY DEF LockInv, Exclusive
  <1> QED
    BY <1>1, LockInvariant, PTL

(***************************************************************************)
(* While it is held by a process that could write its pid, the sentinel    *)
(* has this pid: no failed acquire of another process overwrites it.       *)
(***************************************************************************)
THEOREM LockNamesHolder == ResourceSpec => []HolderNamed
  <1>1. LockInv => HolderNamed
    BY DEF LockInv
  <1> QED
    BY <1>1, LockInvariant, PTL

(***************************************************************************)
(* A refusal is due to a live holder: whatever process dies at whatever    *)
(* point, no lock outlives the one that took it.                           *)
(***************************************************************************)
THEOREM LockNeverStale == ResourceSpec => []NoStaleLock
  <1>1. LockInv => NoStaleLock
    BY DEF LockInv
  <1> QED
    BY <1>1, LockInvariant, PTL
=============================================================================
