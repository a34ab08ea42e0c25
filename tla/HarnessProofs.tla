---------------------------- MODULE HarnessProofs ----------------------------
(***************************************************************************)
(* The power-loss harness, proved: what an oracle line claims is in the    *)
(* store, and what the validator says of it means what it should.          *)
(***************************************************************************)
EXTENDS PowerLossHarness, DataWalProofs

------------------------------------------------------------------------------
(* Replaying operations *)

\* The last operation on a key is there.
LEMMA OpsOnMax ==
  ASSUME NEW ops, Len(ops) \in Nat, NEW k, OpsOn(ops, k) # {}
  PROVE  /\ Max(OpsOn(ops, k)) \in OpsOn(ops, k)
         /\ \A j \in OpsOn(ops, k) : j <= Max(OpsOn(ops, k))
<1>1. OpsOn(ops, k) \in SUBSET Nat /\ \A x \in OpsOn(ops, k) : x <= Len(ops)
  BY DEF OpsOn
<1> QED BY <1>1, NatMax

\* What a replay leaves of a key: what the last operation on it says.
LEMMA ReplayAt ==
  ASSUME NEW f, NEW ops, Len(ops) \in Nat, NEW k
  PROVE  /\ OpsOn(ops, k) = {} =>
               /\ k \in DOMAIN Replay(f, ops) <=> k \in DOMAIN f
               /\ k \in DOMAIN f => Replay(f, ops)[k] = f[k]
         /\ \A i \in OpsOn(ops, k) : (\A j \in OpsOn(ops, k) : j <= i) =>
               /\ k \in DOMAIN Replay(f, ops) <=> k \in Keys /\ ops[i].type = "Put"
               /\ k \in DOMAIN Replay(f, ops) => Replay(f, ops)[k] = ops[i].value
<1>1. ASSUME OpsOn(ops, k) = {}
      PROVE  /\ k \in DOMAIN Replay(f, ops) <=> k \in DOMAIN f
             /\ k \in DOMAIN f => Replay(f, ops)[k] = f[k]
  BY <1>1 DEF Replay
<1>2. ASSUME NEW i \in OpsOn(ops, k), \A j \in OpsOn(ops, k) : j <= i
      PROVE  /\ k \in DOMAIN Replay(f, ops) <=> k \in Keys /\ ops[i].type = "Put"
             /\ k \in DOMAIN Replay(f, ops) => Replay(f, ops)[k] = ops[i].value
  <2>1. OpsOn(ops, k) \subseteq Nat
    BY DEF OpsOn
  <2>2. Max(OpsOn(ops, k)) = i
    BY <1>2, <2>1, MaxIs
  <2> QED BY <1>2, <2>2 DEF Replay
<1> QED BY <1>1, <1>2

LEMMA SameFunction ==
  ASSUME NEW f, NEW g, f = [x \in DOMAIN f |-> f[x]], g = [x \in DOMAIN g |-> g[x]],
         \A x : x \in DOMAIN f <=> x \in DOMAIN g,
         \A x \in DOMAIN f : f[x] = g[x]
  PROVE  f = g
<1>1. DOMAIN f = DOMAIN g
  OBVIOUS
<1> QED BY <1>1

LEMMA ReplayIsFunction ==
  ASSUME NEW f, NEW ops
  PROVE  Replay(f, ops) = [k \in DOMAIN Replay(f, ops) |-> Replay(f, ops)[k]]
BY DEF Replay

\* One more operation is one more put or delete.
LEMMA ReplayAppend ==
  ASSUME NEW S, NEW ops \in Seq(S), NEW f, NEW op \in S, op.key \in Keys
  PROVE  Replay(f, Append(ops, op)) = IF op.type = "Put"
                                      THEN With(Replay(f, ops), op.key, op.value)
                                      ELSE Without(Replay(f, ops), op.key)
<1> DEFINE all == Append(ops, op)
           n == Len(ops)
           g == IF op.type = "Put" THEN With(Replay(f, ops), op.key, op.value)
                ELSE Without(Replay(f, ops), op.key)
<1>1. /\ n \in Nat /\ Len(all) = n + 1 /\ Len(all) \in Nat
      /\ \A i \in 1 .. n : all[i] = ops[i]
      /\ all[n + 1] = op
  OBVIOUS
<1> HIDE DEF all
<1>2. n + 1 \in OpsOn(all, op.key) /\ \A j \in OpsOn(all, op.key) : j <= n + 1
  BY <1>1 DEF OpsOn
<1>3. \A k : k # op.key => OpsOn(all, k) = OpsOn(ops, k)
  BY <1>1 DEF OpsOn
<1>4. ASSUME NEW k
      PROVE  /\ k \in DOMAIN Replay(f, all) <=> k \in DOMAIN g
             /\ k \in DOMAIN g => Replay(f, all)[k] = g[k]
  <2>1. CASE k = op.key
    <3>1. /\ k \in DOMAIN Replay(f, all) <=> op.type = "Put"
          /\ k \in DOMAIN Replay(f, all) => Replay(f, all)[k] = op.value
      BY <1>1, <1>2, <2>1, ReplayAt
    <3> QED BY <2>1, <3>1 DEF With, Without
  <2>2. CASE k # op.key /\ OpsOn(ops, k) = {}
    <3>1. /\ k \in DOMAIN Replay(f, all) <=> k \in DOMAIN Replay(f, ops)
          /\ k \in DOMAIN Replay(f, all) => Replay(f, all)[k] = Replay(f, ops)[k]
      <4>1. OpsOn(all, k) = {}
        BY <1>3, <2>2
      <4>2. /\ k \in DOMAIN Replay(f, all) <=> k \in DOMAIN f
            /\ k \in DOMAIN f => Replay(f, all)[k] = f[k]
        BY <1>1, <4>1, ReplayAt
      <4>3. /\ k \in DOMAIN Replay(f, ops) <=> k \in DOMAIN f
            /\ k \in DOMAIN f => Replay(f, ops)[k] = f[k]
        BY <1>1, <2>2, ReplayAt
      <4> QED BY <4>2, <4>3
    <3> QED BY <2>2, <3>1 DEF With, Without
  <2>3. CASE k # op.key /\ OpsOn(ops, k) # {}
    <3> DEFINE i == Max(OpsOn(ops, k))
    <3>1. i \in OpsOn(ops, k) /\ \A j \in OpsOn(ops, k) : j <= i
      BY <1>1, <2>3, OpsOnMax
    <3>2. i \in OpsOn(all, k) /\ (\A j \in OpsOn(all, k) : j <= i) /\ all[i] = ops[i]
      BY <1>1, <1>3, <2>3, <3>1 DEF OpsOn
    <3> HIDE DEF i
    <3>3. /\ k \in DOMAIN Replay(f, all) <=> k \in Keys /\ ops[i].type = "Put"
          /\ k \in DOMAIN Replay(f, all) => Replay(f, all)[k] = ops[i].value
      BY <1>1, <3>2, ReplayAt
    <3>4. /\ k \in DOMAIN Replay(f, ops) <=> k \in Keys /\ ops[i].type = "Put"
          /\ k \in DOMAIN Replay(f, ops) => Replay(f, ops)[k] = ops[i].value
      BY <1>1, <3>1, ReplayAt
    <3> QED BY <2>3, <3>3, <3>4 DEF With, Without
  <2> QED BY <2>1, <2>2, <2>3
<1>5. g = [k \in DOMAIN g |-> g[k]]
  BY DEF With, Without
<1> HIDE DEF g
<1>6. Replay(f, all) = g
  BY <1>4, <1>5, ReplayIsFunction, SameFunction
<1> QED BY <1>6 DEF all, g

\* c is a, and then b.
Joins(c, a, b) ==
    /\ Len(a) \in Nat /\ Len(b) \in Nat /\ Len(c) = Len(a) + Len(b)
    /\ \A i \in 1 .. Len(a) : c[i] = a[i]
    /\ \A j \in 1 .. Len(b) : c[Len(a) + j] = b[j]

\* Replaying two sequences of operations is replaying them as one.
LEMMA ReplayTwice ==
  ASSUME NEW f, NEW a, NEW b, NEW c, Joins(c, a, b)
  PROVE  Replay(Replay(f, a), b) = Replay(f, c)
<1> USE DEF Joins
<1> DEFINE g == Replay(Replay(f, a), b)
           n == Len(a)
<1>0. Len(c) \in Nat /\ n \in Nat
  OBVIOUS
<1>1. ASSUME NEW k
      PROVE  /\ k \in DOMAIN g <=> k \in DOMAIN Replay(f, c)
             /\ k \in DOMAIN g => g[k] = Replay(f, c)[k]
  <2>1. CASE OpsOn(b, k) # {}
    <3> DEFINE i == Max(OpsOn(b, k))
    <3>1. i \in OpsOn(b, k) /\ \A j \in OpsOn(b, k) : j <= i
      BY <2>1, OpsOnMax
    <3> HIDE DEF i
    <3>2. i \in 1 .. Len(b) /\ c[n + i] = b[i] /\ n + i \in OpsOn(c, k)
      BY <1>0, <3>1 DEF OpsOn
    <3>3. ASSUME NEW j \in OpsOn(c, k) PROVE j <= n + i
      <4>1. j \in 1 .. (n + Len(b)) /\ c[j].key = k
        BY DEF OpsOn
      <4>2. CASE j <= n
        BY <1>0, <3>2, <4>1, <4>2
      <4>3. CASE j > n
        <5>1. j - n \in 1 .. Len(b) /\ c[n + (j - n)] = b[j - n] /\ n + (j - n) = j
          BY <1>0, <4>1, <4>3
        <5>2. j - n \in OpsOn(b, k)
          BY <4>1, <5>1 DEF OpsOn
        <5> QED BY <1>0, <3>1, <3>2, <4>1, <5>2
      <4> QED BY <1>0, <4>1, <4>2, <4>3
    <3>4. /\ k \in DOMAIN g <=> k \in Keys /\ b[i].type = "Put"
          /\ k \in DOMAIN g => g[k] = b[i].value
      BY <3>1, ReplayAt
    <3>5. /\ k \in DOMAIN Replay(f, c) <=> k \in Keys /\ b[i].type = "Put"
          /\ k \in DOMAIN Replay(f, c) => Replay(f, c)[k] = b[i].value
      <4> DEFINE last == n + i
      <4>1. /\ last \in OpsOn(c, k) /\ c[last] = b[i]
            /\ \A j \in OpsOn(c, k) : j <= last
        BY <3>2, <3>3
      <4> HIDE DEF last
      <4>2. /\ k \in DOMAIN Replay(f, c) <=> k \in Keys /\ c[last].type = "Put"
            /\ k \in DOMAIN Replay(f, c) => Replay(f, c)[k] = c[last].value
        <5>1. \A x \in OpsOn(c, k) : (\A j \in OpsOn(c, k) : j <= x) =>
                 /\ k \in DOMAIN Replay(f, c) <=> k \in Keys /\ c[x].type = "Put"
                 /\ k \in DOMAIN Replay(f, c) => Replay(f, c)[k] = c[x].value
          BY <1>0, ReplayAt
        <5> QED BY <4>1, <5>1
      <4> QED BY <4>1, <4>2
    <3> QED BY <3>4, <3>5
  <2>2. CASE OpsOn(b, k) = {}
    <3>1. /\ k \in DOMAIN g <=> k \in DOMAIN Replay(f, a)
          /\ k \in DOMAIN Replay(f, a) => g[k] = Replay(f, a)[k]
      BY <2>2, ReplayAt
    <3>2. OpsOn(c, k) = OpsOn(a, k)
      <4>1. ASSUME NEW j \in OpsOn(c, k) PROVE j \in OpsOn(a, k)
        <5>1. j \in 1 .. (n + Len(b)) /\ c[j].key = k
          BY DEF OpsOn
        <5>2. CASE j <= n
          BY <1>0, <5>1, <5>2 DEF OpsOn
        <5>3. CASE j > n
          <6>1. j - n \in 1 .. Len(b) /\ c[n + (j - n)] = b[j - n] /\ n + (j - n) = j
            BY <1>0, <5>1, <5>3
          <6>2. j - n \in OpsOn(b, k)
            BY <5>1, <6>1 DEF OpsOn
          <6> QED BY <2>2, <6>2
        <5> QED BY <1>0, <5>1, <5>2, <5>3
      <4>2. ASSUME NEW j \in OpsOn(a, k) PROVE j \in OpsOn(c, k)
        BY <1>0 DEF OpsOn
      <4> QED BY <4>1, <4>2
    <3>3. CASE OpsOn(a, k) = {}
      <4>1. /\ k \in DOMAIN Replay(f, c) <=> k \in DOMAIN f
            /\ k \in DOMAIN f => Replay(f, c)[k] = f[k]
        BY <1>0, <3>2, <3>3, ReplayAt
      <4>2. /\ k \in DOMAIN Replay(f, a) <=> k \in DOMAIN f
            /\ k \in DOMAIN f => Replay(f, a)[k] = f[k]
        BY <3>3, ReplayAt
      <4> QED BY <3>1, <4>1, <4>2
    <3>4. CASE OpsOn(a, k) # {}
      <4> DEFINE i == Max(OpsOn(a, k))
      <4>1. i \in OpsOn(a, k) /\ \A j \in OpsOn(a, k) : j <= i
        BY <3>4, OpsOnMax
      <4> HIDE DEF i
      <4>2. c[i] = a[i]
        BY <4>1 DEF OpsOn
      <4>3. /\ k \in DOMAIN Replay(f, c) <=> k \in Keys /\ a[i].type = "Put"
            /\ k \in DOMAIN Replay(f, c) => Replay(f, c)[k] = a[i].value
        <5>1. /\ k \in DOMAIN Replay(f, c) <=> k \in Keys /\ c[i].type = "Put"
              /\ k \in DOMAIN Replay(f, c) => Replay(f, c)[k] = c[i].value
          BY <1>0, <3>2, <4>1, ReplayAt
        <5> QED BY <4>2, <5>1
      <4>4. /\ k \in DOMAIN Replay(f, a) <=> k \in Keys /\ a[i].type = "Put"
            /\ k \in DOMAIN Replay(f, a) => Replay(f, a)[k] = a[i].value
        BY <4>1, ReplayAt
      <4> QED BY <3>1, <4>3, <4>4
    <3> QED BY <3>3, <3>4
  <2> QED BY <2>1, <2>2
<1>2. g = [k \in DOMAIN g |-> g[k]]
  BY ReplayIsFunction
<1> HIDE DEF g
<1>3. g = Replay(f, c)
  BY <1>1, <1>2, ReplayIsFunction, SameFunction
<1> QED BY <1>3 DEF g

------------------------------------------------------------------------------
(* The one segment of the harness *)

\* The frames of the segment, or none when its directory entry is gone.
FramesOf(F) == IF 1 \in DOMAIN F THEN F[1] ELSE <<>>

\* The operations of the first n frames.
OpsOf(s, n) == [i \in 1 .. n |-> s[i].data]

LEMMA OpsOfIs ==
  ASSUME NEW s \in Seq(Chunk), NEW n \in 0 .. Len(s)
  PROVE  /\ OpsOf(s, n) \in Seq(Data)
         /\ Len(OpsOf(s, n)) = n
         /\ \A i \in 1 .. n : OpsOf(s, n)[i] = s[i].data
<1>1. n \in Nat /\ \A i \in 1 .. n : s[i].data \in Data
  BY ChunkFields
<1> QED BY <1>1 DEF OpsOf

\* What a scan finds is what the operations of the replayed frames leave.
LEMMA ProjectionReplays ==
  ASSUME NEW F, Listed(F), DOMAIN F \subseteq {1},
         NEW m \in 0 .. Len(FramesOf(F)), Replayed(FramesOf(F)) = 1 .. m,
         \A i \in 1 .. m : FramesOf(F)[i].data.type # "Raw"
  PROVE  Projection(F) = Replay(<<>>, OpsOf(FramesOf(F), m))
<1> DEFINE s == FramesOf(F)
           ops == OpsOf(s, m)
           g == Replay(<<>>, ops)
<1>1. s \in Seq(Chunk) /\ Len(s) \in Nat
  BY DEF FramesOf, Listed
<1>2. ops \in Seq(Data) /\ Len(ops) = m /\ m \in Nat /\ \A i \in 1 .. m : ops[i] = s[i].data
  BY <1>1, OpsOfIs
<1>3. \A i \in 1 .. m : 1 \in DOMAIN F /\ F[1] = s /\ i \in Replayed(F[1])
  BY <1>1 DEF FramesOf
<1> HIDE DEF ops, s, g
<1>4. \A id \in DOMAIN F : id = 1 /\ F[id] = s /\ Replayed(F[id]) = 1 .. m
  BY DEF FramesOf, s
<1>5. ASSUME NEW k
      PROVE  /\ k \in DOMAIN Projection(F) <=> k \in DOMAIN g
             /\ k \in DOMAIN g => Projection(F)[k] = g[k]
  <2>1. CASE OpsOn(ops, k) = {}
    <3>1. k \notin DOMAIN g
      BY <1>2, <2>1, ReplayAt DEF g
    <3>2. Touches(F, k) = {}
      <4>1. SUFFICES ASSUME NEW p \in Touches(F, k) PROVE FALSE
        OBVIOUS
      <4>2. p[1] \in DOMAIN F /\ p[2] \in Replayed(F[p[1]]) /\ F[p[1]][p[2]].data.key = k
        BY TouchesAre
      <4>3. p[2] \in 1 .. m /\ s[p[2]].data.key = k
        BY <1>4, <4>2
      <4>4. p[2] \in OpsOn(ops, k)
        BY <1>2, <4>3 DEF OpsOn
      <4> QED BY <2>1, <4>4
    <3>3. k \notin DOMAIN Projection(F)
      BY <3>2 DEF Projection, LiveKeys
    <3> QED BY <3>1, <3>3
  <2>2. CASE OpsOn(ops, k) # {}
    <3> DEFINE i == Max(OpsOn(ops, k))
    <3>1. i \in OpsOn(ops, k) /\ \A j \in OpsOn(ops, k) : j <= i
      BY <1>2, <2>2, OpsOnMax
    <3> HIDE DEF i
    <3>2. i \in 1 .. m /\ s[i].data.key = k /\ ops[i] = s[i].data
      BY <1>2, <3>1 DEF OpsOn
    <3>3. 1 \in DOMAIN F /\ F[1] = s /\ i \in Replayed(F[1]) /\ s[i].data.type # "Raw"
      BY <1>3, <3>2 DEF s
    <3>4. <<1, i>> \in Touches(F, k)
      BY <3>2, <3>3, TouchesAre
    <3>5. ASSUME NEW q \in Touches(F, k) PROVE q = <<1, i>> \/ Before(q, <<1, i>>)
      <4>1. /\ q = <<q[1], q[2]>> /\ q[1] \in DOMAIN F /\ q[2] \in Replayed(F[q[1]])
            /\ F[q[1]][q[2]].data.key = k
        BY TouchesAre
      <4>2. q[1] = 1 /\ q[2] \in 1 .. m /\ s[q[2]].data.key = k
        BY <1>4, <4>1
      <4>3. q[2] \in OpsOn(ops, k)
        BY <1>2, <4>2 DEF OpsOn
      <4>4. q[2] = i \/ q[2] < i
        BY <1>2, <3>1, <3>2, <4>2, <4>3
      <4> QED BY <4>1, <4>2, <4>4 DEF Before
    <3>6. LastTouch(F, k) = <<1, i>>
      BY <3>4, <3>5, LastTouchOnly
    <3>7. LastRecord(F, k) = s[i]
      BY <3>3, <3>6 DEF LastRecord
    <3>8. /\ k \in DOMAIN g <=> k \in Keys /\ ops[i].type = "Put"
          /\ k \in DOMAIN g => g[k] = ops[i].value
      BY <1>2, <3>1, ReplayAt DEF g
    <3> QED BY <3>2, <3>4, <3>7, <3>8 DEF Projection, LiveKeys
  <2> QED BY <2>1, <2>2
<1>6. Projection(F) = [k \in DOMAIN Projection(F) |-> Projection(F)[k]]
  BY DEF Projection
<1>7. g = [k \in DOMAIN g |-> g[k]]
  BY ReplayIsFunction DEF g
<1>8. Projection(F) = g
  BY <1>5, <1>6, <1>7, SameFunction
<1> QED BY <1>8 DEF g, ops, s

------------------------------------------------------------------------------
(* The inductive invariant *)

Off == {"off", "inspecting", "inspected", "reopening", "comparing"}

\* The operation of the loop index is in the file, in part at least.
Written == {"appending", "appended", "fsyncing", "line", "line begun"}

(***************************************************************************)
(* There is no other segment, no Raw record, and every delete was written  *)
(* right after a put of another key: a log that is not empty has a live    *)
(* key.                                                                    *)
(***************************************************************************)
PairedOps(s) ==
    \A i \in 1 .. Len(s) :
        /\ s[i].data.type # "Raw"
        /\ s[i].data.type = "Delete" =>
              /\ i > 1
              /\ s[i - 1].data.type = "Put"
              /\ s[i - 1].data.key # s[i].data.key

\* The last frame is the one of the last operation.
LastWritten(s) ==
    /\ step \in Written => s # <<>> /\ s[Len(s)].data = OpOf(seq)
    /\ step = "loop" /\ seq > 0 => s # <<>> /\ s[Len(s)].data = OpOf(seq - 1)

\* Where the workload and the handle are.
StepInv ==
    /\ seq \in 0 .. Ops
    /\ intact \in BOOLEAN /\ clean \in BOOLEAN
    /\ step = "opening" => seq = 0 /\ oracle = <<>> /\ ~intact
    /\ step \notin Off => verdict = "none" /\ ~clean
    /\ step \in {"opening", "inspecting", "reopening"} => ~Opened
    /\ step \in Written => seq < Ops
    /\ step \in {"loop", "appended", "line", "line begun", "ended"} => pc = "idle" /\ ~poisoned
    /\ step = "appending" => pc = "writing"
    /\ step \in {"fsyncing", "ending"} => pc = "syncing"
    /\ step = "off" => pc = "closed"
    /\ (intact /\ step \notin Off) => report.tail_truncated = 0

\* A line of the oracle: what it says, and whether it is all there.
Line == [op : {OpOf(n) : n \in 0 .. Ops}, parses : BOOLEAN]

ClaimsInOrder(lines) == \A j \in 1 .. Len(lines) : lines[j].op = OpOf(j - 1)

Parses(lines, n) == \A j \in 1 .. n : lines[j].parses

\* The lines of the oracle are the operations from index 0 on; of these the
\* loop has gone past, all parse.
OracleInv ==
    /\ oracle \in Seq(Line)
    /\ ClaimsInOrder(oracle)
    /\ Parses(oracle, seq)
    /\ Len(oracle) \in {seq, seq + 1}
    /\ step \notin Off \cup {"line begun"} => Len(oracle) = seq
    /\ step = "line begun" => Len(oracle) = seq + 1

\* The operations of a run with q of them in full are in s after frame n.
Placed(n, s, q) == \A j \in 1 .. (q + 1) : n + j <= Len(s) => s[n + j].data = OpOf(j - 1)

\* At least w and at most q + 1 of them, and b is what was there before.
Within(n, s, w, q, b) ==
    /\ n + w <= Len(s)
    /\ Len(s) <= n + q + 1
    /\ AllWhole(s, n + w)
    /\ b = Replay(<<>>, OpsOf(s, n))

\* Where the operations of the run are in the segment: after n frames, which
\* it found there.
RunAt(n, s) ==
    /\ Placed(n, s, seq)
    /\ step \in {"loop", "ending", "ended"} => Len(s) = n + seq
    /\ step \in Written => Len(s) = n + seq + 1
    /\ base = <<>> => n = 0
    /\ (step \notin Off \/ oracle # <<>> \/ base = <<>>) =>
          Within(n, s, Len(oracle), seq, base)

\* What is on disk of it: the operations of the lines, and at times all.
RunOnDisk(n, s) ==
    /\ oracle # <<>> => 1 \in entries /\ n + Len(oracle) <= synced[1]
    /\ (clean \/ step \in {"line", "line begun", "ended"}) => 1 \in entries /\ synced[1] = Len(s)
    /\ clean => Len(s) = n + seq /\ Len(oracle) = seq /\ AllWhole(s, Len(s))

RunInv ==
    intact => \E n \in Nat : RunAt(n, FramesOf(files)) /\ RunOnDisk(n, FramesOf(files))

\* The store that the validator compares is as the scan gave it.
ComparingInv ==
    step = "comparing" => /\ wal /\ pc = "idle"
                          /\ ScanOk(files)
                          /\ map = Rebuild(files)
                          /\ kv = Projection(files)

HarnessInv ==
    /\ DOMAIN files \subseteq {1}
    /\ PairedOps(FramesOf(files))
    /\ LastWritten(FramesOf(files))
    /\ StepInv
    /\ OracleInv
    /\ RunInv
    /\ ComparingInv

------------------------------------------------------------------------------
(* The operations of the workload *)

LEMMA DivisionIs ==
  ASSUME NEW n \in Nat, NEW d \in Nat \ {0}
  PROVE  /\ n % d \in 0 .. (d - 1)
         /\ n = d * (n \div d) + (n % d)
         /\ n \div d \in Int
OBVIOUS

LEMMA ProductsApart ==
  ASSUME NEW d \in Nat \ {0, 1}, NEW a \in Int, NEW b \in Int, d * a = d * b + 1
  PROVE  FALSE
<1>1. d * (a - b) = 1 /\ a - b \in Int
  <2>1. d * a - d * b = 1
    OBVIOUS
  <2> QED BY <2>1
<1>2. CASE a - b <= 0
  BY <1>1, <1>2
<1>3. CASE a - b >= 1
  BY <1>1, <1>3
<1> QED BY <1>1, <1>2, <1>3

LEMMA RemaindersDiffer ==
  ASSUME NEW n \in Nat, n > 0, NEW d \in Nat \ {0, 1}
  PROVE  n % d # (n - 1) % d
<1>1. SUFFICES ASSUME n % d = (n - 1) % d PROVE FALSE
  OBVIOUS
<1> DEFINE a == n \div d
           b == (n - 1) \div d
           r == n % d
<1>2. /\ a \in Int /\ b \in Int /\ r \in Int
      /\ n = d * a + r /\ n - 1 = d * b + r
  BY <1>1, DivisionIs
<1> HIDE DEF a, b, r
<1>3. d * a \in Int /\ d * b \in Int
  BY <1>2
<1>4. d * a = d * b + 1
  BY <1>2, <1>3
<1> QED BY <1>2, <1>4, ProductsApart

LEMMA OpsNat == Ops \in Nat
BY HarnessConstants

\* A delete follows a put of another key.
LEMMA OpOfIs ==
  ASSUME NEW n \in 0 .. Ops
  PROVE  /\ OpOf(n).type \in {"Put", "Delete"}
         /\ OpOf(n).key \in Keys
         /\ OpOf(n).value \in Values
         /\ OpOf(n).type = "Delete" => /\ n > 0
                                       /\ OpOf(n - 1).type = "Put"
                                       /\ OpOf(n - 1).key # OpOf(n).key
<1>1. /\ n \in Nat /\ DeleteEvery \in Nat \ {0, 1} /\ Universe \in Nat \ {0, 1}
      /\ 0 .. Universe - 1 \subseteq Keys /\ ValueFor[n] \in Values
  BY HarnessConstants
<1>2. OpOf(n).type \in {"Put", "Delete"} /\ OpOf(n).value \in Values
  BY <1>1 DEF OpOf
<1>3. OpOf(n).key \in Keys
  <2>1. n % Universe \in 0 .. Universe - 1
    BY <1>1, DivisionIs
  <2> QED BY <1>1, <2>1 DEF OpOf
<1>4. ASSUME OpOf(n).type = "Delete"
      PROVE  n > 0 /\ OpOf(n - 1).type = "Put" /\ OpOf(n - 1).key # OpOf(n).key
  <2>1. n % DeleteEvery = DeleteEvery - 1
    BY <1>4 DEF OpOf
  <2>2. n > 0
    <3>1. SUFFICES ASSUME n = 0 PROVE FALSE
      BY <1>1
    <3>2. 0 % DeleteEvery = 0
      BY <1>1
    <3> QED BY <1>1, <2>1, <3>1, <3>2
  <2>3. (n - 1) % DeleteEvery # DeleteEvery - 1
    BY <1>1, <2>1, <2>2, RemaindersDiffer
  <2>4. n % Universe # (n - 1) % Universe
    BY <1>1, <2>2, RemaindersDiffer
  <2> QED BY <2>2, <2>3, <2>4 DEF OpOf
<1> QED BY <1>2, <1>3, <1>4

------------------------------------------------------------------------------
(* What the steps of the harness do to the log *)

\* Every step of the harness is a step of the log.
LEMMA HarnessStepIsLogStep ==
  ASSUME seq \in Nat, [HarnessNext]_hvars
  PROVE  [Next]_vars
<1>1. CASE UNCHANGED hvars
  BY <1>1 DEF hvars, kvars
<1>2. CASE WorkloadStart \/ LineBegin \/ LineFinish \/ ValidateStart
  BY <1>2 DEF WorkloadStart, LineBegin, LineFinish, ValidateStart, kvars
<1>3. CASE OpenCreates
  BY <1>3 DEF OpenCreates, Next, Running, Progress
<1>4. CASE WorkloadOpened \/ Inspected \/ Reopened
  BY <1>4 DEF WorkloadOpened, Inspected, Reopened, DataWalOpen, Next, Running, Progress
<1>5. ASSUME NEW cut \in Cuts, WorkloadAppend(cut) PROVE [Next]_vars
  <2>1. OpOf(seq) \in Data
    BY <1>5, OpsAssumption, HarnessConstants DEF WorkloadAppend
  <2> QED BY <1>5, <2>1 DEF WorkloadAppend, StoreAppend, Next, Running
<1>6. CASE WorkloadAppended
  BY <1>6 DEF WorkloadAppended, StoreAppended, Next, Running, Progress
<1>7. CASE WorkloadFsync
  BY <1>7 DEF WorkloadFsync, Next, Running
<1>8. CASE WorkloadFsynced
  BY <1>8 DEF WorkloadFsynced, Next, Running, Progress
<1>9. CASE WorkloadEnd \/ WorkloadFails \/ InspectorDropped
  BY <1>9 DEF WorkloadEnd, WorkloadFails, InspectorDropped, Next, Running
<1>10. CASE StoreError
  BY <1>10 DEF StoreError, Next, Running
<1>11. ASSUME NEW sample \in Samples, Compared(sample) PROVE [Next]_vars
  BY <1>11 DEF Compared, Next, Running
<1>12. CASE OpenReturnsErr
  BY <1>12 DEF OpenReturnsErr, Next, Running
<1>13. CASE HarnessKilled
  BY <1>13 DEF HarnessKilled, Next, Running
<1>14. CASE HarnessPowerLoss
  BY <1>14 DEF HarnessPowerLoss, Next
<1> QED BY <1>1, <1>2, <1>3, <1>4, <1>5, <1>6, <1>7, <1>8, <1>9, <1>10, <1>11, <1>12,
           <1>13, <1>14 DEF HarnessNext

LEMMA FramesType ==
  ASSUME ShapeInv
  PROVE  FramesOf(files) \in Seq(Chunk) /\ Len(FramesOf(files)) \in Nat
BY DEF ShapeInv, TypeOK, FramesOf

LEMMA FramesTypeNext ==
  ASSUME ShapeInv'
  PROVE  FramesOf(files') \in Seq(Chunk) /\ Len(FramesOf(files')) \in Nat
<1>1. files' \in [DOMAIN files' -> Seq(Chunk)]
  BY DEF ShapeInv, TypeOK
<1>2. CASE 1 \in DOMAIN files'
  BY <1>1, <1>2 DEF FramesOf
<1>3. CASE 1 \notin DOMAIN files'
  BY <1>3 DEF FramesOf
<1> QED BY <1>2, <1>3

\* The steps that write nothing to the segment.
Reads ==
    \/ WorkloadStart \/ OpenCreates \/ WorkloadOpened \/ WorkloadFsync \/ WorkloadFsynced
    \/ LineBegin \/ LineFinish \/ WorkloadEnd \/ StoreError \/ WorkloadFails
    \/ ValidateStart \/ Inspected \/ InspectorDropped \/ Reopened
    \/ (\E sample \in Samples : Compared(sample))
    \/ OpenReturnsErr \/ HarnessKilled \/ UNCHANGED hvars

LEMMA FramesSame ==
  ASSUME ShapeInv, DOMAIN files \subseteq {1}, Reads
  PROVE  FramesOf(files') = FramesOf(files) /\ DOMAIN files' \subseteq {1}
<1>1. CASE OpenCreates
  <2>1. ListSegmentIds(files) = {}
        /\ files' = [id \in DOMAIN files \cup {1} |-> IF id = 1 THEN <<>> ELSE files[id]]
    BY <1>1 DEF OpenCreates, OpenCreate
  <2>2. 1 \notin DOMAIN files
    BY <2>1, SegmentsAssumption DEF ListSegmentIds
  <2> QED BY <2>1, <2>2 DEF FramesOf
<1>2. CASE ~OpenCreates
  <2>1. files' = files
    <3>1. CASE WorkloadStart \/ LineBegin \/ LineFinish \/ ValidateStart \/ UNCHANGED hvars
      BY <3>1 DEF WorkloadStart, LineBegin, LineFinish, ValidateStart, hvars, kvars, vars, disk
    <3>2. CASE WorkloadOpened \/ Inspected \/ Reopened
      BY <3>2 DEF WorkloadOpened, Inspected, Reopened, DataWalOpen, OpenCreated, OpenExisting, disk
    <3>3. CASE WorkloadFsync
      BY <3>3 DEF WorkloadFsync, FsyncBegin, SyncAll
    <3>4. CASE WorkloadFsynced
      BY <3>4 DEF WorkloadFsynced, FsyncFinish
    <3>5. CASE WorkloadEnd \/ WorkloadFails \/ InspectorDropped
      BY <3>5 DEF WorkloadEnd, WorkloadFails, InspectorDropped, Close, disk
    <3>6. CASE StoreError
      BY <3>6 DEF StoreError, AppendError, SyncAllError, DirectoryError, disk
    <3>7. CASE \E sample \in Samples : Compared(sample)
      BY <3>7 DEF Compared, Close, disk
    <3>8. CASE OpenReturnsErr
      BY <3>8 DEF OpenReturnsErr, OpenRefused, OpenFails, vars, disk
    <3>9. CASE HarnessKilled
      BY <3>9 DEF HarnessKilled, Crash, disk
    <3> QED BY <1>2, <3>1, <3>2, <3>3, <3>4, <3>5, <3>6, <3>7, <3>8, <3>9 DEF Reads
  <2> QED BY <2>1
<1> QED BY <1>1, <1>2

LEMMA FramesAppend ==
  ASSUME ShapeInv, ShapeInv', DOMAIN files \subseteq {1}, NEW cut \in Cuts, WorkloadAppend(cut)
  PROVE  LET s == FramesOf(files)
             t == FramesOf(files')
         IN  /\ DOMAIN files' \subseteq {1}
             /\ Len(t) = Len(s) + 1
             /\ \A i \in 1 .. Len(s) : t[i] = s[i]
             /\ t[Len(s) + 1].data = OpOf(seq)
<1>1. AppendBegin(OpOf(seq), cut)
  BY DEF WorkloadAppend, StoreAppend
<1>2. active = 1 /\ 1 \in DOMAIN files
  BY <1>1 DEF AppendBegin, MayWrite, Ready, ShapeInv, Opened
<1> DEFINE s == files[1]
           c == CutTo(EncodeRecord(nextTxid, OpOf(seq), FileSize(s)), cut)
<1>3. s \in Seq(Chunk)
  BY <1>2 DEF ShapeInv, TypeOK
<1>4. DOMAIN files' = DOMAIN files /\ files'[1] = Append(s, c)
  BY <1>1, <1>2 DEF AppendBegin, ShapeInv, TypeOK
<1>5. c.data = OpOf(seq)
  BY DEF CutTo, EncodeRecord
<1> HIDE DEF c
<1> QED BY <1>2, <1>3, <1>4, <1>5 DEF FramesOf

LEMMA FramesAppended ==
  ASSUME ShapeInv, DOMAIN files \subseteq {1}, WorkloadAppended
  PROVE  LET s == FramesOf(files)
             t == FramesOf(files')
         IN  /\ DOMAIN files' \subseteq {1}
             /\ Len(t) = Len(s)
             /\ \A i \in 1 .. (Len(s) - 1) : t[i] = s[i]
             /\ \A i \in 1 .. Len(s) : t[i].data = s[i].data
<1>1. AppendFinish
  BY DEF WorkloadAppended, StoreAppended
<1>2. active = 1 /\ 1 \in DOMAIN files
  BY <1>1 DEF AppendFinish, ShapeInv, Opened
<1>3. /\ DOMAIN files' = DOMAIN files
      /\ Len(files'[1]) = Len(files[1]) /\ Len(files[1]) \in Nat /\ Len(files[1]) > 0
      /\ \A i \in 1 .. (Len(files[1]) - 1) : files'[1][i] = files[1][i]
      /\ files'[1][Len(files[1])] = EncodeRecord(files[1][Len(files[1])].txid,
                                                 files[1][Len(files[1])].data,
                                                 files[1][Len(files[1])].at)
  BY <1>1, <1>2, CompletedTxids
<1>4. files'[1][Len(files[1])].data = files[1][Len(files[1])].data
  BY <1>3 DEF EncodeRecord
<1>5. FramesOf(files) = files[1] /\ FramesOf(files') = files'[1]
  BY <1>2, <1>3 DEF FramesOf
<1> QED BY <1>3, <1>4, <1>5

LEMMA FramesPowerLoss ==
  ASSUME LogInv, DOMAIN files \subseteq {1}, HarnessPowerLoss
  PROVE  LET s == FramesOf(files)
             t == FramesOf(files')
         IN  /\ DOMAIN files' \subseteq {1}
             /\ Len(t) <= Len(s)
             /\ \A i \in 1 .. Len(t) : t[i].data = s[i].data
<1>1. ShapeInv /\ dropped = {} /\ PowerLoss
  BY DEF LogInv, HarnessPowerLoss
<1>2. DOMAIN files' \subseteq {1} /\ DOMAIN files' \subseteq DOMAIN files
  BY <1>1, PowerLossFacts
<1>3. CASE 1 \notin DOMAIN files'
  BY <1>1, <1>2, <1>3, FramesType DEF FramesOf
<1>4. CASE 1 \in DOMAIN files'
  <2>1. OnDisk(1) = files[1]
    BY <1>1, <1>2, <1>4, OnDiskFacts DEF ShapeInv, TypeOK
  <2>2. /\ Len(files'[1]) <= Len(files[1])
        /\ \A i \in 1 .. Len(files'[1]) : Remains(files[1][i], files'[1][i])
    BY <1>1, <1>4, <2>1, PowerLossFacts
  <2> QED BY <1>2, <1>4, <2>2 DEF FramesOf, Remains
<1> QED BY <1>3, <1>4

------------------------------------------------------------------------------
(* The steps preserve the invariant *)

LEMMA HarnessSteps ==
  ASSUME [HarnessNext]_hvars
  PROVE  \/ Reads
         \/ \E cut \in Cuts : WorkloadAppend(cut)
         \/ WorkloadAppended
         \/ HarnessPowerLoss
BY DEF HarnessNext, Reads

\* A delete still comes right after a put of another key.
LEMMA PairedStep ==
  ASSUME LogInv, LogInv', HarnessInv, [HarnessNext]_hvars
  PROVE  DOMAIN files' \subseteq {1} /\ PairedOps(FramesOf(files'))
<1> DEFINE s == FramesOf(files)
           t == FramesOf(files')
<1> SUFFICES DOMAIN files' \subseteq {1} /\ PairedOps(t)
  OBVIOUS
<1>1. /\ ShapeInv /\ ShapeInv' /\ DOMAIN files \subseteq {1} /\ seq \in 0 .. Ops
      /\ PairedOps(s) /\ LastWritten(s)
  BY DEF LogInv, HarnessInv, StepInv
<1>2. s \in Seq(Chunk) /\ Len(s) \in Nat /\ t \in Seq(Chunk) /\ Len(t) \in Nat
  BY <1>1, FramesType, FramesTypeNext
<1>3. CASE Reads
  BY <1>1, <1>3, FramesSame
<1>4. ASSUME NEW cut \in Cuts, WorkloadAppend(cut)
      PROVE  DOMAIN files' \subseteq {1} /\ PairedOps(t)
  <2>1. /\ DOMAIN files' \subseteq {1}
        /\ Len(t) = Len(s) + 1
        /\ \A i \in 1 .. Len(s) : t[i] = s[i]
        /\ t[Len(s) + 1].data = OpOf(seq)
    BY <1>1, <1>4, FramesAppend
  <2>2. step = "loop"
    BY <1>4 DEF WorkloadAppend
  <2> HIDE DEF s, t
  <2>3. ASSUME NEW i \in 1 .. Len(t)
        PROVE  /\ t[i].data.type # "Raw"
               /\ t[i].data.type = "Delete" => /\ i > 1
                                               /\ t[i - 1].data.type = "Put"
                                               /\ t[i - 1].data.key # t[i].data.key
    <3>1. CASE i <= Len(s)
      BY <1>1, <1>2, <2>1, <3>1 DEF PairedOps
    <3>2. CASE i = Len(s) + 1
      <4>1. t[i].data = OpOf(seq)
        BY <2>1, <3>2
      <4>2. t[i].data.type # "Raw"
        BY <1>1, <4>1, OpOfIs
      <4>3. ASSUME t[i].data.type = "Delete"
            PROVE  /\ i > 1
                   /\ t[i - 1].data.type = "Put"
                   /\ t[i - 1].data.key # t[i].data.key
        <5>1. seq > 0 /\ OpOf(seq - 1).type = "Put" /\ OpOf(seq - 1).key # OpOf(seq).key
          BY <1>1, <4>1, <4>3, OpOfIs
        <5>2. s # <<>> /\ s[Len(s)].data = OpOf(seq - 1)
          BY <1>1, <2>2, <5>1 DEF LastWritten
        <5>3. Len(s) > 0 /\ i - 1 = Len(s) /\ t[i - 1] = s[Len(s)]
          BY <1>2, <2>1, <3>2, <5>2
        <5> QED BY <1>2, <3>2, <4>1, <5>1, <5>2, <5>3
      <4> QED BY <4>2, <4>3
    <3> QED BY <1>2, <2>1, <3>1, <3>2
  <2> QED BY <2>1, <2>3 DEF PairedOps
<1>5. CASE WorkloadAppended
  <2>1. /\ DOMAIN files' \subseteq {1}
        /\ Len(t) = Len(s)
        /\ \A i \in 1 .. Len(s) : t[i].data = s[i].data
    BY <1>1, <1>5, FramesAppended
  <2> HIDE DEF s, t
  <2> QED BY <1>1, <1>2, <2>1 DEF PairedOps
<1>6. CASE HarnessPowerLoss
  <2>1. /\ DOMAIN files' \subseteq {1}
        /\ Len(t) <= Len(s)
        /\ \A i \in 1 .. Len(t) : t[i].data = s[i].data
    BY <1>1, <1>6, FramesPowerLoss
  <2> HIDE DEF s, t
  <2> QED BY <1>1, <1>2, <2>1 DEF PairedOps
<1> QED BY <1>3, <1>4, <1>5, <1>6, HarnessSteps

\* The steps of the validator, of a program that ends, and of an open that
\* has not ended.
Quiet ==
    /\ UNCHANGED <<seq, oracle, clean, base, intact>>
    /\ step' = step \/ step' \in Off

LEMMA QuietSteps ==
  ASSUME Reads
  PROVE  \/ WorkloadStart \/ WorkloadOpened \/ WorkloadFsync \/ WorkloadFsynced
         \/ LineBegin \/ LineFinish \/ WorkloadEnd \/ StoreError
         \/ Quiet
<1>1. CASE OpenCreates \/ UNCHANGED hvars
  BY <1>1 DEF OpenCreates, hvars, harness, Quiet
<1>2. CASE WorkloadFails \/ InspectorDropped \/ HarnessKilled
  BY <1>2 DEF WorkloadFails, InspectorDropped, HarnessKilled, Quiet, Off
<1>3. CASE ValidateStart
  BY <1>3 DEF ValidateStart, Quiet, Off
<1>4. CASE Inspected \/ Reopened
  BY <1>4 DEF Inspected, Reopened, Quiet, Off
<1>5. CASE OpenReturnsErr
  BY <1>5 DEF OpenReturnsErr, Quiet, Off
<1>6. CASE \E sample \in Samples : Compared(sample)
  BY <1>6 DEF Compared, Quiet, Off
<1> QED BY <1>1, <1>2, <1>3, <1>4, <1>5, <1>6 DEF Reads

\* The last frame is still the one of the last operation.
LEMMA LastWrittenStep ==
  ASSUME LogInv, LogInv', HarnessInv, [HarnessNext]_hvars
  PROVE  LastWritten(FramesOf(files))'
<1> DEFINE s == FramesOf(files)
           t == FramesOf(files')
<1>1. /\ ShapeInv /\ ShapeInv' /\ DOMAIN files \subseteq {1} /\ seq \in 0 .. Ops
      /\ LastWritten(s) /\ (step = "opening" => seq = 0)
  BY DEF LogInv, HarnessInv, StepInv
<1>2. s \in Seq(Chunk) /\ Len(s) \in Nat /\ t \in Seq(Chunk) /\ Len(t) \in Nat
  BY <1>1, FramesType, FramesTypeNext
<1>3. /\ step \in Written => s # <<>> /\ s[Len(s)].data = OpOf(seq)
      /\ step = "loop" /\ seq > 0 => s # <<>> /\ s[Len(s)].data = OpOf(seq - 1)
  BY <1>1 DEF LastWritten
<1> SUFFICES /\ step' \in Written => t # <<>> /\ t[Len(t)].data = OpOf(seq')
             /\ step' = "loop" /\ seq' > 0 => t # <<>> /\ t[Len(t)].data = OpOf(seq' - 1)
  BY DEF LastWritten, OpOf
<1>4. CASE Reads
  <2>1. t = s
    BY <1>1, <1>4, FramesSame
  <2> HIDE DEF s, t
  <2>2. CASE LineFinish
    <3>1. step \in Written /\ step' = "loop" /\ seq' - 1 = seq /\ step' \notin Written
      <4>1. step = "line begun" /\ step' = "loop" /\ seq' = seq + 1
        BY <2>2 DEF LineFinish
      <4>2. seq' - 1 = seq
        <5>1. seq \in 0 .. Ops
          BY <1>1
        <5>2. seq \in Nat
          BY <5>1, OpsNat
        <5>3. seq' = seq + 1
          BY <4>1
        <5> QED BY <5>2, <5>3
      <4> QED BY <4>1, <4>2 DEF Written
    <3> QED BY <1>3, <2>1, <3>1
  <2>3. CASE Quiet
    <3>1. seq' = seq /\ (step' = step \/ step' \notin Written \cup {"loop"})
      BY <2>3 DEF Quiet, Off, Written
    <3> QED BY <1>3, <2>1, <3>1
  <2>4. CASE WorkloadFsync \/ WorkloadFsynced \/ LineBegin
    <3>1. seq' = seq /\ ((step \in Written /\ step' # "loop") \/ step' \notin Written \cup {"loop"})
      BY <2>4 DEF WorkloadFsync, WorkloadFsynced, LineBegin, Written
    <3> QED BY <1>3, <2>1, <3>1
  <2>5. CASE WorkloadStart \/ WorkloadOpened \/ WorkloadEnd \/ StoreError
    <3>1. step' \notin Written /\ (step' = "loop" => seq' = 0)
      BY <1>1, <2>5 DEF WorkloadStart, WorkloadOpened, WorkloadEnd, StoreError, Written
    <3> QED BY <3>1
  <2> QED BY <1>4, <2>2, <2>3, <2>4, <2>5, QuietSteps
<1>5. ASSUME NEW cut \in Cuts, WorkloadAppend(cut)
      PROVE  t # <<>> /\ t[Len(t)].data = OpOf(seq') /\ step' = "appending"
  <2>1. Len(t) = Len(s) + 1 /\ t[Len(s) + 1].data = OpOf(seq)
    BY <1>1, <1>5, FramesAppend
  <2>2. seq' = seq /\ step' = "appending"
    BY <1>5 DEF WorkloadAppend
  <2> HIDE DEF s, t
  <2> QED BY <1>2, <2>1, <2>2
<1>6. CASE WorkloadAppended
  <2>1. Len(t) = Len(s) /\ \A i \in 1 .. Len(s) : t[i].data = s[i].data
    BY <1>1, <1>6, FramesAppended
  <2>2. seq' = seq /\ step \in Written /\ step' # "loop"
    BY <1>6 DEF WorkloadAppended, Written
  <2> HIDE DEF s, t
  <2>3. Len(s) > 0
    BY <1>2, <1>3, <2>2
  <2> QED BY <1>2, <1>3, <2>1, <2>2, <2>3
<1>7. CASE HarnessPowerLoss
  BY <1>7 DEF HarnessPowerLoss, Written
<1> QED BY <1>4, <1>5, <1>6, <1>7, HarnessSteps

\* Where the workload and the handle are after a step.
LEMMA StepStep ==
  ASSUME LogInv, LogInv', HarnessInv, [HarnessNext]_hvars
  PROVE  StepInv'
<1>1. StepInv /\ OracleInv /\ MaxTxid \in Nat
  BY WireAssumption DEF HarnessInv
<1>2. CASE UNCHANGED hvars
  BY <1>1, <1>2 DEF StepInv, hvars, kvars, vars, handle, harness, Opened
<1>3. CASE WorkloadStart
  <2>1. /\ step = "off" /\ step' = "opening" /\ seq' = 0 /\ oracle' = <<>> /\ pc' = pc
        /\ intact' = FALSE /\ clean' = FALSE /\ verdict' = "none"
    BY <1>3 DEF WorkloadStart, kvars, vars
  <2>2. 0 \in 0 .. Ops
    BY HarnessConstants
  <2> QED BY <1>1, <2>1, <2>2 DEF StepInv, Opened, Off, Written
<1>4. CASE OpenCreates
  BY <1>1, <1>4 DEF StepInv, OpenCreates, Opens, OpenCreate, harness, handle, Opened, Off, Written
<1>5. CASE WorkloadOpened
  BY <1>1, <1>5 DEF StepInv, WorkloadOpened, DataWalOpen, OpenCreated, OpenExisting, OpenScanned,
                    Opened, Off, Written
<1>6. ASSUME NEW cut \in Cuts, WorkloadAppend(cut) PROVE StepInv'
  BY <1>1, <1>6 DEF StepInv, WorkloadAppend, StoreAppend, AppendBegin, handle, Opened, Off, Written
<1>7. CASE WorkloadAppended
  BY <1>1, <1>7 DEF StepInv, WorkloadAppended, StoreAppended, AppendFinish, Poison, Opened, Off,
                    Written
<1>8. CASE WorkloadFsync
  BY <1>1, <1>8 DEF StepInv, WorkloadFsync, FsyncBegin, SyncAll, handle, Opened, Off, Written
<1>9. CASE WorkloadFsynced
  <2>1. UNCHANGED <<poisoned, report, seq, oracle, clean, intact, verdict>>
    BY <1>9 DEF WorkloadFsynced, FsyncFinish, handle
  <2>2. pc' = "idle" /\ ((step = "fsyncing" /\ step' = "line") \/ (step = "ending" /\ step' = "ended"))
    BY <1>9 DEF WorkloadFsynced, FsyncFinish
  <2>3. ~poisoned
    BY <1>1, <2>2 DEF StepInv, LogInv, RotationInv
  <2> QED BY <1>1, <2>1, <2>2, <2>3 DEF StepInv, Opened, Off, Written
<1>10. CASE LineBegin
  <2>1. /\ step = "line" /\ step' = "line begun"
        /\ UNCHANGED <<pc, poisoned, report, seq, clean, intact, verdict>>
    BY <1>10 DEF LineBegin, kvars, vars, handle
  <2> QED BY <1>1, <2>1 DEF StepInv, Opened, Off, Written
<1>11. CASE LineFinish
  <2>0. seq' = seq + 1
    BY <1>11 DEF LineFinish
  <2>1. /\ step = "line begun" /\ step' = "loop"
        /\ UNCHANGED <<pc, poisoned, report, clean, intact, verdict>>
    BY <1>11 DEF LineFinish, kvars, vars, handle
  <2>2. seq' \in 0 .. Ops
    <3>1. seq \in 0 .. Ops /\ seq < Ops
      BY <1>1, <2>1 DEF StepInv, Written
    <3> QED BY <2>0, <3>1, OpsNat
  <2> QED BY <1>1, <2>1, <2>2 DEF StepInv, Opened, Off, Written
<1>12. CASE WorkloadEnd \/ WorkloadFails \/ InspectorDropped
  BY <1>1, <1>12 DEF StepInv, WorkloadEnd, WorkloadFails, InspectorDropped, Close, NoHandle,
                     Opened, Off, Written
<1>13. CASE StoreError
  BY <1>1, <1>13 DEF StepInv, StoreError, AppendError, SyncAllError, DirectoryError, Poison,
                     Opened, Off, Written
<1>14. CASE ValidateStart
  BY <1>1, <1>14 DEF StepInv, ValidateStart, kvars, vars, handle, Opened, Off, Written
<1>15. CASE Inspected \/ Reopened
  BY <1>1, <1>15 DEF StepInv, Inspected, Reopened, Opened, Off, Written
<1>16. ASSUME NEW sample \in Samples, Compared(sample) PROVE StepInv'
  BY <1>1, <1>16 DEF StepInv, Compared, Close, NoHandle, Opened, Off, Written
<1>17. CASE OpenReturnsErr
  BY <1>1, <1>17 DEF StepInv, OpenReturnsErr, Opens, OpenRefused, OpenFails, NoHandle, vars, handle,
                     Opened, Off, Written
<1>18. CASE HarnessKilled
  BY <1>1, <1>18 DEF StepInv, HarnessKilled, Crash, NoHandle, Opened, Off, Written
<1>19. CASE HarnessPowerLoss
  BY <1>1, <1>19 DEF StepInv, HarnessPowerLoss, PowerLoss, NoHandle, Opened, Off, Written
<1> QED BY <1>2, <1>3, <1>4, <1>5, <1>6, <1>7, <1>8, <1>9, <1>10, <1>11, <1>12, <1>13, <1>14,
           <1>15, <1>16, <1>17, <1>18, <1>19 DEF HarnessNext

LEMMA FrontIs ==
  ASSUME NEW S, NEW s \in Seq(S), Len(s) > 0
  PROVE  /\ Front(s) \in Seq(S)
         /\ Len(Front(s)) = Len(s) - 1
         /\ \A i \in 1 .. (Len(s) - 1) : Front(s)[i] = s[i]
<1> DEFINE m == Len(s) - 1
<1>1. m \in 0 .. Len(s) /\ Len(s) \in Nat
  OBVIOUS
<1> HIDE DEF m
<1>2. /\ SubSeq(s, 1, m) \in Seq(S)
      /\ Len(SubSeq(s, 1, m)) = m
      /\ \A i \in 1 .. m : SubSeq(s, 1, m)[i] = s[i]
  BY <1>1
<1> QED BY <1>2 DEF Front, m

\* What one more line makes of the oracle.
LEMMA LineAdded ==
  ASSUME NEW q \in 0 .. Ops, NEW lines \in Seq(Line), Len(lines) = q,
         ClaimsInOrder(lines), NEW line \in Line, line.op = OpOf(q)
  PROVE  LET more == Append(lines, line)
         IN  /\ more \in Seq(Line) /\ Len(more) = q + 1
             /\ ClaimsInOrder(more)
             /\ Parses(lines, q) => Parses(more, q)
             /\ Parses(lines, q) /\ line.parses => Parses(more, q + 1)
<1> DEFINE more == Append(lines, line)
<1>0. q \in Nat
  BY OpsNat
<1>1. /\ more \in Seq(Line) /\ Len(more) = q + 1
      /\ \A j \in 1 .. q : more[j] = lines[j]
      /\ more[q + 1] = line
  OBVIOUS
<1> HIDE DEF more
<1>2. ASSUME NEW j \in 1 .. (q + 1) PROVE more[j].op = OpOf(j - 1)
  <2>1. CASE j <= q
    BY <1>0, <1>1, <2>1 DEF ClaimsInOrder
  <2>2. CASE j = q + 1
    <3>1. j - 1 = q
      BY <1>0, <2>2
    <3> QED BY <1>1, <2>2, <3>1
  <2> QED BY <1>0, <2>1, <2>2
<1>3. ClaimsInOrder(more)
  BY <1>1, <1>2 DEF ClaimsInOrder
<1>4. Parses(lines, q) => Parses(more, q)
  BY <1>1 DEF Parses
<1>5. ASSUME Parses(lines, q), line.parses, NEW j \in 1 .. (q + 1) PROVE more[j].parses
  <2>1. j \in 1 .. q \/ j = q + 1
    BY <1>0
  <2>2. CASE j \in 1 .. q
    BY <1>1, <1>5, <2>2 DEF Parses
  <2>3. CASE j = q + 1
    BY <1>1, <1>5, <2>3
  <2> QED BY <2>1, <2>2, <2>3
<1>6. Parses(lines, q) /\ line.parses => Parses(more, q + 1)
  BY <1>5 DEF Parses
<1> QED BY <1>1, <1>3, <1>4, <1>6 DEF more

\* And one line less.
LEMMA LineRemoved ==
  ASSUME NEW q \in 0 .. Ops, NEW lines \in Seq(Line), Len(lines) = q + 1,
         ClaimsInOrder(lines), Parses(lines, q)
  PROVE  /\ Front(lines) \in Seq(Line) /\ Len(Front(lines)) = q
         /\ ClaimsInOrder(Front(lines)) /\ Parses(Front(lines), q)
<1>0. q \in Nat
  BY OpsNat
<1>1. /\ Front(lines) \in Seq(Line) /\ Len(Front(lines)) = q
      /\ \A j \in 1 .. q : Front(lines)[j] = lines[j]
  BY <1>0, FrontIs
<1>2. ClaimsInOrder(Front(lines))
  BY <1>0, <1>1 DEF ClaimsInOrder
<1>3. Parses(Front(lines), q)
  BY <1>1 DEF Parses
<1> QED BY <1>1, <1>2, <1>3

\* The lines are still the operations from index 0 on.
LEMMA OracleStep ==
  ASSUME HarnessInv, [HarnessNext]_hvars
  PROVE  OracleInv'
<1>1. /\ oracle \in Seq(Line) /\ ClaimsInOrder(oracle) /\ Parses(oracle, seq)
      /\ Len(oracle) \in {seq, seq + 1}
  BY DEF HarnessInv, OracleInv
<1>2. /\ step \notin Off \cup {"line begun"} => Len(oracle) = seq
      /\ step = "line begun" => Len(oracle) = seq + 1
  BY DEF HarnessInv, OracleInv
<1>3. seq \in 0 .. Ops
  BY DEF HarnessInv, StepInv
<1>4. SUFFICES /\ oracle' \in Seq(Line) /\ ClaimsInOrder(oracle') /\ Parses(oracle', seq')
               /\ Len(oracle') \in {seq', seq' + 1}
               /\ step' \notin Off \cup {"line begun"} => Len(oracle') = seq'
               /\ step' = "line begun" => Len(oracle') = seq' + 1
  BY DEF OracleInv, Line, OpOf, ClaimsInOrder, Parses
<1>5. CASE UNCHANGED <<seq, oracle>> /\ (step' = step \/ step' \in Off
                        \/ (step \notin Off \cup {"line begun"} /\ step' # "line begun"))
  <2>1. step' \notin Off \cup {"line begun"} => step \notin Off \cup {"line begun"}
    BY <1>5 DEF Off
  <2>2. step' = "line begun" => step = "line begun"
    BY <1>5 DEF Off
  <2> QED BY <1>1, <1>2, <1>5, <2>1, <2>2
<1>6. CASE WorkloadStart
  <2>1. oracle' = <<>> /\ seq' = 0 /\ step' = "opening"
    BY <1>6 DEF WorkloadStart
  <2>2. oracle' \in Seq(Line) /\ Len(oracle') = 0
    BY <2>1
  <2>3. ClaimsInOrder(oracle') /\ Parses(oracle', seq')
    BY <2>1, <2>2 DEF ClaimsInOrder, Parses
  <2> QED BY <2>1, <2>2, <2>3
<1>7. CASE LineBegin
  <2>1. PICK parses \in BOOLEAN :
           oracle' = Append(oracle, [op |-> OpOf(seq), parses |-> parses])
    BY <1>7 DEF LineBegin
  <2>2. seq' = seq
    BY <1>7 DEF LineBegin
  <2>3. step = "line" /\ step' = "line begun"
    BY <1>7 DEF LineBegin
  <2> DEFINE line == [op |-> OpOf(seq), parses |-> parses]
  <2>4. line \in Line /\ line.op = OpOf(seq)
    BY <1>3 DEF Line
  <2>5. Len(oracle) = seq
    BY <1>2, <2>3 DEF Off
  <2> HIDE DEF line
  <2>6. LET more == Append(oracle, line)
        IN  /\ more \in Seq(Line) /\ Len(more) = seq + 1
            /\ ClaimsInOrder(more) /\ Parses(more, seq)
    BY <1>1, <1>3, <2>4, <2>5, LineAdded
  <2> QED BY <2>1, <2>2, <2>3, <2>6 DEF line
<1>8. CASE LineFinish
  <2> DEFINE line == [op |-> OpOf(seq), parses |-> TRUE]
  <2>1. oracle' = Append(Front(oracle), line)
    BY <1>8 DEF LineFinish
  <2>2. seq' = seq + 1
    BY <1>8 DEF LineFinish
  <2>3. step = "line begun" /\ step' = "loop"
    BY <1>8 DEF LineFinish
  <2>4. line \in Line /\ line.op = OpOf(seq) /\ line.parses
    BY <1>3 DEF Line
  <2> HIDE DEF line
  <2>5. Len(oracle) = seq + 1
    BY <1>2, <2>3
  <2>6. /\ Front(oracle) \in Seq(Line) /\ Len(Front(oracle)) = seq
        /\ ClaimsInOrder(Front(oracle)) /\ Parses(Front(oracle), seq)
    BY <1>1, <1>3, <2>5, LineRemoved
  <2>7. LET more == Append(Front(oracle), line)
        IN  /\ more \in Seq(Line) /\ Len(more) = seq + 1
            /\ ClaimsInOrder(more) /\ Parses(more, seq + 1)
    BY <1>3, <2>4, <2>6, LineAdded
  <2> QED BY <2>1, <2>2, <2>3, <2>7
<1>9. CASE HarnessPowerLoss
  <2>1. seq' = seq
    BY <1>9 DEF HarnessPowerLoss
  <2>2. step' = "off" /\ (oracle' = oracle \/ (step = "line begun" /\ oracle' = Front(oracle)))
    BY <1>9 DEF HarnessPowerLoss
  <2>3. step' \in Off /\ step' # "line begun"
    BY <2>2 DEF Off
  <2>4. CASE oracle' = oracle
    BY <1>1, <2>1, <2>3, <2>4
  <2>5. CASE step = "line begun" /\ oracle' = Front(oracle)
    <3>1. /\ oracle' \in Seq(Line) /\ Len(oracle') = seq
          /\ ClaimsInOrder(oracle') /\ Parses(oracle', seq)
      BY <1>1, <1>2, <1>3, <2>5, LineRemoved
    <3> QED BY <2>1, <2>3, <3>1
  <2> QED BY <2>2, <2>4, <2>5
<1>10. CASE WorkloadOpened \/ WorkloadFsync \/ WorkloadFsynced \/ WorkloadEnd \/ StoreError
  BY <1>5, <1>10 DEF WorkloadOpened, WorkloadFsync, WorkloadFsynced, WorkloadEnd, StoreError, Off
<1>11. CASE Quiet
  BY <1>5, <1>11 DEF Quiet
<1>12. CASE (\E cut \in Cuts : WorkloadAppend(cut)) \/ WorkloadAppended
  BY <1>5, <1>12 DEF WorkloadAppend, WorkloadAppended, Off
<1> QED BY <1>6, <1>7, <1>8, <1>9, <1>10, <1>11, <1>12, HarnessSteps, QuietSteps

\* A log in which every delete follows a put of another key has a live key.
LEMMA LiveLog ==
  ASSUME NEW s \in Seq(Chunk), PairedOps(s), Replay(<<>>, OpsOf(s, Len(s))) = <<>>
  PROVE  Len(s) = 0
<1> DEFINE ops == OpsOf(s, Len(s))
<1>0. Len(s) \in Nat /\ Len(s) \in 0 .. Len(s)
  OBVIOUS
<1>1. Len(ops) = Len(s) /\ \A i \in 1 .. Len(s) : ops[i] = s[i].data /\ ops[i] \in Data
  BY <1>0, OpsOfIs, ChunkFields
<1> HIDE DEF ops
<1>2. SUFFICES ASSUME Len(s) > 0 PROVE FALSE
  BY <1>0
<1>3. PICK i \in 1 .. Len(s) : ops[i].type = "Put" /\ \A j \in OpsOn(ops, ops[i].key) : j <= i
  <2>1. CASE ops[Len(s)].type = "Put"
    BY <1>0, <1>1, <1>2, <2>1 DEF OpsOn
  <2>2. CASE ops[Len(s)].type # "Put"
    <3>1. ops[Len(s)].type \in {"Put", "Delete", "Raw"}
      BY <1>0, <1>1, <1>2, KeydirAssumption
    <3>2. s[Len(s)].data.type = "Delete"
      BY <1>0, <1>1, <1>2, <2>2, <3>1 DEF PairedOps
    <3>3. /\ Len(s) > 1 /\ s[Len(s) - 1].data.type = "Put"
          /\ s[Len(s) - 1].data.key # s[Len(s)].data.key
      BY <1>0, <1>2, <3>2 DEF PairedOps
    <3> DEFINE m == Len(s) - 1
    <3>4. m \in 1 .. Len(s) /\ ops[m].type = "Put" /\ ops[Len(s)].key # ops[m].key
      BY <1>0, <1>1, <3>3
    <3>5. ASSUME NEW j \in OpsOn(ops, ops[m].key) PROVE j <= m
      BY <1>0, <1>1, <3>4 DEF OpsOn
    <3> QED BY <3>4, <3>5
  <2> QED BY <2>1, <2>2
<1>4. ops[i].key \in Keys /\ i \in OpsOn(ops, ops[i].key)
  BY <1>1, KeydirAssumption DEF OpsOn
<1>5. ops[i].key \in DOMAIN Replay(<<>>, ops)
  BY <1>0, <1>1, <1>3, <1>4, ReplayAt
<1>6. Replay(<<>>, ops) = <<>>
  BY DEF ops
<1> QED BY <1>5, <1>6

\* What keeps the frames that matter keeps the run in its place.
LEMMA WithinKept ==
  ASSUME NEW s \in Seq(Chunk), NEW t \in Seq(Chunk), NEW n \in Nat, NEW w \in Nat, NEW v \in Nat,
         NEW q \in Nat, NEW b, Within(n, s, w, q, b), v <= w,
         n + v <= Len(t), Len(t) <= n + q + 1, \A i \in 1 .. (n + v) : t[i] = s[i]
  PROVE  Within(n, t, v, q, b)
<1>1. AllWhole(t, n + v)
  BY DEF Within, AllWhole
<1>2. OpsOf(t, n) = OpsOf(s, n)
  <2>1. \A i \in 1 .. n : t[i] = s[i]
    OBVIOUS
  <2> QED BY <2>1 DEF OpsOf
<1> QED BY <1>1, <1>2 DEF Within

\* The workload has opened its store and found no damage.
LEMMA RunOpened ==
  ASSUME Platform, LogInv, LogInv', HarnessInv, WorkloadOpened, intact'
  PROVE  RunAt(Len(FramesOf(files)), FramesOf(files))' /\ RunOnDisk(Len(FramesOf(files)), FramesOf(files))'
<1> DEFINE s == FramesOf(files)
<1>1. /\ ShapeInv /\ RotationInv /\ DOMAIN files \subseteq {1} /\ PairedOps(s)
      /\ oracle = <<>> /\ ~clean
  <2>1. step = "opening"
    BY DEF WorkloadOpened
  <2> QED BY <2>1 DEF LogInv, HarnessInv, StepInv, Off
<1>2. seq = 0
  BY DEF WorkloadOpened, HarnessInv, StepInv
<1>3. OpenCreated \/ OpenExisting
  BY DEF WorkloadOpened, DataWalOpen
<1>4. ScanOk(files) /\ report' = TailReport(files) /\ files' = files
  BY <1>3 DEF OpenCreated, OpenExisting, OpenScanned, disk
<1>5. 1 \in DOMAIN files
  BY <1>1, <1>3 DEF OpenCreated, OpenExisting, ShapeInv, ListSegmentIds
<1>6. TailReport(files).tail_truncated = 0
  BY <1>4 DEF WorkloadOpened
<1>7. s = files[1] /\ s \in Seq(Chunk) /\ Len(s) \in Nat
  BY <1>1, <1>5, FramesType DEF FramesOf
<1>8. AllWhole(s, Len(s))
  BY <1>1, <1>4, <1>5, <1>6, <1>7, NoDamageSeen
<1>9. base' = Replay(<<>>, OpsOf(s, Len(s)))
  <2>1. base' = Projection(files)
    BY DEF WorkloadOpened, DataWalOpen, NoStore
  <2>2. Listed(files)
    BY FilesListed
  <2>3. Replayed(s) = 1 .. Len(s)
    BY <1>7, <1>8, WholeReplayed
  <2>4. Len(s) \in 0 .. Len(s)
    BY <1>7
  <2>5. \A i \in 1 .. Len(s) : s[i].data.type # "Raw"
    BY <1>1 DEF PairedOps
  <2>6. Projection(files) = Replay(<<>>, OpsOf(s, Len(s)))
    BY <1>1, <2>2, <2>3, <2>4, <2>5, ProjectionReplays
  <2> QED BY <2>1, <2>6
<1>10. base' = <<>> => Len(s) = 0
  BY <1>1, <1>7, <1>9, LiveLog
<1>11. seq' = 0
  BY <1>2 DEF WorkloadOpened
<1>12. step' = "loop" /\ oracle' = <<>> /\ ~clean' /\ Len(oracle') = 0
  BY <1>1 DEF WorkloadOpened
<1>13. FramesOf(files') = s
  BY <1>4
<1> HIDE DEF s
<1>14. Placed(Len(s), s, 0)
  BY <1>7 DEF Placed
<1>15. Within(Len(s), s, 0, 0, base')
  BY <1>7, <1>8, <1>9 DEF Within
<1>16. /\ Placed(Len(s), s, seq')
       /\ step' \in {"loop", "ending", "ended"} => Len(s) = Len(s) + seq'
       /\ step' \in Written => Len(s) = Len(s) + seq' + 1
       /\ base' = <<>> => Len(s) = 0
       /\ Within(Len(s), s, Len(oracle'), seq', base')
  BY <1>7, <1>10, <1>11, <1>12, <1>14, <1>15 DEF Written
<1>17. RunAt(Len(FramesOf(files)), FramesOf(files))'
  BY <1>13, <1>16 DEF RunAt, Placed, Within, OpOf
<1>18. RunOnDisk(Len(FramesOf(files)), FramesOf(files))'
  BY <1>12 DEF RunOnDisk
<1> QED BY <1>17, <1>18

\* What is on disk of the segment stays there.
LEMMA FramesOnDisk ==
  ASSUME Platform, LogInv, LogInv', [Next]_vars, 1 \in entries
  PROVE  LET s == FramesOf(files)
             t == FramesOf(files')
         IN  /\ 1 \in entries'
             /\ synced[1] \in Nat /\ synced'[1] \in Nat
             /\ synced[1] <= synced'[1]
             /\ synced[1] <= Len(s) /\ synced'[1] <= Len(t)
             /\ \A i \in 1 .. synced[1] : t[i] = s[i]
<1>1. /\ ShapeInv /\ ShapeInv' /\ 1 \in DOMAIN files
  BY DEF LogInv, ShapeInv
<1>2. 1 \in entries' /\ Keeps(1, synced[1]) /\ synced[1] <= synced'[1]
  BY SyncedKept
<1>3. 1 \in DOMAIN files'
  BY <1>1, <1>2 DEF ShapeInv
<1>4. FramesOf(files) = files[1] /\ FramesOf(files') = files'[1]
  BY <1>1, <1>3 DEF FramesOf
<1>5. synced[1] \in Nat /\ synced'[1] \in Nat /\ synced[1] <= Len(files[1]) /\ synced'[1] <= Len(files'[1])
  BY <1>1, <1>3 DEF ShapeInv, TypeOK
<1>6. \A i \in 1 .. synced[1] : files'[1][i] = files[1][i]
  BY <1>2 DEF Keeps
<1> QED BY <1>2, <1>4, <1>5, <1>6

\* A handle that writes, and found no damage, has a segment without damage
\* up to the frame that it is writing.
LEMMA WholeSoFar ==
  ASSUME LogInv, DOMAIN files \subseteq {1}, Opened, ~poisoned, report.tail_truncated = 0,
         pc # "writing"
  PROVE  /\ active = 1 /\ 1 \in DOMAIN files
         /\ AllWhole(FramesOf(files), Len(FramesOf(files)))
<1>1. active = 1 /\ 1 \in DOMAIN files
  BY DEF LogInv, ShapeInv
<1>2. AllWhole(ActiveFile, Len(ActiveFile))
  BY DEF LogInv, CleanHandleInv
<1> QED BY <1>1, <1>2 DEF FramesOf, ActiveFile

\* The steps that write nothing, but for those that start a workload.
LEMMA RunReads ==
  ASSUME Platform, LogInv, LogInv', HarnessInv, OracleInv', intact,
         [HarnessNext]_hvars, Reads, ~WorkloadStart, ~WorkloadOpened,
         NEW n \in Nat, RunAt(n, FramesOf(files)), RunOnDisk(n, FramesOf(files))
  PROVE  (RunAt(n, FramesOf(files)) /\ RunOnDisk(n, FramesOf(files)))'
<1> DEFINE s == FramesOf(files)
           t == FramesOf(files')
<1>1. ShapeInv /\ ShapeInv' /\ DOMAIN files \subseteq {1}
  BY DEF LogInv, HarnessInv
<1>2. s \in Seq(Chunk) /\ Len(s) \in Nat
  BY <1>1, FramesType
<1>3. t = s
  BY <1>1, FramesSame
<1>4. seq \in 0 .. Ops
  BY DEF HarnessInv, StepInv
<1>5. seq \in Nat
  BY <1>4, OpsNat
<1>6. [Next]_vars
  BY <1>5, HarnessStepIsLogStep
<1>7. 1 \in entries => /\ 1 \in entries' /\ synced[1] \in Nat /\ synced'[1] \in Nat
                       /\ synced[1] <= synced'[1] /\ synced[1] <= Len(s) /\ synced'[1] <= Len(s)
  BY <1>3, <1>6, FramesOnDisk
<1>8. /\ Placed(n, s, seq)
      /\ step \in {"loop", "ending", "ended"} => Len(s) = n + seq
      /\ step \in Written => Len(s) = n + seq + 1
      /\ base = <<>> => n = 0
      /\ (step \notin Off \/ oracle # <<>> \/ base = <<>>) => Within(n, s, Len(oracle), seq, base)
  BY DEF RunAt
<1>0. oracle # <<>> => 1 \in entries /\ n + Len(oracle) <= synced[1]
  BY DEF RunOnDisk
<1>9. /\ (clean \/ step \in {"line", "line begun", "ended"}) => 1 \in entries /\ synced[1] = Len(s)
      /\ clean => Len(s) = n + seq /\ Len(oracle) = seq /\ AllWhole(s, Len(s))
  BY DEF RunOnDisk
<1>10. Len(oracle) \in Nat
  <2>1. oracle \in Seq(Line)
    BY DEF HarnessInv, OracleInv
  <2> QED BY <2>1
<1> HIDE DEF s, t
<1>11. SUFFICES
         /\ Placed(n, s, seq')
         /\ step' \in {"loop", "ending", "ended"} => Len(s) = n + seq'
         /\ step' \in Written => Len(s) = n + seq' + 1
         /\ base' = <<>> => n = 0
         /\ (step' \notin Off \/ oracle' # <<>> \/ base' = <<>>)
               => Within(n, s, Len(oracle'), seq', base')
         /\ oracle' # <<>> => 1 \in entries' /\ n + Len(oracle') <= synced'[1]
         /\ (clean' \/ step' \in {"line", "line begun", "ended"})
               => 1 \in entries' /\ synced'[1] = Len(s)
         /\ clean' => Len(s) = n + seq' /\ Len(oracle') = seq' /\ AllWhole(s, Len(s))
  BY <1>3 DEF s, t, RunAt, RunOnDisk, Placed, Within, OpOf
<1>12. oracle' = oracle => (oracle' # <<>> => 1 \in entries' /\ n + Len(oracle') <= synced'[1])
  BY <1>0, <1>7, <1>10
<1>13. (1 \in entries /\ synced[1] = Len(s)) => 1 \in entries' /\ synced'[1] = Len(s)
  BY <1>2, <1>7
<1>14. CASE Quiet
  <2>1. UNCHANGED <<seq, oracle, clean, base>>
    BY <1>14 DEF Quiet
  <2>2. /\ step' \in {"loop", "ending", "ended"} => step \in {"loop", "ending", "ended"}
        /\ step' \in Written => step \in Written
        /\ step' \in {"line", "line begun", "ended"} => step \in {"line", "line begun", "ended"}
        /\ step' \notin Off => step \notin Off
    BY <1>14 DEF Quiet, Off, Written
  <2>3. (step' \notin Off \/ oracle' # <<>> \/ base' = <<>>)
          => Within(n, s, Len(oracle'), seq', base')
    BY <1>8, <2>1, <2>2
  <2>4. (clean' \/ step' \in {"line", "line begun", "ended"})
          => 1 \in entries' /\ synced'[1] = Len(s)
    BY <1>9, <1>13, <2>1, <2>2
  <2> QED BY <1>8, <1>9, <1>12, <2>1, <2>2, <2>3, <2>4
<1>15. ASSUME step \notin Off \cup {"line begun"} PROVE Len(oracle) = seq
  BY <1>15 DEF HarnessInv, OracleInv
<1>16. ASSUME step \in Written \cup {"loop", "ending", "ended"}
       PROVE  intact /\ step \notin Off /\ report.tail_truncated = 0
  BY <1>16 DEF HarnessInv, StepInv, Off, Written
<1>17. CASE WorkloadFsync \/ StoreError
  <2>1. UNCHANGED <<seq, oracle, clean, base>>
    BY <1>17 DEF WorkloadFsync, StoreError
  <2>2. /\ step' \in {"loop", "ending", "ended"} => step = "loop"
        /\ step' \in Written => step = "appended"
        /\ step' \notin {"line", "line begun", "ended"} /\ step \notin Off
    BY <1>17 DEF WorkloadFsync, StoreError, Off, Written
  <2>3. /\ step' \in {"loop", "ending", "ended"} => Len(s) = n + seq'
        /\ step' \in Written => Len(s) = n + seq' + 1
    BY <1>8, <2>1, <2>2 DEF Written
  <2>4. Within(n, s, Len(oracle'), seq', base')
    BY <1>8, <2>1, <2>2
  <2>5. (clean' \/ step' \in {"line", "line begun", "ended"})
          => 1 \in entries' /\ synced'[1] = Len(s)
    BY <1>9, <1>13, <2>1, <2>2
  <2> QED BY <1>8, <1>9, <1>12, <2>1, <2>3, <2>4, <2>5
<1>18. CASE WorkloadFsynced
  <2>1. UNCHANGED <<seq, oracle, clean, base>>
    BY <1>18 DEF WorkloadFsynced
  <2>2. /\ pc = "syncing" /\ entries' = DOMAIN files /\ synced' = synced
        /\ (step = "fsyncing" /\ step' = "line") \/ (step = "ending" /\ step' = "ended")
    BY <1>18 DEF WorkloadFsynced, FsyncFinish
  <2>3. active = 1 /\ 1 \in DOMAIN files /\ synced[1] = Len(s)
    <3>1. active \in DOMAIN files
      BY <1>1, <2>2 DEF ShapeInv, Opened
    <3>2. synced[active] = Len(ActiveFile)
      BY <2>2 DEF LogInv, SyncedInv
    <3> QED BY <1>1, <3>1, <3>2 DEF s, FramesOf, ActiveFile
  <2>4. /\ step' \in {"loop", "ending", "ended"} => Len(s) = n + seq'
        /\ step' \in Written => Len(s) = n + seq' + 1
    BY <1>8, <2>1, <2>2 DEF Written
  <2>5. Within(n, s, Len(oracle'), seq', base')
    BY <1>8, <2>1, <2>2 DEF Off
  <2> QED BY <1>8, <1>9, <1>12, <2>1, <2>2, <2>3, <2>4, <2>5
<1>19. CASE LineBegin
  <2>1. UNCHANGED <<clean, base>> /\ step = "line" /\ step' = "line begun"
    BY <1>19 DEF LineBegin
  <2>2. seq' = seq
    BY <1>19 DEF LineBegin
  <2>3. Len(oracle') = seq + 1
    BY <2>1, <2>2 DEF OracleInv
  <2>4. ~clean /\ pc = "idle" /\ ~poisoned
    BY <2>1 DEF HarnessInv, StepInv, Off
  <2>5. Len(s) = n + seq + 1 /\ Len(oracle) = seq /\ 1 \in entries /\ synced[1] = Len(s)
    BY <1>8, <1>9, <1>15, <2>1 DEF Off, Written
  <2>6. AllWhole(s, Len(s))
    BY <1>1, <1>16, <2>1, <2>4, WholeSoFar DEF Opened, Written, s
  <2>7. Within(n, s, Len(oracle), seq, base)
    BY <1>8, <2>1 DEF Off
  <2>8. Within(n, s, seq + 1, seq, base)
    BY <1>2, <1>5, <2>5, <2>6, <2>7 DEF Within
  <2>9. 1 \in entries' /\ synced'[1] = Len(s)
    BY <1>13, <2>5
  <2>10. n + Len(oracle') <= synced'[1]
    BY <1>5, <2>3, <2>5, <2>9
  <2>11. Placed(n, s, seq') /\ Len(s) = n + seq' + 1 /\ Within(n, s, Len(oracle'), seq', base')
    BY <1>8, <2>1, <2>2, <2>3, <2>5, <2>8
  <2>12. step' \notin {"loop", "ending", "ended"} /\ (base' = <<>> => n = 0) /\ ~clean'
    BY <1>8, <2>1, <2>4
  <2> QED BY <2>9, <2>10, <2>11, <2>12
<1>20. CASE LineFinish
  <2>1. UNCHANGED <<clean, base>> /\ step = "line begun" /\ step' = "loop"
    BY <1>20 DEF LineFinish
  <2>2. seq' = seq + 1
    BY <1>20 DEF LineFinish
  <2>3. Len(oracle') = seq'
    BY <2>1 DEF OracleInv, Off
  <2>4. ~clean
    BY <2>1 DEF HarnessInv, StepInv, Off
  <2>5. Len(s) = n + seq + 1 /\ 1 \in entries /\ synced[1] = Len(s)
    BY <1>8, <1>9, <2>1 DEF Written
  <2>6. Len(oracle) = seq + 1
    BY <2>1 DEF HarnessInv, OracleInv
  <2>7. Within(n, s, seq + 1, seq, base)
    BY <1>8, <2>1, <2>6 DEF Off
  <2>8. Within(n, s, seq', seq', base')
    <3>1. Within(n, s, seq + 1, seq + 1, base)
      BY <1>2, <1>5, <2>5, <2>7 DEF Within
    <3> QED BY <2>1, <2>2, <3>1
  <2>9. 1 \in entries' /\ synced'[1] = Len(s)
    BY <1>13, <2>5
  <2>10. n + Len(oracle') <= synced'[1] /\ Len(s) = n + seq'
    BY <1>5, <2>2, <2>3, <2>5, <2>9
  <2>11. Placed(n, s, seq')
    BY <1>2, <1>5, <1>8, <2>2, <2>5 DEF Placed
  <2>12. step' \notin Written /\ (base' = <<>> => n = 0) /\ ~clean'
    BY <1>8, <2>1, <2>4 DEF Written
  <2> QED BY <2>3, <2>8, <2>9, <2>10, <2>11, <2>12
<1>21. CASE WorkloadEnd
  <2>1. UNCHANGED <<seq, oracle, base>> /\ step = "ended" /\ step' = "off"
    BY <1>21 DEF WorkloadEnd
  <2>2. Len(s) = n + seq /\ Len(oracle) = seq /\ 1 \in entries /\ synced[1] = Len(s)
    BY <1>8, <1>9, <1>15, <2>1 DEF Off
  <2>3. Within(n, s, Len(oracle), seq, base)
    BY <1>8, <2>1 DEF Off
  <2>4. AllWhole(s, Len(s))
    BY <2>2, <2>3 DEF Within
  <2>5. step' \notin Written \cup {"loop", "ending", "ended"}
    BY <2>1 DEF Written
  <2>6. 1 \in entries' /\ synced'[1] = Len(s)
    BY <1>13, <2>2
  <2> QED BY <1>8, <1>12, <2>1, <2>2, <2>3, <2>4, <2>5, <2>6
<1> QED BY <1>14, <1>17, <1>18, <1>19, <1>20, <1>21, QuietSteps

\* The two steps of an append, of a workload that found no damage.
LEMMA RunAppends ==
  ASSUME Platform, LogInv, LogInv', HarnessInv, intact, [HarnessNext]_hvars,
         (\E cut \in Cuts : WorkloadAppend(cut)) \/ WorkloadAppended,
         NEW n \in Nat, RunAt(n, FramesOf(files)), RunOnDisk(n, FramesOf(files))
  PROVE  (RunAt(n, FramesOf(files)) /\ RunOnDisk(n, FramesOf(files)))'
<1> DEFINE s == FramesOf(files)
           t == FramesOf(files')
<1>1. ShapeInv /\ ShapeInv' /\ DOMAIN files \subseteq {1}
  BY DEF LogInv, HarnessInv
<1>2. s \in Seq(Chunk) /\ Len(s) \in Nat /\ t \in Seq(Chunk) /\ Len(t) \in Nat
  BY <1>1, FramesType, FramesTypeNext
<1>3. seq \in Nat
  <2>1. seq \in 0 .. Ops
    BY DEF HarnessInv, StepInv
  <2> QED BY <2>1, OpsNat
<1>4. UNCHANGED <<seq, oracle, clean, base, synced, entries>>
  BY DEF WorkloadAppend, WorkloadAppended, StoreAppend, StoreAppended, AppendBegin, AppendFinish
<1>5. step \in {"loop", "appending"} /\ step' \in {"appending", "appended", "failed"}
  BY DEF WorkloadAppend, WorkloadAppended
<1>6. ~clean
  BY <1>5 DEF HarnessInv, StepInv, Off
<1>7. Len(oracle) = seq
  BY <1>5 DEF HarnessInv, OracleInv, Off
<1>8. /\ Placed(n, s, seq)
      /\ step = "loop" => Len(s) = n + seq
      /\ step = "appending" => Len(s) = n + seq + 1
      /\ base = <<>> => n = 0
      /\ Within(n, s, seq, seq, base)
  BY <1>5, <1>7 DEF RunAt, Off, Written
<1>9. /\ Len(t) = n + seq + 1
      /\ \A i \in 1 .. (n + seq) : t[i] = s[i]
      /\ Placed(n, t, seq)
  <2>1. ASSUME NEW cut \in Cuts, WorkloadAppend(cut)
        PROVE  /\ Len(t) = n + seq + 1
               /\ \A i \in 1 .. (n + seq) : t[i] = s[i]
               /\ Placed(n, t, seq)
    <3>1. Len(s) = n + seq
      BY <1>8, <2>1 DEF WorkloadAppend
    <3>2. /\ Len(t) = Len(s) + 1
          /\ \A i \in 1 .. Len(s) : t[i] = s[i]
          /\ t[Len(s) + 1].data = OpOf(seq)
      BY <1>1, <2>1, FramesAppend
    <3> HIDE DEF s, t
    <3>3. ASSUME NEW j \in 1 .. (seq + 1), n + j <= Len(t) PROVE t[n + j].data = OpOf(j - 1)
      <4>1. CASE j <= seq
        <5>1. n + j \in 1 .. Len(s) /\ s[n + j].data = OpOf(j - 1)
          BY <1>3, <1>8, <3>1, <4>1 DEF Placed
        <5> QED BY <3>2, <5>1
      <4>2. CASE j = seq + 1
        <5>1. n + j = Len(s) + 1 /\ j - 1 = seq
          BY <1>3, <3>1, <4>2
        <5> QED BY <3>2, <5>1
      <4> QED BY <1>3, <4>1, <4>2
    <3> QED BY <1>3, <3>1, <3>2, <3>3 DEF Placed
  <2>2. ASSUME WorkloadAppended
        PROVE  /\ Len(t) = n + seq + 1
               /\ \A i \in 1 .. (n + seq) : t[i] = s[i]
               /\ Placed(n, t, seq)
    <3>1. Len(s) = n + seq + 1
      BY <1>8, <2>2 DEF WorkloadAppended
    <3>2. /\ Len(t) = Len(s)
          /\ \A i \in 1 .. (Len(s) - 1) : t[i] = s[i]
          /\ \A i \in 1 .. Len(s) : t[i].data = s[i].data
      BY <1>1, <2>2, FramesAppended
    <3> HIDE DEF s, t
    <3>3. Placed(n, t, seq)
      BY <1>3, <1>8, <3>1, <3>2 DEF Placed
    <3> QED BY <1>3, <3>1, <3>2, <3>3
  <2> QED BY <2>1, <2>2
<1> HIDE DEF s, t
<1>10. Within(n, t, seq, seq, base)
  <2>1. seq <= seq /\ n + seq <= Len(t) /\ Len(t) <= n + seq + 1
    BY <1>2, <1>3, <1>9
  <2>2. Within(n, s, seq, seq, base) /\ \A i \in 1 .. (n + seq) : t[i] = s[i]
    BY <1>8, <1>9
  <2> QED BY <1>2, <1>3, <2>1, <2>2, WithinKept
<1>11. SUFFICES
         /\ Placed(n, t, seq')
         /\ step' \in {"loop", "ending", "ended"} => Len(t) = n + seq'
         /\ step' \in Written => Len(t) = n + seq' + 1
         /\ base' = <<>> => n = 0
         /\ Within(n, t, Len(oracle'), seq', base')
         /\ oracle' # <<>> => 1 \in entries' /\ n + Len(oracle') <= synced'[1]
         /\ step' \notin {"line", "line begun", "ended"} /\ ~clean'
  BY DEF s, t, RunAt, RunOnDisk, Placed, Within, OpOf
<1>12. oracle # <<>> => 1 \in entries /\ n + Len(oracle) <= synced[1]
  BY DEF RunOnDisk
<1> QED BY <1>4, <1>5, <1>6, <1>7, <1>8, <1>9, <1>10, <1>12

\* Power loss keeps what a line claims.
LEMMA RunPowerLoss ==
  ASSUME Platform, LogInv, LogInv', HarnessInv, OracleInv', intact, [HarnessNext]_hvars,
         HarnessPowerLoss,
         NEW n \in Nat, RunAt(n, FramesOf(files)), RunOnDisk(n, FramesOf(files))
  PROVE  (RunAt(n, FramesOf(files)) /\ RunOnDisk(n, FramesOf(files)))'
<1> DEFINE s == FramesOf(files)
           t == FramesOf(files')
<1>1. ShapeInv /\ ShapeInv' /\ DOMAIN files \subseteq {1}
  BY DEF LogInv, HarnessInv
<1>2. s \in Seq(Chunk) /\ Len(s) \in Nat /\ t \in Seq(Chunk) /\ Len(t) \in Nat
  BY <1>1, FramesType, FramesTypeNext
<1>3. seq \in Nat
  <2>1. seq \in 0 .. Ops
    BY DEF HarnessInv, StepInv
  <2> QED BY <2>1, OpsNat
<1>4. [Next]_vars
  BY <1>3, HarnessStepIsLogStep
<1>5. 1 \in entries => /\ 1 \in entries' /\ synced[1] \in Nat /\ synced'[1] \in Nat
                       /\ synced[1] <= synced'[1] /\ synced[1] <= Len(s) /\ synced'[1] <= Len(t)
                       /\ \A i \in 1 .. synced[1] : t[i] = s[i]
  BY <1>4, FramesOnDisk
<1>6. /\ Len(t) <= Len(s)
      /\ \A i \in 1 .. Len(t) : t[i].data = s[i].data
  BY <1>1, FramesPowerLoss
<1>7. UNCHANGED <<seq, clean, base>> /\ step' = "off"
  BY DEF HarnessPowerLoss
<1>8. oracle' = oracle \/ (step = "line begun" /\ oracle' = Front(oracle))
  BY DEF HarnessPowerLoss
<1>9. oracle \in Seq(Line) /\ oracle' \in Seq(Line) /\ Len(oracle) \in Nat /\ Len(oracle') \in Nat
  <2>1. oracle \in Seq(Line) /\ oracle' \in Seq(Line)
    BY DEF HarnessInv, OracleInv, Line, OpOf
  <2> QED BY <2>1
<1>10. Len(oracle') <= Len(oracle) /\ (oracle' # <<>> => oracle # <<>>)
  <2>1. CASE oracle' = oracle
    BY <1>9, <2>1
  <2>2. CASE step = "line begun" /\ oracle' = Front(oracle)
    <3>1. Len(oracle) = seq + 1
      BY <2>2 DEF HarnessInv, OracleInv
    <3>2. Len(oracle') = Len(oracle) - 1 /\ Len(oracle) > 0
      <4>1. Len(oracle) > 0
        BY <1>3, <3>1
      <4>2. Len(Front(oracle)) = Len(oracle) - 1
        BY <1>9, <4>1, FrontIs
      <4> QED BY <2>2, <4>1, <4>2
    <3>3. oracle # <<>>
      BY <3>2
    <3> QED BY <1>9, <3>2, <3>3
  <2> QED BY <1>8, <2>1, <2>2
<1> HIDE DEF s, t
<1>11. Placed(n, s, seq) /\ (base = <<>> => n = 0)
  BY DEF RunAt, s
<1>12. Placed(n, t, seq)
  BY <1>2, <1>3, <1>6, <1>11 DEF Placed
<1>13. oracle # <<>> => 1 \in entries /\ n + Len(oracle) <= synced[1]
  BY DEF RunOnDisk
<1>14. oracle' # <<>> => 1 \in entries' /\ n + Len(oracle') <= synced'[1]
  BY <1>5, <1>9, <1>10, <1>13
<1>15. ASSUME oracle' # <<>> \/ base' = <<>> PROVE Within(n, t, Len(oracle'), seq, base)
  <2>1. Within(n, s, Len(oracle), seq, base)
    BY <1>7, <1>10, <1>15 DEF RunAt, s
  <2>2. CASE oracle' # <<>>
    <3>1. n + Len(oracle') <= synced[1] /\ synced[1] <= Len(t) /\ synced[1] \in Nat
      BY <1>2, <1>5, <1>9, <1>10, <1>13, <2>2
    <3>2. Len(t) <= n + seq + 1
      BY <1>2, <1>3, <1>6, <2>1 DEF Within
    <3>3. \A i \in 1 .. (n + Len(oracle')) : t[i] = s[i]
      BY <1>5, <1>9, <1>10, <1>13, <2>2, <3>1
    <3>4. n + Len(oracle') <= Len(t)
      BY <1>2, <1>9, <3>1
    <3> QED BY <1>2, <1>3, <1>9, <1>10, <2>1, <3>2, <3>3, <3>4, WithinKept
  <2>3. CASE oracle' = <<>>
    <3>1. n = 0 /\ Len(oracle') = 0
      BY <1>7, <1>11, <1>15, <2>3
    <3>2. Len(t) <= n + seq + 1
      BY <1>2, <1>3, <1>6, <2>1 DEF Within
    <3> QED BY <1>2, <1>3, <1>9, <2>1, <3>1, <3>2, WithinKept
  <2> QED BY <2>2, <2>3
<1>16. ASSUME clean
       PROVE  /\ 1 \in entries' /\ synced'[1] = Len(t)
              /\ Len(t) = n + seq /\ Len(oracle') = seq /\ AllWhole(t, Len(t))
  <2>1. 1 \in entries /\ synced[1] = Len(s) /\ Len(s) = n + seq /\ Len(oracle) = seq
        /\ AllWhole(s, Len(s))
    BY <1>16 DEF RunOnDisk, s
  <2>2. step # "line begun"
    BY <1>16 DEF HarnessInv, StepInv, Off
  <2>3. oracle' = oracle
    BY <1>8, <2>2
  <2>4. 1 \in entries' /\ synced'[1] = Len(t) /\ Len(t) = Len(s)
    BY <1>2, <1>5, <1>6, <2>1
  <2>5. AllWhole(t, Len(t))
    BY <1>5, <2>1, <2>4 DEF AllWhole
  <2> QED BY <2>1, <2>3, <2>4, <2>5
<1>17. step' \in Off /\ step' \notin Written \cup {"loop", "ending", "ended"}
  BY <1>7 DEF Off, Written
<1>18. (RunAt(n, FramesOf(files)))'
  <2>1. /\ Placed(n, t, seq')
        /\ step' \notin {"loop", "ending", "ended"}
        /\ step' \notin Written
        /\ base' = <<>> => n = 0
        /\ (step' \notin Off \/ oracle' # <<>> \/ base' = <<>>)
              => Within(n, t, Len(oracle'), seq', base')
    BY <1>7, <1>11, <1>12, <1>15, <1>17
  <2> QED BY <2>1 DEF t, RunAt, Placed, Within, OpOf
<1>19. (RunOnDisk(n, FramesOf(files)))'
  BY <1>7, <1>14, <1>16 DEF t, RunOnDisk
<1> QED BY <1>18, <1>19

\* The run of the last workload is still where it was.
LEMMA RunStep ==
  ASSUME Platform, LogInv, LogInv', HarnessInv, OracleInv', [HarnessNext]_hvars
  PROVE  RunInv'
<1>1. SUFFICES ASSUME intact'
               PROVE  \E n \in Nat : (RunAt(n, FramesOf(files)) /\ RunOnDisk(n, FramesOf(files)))'
  BY DEF RunInv
<1>2. CASE WorkloadStart
  BY <1>1, <1>2 DEF WorkloadStart
<1>3. CASE WorkloadOpened
  <2>1. files' = files
    BY <1>3 DEF WorkloadOpened, DataWalOpen, OpenCreated, OpenExisting, disk
  <2>2. Len(FramesOf(files')) \in Nat
    BY <2>1, FramesType DEF LogInv
  <2> QED BY <1>1, <1>3, <2>2, RunOpened
<1>4. CASE ~WorkloadStart /\ ~WorkloadOpened
  <2>1. intact
    <3>1. CASE Reads
      BY <1>1, <1>4, <3>1, QuietSteps
         DEF WorkloadFsync, WorkloadFsynced, LineBegin, LineFinish, WorkloadEnd, StoreError, Quiet
    <3>2. CASE (\E cut \in Cuts : WorkloadAppend(cut)) \/ WorkloadAppended \/ HarnessPowerLoss
      BY <1>1, <3>2 DEF WorkloadAppend, WorkloadAppended, HarnessPowerLoss
    <3> QED BY <3>1, <3>2, HarnessSteps
  <2>2. PICK n \in Nat : RunAt(n, FramesOf(files)) /\ RunOnDisk(n, FramesOf(files))
    BY <2>1 DEF HarnessInv, RunInv
  <2> QED BY <1>4, <2>1, <2>2, HarnessSteps, RunReads, RunAppends, RunPowerLoss
<1> QED BY <1>2, <1>3, <1>4

\* The validator compares the store that it has just opened.
LEMMA ComparingStep ==
  ASSUME HarnessInv, [HarnessNext]_hvars
  PROVE  ComparingInv'
<1>1. SUFFICES ASSUME step' = "comparing" PROVE ComparingInv'
  BY DEF ComparingInv
<1>2. CASE Reopened
  <2>1. OpenScanned /\ files' = files
    BY <1>2 DEF Reopened, DataWalOpen, OpenCreated, OpenExisting, disk
  <2>2. wal' /\ map' = Rebuild(files) /\ kv' = Projection(files)
    BY <1>2 DEF Reopened, DataWalOpen, NoStore
  <2> QED BY <2>1, <2>2 DEF ComparingInv, OpenScanned
<1>3. CASE UNCHANGED hvars
  BY <1>3 DEF HarnessInv, ComparingInv, hvars, kvars, vars, disk, store, harness
<1>4. CASE ~Reopened /\ ~UNCHANGED hvars
  <2>1. CASE Reads
    <3>1. CASE OpenCreates
      BY <1>1, <3>1 DEF OpenCreates, Opens, harness
    <3>2. CASE ValidateStart
      BY <1>1, <3>2 DEF ValidateStart
    <3> QED BY <1>1, <1>4, <2>1, <3>1, <3>2
         DEF Reads, WorkloadStart, WorkloadOpened, WorkloadFsync, WorkloadFsynced, LineBegin,
             LineFinish, WorkloadEnd, StoreError, WorkloadFails, Inspected, InspectorDropped,
             Compared, OpenReturnsErr, HarnessKilled
  <2>2. CASE (\E cut \in Cuts : WorkloadAppend(cut)) \/ WorkloadAppended \/ HarnessPowerLoss
    BY <1>1, <2>2 DEF WorkloadAppend, WorkloadAppended, HarnessPowerLoss
  <2> QED BY <2>1, <2>2, HarnessSteps
<1> QED BY <1>2, <1>3, <1>4

LEMMA HarnessInvInit == HarnessInit => HarnessInv
<1> SUFFICES ASSUME HarnessInit PROVE HarnessInv
  OBVIOUS
<1>1. files = <<>> /\ pc = "closed" /\ step = "off" /\ seq = 0 /\ oracle = <<>>
  BY DEF HarnessInit, DataWalInit, Init
<1>2. intact = FALSE /\ clean = FALSE
  BY DEF HarnessInit
<1>3. DOMAIN files \subseteq {1} /\ FramesOf(files) = <<>>
  BY <1>1 DEF FramesOf
<1>4. PairedOps(FramesOf(files))
  BY <1>3 DEF PairedOps
<1>5. StepInv /\ LastWritten(FramesOf(files))
  <2>1. seq \in 0 .. Ops
    BY <1>1, OpsNat
  <2>2. StepInv
    BY <1>1, <1>2, <2>1 DEF StepInv, Opened, Off, Written
  <2> QED BY <1>1, <2>2 DEF LastWritten, Written
<1>6. OracleInv
  <2>1. oracle \in Seq(Line) /\ Len(oracle) = 0
    BY <1>1
  <2>2. ClaimsInOrder(oracle) /\ Parses(oracle, seq)
    BY <1>1, <2>1 DEF ClaimsInOrder, Parses
  <2> QED BY <1>1, <2>1, <2>2 DEF OracleInv, Off
<1> QED BY <1>1, <1>2, <1>3, <1>4, <1>5, <1>6 DEF HarnessInv, RunInv, ComparingInv

\* The invariant holds throughout.
LEMMA HarnessInvariant ==
  ASSUME Platform PROVE HarnessSpec => [](LogInv /\ HarnessInv)
<1>1. HarnessInit => LogInv /\ HarnessInv
  BY HarnessInvInit, LogInvInit DEF HarnessInit, DataWalInit
<1>2. LogInv /\ HarnessInv /\ [HarnessNext]_hvars => (LogInv /\ HarnessInv)'
  <2> SUFFICES ASSUME LogInv, HarnessInv, [HarnessNext]_hvars PROVE (LogInv /\ HarnessInv)'
    OBVIOUS
  <2>1. seq \in Nat
    <3>1. seq \in 0 .. Ops
      BY DEF HarnessInv, StepInv
    <3> QED BY <3>1, OpsNat
  <2>2. LogInv'
    BY <2>1, HarnessStepIsLogStep, LogInvStep
  <2>3. OracleInv'
    BY OracleStep
  <2>4. RunInv'
    BY <2>2, <2>3, RunStep
  <2>5. DOMAIN files' \subseteq {1} /\ PairedOps(FramesOf(files))'
    BY <2>2, PairedStep DEF PairedOps
  <2> QED BY <2>2, <2>3, <2>4, <2>5, LastWrittenStep, StepStep, ComparingStep DEF HarnessInv
<1> QED BY <1>1, <1>2, PTL DEF HarnessSpec

------------------------------------------------------------------------------
(* The properties *)

\* The lines claim the operations from index 0 on.
LEMMA ClaimedIs ==
  ASSUME HarnessInv
  PROVE  /\ Claimed \in Seq({OpOf(i) : i \in 0 .. Ops})
         /\ Len(Claimed) = Len(oracle)
         /\ \A j \in 1 .. Len(oracle) : Claimed[j] = OpOf(j - 1)
<1> DEFINE S == {OpOf(i) : i \in 0 .. Ops}
           w == Len(oracle)
<1>1. oracle \in Seq(Line) /\ ClaimsInOrder(oracle) /\ w \in Nat
  <2>1. oracle \in Seq(Line) /\ ClaimsInOrder(oracle)
    BY DEF HarnessInv, OracleInv
  <2> QED BY <2>1
<1>2. ASSUME NEW j \in 1 .. w PROVE oracle[j].op \in S
  <2>1. oracle[j] \in Line
    BY <1>1
  <2> QED BY <2>1 DEF Line
<1>3. \A j \in 1 .. w : oracle[j].op = OpOf(j - 1)
  BY <1>1 DEF ClaimsInOrder
<1>4. Claimed = [j \in 1 .. w |-> oracle[j].op]
  BY DEF Claimed
<1> HIDE DEF S, w
<1>5. Claimed \in Seq(S) /\ Len(Claimed) = w
  BY <1>1, <1>2, <1>4
<1>6. \A j \in 1 .. w : Claimed[j] = OpOf(j - 1)
  BY <1>3, <1>4
<1> QED BY <1>5, <1>6 DEF S, w

\* The files have what the lines claim, or one more operation, and nothing
\* else after what the workload found.
LEMMA ProjectionMatches ==
  ASSUME Platform, LogInv, HarnessInv, intact, oracle # <<>> \/ base = <<>>
  PROVE  \/ Projection(files) = Replay(base, Claimed)
         \/ ~clean /\ Projection(files) = Replay(base, Append(Claimed, OpOf(seq)))
<1> DEFINE s == FramesOf(files)
           w == Len(oracle)
<1>1. /\ ShapeInv /\ DOMAIN files \subseteq {1} /\ PairedOps(s)
      /\ oracle \in Seq(Line) /\ ClaimsInOrder(oracle)
  BY DEF LogInv, HarnessInv, OracleInv
<1>2. s \in Seq(Chunk) /\ Len(s) \in Nat
  BY <1>1, FramesType
<1>3. seq \in Nat
  <2>1. seq \in 0 .. Ops
    BY DEF HarnessInv, StepInv
  <2> QED BY <2>1, OpsNat
<1>4. w \in Nat /\ w \in {seq, seq + 1}
  <2>1. w \in {seq, seq + 1}
    BY DEF HarnessInv, OracleInv
  <2> QED BY <1>3, <2>1
<1>5. PICK n \in Nat : RunAt(n, s) /\ RunOnDisk(n, s)
  BY DEF HarnessInv, RunInv
<1>6. Placed(n, s, seq) /\ Within(n, s, w, seq, base)
  BY <1>5 DEF RunAt
<1>7. Listed(files)
  BY <1>1, ListedIs DEF LogInv, ShapeInv, TypeOK, RotationInv
<1>8. Claimed \in Seq({OpOf(i) : i \in 0 .. Ops}) /\ Len(Claimed) = w
      /\ \A j \in 1 .. w : Claimed[j] = OpOf(j - 1)
  BY ClaimedIs
<1> HIDE DEF s, w
<1>9. n + w \in 0 .. Len(s) /\ AllWhole(s, n + w) /\ Len(s) <= n + seq + 1
  BY <1>2, <1>4, <1>6 DEF Within
<1>10. PICK m \in (n + w) .. Len(s) : Replayed(s) = 1 .. m
  BY <1>2, <1>9, ReplayedPart
<1>11. m \in 0 .. Len(s) /\ m \in Nat
  BY <1>2, <1>4, <1>10
<1>12. Projection(files) = Replay(<<>>, OpsOf(s, m))
  <2>1. \A i \in 1 .. m : s[i].data.type # "Raw"
    BY <1>1, <1>2, <1>11 DEF PairedOps
  <2> QED BY <1>1, <1>7, <1>10, <1>11, <2>1, ProjectionReplays DEF s
<1>13. base = Replay(<<>>, OpsOf(s, n)) /\ n \in 0 .. Len(s)
  BY <1>2, <1>4, <1>6 DEF Within
<1>14. Len(OpsOf(s, n)) = n /\ \A i \in 1 .. n : OpsOf(s, n)[i] = s[i].data
  BY <1>2, <1>13, OpsOfIs
<1>15. Len(OpsOf(s, m)) = m /\ \A i \in 1 .. m : OpsOf(s, m)[i] = s[i].data
  BY <1>2, <1>11, OpsOfIs
<1>16. \A j \in 1 .. (seq + 1) : n + j <= Len(s) => s[n + j].data = OpOf(j - 1)
  BY <1>6 DEF Placed
\* Any b of the right length with these operations replays to the projection.
<1>17. ASSUME NEW b, Len(b) \in Nat, m = n + Len(b), \A j \in 1 .. Len(b) : b[j] = OpOf(j - 1)
       PROVE  Projection(files) = Replay(base, b)
  <2>1. Len(b) <= seq + 1
    BY <1>2, <1>3, <1>9, <1>10, <1>17
  <2>2. ASSUME NEW j \in 1 .. Len(b) PROVE OpsOf(s, m)[n + j] = b[j]
    <3>1. n + j \in 1 .. m /\ j \in 1 .. (seq + 1) /\ n + j <= Len(s)
      BY <1>2, <1>3, <1>11, <1>17, <2>1
    <3>2. OpsOf(s, m)[n + j] = s[n + j].data /\ s[n + j].data = OpOf(j - 1)
      BY <1>15, <1>16, <3>1
    <3> QED BY <1>17, <3>2
  <2>3. \A i \in 1 .. n : OpsOf(s, m)[i] = OpsOf(s, n)[i]
    <3>1. \A i \in 1 .. n : i \in 1 .. m
      BY <1>17
    <3> QED BY <1>14, <1>15, <3>1
  <2> DEFINE a == OpsOf(s, n)
             c == OpsOf(s, m)
  <2>4. /\ Len(a) = n /\ Len(c) = Len(a) + Len(b)
        /\ \A i \in 1 .. Len(a) : c[i] = a[i]
        /\ \A j \in 1 .. Len(b) : c[Len(a) + j] = b[j]
    BY <1>14, <1>15, <1>17, <2>2, <2>3
  <2>5. Joins(c, a, b)
    <3>1. Len(a) \in Nat
      BY <2>4
    <3> HIDE DEF a, c
    <3> QED BY <1>17, <2>4, <3>1 DEF Joins
  <2> HIDE DEF a, c
  <2>6. Replay(Replay(<<>>, a), b) = Replay(<<>>, c)
    BY <2>5, ReplayTwice
  <2> QED BY <1>12, <1>13, <2>6 DEF a, c
<1>18. CASE m = n + w
  BY <1>4, <1>8, <1>17, <1>18
<1>19. CASE m # n + w
  <2>1. m = n + seq + 1 /\ w = seq /\ Len(s) = n + seq + 1
    BY <1>2, <1>3, <1>4, <1>9, <1>10, <1>19
  <2>2. ~clean
    <3>1. SUFFICES ASSUME clean PROVE FALSE
      OBVIOUS
    <3>2. Len(s) = n + seq
      BY <1>5, <3>1 DEF RunOnDisk
    <3> QED BY <1>3, <2>1, <3>2
  <2> DEFINE b == Append(Claimed, OpOf(seq))
  <2>3. seq \in 0 .. Ops
    BY DEF HarnessInv, StepInv
  <2>4. Len(b) = seq + 1 /\ \A j \in 1 .. (seq + 1) : b[j] = OpOf(j - 1)
    <3> DEFINE S == {OpOf(i) : i \in 0 .. Ops}
               op == OpOf(seq)
    <3>1. op \in S /\ Claimed \in Seq(S) /\ Len(Claimed) = seq
      BY <1>8, <2>1, <2>3
    <3> HIDE DEF S, op
    <3>2. Len(b) = seq + 1 /\ (\A j \in 1 .. seq : b[j] = Claimed[j]) /\ b[seq + 1] = op
      BY <1>3, <3>1 DEF op
    <3>3. ASSUME NEW j \in 1 .. (seq + 1) PROVE b[j] = OpOf(j - 1)
      <4>1. CASE j \in 1 .. seq
        BY <1>8, <2>1, <3>2, <4>1
      <4>2. CASE j \notin 1 .. seq
        <5>1. j = seq + 1 /\ j - 1 = seq
          BY <1>3, <4>2
        <5> QED BY <3>2, <5>1 DEF op
      <4> QED BY <4>1, <4>2
    <3> QED BY <3>2, <3>3
  <2> HIDE DEF b
  <2>5. Projection(files) = Replay(base, b)
    <3>1. Len(b) \in Nat /\ m = n + Len(b)
      BY <1>3, <2>1, <2>4
    <3> QED BY <1>17, <2>4, <3>1
  <2> QED BY <2>2, <2>5 DEF b
<1> QED BY <1>18, <1>19

(***************************************************************************)
(* Once a workload has opened its store without a discarded tail, what its *)
(* oracle says is in the store, whatever fails: no line claims what is not *)
(* durable, and the store is ahead of the lines by one operation at most.  *)
(***************************************************************************)
THEOREM OracleIsDurable ==
  ASSUME Platform PROVE HarnessSpec => []StoreMatchesOracle
<1>1. LogInv /\ HarnessInv => StoreMatchesOracle
  BY ProjectionMatches DEF StoreMatchesOracle, Begun
<1> QED BY <1>1, HarnessInvariant, PTL

\* What is known of a comparison: the store has the keys of the oracle with
\* its values, or lacks some of them, when it is accepted, and only then.
LEMMA JudgementIs ==
  ASSUME Platform, LogInv, HarnessInv, step = "comparing", NEW sample
  PROVE  LET P == Projection(files)
             live == OracleLive
         IN  /\ Judgement(sample) \in {"extras", "error", "ok", "differs"}
             /\ Judgement(sample) = "ok" /\ sample > 0 =>
                   DOMAIN P \subseteq DOMAIN live /\ \A k \in DOMAIN P : P[k] \in {live[k], None}
             /\ (DOMAIN P \subseteq DOMAIN live /\ \A k \in DOMAIN P : P[k] = live[k]) =>
                   Judgement(sample) \in {"ok", "error"}
<1> DEFINE P == Projection(files)
           live == OracleLive
<1>1. map = Rebuild(files) /\ kv = P /\ ShapeInv
  BY DEF HarnessInv, ComparingInv, LogInv
<1>2. Listed(files)
  BY ListedIs DEF LogInv, ShapeInv, TypeOK, RotationInv
<1>3. DOMAIN map = LiveKeys(files) /\ DOMAIN P = LiveKeys(files)
  BY <1>1 DEF Rebuild, Projection
<1>4. ASSUME NEW k \in DOMAIN P PROVE Get(k) = P[k]
  <2>1. EntryHolds(k)
    BY <1>1, <1>2, <1>3, RebuiltEntries DEF EntryHolds
  <2> QED BY <1>1, <1>3, <2>1, EntryReadBack DEF Get
<1>5. ASSUME NEW k, k \notin DOMAIN P PROVE Get(k) = None
  BY <1>3, <1>5 DEF Get
<1>6. Extras = DOMAIN P \ DOMAIN live
  BY <1>3 DEF Extras
<1>7. ASSUME NEW k \in DOMAIN live
      PROVE  Tolerated(k) <=> (k \in DOMAIN P => P[k] \in {live[k], None})
  <2>1. CASE k \in DOMAIN P
    BY <1>4, <2>1 DEF Tolerated
  <2>2. CASE k \notin DOMAIN P
    BY <1>5, <2>2 DEF Tolerated
  <2> QED BY <2>1, <2>2
<1> HIDE DEF P
<1>8. Judgement(sample) \in {"extras", "error", "ok", "differs"}
  BY DEF Judgement
<1>9. ASSUME Judgement(sample) = "ok", sample > 0
      PROVE  DOMAIN P \subseteq DOMAIN live /\ \A k \in DOMAIN P : P[k] \in {live[k], None}
  <2>1. Extras = {} /\ \A k \in DOMAIN live : Tolerated(k)
    BY <1>9 DEF Judgement
  <2>2. DOMAIN P \subseteq DOMAIN live
    BY <1>6, <2>1
  <2> QED BY <1>7, <2>1, <2>2
<1>10. ASSUME DOMAIN P \subseteq DOMAIN live, \A k \in DOMAIN P : P[k] = live[k]
       PROVE  Judgement(sample) \in {"ok", "error"}
  <2>1. Extras = {}
    BY <1>6, <1>10
  <2>2. \A k \in DOMAIN live : Tolerated(k)
    BY <1>7, <1>10
  <2> QED BY <2>1, <2>2 DEF Judgement
<1> QED BY <1>8, <1>9, <1>10 DEF P

\* What a verdict may be, of the files and the oracle as they are.
Explained(v, n) ==
    intact /\ base = <<>> =>
        /\ clean => v \in {"none", "ok", "error"}
        /\ v = "ok" /\ n > 0 =>
              \/ Projection(files) = Replay(<<>>, Claimed)
              \/ /\ OpOf(seq).type = "Delete"
                 /\ Projection(files) = Replay(<<>>, Append(Claimed, OpOf(seq)))
        /\ v \in {"extras", "differs"} =>
              /\ ~clean
              /\ OpOf(seq).type = "Put"
              /\ Projection(files) = Replay(<<>>, Append(Claimed, OpOf(seq)))

LEMMA ExplainedIs == Explained(verdict, sampled) <=> AcceptsCleanRun /\ VerdictExplained
BY DEF Explained, AcceptsCleanRun, VerdictExplained

\* The verdict of a comparison is explained.
LEMMA ComparisonExplained ==
  ASSUME Platform, LogInv, HarnessInv, step = "comparing", NEW sample
  PROVE  Explained(Judgement(sample), sample)
<1>1. SUFFICES ASSUME intact, base = <<>> PROVE Explained(Judgement(sample), sample)
  BY DEF Explained
<1> DEFINE P == Projection(files)
           live == Replay(<<>>, Claimed)
           op == OpOf(seq)
           ahead == Replay(<<>>, Append(Claimed, op))
           J == Judgement(sample)
<1>2. /\ J \in {"extras", "error", "ok", "differs"}
      /\ J = "ok" /\ sample > 0 =>
            DOMAIN P \subseteq DOMAIN live /\ \A k \in DOMAIN P : P[k] \in {live[k], None}
      /\ (DOMAIN P \subseteq DOMAIN live /\ \A k \in DOMAIN P : P[k] = live[k]) =>
            J \in {"ok", "error"}
  BY JudgementIs DEF OracleLive
<1>3. P = live \/ (~clean /\ P = ahead)
  BY <1>1, ProjectionMatches
<1>4. seq \in 0 .. Ops
  BY DEF HarnessInv, StepInv
<1>5. op.type \in {"Put", "Delete"} /\ op.key \in Keys /\ op.value # None
  BY <1>4, OpOfIs, HarnessConstants
<1>6. ahead = IF op.type = "Put" THEN With(live, op.key, op.value) ELSE Without(live, op.key)
  <2> DEFINE S == {OpOf(i) : i \in 0 .. Ops}
  <2>1. Claimed \in Seq(S)
    BY ClaimedIs
  <2>2. op \in S
    BY <1>4
  <2> HIDE DEF S, op
  <2> QED BY <1>5, <2>1, <2>2, ReplayAppend
<1>7. live = [k \in DOMAIN live |-> live[k]]
  BY ReplayIsFunction
<1> HIDE DEF P, live, op, ahead, J
<1>8. CASE P = live
  BY <1>2, <1>8 DEF Explained, J, P, live
<1>9. CASE P # live /\ op.type = "Delete"
  <2>1. P = Without(live, op.key) /\ ~clean /\ P = ahead
    BY <1>3, <1>6, <1>9
  <2>2. J \in {"ok", "error"}
    BY <1>2, <2>1 DEF Without
  <2> QED BY <1>9, <2>1, <2>2 DEF Explained, J, P, live, ahead, op
<1>10. CASE P # live /\ op.type = "Put"
  <2>1. P = With(live, op.key, op.value) /\ ~clean /\ P = ahead
    BY <1>3, <1>6, <1>10
  <2>2. ~(J = "ok" /\ sample > 0)
    <3>1. SUFFICES ASSUME J = "ok", sample > 0 PROVE FALSE
      OBVIOUS
    <3>2. op.key \in DOMAIN P /\ P[op.key] = op.value
      BY <2>1 DEF With
    <3>3. op.key \in DOMAIN live /\ op.value = live[op.key]
      BY <1>2, <1>5, <3>1, <3>2
    <3>4. P = [k \in DOMAIN live |-> live[k]]
      BY <2>1, <3>3 DEF With
    <3> QED BY <1>7, <1>10, <3>4
  <2> QED BY <1>2, <1>10, <2>1, <2>2 DEF Explained, J, P, live, ahead, op
<1> QED BY <1>5, <1>8, <1>9, <1>10

\* The steps that do not write leave what a scan finds as it is.
LEMMA ProjectionSame ==
  ASSUME Platform, LogInv, LogInv', DOMAIN files \subseteq {1}, Reads
  PROVE  Projection(files') = Projection(files)
<1>1. FramesOf(files') = FramesOf(files) /\ DOMAIN files' \subseteq {1}
  BY FramesSame DEF LogInv
<1>2. Listed(files) /\ Listed(files')
  BY FilesListed
<1>3. Replayed(<<>>) = {}
  BY DEF Replayed
<1>4. ReplayedIn(files, files')
  <2>1. ASSUME NEW id \in DOMAIN files, NEW i \in Replayed(files[id])
        PROVE  id \in DOMAIN files' /\ files'[id] = files[id]
    BY <1>1, <1>3 DEF FramesOf
  <2> QED BY <2>1 DEF ReplayedIn
<1>5. ReplayedIn(files', files)
  <2>1. ASSUME NEW id \in DOMAIN files', NEW i \in Replayed(files'[id])
        PROVE  id \in DOMAIN files /\ files'[id] = files[id]
    BY <1>1, <1>3 DEF FramesOf
  <2> QED BY <2>1 DEF ReplayedIn
<1> QED BY <1>2, <1>4, <1>5, SameRebuild

\* After a clean run every line parses, and the store opens.
LEMMA CleanRunOpens ==
  ASSUME LogInv, HarnessInv, clean, intact
  PROVE  (\A i \in 1 .. Len(oracle) : oracle[i].parses) /\ ScanOk(files)
<1> DEFINE s == FramesOf(files)
<1>1. Parses(oracle, seq) /\ DOMAIN files \subseteq {1} /\ ShapeInv
  BY DEF HarnessInv, OracleInv, LogInv
<1>2. PICK n \in Nat : RunOnDisk(n, s)
  BY DEF HarnessInv, RunInv
<1>3. Len(oracle) = seq /\ AllWhole(s, Len(s))
  BY <1>2 DEF RunOnDisk
<1>4. \A i \in 1 .. Len(oracle) : oracle[i].parses
  BY <1>1, <1>3 DEF Parses
<1>5. ScanOk(files)
  <2> SUFFICES ASSUME NEW id \in ListSegmentIds(files), NEW last
               PROVE  ScanSegmentOk(files[id], last)
    BY DEF ScanOk
  <2>1. files[id] = s /\ s \in Seq(Chunk)
    BY <1>1, FramesType DEF ListSegmentIds, FramesOf
  <2> HIDE DEF s
  <2>2. \A i \in 1 .. Len(s) : DecodeNext(s, i) = "Ok"
    BY <1>3, <2>1, DecodeOk DEF AllWhole
  <2> QED BY <2>1, <2>2 DEF ScanSegmentOk
<1> QED BY <1>4, <1>5

\* Every verdict is explained, after every step too.
LEMMA ExplainedStep ==
  ASSUME Platform, LogInv, HarnessInv, Explained(verdict, sampled), LogInv', HarnessInv',
         [HarnessNext]_hvars
  PROVE  Explained(verdict, sampled)'
<1>1. Explained("none", sampled)' /\ Explained("error", sampled)'
  BY DEF Explained
<1>2. CASE step \notin Off \/ step' \notin Off
  <2>1. CASE step' \notin Off
    BY <1>1, <2>1 DEF HarnessInv, StepInv
  <2>2. CASE step \notin Off
    <3>1. verdict = "none"
      BY <2>2 DEF HarnessInv, StepInv
    <3>2. verdict' = "none"
      <4>1. CASE Reads
        BY <2>2, <3>1, <4>1
           DEF Reads, WorkloadStart, OpenCreates, WorkloadOpened, WorkloadFsync, WorkloadFsynced,
               LineBegin, LineFinish, WorkloadEnd, StoreError, WorkloadFails, ValidateStart,
               Inspected, InspectorDropped, Reopened, Compared, OpenReturnsErr, HarnessKilled,
               Opens, Off, harness, hvars
      <4>2. CASE ~Reads
        BY <3>1, <4>2, HarnessSteps DEF WorkloadAppend, WorkloadAppended, HarnessPowerLoss
      <4> QED BY <4>1, <4>2
    <3> QED BY <1>1, <3>2
  <2> QED BY <1>2, <2>1, <2>2
<1>3. CASE step \in Off /\ step' \in Off
  <2>1. CASE HarnessPowerLoss
    BY <1>1, <2>1 DEF HarnessPowerLoss
  <2>2. CASE WorkloadStart
    BY <1>1, <2>2 DEF WorkloadStart
  <2>3. CASE ~HarnessPowerLoss /\ ~WorkloadStart
    <3>1. Reads
      BY <1>3, <2>3, HarnessSteps DEF WorkloadAppend, WorkloadAppended, Off
    <3>2. Projection(files') = Projection(files)
      BY <3>1, ProjectionSame DEF HarnessInv
    <3>3. UNCHANGED <<seq, oracle, clean, base, intact>>
      <4>1. Quiet
        BY <1>3, <2>3, <3>1, QuietSteps
           DEF WorkloadOpened, WorkloadFsync, WorkloadFsynced, LineBegin, LineFinish,
               WorkloadEnd, StoreError, Off
      <4> QED BY <4>1 DEF Quiet
    <3>4. \A v, n : Explained(v, n) => Explained(v, n)'
      BY <3>2, <3>3 DEF Explained, Claimed
    <3>5. CASE UNCHANGED <<verdict, sampled>>
      BY <3>4, <3>5
    <3>6. CASE ~UNCHANGED <<verdict, sampled>>
      <4>1. CASE \E sample \in Samples : Compared(sample)
        BY <3>4, <4>1, ComparisonExplained DEF Compared
      <4>2. CASE ValidateStart
        <5>1. verdict' = "unparsed" /\ \E i \in 1 .. Len(oracle) : ~oracle[i].parses
          BY <3>6, <4>2 DEF ValidateStart
        <5>2. ~(clean /\ intact)
          BY <5>1, CleanRunOpens
        <5> QED BY <3>4, <5>1, <5>2 DEF Explained
      <4>3. CASE OpenReturnsErr
        <5>1. CASE verdict' = "error"
          BY <1>1, <5>1
        <5>2. CASE verdict' # "error"
          <6>1. verdict' = "refused" /\ ~ScanOk(files)
            BY <3>6, <4>3, <5>2 DEF OpenReturnsErr, OpenRefused
          <6>2. ~(clean /\ intact)
            BY <6>1, CleanRunOpens
          <6> QED BY <3>4, <6>1, <6>2 DEF Explained
        <5> QED BY <5>1, <5>2
      <4> QED BY <1>3, <2>3, <3>1, <3>6, <4>1, <4>2, <4>3
           DEF Reads, OpenCreates, WorkloadOpened, WorkloadFsync, WorkloadFsynced,
               LineBegin, LineFinish, WorkloadEnd, StoreError, WorkloadFails,
               Inspected, InspectorDropped, Reopened, HarnessKilled, harness, hvars
    <3> QED BY <3>5, <3>6
  <2> QED BY <2>1, <2>2, <2>3
<1> QED BY <1>2, <1>3

LEMMA ExplainedAlways ==
  ASSUME Platform PROVE HarnessSpec => []Explained(verdict, sampled)
<1>1. HarnessInit => Explained(verdict, sampled)
  BY DEF HarnessInit, Explained
<1>2. /\ LogInv /\ HarnessInv /\ (LogInv /\ HarnessInv)'
      /\ Explained(verdict, sampled) /\ [HarnessNext]_hvars
      => Explained(verdict, sampled)'
  BY ExplainedStep
<1> QED BY <1>1, <1>2, HarnessInvariant, PTL DEF HarnessSpec

(***************************************************************************)
(* The validator rejects no store after a clean run that began with an     *)
(* empty one: not after power losses, nor after runs of its own that were  *)
(* interrupted, its reads of the store being the only thing that may fail. *)
(***************************************************************************)
THEOREM CleanRunsAreAccepted ==
  ASSUME Platform PROVE HarnessSpec => []AcceptsCleanRun
<1>1. Explained(verdict, sampled) => AcceptsCleanRun
  BY ExplainedIs
<1> QED BY <1>1, ExplainedAlways, PTL

(***************************************************************************)
(* Of a workload that began with an empty store: a store that is accepted, *)
(* with a --sample above 0, is the oracle's or lacks the key of the delete *)
(* that was interrupted; a rejected one has the interrupted put, for which *)
(* the oracle has no line: the validator cries wolf there, and nowhere     *)
(* else.                                                                   *)
(***************************************************************************)
THEOREM VerdictsAreExplained ==
  ASSUME Platform PROVE HarnessSpec => []VerdictExplained
<1>1. Explained(verdict, sampled) => VerdictExplained
  BY ExplainedIs
<1> QED BY <1>1, ExplainedAlways, PTL

=============================================================================
