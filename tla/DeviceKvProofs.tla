--------------------------- MODULE DeviceKvProofs ---------------------------
(***************************************************************************)
(* Proofs about DeviceKv for every window, slack, chunk, block and unit    *)
(* size: while verify blocks stay whole in one lane, the cache always      *)
(* holds the rows the next query reads, and every snapshot is exact.       *)
(***************************************************************************)
EXTENDS DeviceKv, TLAPS

\* A layer of the right shape whose rows end just before position t, reach
\* back a whole window and fit in its buffer.
LayerOf(l, t) ==
  /\ l \in [lo : Nat, rows : Nat, cap : Nat]
  /\ l.lo + l.rows = t
  /\ l.rows >= Least(t, Window - 1)
  /\ l.rows <= l.cap
  /\ Cap0 <= l.cap

\* A snapshot that holds exactly the window before its position.
Exact(s) ==
  /\ s \in Snapshot
  /\ s.lo + s.rows = s.len
  /\ s.rows = Least(s.len, Window - 1)

\* A running request's points lie in its history.
PointsInHistory == phase \in {"decode", "done"} => \A p \in points : p.len <= hist

\* The inductive invariant.
IInv ==
  /\ phase \in Phases
  /\ tokens \in Nat /\ hist \in Nat
  /\ ga = tokens
  /\ LayerOf(Layer, tokens)
  /\ HistoryCovered
  /\ PointsInHistory
  /\ \A p \in points : Exact(p) /\ p.len <= ga
  /\ \A s \in snaps : Exact(s)

-----------------------------------------------------------------------------
(* The allocation unit rounds up: the buffer prepare allocates holds what  *)
(* it was asked for.                                                       *)
LEMMA RoundUpHolds ==
  ASSUME NEW n \in Nat
  PROVE  RoundUp(n) \in Nat /\ RoundUp(n) >= n
<1> DEFINE q == (n + Unit - 1) \div Unit
<1>1. Unit \in Nat /\ Unit >= 1 /\ n + Unit - 1 \in Nat
  BY KvAssumption
<1>2. q \in Int /\ n + Unit - 1 < Unit * q + Unit /\ Unit * q <= n + Unit - 1
  BY <1>1
<1>3. q >= 0
  BY <1>1, <1>2
<1>4. q * Unit \in Nat /\ q * Unit = Unit * q
  BY <1>1, <1>2, <1>3
<1>5. QED
  BY <1>1, <1>2, <1>4 DEF RoundUp
(* The rows a compaction keeps: enough for the next query, no more than    *)
(* the buffer between prefills holds.                                      *)
LEMMA KeepBounds ==
  ASSUME NEW l, NEW t \in Nat, LayerOf(l, t)
  PROVE  /\ Keep(l) \in Nat /\ Keep(l) <= l.rows /\ Keep(l) <= Window - 1
         /\ Keep(l) >= Least(t, Window - 1)
         /\ Compact(l) = [lo |-> l.lo + (l.rows - Keep(l)), rows |-> Keep(l), cap |-> l.cap]
<1>1. Window - 1 \in Nat
  BY KvAssumption
<1>2. l \in [lo : Nat, rows : Nat, cap : Nat] /\ l.rows >= Least(t, Window - 1)
  BY DEF LayerOf
<1>3. /\ Keep(l) \in Nat /\ Keep(l) <= l.rows /\ Keep(l) <= Window - 1
      /\ Keep(l) >= Least(t, Window - 1)
  BY <1>1, <1>2 DEF Keep, Least
<1>4. Compact(l) = [lo |-> l.lo + (l.rows - Keep(l)), rows |-> Keep(l), cap |-> l.cap]
  BY <1>2 DEF Compact
<1>5. QED
  BY <1>3, <1>4

(* prepare: the layer still ends at t and covers the window, with room     *)
(* for n more rows.                                                        *)
LEMMA PrepareCovers ==
  ASSUME NEW l, NEW t \in Nat, LayerOf(l, t), NEW n \in Nat
  PROVE  LayerOf(Prepare(l, n), t) /\ Prepare(l, n).rows + n <= Prepare(l, n).cap
<1> DEFINE k == Keep(l)
           c == Compact(l)
<1>1. /\ l \in [lo : Nat, rows : Nat, cap : Nat] /\ l.lo + l.rows = t
      /\ l.rows >= Least(t, Window - 1) /\ l.rows <= l.cap /\ Cap0 <= l.cap
  BY DEF LayerOf
<1>2. /\ k \in Nat /\ k <= l.rows /\ k >= Least(t, Window - 1)
      /\ c = [lo |-> l.lo + (l.rows - k), rows |-> k, cap |-> l.cap]
  BY KeepBounds
<1>3. Cap0 \in Nat
  BY KvAssumption DEF Cap0
<1> HIDE DEF k, c
<1>4. LayerOf(c, t)
  BY <1>1, <1>2 DEF LayerOf
<1>5. CASE l.rows + n <= l.cap
  BY <1>5 DEF Prepare
<1>6. CASE ~(l.rows + n <= l.cap) /\ c.rows + n <= c.cap
  <2>1. Prepare(l, n) = c
    BY <1>6 DEF Prepare, c
  <2>2. QED
    BY <1>4, <1>6, <2>1
<1>7. CASE ~(l.rows + n <= l.cap) /\ ~(c.rows + n <= c.cap)
  <2>1. Prepare(l, n) = [c EXCEPT !.cap = RoundUp(c.rows + n)]
    BY <1>7 DEF Prepare, c
  <2>2. RoundUp(k + n) \in Nat /\ RoundUp(k + n) >= k + n
    BY <1>2, RoundUpHolds
  <2>3. Prepare(l, n) = [lo |-> l.lo + (l.rows - k), rows |-> k, cap |-> RoundUp(k + n)]
    BY <1>2, <2>1
  <2>4. RoundUp(k + n) >= l.cap
    BY <1>1, <1>2, <1>7, <2>2
  <2>5. QED
    BY <1>1, <1>2, <1>3, <2>2, <2>3, <2>4 DEF LayerOf
<1>8. QED
  BY <1>5, <1>6, <1>7

(* A lane's append of n rows: the layer still covers the window, and so    *)
(* does what is left when any of the n rows are dropped again.  This is    *)
(* where compacting before the block matters: prepare keeps the window     *)
(* that ends just before the rows being appended.                          *)
LEMMA AppendCovers ==
  ASSUME NEW l, NEW t \in Nat, LayerOf(l, t), NEW n \in Nat
  PROVE  /\ LayerOf(AppendRows(l, n), t + n)
         /\ \A d \in 0..n : LayerOf(DropRows(AppendRows(l, n), d), t + n - d)
<1> DEFINE p == Prepare(l, n)
<1>1. LayerOf(p, t) /\ p.rows + n <= p.cap
  BY PrepareCovers
<1>2. AppendRows(l, n) = [p EXCEPT !.rows = @ + n]
  BY DEF AppendRows
<1> HIDE DEF p
<1>3. /\ p \in [lo : Nat, rows : Nat, cap : Nat] /\ p.lo + p.rows = t
      /\ p.rows >= Least(t, Window - 1) /\ Cap0 <= p.cap
  BY <1>1 DEF LayerOf
<1>4. AppendRows(l, n) = [lo |-> p.lo, rows |-> p.rows + n, cap |-> p.cap]
  BY <1>2, <1>3
<1>5. ASSUME NEW d \in 0..n
      PROVE  LayerOf([lo |-> p.lo, rows |-> p.rows + n - d, cap |-> p.cap], t + n - d)
  <2>1. Window - 1 \in Nat /\ Cap0 \in Nat
    BY KvAssumption DEF Cap0
  <2>2. p.rows + n - d >= Least(t + n - d, Window - 1)
    BY <1>3, <2>1 DEF Least
  <2>3. d \in Nat /\ d <= n /\ p.rows + n - d \in Nat /\ p.rows + n - d <= p.cap
    BY <1>1, <1>3
  <2>4. p.lo + (p.rows + n - d) = t + n - d
    BY <1>3, <2>3
  <2>5. QED
    BY <1>3, <2>2, <2>3, <2>4 DEF LayerOf
<1>6. LayerOf(AppendRows(l, n), t + n)
  BY <1>3, <1>4, <1>5
<1>7. ASSUME NEW d \in 0..n
      PROVE  LayerOf(DropRows(AppendRows(l, n), d), t + n - d)
  <2>1. DropRows(AppendRows(l, n), d) = [lo |-> p.lo, rows |-> p.rows + n - d, cap |-> p.cap]
    BY <1>3, <1>4 DEF DropRows
  <2>2. QED
    BY <1>5, <2>1
<1>8. QED
  BY <1>6, <1>7

(* shrink_swa keeps the window of the next query.                          *)
LEMMA ShrinkCovers ==
  ASSUME NEW l, NEW t \in Nat, LayerOf(l, t)
  PROVE  LayerOf(Shrink(l), t)
<1> DEFINE k == Keep(l)
<1>1. Window - 1 \in Nat /\ Slack \in Nat /\ Cap0 = Window - 1 + Slack
  BY KvAssumption DEF Cap0
<1>2. CASE ~(l.cap > Cap0)
  BY <1>2 DEF Shrink
<1>3. CASE l.cap > Cap0
  <2>1. /\ k \in Nat /\ k <= l.rows /\ k <= Window - 1 /\ k >= Least(t, Window - 1)
        /\ Compact(l) = [lo |-> l.lo + (l.rows - k), rows |-> k, cap |-> l.cap]
    BY KeepBounds
  <2>2. l.lo \in Int /\ l.rows \in Nat /\ l.lo + l.rows = t
    BY DEF LayerOf
  <2> HIDE DEF k
  <2>3. Shrink(l) = [lo |-> l.lo + (l.rows - k), rows |-> k, cap |-> Cap0]
    BY <1>3, <2>1 DEF Shrink
  <2>4. QED
    BY <1>1, <2>1, <2>2, <2>3 DEF LayerOf
<1>4. QED
  BY <1>2, <1>3

(* A point saved from a layer that covers the window is exact.             *)
LEMMA SaveExact ==
  ASSUME NEW l, NEW t \in Nat, LayerOf(l, t)
  PROVE  Exact(SaveAt(l, t)) /\ SaveAt(l, t).len = t
<1>1. Window - 1 \in Nat
  BY KvAssumption
<1>2. l.lo \in Nat /\ l.rows \in Nat /\ l.lo + l.rows = t /\ l.rows >= Least(t, Window - 1)
  BY DEF LayerOf
<1>3. Keep(l) \in Nat /\ Keep(l) = Least(t, Window - 1)
  BY <1>1, <1>2 DEF Keep, Least
<1>4. SaveAt(l, t) = [len |-> t, lo |-> l.lo + (l.rows - Keep(l)), rows |-> Keep(l)]
  BY DEF SaveAt
<1>5. QED
  BY <1>2, <1>3, <1>4 DEF Exact, Snapshot
-----------------------------------------------------------------------------
(* A call that leaves the layer l in the buffer leaves a layer of t.       *)
LEMMA SetLayerOf ==
  ASSUME NEW l, NEW t, LayerOf(l, t), SetLayer(l)
  PROVE  [lo |-> lo', rows |-> rows', cap |-> cap'] = l
  BY DEF SetLayer, LayerOf

(* Every step keeps the inductive invariant while blocks are not split.    *)
LEMMA StepKeeps ==
  ASSUME ~SplitVerify, IInv, [Next]_vars
  PROVE  IInv'
<1> DEFINE Pts == \A p \in points : Exact(p) /\ p.len <= ga
           Sns == \A s \in snaps : Exact(s)
<1>1. /\ phase \in Phases /\ tokens \in Nat /\ hist \in Nat /\ ga = tokens
      /\ LayerOf(Layer, tokens) /\ HistoryCovered /\ PointsInHistory /\ Pts /\ Sns
  BY DEF IInv
<1>2. /\ lo \in Nat /\ rows \in Nat /\ cap \in Nat /\ lo + rows = tokens
      /\ rows >= Least(tokens, Window - 1) /\ rows <= cap /\ Cap0 <= cap
      /\ Window - 1 \in Nat /\ Cap0 \in Nat /\ Slack \in Nat /\ Cap0 = Window - 1 + Slack
  BY <1>1, KvAssumption DEF LayerOf, Layer, Cap0
<1>a. ASSUME NEW s, Exact(s), NEW c \in Nat, c >= Cap0
      PROVE  LayerOf([lo |-> s.lo, rows |-> s.rows, cap |-> c], s.len) /\ s.len \in Nat
  BY <1>a, <1>2 DEF Exact, Snapshot, LayerOf, Least
<1>b. ASSUME phase' \in Phases, tokens' \in Nat, hist' \in Nat, ga' = tokens',
             LayerOf([lo |-> lo', rows |-> rows', cap |-> cap'], tokens'),
             HistoryCovered', PointsInHistory', Pts', Sns'
      PROVE  IInv'
  BY <1>b DEF IInv, Layer
<1> HIDE DEF Pts, Sns
<1>c. ASSUME points' \subseteq points, ga <= ga', ga' \in Nat
      PROVE  Pts'
  BY <1>1, <1>c DEF Pts, Exact, Snapshot
<1>d. ASSUME NEW l, LayerOf(l, tokens), SetLayer(l), tokens' = tokens
      PROVE  LayerOf([lo |-> lo', rows |-> rows', cap |-> cap'], tokens')
  BY <1>d, SetLayerOf
<1>e. ASSUME NEW l \in {Layer, Shrink(Layer)}
      PROVE  LayerOf(l, tokens)
  BY <1>1, ShrinkCovers
<1>f. ASSUME NEW l, NEW t \in Nat, LayerOf(l, t), NEW save \in BOOLEAN, ga' \in Nat,
             t <= ga', \A p \in points : p.len <= ga',
             points' = IF save THEN points \cup {SaveAt(l, t)} ELSE points
      PROVE  Pts'
  <2>1. Exact(SaveAt(l, t)) /\ SaveAt(l, t).len = t
    BY <1>f, SaveExact
  <2>2. QED
    BY <1>1, <1>f, <2>1 DEF Pts
<1>3. CASE AdmitCold
  BY <1>1, <1>3, <1>b DEF AdmitCold, Phases, HistoryCovered, PointsInHistory, Layer, Pts, Sns
<1>4. ASSUME NEW s \in snaps, NEW keep \in BOOLEAN, AdmitCopy(s, keep)
      PROVE  IInv'
  <2>1. Exact(s) /\ LayerOf([lo |-> s.lo, rows |-> s.rows, cap |-> cap], s.len) /\ s.len \in Nat
    BY <1>1, <1>2, <1>a DEF Sns
  <2>2. Pts' /\ Sns'
    BY <1>1, <1>4, <2>1 DEF AdmitCopy, Pts, Sns
  <2>3. QED
    BY <1>1, <1>4, <1>b, <2>1, <2>2 DEF AdmitCopy, Phases, HistoryCovered, PointsInHistory
<1>5. ASSUME NEW p \in points, AdmitInPlace(p)
      PROVE  IInv'
  <2>1. Exact(p) /\ LayerOf([lo |-> p.lo, rows |-> p.rows, cap |-> cap], p.len) /\ p.len \in Nat
    BY <1>1, <1>2, <1>a DEF Pts
  <2>2. Pts' /\ Sns'
    BY <1>1, <1>5, <2>1 DEF AdmitInPlace, Pts, Sns
  <2>3. QED
    BY <1>1, <1>5, <1>b, <2>1, <2>2 DEF AdmitInPlace, Phases, HistoryCovered, PointsInHistory
<1>6. ASSUME NEW p \in points, AdmitRefused(p)
      PROVE  IInv'
  <2>1. Pts' /\ Sns'
    BY <1>1, <1>6 DEF AdmitRefused, Pts, Sns
  <2>2. QED
    BY <1>1, <1>6, <1>b, <2>1 DEF AdmitRefused, HistoryCovered, PointsInHistory, Layer
<1>7. CASE ReserveSwa
  <2>1. PrefillCap \in Nat
    BY <1>2, KvAssumption, RoundUpHolds DEF PrefillCap
  <2>2. LayerOf([lo |-> lo, rows |-> rows, cap |-> cap'], tokens)
    BY <1>2, <1>7, <2>1 DEF ReserveSwa, LayerOf
  <2>3. QED
    BY <1>1, <1>7, <1>b, <2>2 DEF ReserveSwa, Phases, HistoryCovered, PointsInHistory, Pts, Sns
<1>8. ASSUME NEW t1 \in 1..MaxChunk, NEW t2 \in 0..MaxChunk, ForwardGroup(t1, t2)
      PROVE  IInv'
  <2>1. t1 \in Nat /\ t2 \in Nat
    BY <1>8, KvAssumption
  <2>2. LayerOf(AppendRows(Layer, t1), tokens + t1)
    BY <1>1, <2>1, AppendCovers
  <2>3. LayerOf(AppendRows(AppendRows(Layer, t1), t2), tokens + t1 + t2)
    <3>1. tokens + t1 \in Nat
      BY <1>1, <2>1
    <3>2. QED
      BY <2>1, <2>2, <3>1, AppendCovers
  <2> DEFINE l == IF t2 = 0 THEN AppendRows(Layer, t1) ELSE AppendRows(AppendRows(Layer, t1), t2)
  <2>4. LayerOf(l, tokens + t1 + t2)
    BY <1>1, <2>1, <2>2, <2>3
  <2> HIDE DEF l
  <2>5. SetLayer(l) /\ tokens' = tokens + t1 + t2 /\ ga' = ga + t1 + t2
    BY <1>8 DEF ForwardGroup, l
  <2>6. LayerOf([lo |-> lo', rows |-> rows', cap |-> cap'], tokens')
    BY <2>4, <2>5, SetLayerOf
  <2>7. Pts' /\ Sns'
    BY <1>1, <1>8, <1>c, <2>1, <2>5 DEF ForwardGroup, Sns
  <2>8. QED
    BY <1>1, <1>8, <1>b, <2>1, <2>5, <2>6, <2>7 DEF ForwardGroup, HistoryCovered, PointsInHistory
<1>9. ASSUME NEW save \in BOOLEAN, NEW l \in {Layer, Shrink(Layer)}, Start(l, save)
      PROVE  IInv'
  <2>1. LayerOf(l, tokens)
    BY <1>9, <1>e
  <2>2. /\ SetLayer(l) /\ tokens' = tokens /\ ga' = ga /\ hist' = tokens /\ phase' = "decode"
        /\ points' = IF save THEN points \cup {SaveAt(l, tokens)} ELSE points
        /\ snaps' = snaps
    BY <1>9 DEF Start
  <2>3. LayerOf([lo |-> lo', rows |-> rows', cap |-> cap'], tokens')
    BY <1>d, <2>1, <2>2
  <2>4. Pts' /\ Sns'
    <3>1. ga' \in Nat /\ tokens <= ga' /\ \A p \in points : p.len <= ga'
      BY <1>1, <2>2 DEF Pts
    <3>2. Pts'
      BY <1>1, <1>f, <2>1, <2>2, <3>1
    <3>3. QED
      BY <1>1, <2>2, <3>2 DEF Sns
  <2>5. rows' \in Nat /\ rows' >= Least(tokens', Window - 1)
    BY <2>3 DEF LayerOf
  <2>6. HistoryCovered' /\ PointsInHistory'
    BY <1>1, <2>2, <2>4, <2>5 DEF HistoryCovered, PointsInHistory, Pts
  <2>7. QED
    BY <1>1, <1>b, <2>2, <2>3, <2>4, <2>6 DEF Phases
<1>10. ASSUME NEW save \in BOOLEAN, NEW l \in {Layer, Shrink(Layer)}, Park(l, save)
       PROVE  IInv'
  <2>1. LayerOf(l, tokens)
    BY <1>10, <1>e
  <2>2. /\ SetLayer(l) /\ tokens' = tokens /\ ga' = ga /\ hist' = tokens /\ phase' = "retained"
        /\ points' = IF save THEN points \cup {SaveAt(l, tokens)} ELSE points
        /\ snaps' = snaps
    BY <1>10 DEF Park
  <2>3. LayerOf([lo |-> lo', rows |-> rows', cap |-> cap'], tokens')
    BY <1>d, <2>1, <2>2
  <2>4. Pts' /\ Sns'
    <3>1. ga' \in Nat /\ tokens <= ga' /\ \A p \in points : p.len <= ga'
      BY <1>1, <2>2 DEF Pts
    <3>2. Pts'
      BY <1>1, <1>f, <2>1, <2>2, <3>1
    <3>3. QED
      BY <1>1, <2>2, <3>2 DEF Sns
  <2>5. QED
    BY <1>1, <1>b, <2>2, <2>3, <2>4 DEF Phases, HistoryCovered, PointsInHistory
<1>11. ASSUME NEW ended \in BOOLEAN, DecodeStep(ended)
       PROVE  IInv'
  <2> DEFINE l == AppendRows(Layer, 1)
  <2>1. LayerOf(l, tokens + 1)
    BY <1>1, AppendCovers
  <2> HIDE DEF l
  <2>2. /\ SetLayer(l) /\ tokens' = tokens + 1 /\ ga' = ga + 1 /\ hist' = tokens + 1
        /\ phase' \in {"decode", "done"} /\ points' = points /\ snaps' = snaps
    BY <1>11 DEF DecodeStep, l
  <2>3. LayerOf([lo |-> lo', rows |-> rows', cap |-> cap'], tokens')
    BY <2>1, <2>2, SetLayerOf
  <2>4. Pts' /\ Sns'
    BY <1>1, <1>c, <2>2 DEF Sns
  <2>5. rows' \in Nat /\ rows' >= Least(tokens', Window - 1)
    BY <2>3 DEF LayerOf
  <2>6. HistoryCovered' /\ PointsInHistory'
    BY <1>1, <2>2, <2>4, <2>5 DEF HistoryCovered, PointsInHistory, Pts
  <2>7. QED
    BY <1>1, <1>b, <2>2, <2>3, <2>4, <2>6 DEF Phases
<1>12. ASSUME NEW n \in 1..Block, NEW acc \in 0..(n - 1), NEW m \in 1..(acc + 1),
              SpecStep(n, acc, m)
       PROVE  IInv'
  <2> DEFINE drop == n - (acc + 1)
             b    == AppendRows(Layer, n)
  <2>1. /\ n \in Nat /\ acc \in Nat /\ m \in Nat /\ 1 <= m /\ m <= acc + 1
        /\ drop \in 0..n /\ drop + ((acc + 1) - m) \in 0..n
    BY <1>12, KvAssumption
  <2>2. AppendBlock(Layer, n) = b
    BY <1>12 DEF AppendBlock, FirstLane
  <2>3. \A d \in 0..n : LayerOf(DropRows(b, d), tokens + n - d)
    BY <1>1, <2>1, AppendCovers
  <2>4. b.rows \in Nat
    BY <1>1, <2>1, AppendCovers DEF LayerOf
  <2>5. /\ SetLayer(DropRows(b, drop)) /\ tokens' = tokens + acc + 1
        /\ ga' = ga + n - drop /\ hist' = tokens + m
        /\ phase' \in {"decode", "done"} /\ points' = points /\ snaps' = snaps
    BY <1>12, <2>2 DEF SpecStep
  <2>6. LayerOf(DropRows(b, drop), tokens')
    BY <1>1, <2>1, <2>3, <2>5
  <2>7. LayerOf([lo |-> lo', rows |-> rows', cap |-> cap'], tokens')
    BY <2>5, <2>6, SetLayerOf
  <2>8. ga' = tokens' /\ tokens' \in Nat /\ ga <= ga' /\ hist' \in Nat /\ hist' <= tokens'
    BY <1>1, <2>1, <2>5
  <2>9. Pts' /\ Sns'
    BY <1>1, <1>c, <2>5, <2>8 DEF Sns
  <2>10. rows' - (tokens' - hist') >= Least(hist', Window - 1)
    <3> DEFINE d == drop + ((acc + 1) - m)
    <3>1. LayerOf(DropRows(b, d), tokens + m)
      BY <1>1, <2>1, <2>3
    <3>2. DropRows(b, d).rows >= Least(tokens + m, Window - 1)
      BY <3>1 DEF LayerOf
    <3>3. b \in [lo : Nat, rows : Nat, cap : Nat]
      BY <1>1, <2>1, AppendCovers DEF LayerOf
    <3>4. DropRows(b, d).rows = b.rows - d /\ DropRows(b, drop).rows = b.rows - drop
      BY <3>3 DEF DropRows
    <3>5. rows' = b.rows - drop
      BY <2>5, <3>4 DEF SetLayer
    <3> HIDE DEF b
    <3>6. QED
      BY <1>1, <2>1, <2>4, <2>5, <3>2, <3>4, <3>5
  <2>11. HistoryCovered' /\ PointsInHistory'
    <3>1. phase \in {"decode", "done"} /\ hist <= tokens
      BY <1>1, <1>12 DEF SpecStep, HistoryCovered
    <3>2. \A p \in points : p.len <= hist /\ p.len \in Nat
      BY <1>1, <3>1 DEF PointsInHistory, Pts, Exact, Snapshot
    <3>3. QED
      BY <1>1, <2>1, <2>5, <2>8, <2>10, <3>1, <3>2 DEF HistoryCovered, PointsInHistory
  <2>12. QED
    BY <1>1, <1>b, <2>5, <2>7, <2>8, <2>9, <2>11 DEF Phases
<1>13. ASSUME NEW save \in BOOLEAN, Retire(save)
       PROVE  IInv'
  <2> DEFINE drop == tokens - hist
             l    == DropRows(Layer, drop)
  <2>1. /\ phase \in {"decode", "done"} /\ drop <= rows /\ SetLayer(l)
        /\ points' = IF save THEN points \cup {SaveAt(l, hist)} ELSE points
        /\ save => \A p \in points : p.len < hist
        /\ tokens' = hist /\ ga' = ga - drop /\ phase' = "retained"
        /\ hist' = hist /\ snaps' = snaps
    BY <1>13 DEF Retire
  <2>2. hist <= tokens /\ rows - drop >= Least(hist, Window - 1)
    BY <1>1, <2>1 DEF HistoryCovered
  <2>3. l = [lo |-> lo, rows |-> rows - drop, cap |-> cap]
    BY DEF Layer, DropRows
  <2>4. LayerOf(l, hist)
    BY <1>1, <1>2, <2>1, <2>2, <2>3 DEF LayerOf
  <2> HIDE DEF l
  <2>5. LayerOf([lo |-> lo', rows |-> rows', cap |-> cap'], tokens')
    BY <2>1, <2>4, SetLayerOf
  <2>6. ga' = hist
    BY <1>1, <2>1
  <2>7. \A p \in points : p.len <= hist
    BY <1>1, <2>1 DEF PointsInHistory
  <2>8. Pts' /\ Sns'
    <3>a. hist \in Nat /\ ga' \in Nat /\ hist <= ga' /\ \A p \in points : p.len <= ga'
      BY <1>1, <2>6, <2>7
    <3>b. points' = IF save THEN points \cup {SaveAt(l, hist)} ELSE points
      BY <2>1
    <3>1. Pts'
      BY <1>13, <1>f, <2>4, <3>a, <3>b
    <3>2. QED
      BY <1>1, <2>1, <3>1 DEF Sns
  <2>9. QED
    BY <1>1, <1>b, <2>1, <2>5, <2>6, <2>8 DEF Phases, HistoryCovered, PointsInHistory
<1>14. ASSUME NEW p \in points, Share(p)
       PROVE  IInv'
  <2>1. Pts' /\ Sns'
    BY <1>1, <1>14 DEF Share, Pts, Sns
  <2>2. QED
    BY <1>1, <1>14, <1>b, <2>1 DEF Share, HistoryCovered, PointsInHistory, Layer
<1>15. ASSUME NEW p \in points, DropPoint(p)
       PROVE  IInv'
  <2>1. Pts' /\ Sns'
    BY <1>1, <1>15 DEF DropPoint, Pts, Sns
  <2>2. QED
    BY <1>1, <1>15, <1>b, <2>1 DEF DropPoint, HistoryCovered, PointsInHistory, Layer
<1>16. ASSUME NEW s \in snaps, DropSnap(s)
       PROVE  IInv'
  <2>1. Pts' /\ Sns'
    BY <1>1, <1>16 DEF DropSnap, Pts, Sns
  <2>2. QED
    BY <1>1, <1>16, <1>b, <2>1 DEF DropSnap, HistoryCovered, PointsInHistory, Layer
<1>17. ASSUME NEW c \in {cap, Least(cap, Cap0)}, Release(c)
       PROVE  IInv'
  <2>1. c \in Nat /\ Cap0 <= c
    BY <1>2, <1>17 DEF Least
  <2>2. LayerOf([lo |-> 0, rows |-> 0, cap |-> c], 0)
    BY <1>2, <2>1 DEF LayerOf, Least
  <2>3. Pts' /\ Sns'
    BY <1>1, <1>17 DEF Release, Pts, Sns
  <2>4. QED
    BY <1>17, <1>b, <2>2, <2>3 DEF Release, Phases, HistoryCovered, PointsInHistory
<1>18. CASE UNCHANGED vars
  <2>1. Pts' /\ Sns'
    BY <1>1, <1>18 DEF vars, Pts, Sns
  <2>2. QED
    BY <1>1, <1>18, <1>b, <2>1 DEF vars, HistoryCovered, PointsInHistory, Layer
<1>19. QED
  BY <1>3, <1>4, <1>5, <1>6, <1>7, <1>8, <1>9, <1>10, <1>11, <1>12, <1>13, <1>14,
     <1>15, <1>16, <1>17, <1>18 DEF Next

(* The initial cache satisfies the invariant.                              *)
LEMMA InitHolds == Init => IInv
<1> SUFFICES ASSUME Init PROVE IInv
  OBVIOUS
<1>1. Window - 1 \in Nat /\ Cap0 \in Nat
  BY KvAssumption DEF Cap0
<1>2. LayerOf(Layer, tokens)
  BY <1>1 DEF Init, LayerOf, Layer, Least
<1>3. QED
  BY <1>2 DEF Init, IInv, Phases, HistoryCovered, PointsInHistory

(* The invariant of the cache, for every size of window, slack, chunk,     *)
(* block and allocation unit, when verify blocks are not split.            *)
LEMMA InvariantHolds == ~SplitVerify => (Spec => []IInv)
<1> SUFFICES ASSUME ~SplitVerify PROVE Spec => []IInv
  OBVIOUS
<1>1. IInv /\ [Next]_vars => IInv'
  BY StepKeeps
<1>2. QED
  BY <1>1, InitHolds, PTL DEF Spec

(* While a verify block stays in one lane (MIMO26_VERIFY_LANES=1, a wire   *)
(* that is not pipelined, or several running requests), the SWA layers     *)
(* always hold the rows the next query reads, whatever the sizes: a        *)
(* compaction keeps the window before the block and a truncation never     *)
(* reaches past it.                                                        *)
THEOREM WindowAlwaysCovered == ~SplitVerify => (Spec => []WindowCovered)
<1>1. IInv => WindowCovered
  BY DEF IInv, LayerOf, Layer, WindowCovered
<1>2. QED
  BY <1>1, InvariantHolds, PTL

(* Under the same condition every snapshot a slot or the RAM tier holds is *)
(* exactly the window before its position with its GA rows still in place, *)
(* so resuming from it is resuming from a cold prefill of its tokens.      *)
THEOREM SnapshotsAlwaysExact == ~SplitVerify => (Spec => []SnapshotsExact)
<1>1. IInv => SnapshotsExact
  BY DEF IInv, Exact, SnapshotsExact
<1>2. QED
  BY <1>1, InvariantHolds, PTL

(* Under the same condition the rows left at the end of a request's        *)
(* history, which may take fewer tokens than its last step produced, are   *)
(* still a whole window: a turn snapshot saved there is exact.             *)
THEOREM HistoryAlwaysCovered == ~SplitVerify => (Spec => []HistoryCovered)
<1>1. IInv => HistoryCovered
  BY DEF IInv
<1>2. QED
  BY <1>1, InvariantHolds, PTL

(* And the cache keeps its types, its layers stay aligned on the same      *)
(* positions, and no append passes the end of an SWA buffer.               *)
THEOREM CacheWellFormed ==
  ~SplitVerify => (Spec => [](TypeOK /\ PositionsAligned /\ WithinCapacity))
<1>1. IInv => TypeOK /\ PositionsAligned /\ WithinCapacity
  BY DEF IInv, LayerOf, Layer, Exact, TypeOK, PositionsAligned, WithinCapacity
<1>2. QED
  BY <1>1, InvariantHolds, PTL
=============================================================================
