--------------------------- MODULE SlotPoolProofs ---------------------------
(***************************************************************************)
(* Proofs about SlotPool, for any slots, prompts, bank and tier sizes and  *)
(* any memory.                                                             *)
(*                                                                         *)
(* Every operation changes one slot, gives others back, and stores points  *)
(* in RAM.  So the invariant speaks of one slot's record at a time         *)
(* (`Good`) and of one snapshot (`Whole`): the records an operation makes  *)
(* are Good if the ones it finds are.  Beyond what the properties say, a   *)
(* slot's state fixes how far its rows go: past the history while a        *)
(* request that ended inside a run is not retired (`done`), and never past *)
(* a point, so that a cut leaves every point its rows.                     *)
(***************************************************************************)
EXTENDS SlotPool, Integers, Sequences, FiniteSets, Functions, FiniteSetTheorems,
        FunctionTheorems, SequenceTheorems, NaturalsInduction, TLAPS

(* The first n numbers.                                                    *)
LEMMA FirstNumbers ==
  ASSUME NEW n \in Nat
  PROVE  IsFiniteSet(1..n) /\ Cardinality(1..n) = n
<1>1. 1 \in Int /\ n \in Int
  OBVIOUS
<1>2. IsFiniteSet(1..n) /\ Cardinality(1..n) = IF 1 > n THEN 0 ELSE n - 1 + 1
  BY <1>1, FS_Interval, Zenon
<1>3. QED
  BY <1>2

Points == [len : Nat, kind : Kinds, after : After, at : Seq(Token)]
Records == [st : States, kv : Seq(Token), hist : Seq(Token), points : SUBSET Points,
            cap : Nat, after : After, sampled : BOOLEAN]
Snapshot == [tokens : Seq(Token), after : After, kind : Kinds, rows : Seq(Token),
             at : Seq(Token)]

\* Point p lies in history h and rows kv, with its own state.
Lies(p, kv, h) ==
  /\ MinRetain <= p.len /\ p.len <= Len(kv) /\ p.len <= Len(h)
  /\ p.at = First(h, p.len) /\ First(kv, p.len) = First(h, p.len)
  /\ AfterTrue(p.after, p.at)

\* The last token of a greedy request is the argmax before it.
LastTrue(x) ==
  ~x.sampled => x.hist[Len(x.hist)] = Argmax(First(x.hist, Len(x.hist) - 1))

\* What a slot's state says of its rows.
Stands(x) ==
  /\ x.st = "free" => x.cap = Base
  /\ x.st \in {"prefill", "ready"} => Prefix(x.kv, x.hist) /\ AfterTrue(x.after, x.kv)
  /\ x.st = "ready" => /\ x.kv = x.hist
                       /\ MinRetain <= Len(x.hist) => Serves(x.after, x.sampled)
  /\ x.st \in {"active", "done"} => x.hist # <<>> /\ LastTrue(x)
  /\ x.st = "active" => x.kv = First(x.hist, Len(x.hist) - 1)
  /\ x.st = "done" => /\ Prefix(x.hist, x.kv)
                      /\ \A p \in x.points : p.len + 1 <= Len(x.hist)

Good(x) ==
  /\ x \in Records /\ Base <= x.cap
  /\ \A p \in x.points : Lies(p, x.kv, x.hist)
  /\ Stands(x)

Whole(r) ==
  /\ r \in Snapshot /\ r.rows = r.tokens /\ r.at = r.tokens
  /\ AfterTrue(r.after, r.tokens) /\ MinRetain <= Len(r.tokens)

IInv ==
  /\ slot = [s \in Slots |-> slot[s]]
  /\ \A s \in Slots : Good(slot[s])
  /\ \A r \in ram : Whole(r)
  /\ Cardinality(ram) <= Cap
  /\ req \in [ids : Seq(Token), sampled : BOOLEAN]
-----------------------------------------------------------------------------
(* Beginnings of sequences.                                                *)

(* The first n elements.                                                   *)
LEMMA FirstAt ==
  ASSUME NEW S, NEW s \in Seq(S), NEW n \in Nat, n <= Len(s)
  PROVE  /\ First(s, n) \in Seq(S) /\ Len(First(s, n)) = n
         /\ \A i \in 1..n : First(s, n)[i] = s[i]
<1>1. Len(s) \in Nat /\ \A i \in 1..n : s[i] \in S
  OBVIOUS
<1>2. /\ SubSeq(s, 1, n) \in Seq(S) /\ Len(SubSeq(s, 1, n)) = IF 1 <= n THEN n - 1 + 1 ELSE 0
      /\ \A i \in 1..(n - 1 + 1) : SubSeq(s, 1, n)[i] = s[1 + i - 1]
  BY <1>1, SubSeqProperties
<1>3. n - 1 + 1 = n /\ (1 <= n \/ n = 0) /\ \A i \in 1..n : 1 + i - 1 = i
  OBVIOUS
<1>4. QED
  BY <1>2, <1>3 DEF First

(* Sequences with the same elements are equal.                             *)
LEMMA Same ==
  ASSUME NEW S, NEW s \in Seq(S), NEW t \in Seq(S), Len(s) = Len(t),
         \A i \in 1..Len(s) : s[i] = t[i]
  PROVE  s = t
BY SeqEqual

(* The whole of a sequence is its beginning.                               *)
LEMMA FirstWhole ==
  ASSUME NEW S, NEW s \in Seq(S)
  PROVE  First(s, Len(s)) = s
<1>1. Len(s) \in Nat
  OBVIOUS
<1>2. /\ First(s, Len(s)) \in Seq(S) /\ Len(First(s, Len(s))) = Len(s)
      /\ \A i \in 1..Len(s) : First(s, Len(s))[i] = s[i]
  BY <1>1, FirstAt
<1>3. QED
  BY <1>2, Same

(* A beginning of a beginning.                                             *)
LEMMA FirstFirst ==
  ASSUME NEW S, NEW s \in Seq(S), NEW n \in Nat, NEW m \in Nat, n <= Len(s), m <= n
  PROVE  First(First(s, n), m) = First(s, m)
<1> DEFINE f == First(s, n)
<1>1. f \in Seq(S) /\ Len(f) = n /\ \A i \in 1..n : f[i] = s[i]
  BY FirstAt
<1>2. Len(s) \in Nat /\ m <= Len(s)
  OBVIOUS
<1> HIDE DEF f
<1>3. First(f, m) \in Seq(S) /\ Len(First(f, m)) = m /\ \A i \in 1..m : First(f, m)[i] = f[i]
  BY <1>1, FirstAt
<1>4. First(s, m) \in Seq(S) /\ Len(First(s, m)) = m /\ \A i \in 1..m : First(s, m)[i] = s[i]
  BY <1>2, FirstAt
<1>5. \A i \in 1..m : i \in 1..n
  OBVIOUS
<1>6. QED
  BY <1>1, <1>3, <1>4, <1>5, Same DEF f

(* The beginning of a concatenation.                                       *)
LEMMA FirstConcat ==
  ASSUME NEW S, NEW s \in Seq(S), NEW t \in Seq(S), NEW n \in Nat, n <= Len(s)
  PROVE  First(s \o t, n) = First(s, n)
<1> DEFINE c == s \o t
<1>1. Len(s) \in Nat /\ Len(t) \in Nat
  OBVIOUS
<1>2. c \in Seq(S) /\ Len(c) = Len(s) + Len(t) /\ \A i \in 1..Len(s) : c[i] = s[i]
  BY ConcatProperties
<1> HIDE DEF c
<1>3. n <= Len(c) /\ \A i \in 1..n : i \in 1..Len(s)
  BY <1>1, <1>2
<1>4. First(c, n) \in Seq(S) /\ Len(First(c, n)) = n /\ \A i \in 1..n : First(c, n)[i] = c[i]
  BY <1>2, <1>3, FirstAt
<1>5. First(s, n) \in Seq(S) /\ Len(First(s, n)) = n /\ \A i \in 1..n : First(s, n)[i] = s[i]
  BY FirstAt
<1>6. QED
  BY <1>2, <1>3, <1>4, <1>5, Same DEF c

(* The beginning of a sequence with one more at its end.                   *)
LEMMA FirstAppend ==
  ASSUME NEW S, NEW s \in Seq(S), NEW x \in S, NEW n \in Nat, n <= Len(s)
  PROVE  First(Append(s, x), n) = First(s, n)
<1>1. Append(s, x) = s \o <<x>> /\ <<x>> \in Seq(S)
  BY AppendIsConcat
<1>2. QED
  BY <1>1, FirstConcat

(* The beginning of a concatenation, past its first part.                  *)
LEMMA FirstBeyond ==
  ASSUME NEW S, NEW s \in Seq(S), NEW t \in Seq(S), NEW m \in Nat, m <= Len(t)
  PROVE  /\ First(s \o t, Len(s) + m) = s \o First(t, m)
         /\ Len(s \o First(t, m)) = Len(s) + m /\ s \o First(t, m) \in Seq(S)
<1> DEFINE c == s \o t
           f == First(t, m)
           g == s \o f
<1>1. PICK k, l \in Nat : Len(s) = k /\ Len(t) = l
  OBVIOUS
<1>2. /\ c \in Seq(S) /\ Len(c) = k + l
      /\ \A i \in 1..(k + l) : c[i] = IF i <= k THEN s[i] ELSE t[i - k]
  BY <1>1, ConcatProperties
<1>3. f \in Seq(S) /\ Len(f) = m /\ \A i \in 1..m : f[i] = t[i]
  BY FirstAt
<1> HIDE DEF c, f
<1>4. /\ g \in Seq(S) /\ Len(g) = k + m
      /\ \A i \in 1..(k + m) : g[i] = IF i <= k THEN s[i] ELSE f[i - k]
  BY <1>1, <1>3, ConcatProperties
<1>5. m <= l /\ k + m \in Nat /\ k + m <= k + l
  BY <1>1
<1>6. /\ First(c, k + m) \in Seq(S) /\ Len(First(c, k + m)) = k + m
      /\ \A i \in 1..(k + m) : First(c, k + m)[i] = c[i]
  BY <1>2, <1>5, FirstAt
<1> HIDE DEF g
<1>7. ASSUME NEW i \in 1..(k + m) PROVE c[i] = g[i]
  <2>1. CASE i \in 1..k
    BY <1>2, <1>4, <2>1
  <2>2. CASE i \in (k + 1)..(k + m)
    <3>1. i - k \in 1..m /\ i \in (k + 1)..(k + l)
      BY <1>5, <2>2
    <3>2. c[i] = t[i - k]
      BY <1>2, <3>1
    <3>3. QED
      BY <1>3, <1>4, <2>2, <3>1, <3>2
  <2>3. QED
    BY <2>1, <2>2
<1>8. First(c, k + m) = g
  BY <1>4, <1>6, <1>7, Same
<1>9. QED
  BY <1>1, <1>4, <1>8 DEF c, f, g

(* Up to a prefix's length both begin alike.                               *)
LEMMA PrefixFirst ==
  ASSUME NEW S, NEW a \in Seq(S), NEW b \in Seq(S), Prefix(a, b), NEW n \in Nat, n <= Len(a)
  PROVE  First(b, n) = First(a, n) /\ Len(a) <= Len(b)
<1>1. Len(a) \in Nat /\ Len(a) <= Len(b) /\ First(b, Len(a)) = a
  BY DEF Prefix
<1>2. First(First(b, Len(a)), n) = First(b, n)
  BY <1>1, FirstFirst
<1>3. QED
  BY <1>1, <1>2

(* A beginning is a prefix.                                                *)
LEMMA FirstPrefix ==
  ASSUME NEW S, NEW s \in Seq(S), NEW n \in Nat, n <= Len(s)
  PROVE  Prefix(First(s, n), s)
<1>1. Len(First(s, n)) = n
  BY FirstAt
<1>2. QED
  BY <1>1 DEF Prefix
-----------------------------------------------------------------------------
(* Slots.                                                                  *)

(* The sizes are numbers.                                                  *)
LEMMA Sizes ==
  /\ Base \in Nat /\ Ahead \in Nat /\ Transient \in Nat /\ Swa \in Nat /\ Total \in Nat
  /\ MaxHist \in Nat /\ MinRetain \in Nat /\ MinRetain >= 1 /\ Cap \in Nat /\ None \notin Token
BY PoolAssumption

(* Knowing nothing of the next token is true.                              *)
LEMMA NothingKnown == NoAfter \in After /\ \A t : AfterTrue(NoAfter, t)
BY DEF NoAfter, After, AfterTrue

(* A clean slot is good.                                                   *)
LEMMA CleanGood == Good(Clean)
<1>1. /\ Clean.st = "free" /\ Clean.kv = <<>> /\ Clean.hist = <<>> /\ Clean.points = {}
      /\ Clean.cap = Base /\ Clean.after = NoAfter /\ Clean.sampled = FALSE
  BY DEF Clean
<1>2. "free" \in States /\ <<>> \in Seq(Token)
  BY DEF States
<1>3. Clean \in Records
  BY <1>2, Sizes, NothingKnown DEF Clean, Records
<1>4. Stands(Clean)
  BY <1>1 DEF Stands
<1>5. QED
  BY <1>1, <1>3, <1>4, Sizes DEF Good

(* What a good slot's fields are.                                          *)
LEMMA GoodFields ==
  ASSUME NEW x, Good(x)
  PROVE  /\ x \in Records /\ x.st \in States /\ x.kv \in Seq(Token) /\ x.hist \in Seq(Token)
         /\ x.points \subseteq Points /\ x.cap \in Nat /\ x.after \in After /\ x.sampled \in BOOLEAN
         /\ Len(x.kv) \in Nat /\ Len(x.hist) \in Nat /\ Base <= x.cap /\ Stands(x)
         /\ \A p \in x.points : /\ p \in Points /\ p.len \in Nat /\ p.kind \in Kinds
                                /\ p.after \in After /\ p.at \in Seq(Token)
                                /\ Lies(p, x.kv, x.hist)
<1>1. x \in Records /\ Base <= x.cap /\ Stands(x) /\ \A p \in x.points : Lies(p, x.kv, x.hist)
  BY DEF Good
<1>2. /\ x.st \in States /\ x.kv \in Seq(Token) /\ x.hist \in Seq(Token)
      /\ x.points \subseteq Points /\ x.cap \in Nat /\ x.after \in After /\ x.sampled \in BOOLEAN
  BY <1>1 DEF Records
<1>3. \A p \in Points : /\ p.len \in Nat /\ p.kind \in Kinds /\ p.after \in After
                        /\ p.at \in Seq(Token)
  BY DEF Points
<1>4. QED
  BY <1>1, <1>2, <1>3

(* A slot is good with fewer points.                                       *)
LEMMA FewerPoints ==
  ASSUME NEW x, Good(x), NEW Q \in SUBSET x.points
  PROVE  Good([x EXCEPT !.points = Q])
<1> DEFINE d == [x EXCEPT !.points = Q]
<1>1. Q \in SUBSET Points /\ x \in Records
  BY GoodFields
<1>2. /\ d \in Records /\ d.st = x.st /\ d.kv = x.kv /\ d.hist = x.hist /\ d.points = Q
      /\ d.cap = x.cap /\ d.after = x.after /\ d.sampled = x.sampled
  BY <1>1 DEF Records
<1> HIDE DEF d
<1>3. Stands(d)
  BY <1>2, GoodFields DEF Stands, LastTrue
<1>4. QED
  BY <1>2, <1>3, GoodFields DEF Good, d

(* A point of rows that are a prefix of a history lies in it.              *)
LEMMA LiesOn ==
  ASSUME NEW p \in Points, NEW kv \in Seq(Token), Lies(p, kv, kv),
         NEW h \in Seq(Token), Prefix(kv, h)
  PROVE  Lies(p, kv, h)
<1>1. p.len \in Nat /\ Len(kv) \in Nat /\ Len(h) \in Nat /\ p.len <= Len(kv)
  BY DEF Lies, Points
<1>2. First(h, p.len) = First(kv, p.len) /\ Len(kv) <= Len(h)
  BY <1>1, PrefixFirst
<1>3. QED
  BY <1>1, <1>2 DEF Lies

(* The slot of a request whose rows and points are of its prompt.          *)
LEMMA RunningGood ==
  ASSUME NEW ids \in Seq(Token), NEW sampled \in BOOLEAN, NEW kv \in Seq(Token), Prefix(kv, ids),
         NEW points \in SUBSET Points, \A p \in points : Lies(p, kv, kv),
         NEW after \in After, NEW cap \in Nat, Base <= cap,
         kv = ids => AfterTrue(after, kv) /\ (MinRetain <= Len(ids) => Serves(after, sampled))
  PROVE  /\ Good(Running(ids, sampled, kv, points, after, cap))
         /\ Running(ids, sampled, kv, points, after, cap).cap = Larger(cap, Rows(ids))
<1> DEFINE st == IF kv = ids THEN "ready" ELSE "prefill"
           af == IF kv = ids THEN after ELSE NoAfter
           c  == Larger(cap, Rows(ids))
           d  == [st |-> st, kv |-> kv, hist |-> ids, points |-> points, cap |-> c,
                  after |-> af, sampled |-> sampled]
<1>1. st \in States /\ af \in After /\ AfterTrue(af, kv)
  BY NothingKnown DEF States
<1>2. c \in Nat /\ Base <= c
  BY Sizes DEF Larger, Rows
<1>3. Running(ids, sampled, kv, points, after, cap) = d
  BY DEF Running
<1>4. /\ d.st = st /\ d.kv = kv /\ d.hist = ids /\ d.points = points /\ d.cap = c
      /\ d.after = af /\ d.sampled = sampled
  OBVIOUS
<1>5. st = "ready" => kv = ids /\ (MinRetain <= Len(ids) => Serves(af, sampled))
  OBVIOUS
<1>6. st \in {"ready", "prefill"}
  OBVIOUS
<1> HIDE DEF st, af, c
<1>7. d \in Records
  BY <1>1, <1>2 DEF Records
<1> HIDE DEF d
<1>8. Stands(d)
  BY <1>1, <1>4, <1>5, <1>6 DEF Stands
<1>9. \A p \in points : Lies(p, kv, ids)
  BY LiesOn
<1>10. QED
  BY <1>2, <1>3, <1>4, <1>7, <1>8, <1>9 DEF Good, c
-----------------------------------------------------------------------------
(* The RAM tier.                                                           *)

(* What is captured of a point is whole.                                   *)
LEMMA SnapWhole ==
  ASSUME NEW s, Good(slot[s]), NEW p \in slot[s].points
  PROVE  Whole(Snap(s, p))
<1> DEFINE x == slot[s]
           t == First(x.hist, p.len)
           w == First(x.kv, p.len)
           r == [tokens |-> t, after |-> p.after, kind |-> p.kind, rows |-> w, at |-> p.at]
<1>1. /\ p.len \in Nat /\ p.kind \in Kinds /\ p.after \in After /\ p.at \in Seq(Token)
      /\ Lies(p, x.kv, x.hist) /\ x.hist \in Seq(Token)
  BY GoodFields
<1>2. w = t /\ p.at = t /\ p.len <= Len(x.hist) /\ AfterTrue(p.after, t) /\ MinRetain <= p.len
  BY <1>1 DEF Lies
<1>3. t \in Seq(Token) /\ Len(t) = p.len
  BY <1>1, <1>2, FirstAt
<1>4. Snap(s, p) = r
  BY DEF Snap
<1> HIDE DEF t, w
<1>5. r \in Snapshot /\ r.rows = w /\ r.tokens = t /\ r.at = p.at /\ r.after = p.after
  BY <1>1, <1>2, <1>3 DEF Snapshot
<1> HIDE DEF r
<1>6. QED
  BY <1>2, <1>3, <1>4, <1>5 DEF Whole

(* So is a snapshot with what another of its tokens adds to it.            *)
LEMMA MergedWhole ==
  ASSUME NEW e, NEW f, Whole(e), Whole(f), e.tokens = f.tokens
  PROVE  Whole([e EXCEPT !.after = Tier!MergeAfter(@, f.after)])
<1> DEFINE a == Tier!MergeAfter(e.after, f.after)
           d == [e EXCEPT !.after = a]
<1>1. /\ e \in Snapshot /\ e.after \in After /\ f.after \in After
      /\ AfterTrue(e.after, e.tokens) /\ AfterTrue(f.after, e.tokens)
  BY DEF Whole, Snapshot
<1>2. a \in After /\ AfterTrue(a, e.tokens)
  BY <1>1 DEF Tier!MergeAfter, After, AfterTrue
<1> HIDE DEF a
<1>3. d \in Snapshot /\ d.tokens = e.tokens /\ d.rows = e.rows /\ d.at = e.at /\ d.after = a
  BY <1>1, <1>2 DEF Snapshot
<1>4. [e EXCEPT !.after = Tier!MergeAfter(@, f.after)] = d
  BY DEF a
<1> HIDE DEF d
<1>5. QED
  BY <1>2, <1>3, <1>4 DEF Whole

(* Storing whole snapshots leaves whole snapshots, and not too many.       *)
LEMMA RamWhole ==
  ASSUME IInv, NEW new, \A r \in new : Whole(r), ram' \in RamWith(new)
  PROVE  (\A r \in ram' : Whole(r)) /\ Cardinality(ram') <= Cap
<1> DEFINE all == ram \cup new
           merged == {[p[1] EXCEPT !.after = Tier!MergeAfter(@, p[2].after)] :
                        p \in {q \in all \X all : q[1].tokens = q[2].tokens}}
<1>1. (\A r \in ram : Whole(r)) /\ Cardinality(ram) <= Cap
  BY DEF IInv
<1>2. CASE ram' = ram
  BY <1>1, <1>2
<1>3. CASE ram' # ram
  <2>1. ram' \in Tier!StoredAll(ram, new) /\ new # {}
    BY <1>3 DEF RamWith, Tier!StoredAll
  <2>2. ram' \in {S \in SUBSET merged : /\ Tier!Cardinality(S) <= Cap
                                        /\ \A x, y \in S : x.tokens = y.tokens => x = y}
    BY <2>1 DEF Tier!StoredAll
  <2>3. Tier!Cardinality(ram') = Cardinality(ram')
    BY DEF Tier!Cardinality, Cardinality
  <2>4. ram' \subseteq merged /\ Cardinality(ram') <= Cap
    BY <2>2, <2>3
  <2>5. ASSUME NEW r \in merged PROVE Whole(r)
    <3>1. PICK p \in all \X all : /\ p[1].tokens = p[2].tokens
                                  /\ r = [p[1] EXCEPT !.after = Tier!MergeAfter(@, p[2].after)]
      OBVIOUS
    <3>2. Whole(p[1]) /\ Whole(p[2])
      BY <1>1, <3>1
    <3>3. QED
      BY <3>1, <3>2, MergedWhole
  <2>6. QED
    BY <2>4, <2>5
<1>4. QED
  BY <1>2, <1>3

(* What evictions store is whole.                                          *)
LEMMA SnapsWhole ==
  ASSUME IInv, NEW E \in SUBSET Slots
  PROVE  \A r \in Snaps(E) : Whole(r)
<1>1. ASSUME NEW r \in Snaps(E) PROVE Whole(r)
  <2>1. PICK s \in E : r \in {Snap(s, p) : p \in slot[s].points}
    BY DEF Snaps
  <2>2. PICK p \in slot[s].points : r = Snap(s, p)
    BY <2>1
  <2>3. Good(slot[s])
    BY DEF IInv
  <2>4. QED
    BY <2>2, <2>3, SnapWhole
<1>2. QED
  BY <1>1
-----------------------------------------------------------------------------
(* Steps.                                                                  *)

(* One slot changes, others are released.                                  *)
LEMMA UpdatedKeeps ==
  ASSUME IInv, NEW s \in Slots, NEW new, Good(new), NEW E, slot' = Updated(s, new, E),
         \A r \in ram' : Whole(r), Cardinality(ram') <= Cap,
         req' \in [ids : Seq(Token), sampled : BOOLEAN]
  PROVE  IInv'
<1>1. slot' = [y \in Slots |-> IF y = s THEN new ELSE IF y \in E THEN Clean ELSE slot[y]]
  BY DEF Updated
<1>2. \A y \in Slots : slot'[y] \in {new, Clean, slot[y]}
  BY <1>1
<1>3. \A y \in Slots : Good(slot'[y])
  BY <1>2, CleanGood DEF IInv
<1>4. slot' = [y \in Slots |-> slot'[y]]
  BY <1>1
<1>5. QED
  BY <1>3, <1>4 DEF IInv

(* One slot changes, and nothing else.                                     *)
LEMMA OneKeeps ==
  ASSUME IInv, NEW s \in Slots, NEW new, Good(new), slot' = [slot EXCEPT ![s] = new],
         ram' = ram, req' = req
  PROVE  IInv'
<1>1. slot = [y \in Slots |-> slot[y]]
  BY DEF IInv
<1>2. slot' = Updated(s, new, {})
  BY <1>1 DEF Updated
<1>3. QED
  BY <1>2, UpdatedKeeps DEF IInv
-----------------------------------------------------------------------------
(* Hits.                                                                   *)

\* h is a point of a retained slot, of a history that ids continues.
Hit(h, ids) ==
  /\ h[1] \in Slots /\ slot[h[1]].st = "retained" /\ h[2] \in slot[h[1]].points
  /\ Prefix(First(slot[h[1]].hist, h[2].len), ids)

(* device_hit finds such points only.                                      *)
LEMMA HitFound ==
  ASSUME NEW ids, NEW h \in DeviceHit(ids)
  PROVE  Hit(h, ids)
<1> DEFINE all == PointsOf(In("retained"))
           hits == {g \in all : Prefix(First(slot[g[1]].hist, g[2].len), ids)}
           long == {g \in hits : \A f \in hits : f[2].len <= g[2].len}
           tops == {g \in long : g[2].len = Top(g[1])}
<1>1. DeviceHit(ids) = IF tops # {} THEN tops ELSE long
  BY DEF DeviceHit
<1> HIDE DEF all
<1>2. h \in hits
  BY <1>1
<1>3. h \in all
  BY <1>2
<1>4. PICK s \in In("retained") : h \in {s} \X slot[s].points
  BY <1>3 DEF all, PointsOf
<1>5. h[1] = s /\ h[2] \in slot[s].points /\ s \in Slots /\ slot[s].st = "retained"
  BY <1>4 DEF In
<1>6. QED
  BY <1>2, <1>5 DEF Hit

\* What a hit leaves of its slot: rows k, the state p of their end, and points.
Resumed(ids, sampled, p, k, Q) ==
  /\ k \in Seq(Token) /\ Prefix(k, ids) /\ p \in Points /\ p.after \in After
  /\ AfterTrue(p.after, k)
  /\ k = ids => Serves(p.after, sampled)
  /\ Q \in SUBSET Points /\ \A q \in Q : Lies(q, k, k)

(* device_hit_for finds a point to resume from: its rows are the prompt's  *)
(* beginning, so are those of the points before it, and if they are all    *)
(* the prompt the point serves the request.                                *)
LEMMA HitResumes ==
  ASSUME IInv, NEW ids \in Seq(Token), ids # <<>>, NEW sampled \in BOOLEAN,
         NEW h \in DeviceHitFor(ids, sampled)
  PROVE  /\ h[1] \in Slots /\ slot[h[1]].st = "retained" /\ h[2] \in slot[h[1]].points
         /\ Resumed(ids, sampled, h[2], First(slot[h[1]].kv, h[2].len), Keep(h[1], h[2]))
<1>1. PICK g \in DeviceHit(ids) :
         h \in IF g[2].len = Len(ids) /\ ~Serves(g[2].after, sampled)
               THEN DeviceHit(First(ids, Len(ids) - 1)) ELSE {g}
  BY DEF DeviceHitFor
<1>2. Len(ids) \in Nat /\ Len(ids) - 1 \in Nat
  <2>1. Len(ids) \in Nat /\ Len(ids) # 0
    BY EmptySeq
  <2>2. QED
    BY <2>1
<1>3. Hit(h, ids) /\ (h[2].len = Len(ids) => Serves(h[2].after, sampled))
  <2>1. CASE h \in DeviceHit(First(ids, Len(ids) - 1))
    <3> DEFINE f == First(ids, Len(ids) - 1)
    <3>1. f \in Seq(Token) /\ Len(f) = Len(ids) - 1
      BY <1>2, FirstAt
    <3>2. Hit(h, f)
      BY <2>1, HitFound
    <3> DEFINE a == First(slot[h[1]].hist, h[2].len)
    <3>3. /\ h[1] \in Slots /\ slot[h[1]].st = "retained" /\ h[2] \in slot[h[1]].points
          /\ Prefix(a, f)
      BY <3>2 DEF Hit
    <3>4. /\ slot[h[1]].hist \in Seq(Token) /\ h[2].len \in Nat
          /\ h[2].len <= Len(slot[h[1]].hist)
      BY <3>3, GoodFields DEF IInv, Lies
    <3>5. a \in Seq(Token) /\ Len(a) = h[2].len
      BY <3>4, FirstAt
    <3>6. Prefix(f, ids)
      BY <1>2, FirstPrefix
    <3> HIDE DEF f, a
    <3>7. First(ids, Len(a)) = First(f, Len(a)) /\ Len(f) <= Len(ids) /\ Len(a) <= Len(f)
      <4>1. Len(a) \in Nat /\ Len(a) <= Len(f)
        BY <3>3, <3>5 DEF Prefix
      <4>2. QED
        BY <3>1, <3>6, <4>1, PrefixFirst
    <3>8. Prefix(a, ids) /\ h[2].len # Len(ids)
      BY <1>2, <3>1, <3>3, <3>4, <3>5, <3>7 DEF Prefix
    <3>9. QED
      BY <3>3, <3>8 DEF Hit, a
  <2>2. CASE h \notin DeviceHit(First(ids, Len(ids) - 1))
    <3>1. h = g /\ ~(g[2].len = Len(ids) /\ ~Serves(g[2].after, sampled))
      BY <1>1, <2>2
    <3>2. QED
      BY <1>1, <3>1, HitFound
  <2>3. QED
    BY <2>1, <2>2
<1> DEFINE s == h[1]
           p == h[2]
           x == slot[s]
           k == First(x.kv, p.len)
<1>4. /\ s \in Slots /\ x.st = "retained" /\ p \in x.points /\ Prefix(First(x.hist, p.len), ids)
      /\ Good(x)
  BY <1>3 DEF Hit, IInv
<1> HIDE DEF s, p, x
<1>5. /\ x.kv \in Seq(Token) /\ x.hist \in Seq(Token) /\ Len(x.kv) \in Nat /\ Len(x.hist) \in Nat
      /\ x.points \subseteq Points /\ p \in Points /\ p.len \in Nat /\ p.after \in After
      /\ Lies(p, x.kv, x.hist)
  BY <1>4, GoodFields
<1>6. /\ p.len <= Len(x.kv) /\ p.len <= Len(x.hist) /\ k = First(x.hist, p.len)
      /\ p.at = k /\ AfterTrue(p.after, k)
  BY <1>5 DEF Lies
<1>7. k \in Seq(Token) /\ Len(k) = p.len /\ Prefix(k, ids)
  BY <1>4, <1>5, <1>6, FirstAt
<1>8. k = ids => Serves(p.after, sampled)
  BY <1>3, <1>7 DEF p
<1>9. ASSUME NEW q \in x.points, q.len <= p.len
      PROVE  Lies(q, k, k)
  <2>1. q.len \in Nat /\ Lies(q, x.kv, x.hist)
    BY <1>4, GoodFields
  <2>2. First(First(x.hist, p.len), q.len) = First(x.hist, q.len)
    BY <1>5, <1>6, <1>9, <2>1, FirstFirst
  <2>3. q.at = First(k, q.len)
    BY <1>6, <2>1, <2>2 DEF Lies
  <2>4. QED
    BY <1>7, <1>9, <2>1, <2>3 DEF Lies
<1>10. Keep(s, p) = {q \in x.points : q.len <= p.len}
  BY DEF Keep, x
<1>11. Keep(s, p) \in SUBSET Points /\ \A q \in Keep(s, p) : Lies(q, k, k)
  BY <1>5, <1>9, <1>10
<1>12. Resumed(ids, sampled, p, k, Keep(s, p))
  BY <1>5, <1>6, <1>7, <1>8, <1>11 DEF Resumed
<1>13. QED
  BY <1>4, <1>12 DEF s, p, x

(* Prompts are sequences of tokens, and not empty.                         *)
LEMMA PromptTyped ==
  ASSUME NEW ids \in Prompts
  PROVE  ids \in Seq(Token) /\ ids # <<>>
BY PoolAssumption

(* The request resumed from a hit has a good slot, with the hit's points   *)
(* or with none.                                                           *)
LEMMA ResumedGood ==
  ASSUME NEW ids \in Seq(Token), NEW sampled \in BOOLEAN, NEW p, NEW k, NEW Q,
         Resumed(ids, sampled, p, k, Q), NEW cap \in Nat, Base <= cap
  PROVE  /\ Good(Running(ids, sampled, k, Q, p.after, cap))
         /\ Good(Running(ids, sampled, k, {}, p.after, cap))
<1>1. /\ k \in Seq(Token) /\ Prefix(k, ids) /\ p.after \in After /\ AfterTrue(p.after, k)
      /\ k = ids => Serves(p.after, sampled)
      /\ Q \in SUBSET Points /\ \A q \in Q : Lies(q, k, k)
  BY DEF Resumed
<1>2. Good(Running(ids, sampled, k, Q, p.after, cap))
  BY <1>1, RunningGood
<1>3. Good(Running(ids, sampled, k, {}, p.after, cap))
  BY <1>1, RunningGood
<1>4. QED
  BY <1>2, <1>3

(* Admission from a device hit, and its refusal.                           *)
LEMMA HitKeeps ==
  ASSUME IInv, NEW ids \in Prompts, NEW sampled \in BOOLEAN, NEW h \in DeviceHitFor(ids, sampled),
         NEW E \in SUBSET Slots, NEW f \in Slots,
         \/ AdmitFork(ids, sampled, h, f) \/ AdmitInPlace(ids, sampled, h, E)
         \/ Relocate(ids, sampled, h, E) \/ RefuseInPlace(ids, sampled, h, E)
  PROVE  IInv'
<1> DEFINE s == h[1]
           p == h[2]
           k == First(slot[s].kv, p.len)
<1>1. ids \in Seq(Token) /\ ids # <<>>
  BY PromptTyped
<1>2. /\ s \in Slots /\ slot[s].st = "retained" /\ p \in slot[s].points
      /\ Resumed(ids, sampled, p, k, Keep(s, p))
  BY <1>1, HitResumes
<1>3. Good(slot[s]) /\ slot[s].cap \in Nat /\ Base <= slot[s].cap
  BY <1>2, GoodFields DEF IInv
<1>4. /\ \A r \in ram : Whole(r)
      /\ Cardinality(ram) <= Cap /\ req \in [ids : Seq(Token), sampled : BOOLEAN]
  BY DEF IInv
<1>5. CASE AdmitFork(ids, sampled, h, f)
  <2>1. /\ slot' = Updated(f, Running(ids, sampled, k, {}, p.after, Base), {})
        /\ ram' = ram /\ req' = req
    BY <1>5 DEF AdmitFork
  <2>2. Good(Running(ids, sampled, k, {}, p.after, Base))
    BY <1>1, <1>2, Sizes, ResumedGood
  <2>3. QED
    BY <1>4, <2>1, <2>2, UpdatedKeeps
<1>6. CASE AdmitInPlace(ids, sampled, h, E)
  <2>1. /\ slot' = Updated(s, Running(ids, sampled, k, Keep(s, p), p.after, slot[s].cap), E)
        /\ ram' \in RamWith(LaterSnaps(s, p) \cup Snaps(E)) /\ req' = req
    BY <1>6 DEF AdmitInPlace
  <2>2. Good(Running(ids, sampled, k, Keep(s, p), p.after, slot[s].cap))
    BY <1>1, <1>2, <1>3, ResumedGood
  <2>3. \A r \in LaterSnaps(s, p) \cup Snaps(E) : Whole(r)
    <3>1. \A r \in LaterSnaps(s, p) : Whole(r)
      BY <1>3, SnapWhole DEF LaterSnaps, Later
    <3>2. QED
      BY <3>1, SnapsWhole
  <2>4. (\A r \in ram' : Whole(r)) /\ Cardinality(ram') <= Cap
    BY <2>1, <2>3, RamWhole
  <2>5. QED
    BY <1>2, <1>4, <2>1, <2>2, <2>4, UpdatedKeeps
<1>7. CASE Relocate(ids, sampled, h, E)
  <2>1. /\ slot' = Updated(s, Clean, E) /\ ram' \in RamWith(Snaps({s} \cup E))
        /\ req' = [ids |-> ids, sampled |-> sampled]
    BY <1>7 DEF Relocate
  <2>2. {s} \cup E \in SUBSET Slots
    BY <1>2
  <2>3. (\A r \in ram' : Whole(r)) /\ Cardinality(ram') <= Cap
    BY <2>1, <2>2, SnapsWhole, RamWhole
  <2>4. req' \in [ids : Seq(Token), sampled : BOOLEAN]
    BY <1>1, <2>1
  <2>5. QED
    BY <1>2, <2>1, <2>3, <2>4, CleanGood, UpdatedKeeps
<1>8. CASE RefuseInPlace(ids, sampled, h, E)
  <2> DEFINE x == slot[s]
             b == First(x.hist, p.len)
             Q == Keep(s, p)
             d == [x EXCEPT !.hist = b, !.points = Q]
  <2>1. slot' = Updated(s, d, E) /\ ram' = ram /\ req' = req
    BY <1>8 DEF RefuseInPlace
  <2>2. /\ x \in Records /\ x.hist \in Seq(Token) /\ Len(x.hist) \in Nat /\ p.len \in Nat
        /\ p.len <= Len(x.hist) /\ x.st = "retained"
    BY <1>2, <1>3, GoodFields DEF Lies
  <2>3. b \in Seq(Token) /\ Len(b) = p.len
    BY <2>2, FirstAt
  <2>4. Q \in SUBSET x.points /\ Q \in SUBSET Points /\ \A q \in Q : q.len <= p.len
    BY <1>2 DEF Keep, Resumed
  <2>5. \A q \in Q : Lies(q, x.kv, b)
    <3>1. ASSUME NEW q \in Q PROVE Lies(q, x.kv, b)
      <4>1. q.len \in Nat /\ Lies(q, x.kv, x.hist) /\ q.len <= p.len
        BY <1>3, <2>4, GoodFields
      <4>2. First(b, q.len) = First(x.hist, q.len)
        BY <2>2, <4>1, FirstFirst
      <4>3. QED
        BY <2>3, <4>1, <4>2 DEF Lies
    <3>2. QED
      BY <3>1
  <2> HIDE DEF b, Q
  <2>6. /\ d \in Records /\ d.st = x.st /\ d.kv = x.kv /\ d.hist = b /\ d.points = Q /\ d.cap = x.cap
    BY <2>2, <2>3, <2>4 DEF Records
  <2>7. Stands(d)
    BY <2>2, <2>6 DEF Stands
  <2>8. Good(d)
    BY <1>3, <2>5, <2>6, <2>7 DEF Good
  <2>9. QED
    BY <1>2, <1>4, <2>1, <2>8, UpdatedKeeps
<1>9. QED
  BY <1>5, <1>6, <1>7, <1>8

(* A point saved where rows end lies in them, and in what they begin.      *)
LEMMA PointLies ==
  ASSUME NEW kv \in Seq(Token), MinRetain <= Len(kv), NEW kind \in Kinds, NEW after \in After,
         AfterTrue(after, kv)
  PROVE  /\ Point(kv, kind, after) \in Points /\ Point(kv, kind, after).len = Len(kv)
         /\ Lies(Point(kv, kind, after), kv, kv)
<1> DEFINE p == Point(kv, kind, after)
<1>1. p.len = Len(kv) /\ p.kind = kind /\ p.after = after /\ p.at = kv
  BY DEF Point
<1>2. Len(kv) \in Nat
  OBVIOUS
<1>3. p \in Points
  BY <1>2 DEF Point, Points
<1>4. First(kv, Len(kv)) = kv
  BY FirstWhole
<1> HIDE DEF p
<1>5. Lies(p, kv, kv)
  BY <1>1, <1>2, <1>4 DEF Lies
<1>6. QED
  BY <1>1, <1>3, <1>5 DEF p

(* A request that waits for a clean slot, and the three ways it ends.      *)
LEMMA CleanSlotKeeps ==
  ASSUME IInv, NEW f \in Slots, NEW E \in SUBSET Slots,
         AdmitCold(f, E) \/ Refuse(f, E) \/ AdmitRestored(f, E)
  PROVE  IInv'
<1>1. /\ ram' \in RamWith(Snaps(E)) /\ req' = NoReq
  BY DEF AdmitCold, Refuse, AdmitRestored
<1>2. (\A r \in ram' : Whole(r)) /\ Cardinality(ram') <= Cap
  BY <1>1, SnapsWhole, RamWhole
<1>3. req' \in [ids : Seq(Token), sampled : BOOLEAN]
  BY <1>1 DEF NoReq
<1>4. req.ids \in Seq(Token) /\ req.sampled \in BOOLEAN
  BY DEF IInv
<1>5. CASE Refuse(f, E)
  BY <1>2, <1>3, <1>5, CleanGood, UpdatedKeeps DEF Refuse
<1>6. CASE AdmitCold(f, E)
  <2>1. slot' = Updated(f, Running(req.ids, req.sampled, <<>>, {}, NoAfter, Base), E)
    BY <1>6 DEF AdmitCold
  <2>2. <<>> \in Seq(Token) /\ Len(<<>>) = 0 /\ Len(req.ids) \in Nat
    BY <1>4
  <2>a. First(req.ids, 0) \in Seq(Token) /\ Len(First(req.ids, 0)) = 0
    BY <1>4, <2>2, FirstAt
  <2>b. First(req.ids, 0) = <<>>
    BY <2>a, <2>2, Same
  <2>3. Prefix(<<>>, req.ids)
    BY <2>2, <2>b DEF Prefix
  <2>4. ~(<<>> = req.ids /\ MinRetain <= Len(req.ids))
    BY <2>2, Sizes
  <2>c. /\ NoAfter \in After /\ AfterTrue(NoAfter, <<>>) /\ Base \in Nat /\ Base <= Base
        /\ {} \in SUBSET Points /\ \A p \in {} : Lies(p, <<>>, <<>>)
    BY NothingKnown, Sizes
  <2>d. <<>> = req.ids => /\ AfterTrue(NoAfter, <<>>)
                          /\ MinRetain <= Len(req.ids) => Serves(NoAfter, req.sampled)
    BY <2>4, <2>c
  <2>5. Good(Running(req.ids, req.sampled, <<>>, {}, NoAfter, Base))
    BY <1>4, <2>2, <2>3, <2>c, <2>d, RunningGood
  <2>6. QED
    BY <1>2, <1>3, <2>1, <2>5, UpdatedKeeps
<1>7. CASE AdmitRestored(f, E)
  <2>1. PICK r \in LongestIn(ram', req.ids, req.sampled) :
          \E points \in Saved({}, r.rows, r.kind, r.after) :
            slot' = Updated(f, Running(req.ids, req.sampled, r.rows, points, r.after, Base), E)
    BY <1>7 DEF AdmitRestored
  <2>2. PICK points \in Saved({}, r.rows, r.kind, r.after) :
            slot' = Updated(f, Running(req.ids, req.sampled, r.rows, points, r.after, Base), E)
    BY <2>1
  <2>3. /\ r \in ram' /\ Prefix(r.tokens, req.ids)
        /\ r.tokens = req.ids => Serves(r.after, req.sampled)
    BY DEF LongestIn, HitsIn
  <2>4. Whole(r) /\ r.rows = r.tokens
    BY <1>2, <2>3 DEF Whole
  <2>5. /\ r.rows \in Seq(Token) /\ r.kind \in Kinds /\ r.after \in After
        /\ AfterTrue(r.after, r.rows) /\ MinRetain <= Len(r.rows)
    BY <2>4 DEF Whole, Snapshot
  <2> DEFINE p == Point(r.rows, r.kind, r.after)
  <2>6. p \in Points /\ Lies(p, r.rows, r.rows)
    BY <2>5, PointLies
  <2>7. points \in SUBSET Points /\ \A q \in points : Lies(q, r.rows, r.rows)
    BY <2>6 DEF Saved
  <2>8. Good(Running(req.ids, req.sampled, r.rows, points, r.after, Base))
    BY <1>4, <2>3, <2>4, <2>5, <2>7, Sizes, RunningGood
  <2>9. QED
    BY <1>2, <1>3, <2>2, <2>8, UpdatedKeeps
<1>8. QED
  BY <1>5, <1>6, <1>7

(* The wish for a clean slot.                                              *)
LEMMA MissKeeps ==
  ASSUME IInv, NEW ids \in Prompts, NEW sampled \in BOOLEAN, Miss(ids, sampled)
  PROVE  IInv'
<1>1. slot' = slot /\ ram' = ram /\ req' = [ids |-> ids, sampled |-> sampled]
  BY DEF Miss
<1>2. req' \in [ids : Seq(Token), sampled : BOOLEAN]
  BY <1>1, PromptTyped
<1>3. QED
  BY <1>1, <1>2 DEF IInv

(* A prefill segment.                                                      *)
LEMMA SegmentKeeps ==
  ASSUME IInv, NEW s \in Slots, NEW end \in 1..MaxHist, Segment(s, end)
  PROVE  IInv'
<1> DEFINE x == slot[s]
           h == First(x.hist, end)
           st == IF end = Len(x.hist) THEN "ready" ELSE "prefill"
           af == [greedy |-> Argmax(h), logits |-> end >= MinRetain]
           d == [x EXCEPT !.kv = h, !.st = st, !.after = af]
<1>1. /\ x.st = "prefill" /\ end \in (Len(x.kv) + 1)..Len(x.hist)
      /\ slot' = [slot EXCEPT ![s] = d] /\ ram' = ram /\ req' = req
  BY DEF Segment
<1>2. Good(x)
  BY DEF IInv
<1>3. /\ x \in Records /\ x.kv \in Seq(Token) /\ x.hist \in Seq(Token) /\ Len(x.kv) \in Nat
      /\ Len(x.hist) \in Nat /\ Stands(x) /\ x.points \subseteq Points
      /\ \A p \in x.points : p.len \in Nat /\ Lies(p, x.kv, x.hist)
  BY <1>2, GoodFields
<1>4. end \in Nat /\ end <= Len(x.hist) /\ Len(x.kv) + 1 <= end /\ end \in 0..MaxHist
  BY <1>1, <1>3, Sizes
<1>5. h \in Seq(Token) /\ Len(h) = end /\ Prefix(h, x.hist)
  BY <1>3, <1>4, FirstAt, FirstPrefix
<1> HIDE DEF h
<1>6. Argmax(h) \in Token
  <2>1. h \in [1..end -> Token]
    BY <1>5
  <2>2. QED
    BY <1>4, <2>1, PoolAssumption
<1>7. af \in After /\ AfterTrue(af, h) /\ af.greedy = Argmax(h) /\ af.logits = (end >= MinRetain)
  BY <1>6 DEF After, AfterTrue
<1>8. end = Len(x.hist) => h = x.hist
  BY <1>3, FirstWhole DEF h
<1>9. end = Len(x.hist) /\ MinRetain <= Len(x.hist) => Serves(af, x.sampled)
  BY <1>4, <1>6, <1>7, Sizes DEF Serves
<1> HIDE DEF af
<1>10. st \in States /\ st \in {"ready", "prefill"} /\ (st = "ready" => end = Len(x.hist))
  BY DEF States
<1> HIDE DEF st
<1>11. /\ d \in Records /\ d.st = st /\ d.kv = h /\ d.hist = x.hist /\ d.points = x.points
       /\ d.cap = x.cap /\ d.after = af /\ d.sampled = x.sampled
  BY <1>3, <1>5, <1>7, <1>10 DEF Records
<1> HIDE DEF d
<1>12. Stands(d)
  BY <1>5, <1>7, <1>8, <1>9, <1>10, <1>11 DEF Stands
<1>13. ASSUME NEW p \in x.points PROVE Lies(p, h, x.hist)
  <2>1. p.len \in Nat /\ Lies(p, x.kv, x.hist) /\ p.len <= Len(x.kv) /\ p.len <= end
    BY <1>3, <1>4 DEF Lies
  <2>2. First(h, p.len) = First(x.hist, p.len)
    BY <1>3, <1>4, <2>1, FirstFirst DEF h
  <2>3. QED
    BY <1>5, <2>1, <2>2 DEF Lies
<1>14. Good(d)
  BY <1>2, <1>11, <1>12, <1>13 DEF Good
<1>15. QED
  BY <1>1, <1>14, OneKeeps

(* Points with one more, saved or not, where rows end.                     *)
LEMMA SavedLie ==
  ASSUME NEW Q \in SUBSET Points, NEW kv \in Seq(Token), NEW h \in Seq(Token), Prefix(kv, h),
         \A q \in Q : Lies(q, kv, h), MinRetain <= Len(kv), NEW kind \in Kinds,
         NEW after \in After, AfterTrue(after, kv), NEW points \in Saved(Q, kv, kind, after)
  PROVE  /\ points \in SUBSET Points /\ \A q \in points : Lies(q, kv, h)
         /\ \A q \in points : q \in Q \/ q.len = Len(kv)
<1> DEFINE p == Point(kv, kind, after)
<1>1. p \in Points /\ p.len = Len(kv) /\ Lies(p, kv, kv)
  BY PointLies
<1>2. points = Q \/ points = Q \cup {p}
  BY DEF Saved
<1> HIDE DEF p
<1>3. Lies(p, kv, h)
  BY <1>1, LiesOn
<1>4. QED
  BY <1>1, <1>2, <1>3

(* The prompt is done: its end may become a point, its first token goes.   *)
LEMMA StartKeeps ==
  ASSUME IInv, NEW s \in Slots, NEW next \in Token, Start(s, next)
  PROVE  IInv'
<1> DEFINE x == slot[s]
           want == Len(x.hist) >= MinRetain /\ \A p \in x.points : p.len # Len(x.hist)
           h == Append(x.hist, next)
<1>1. /\ x.st = "ready" /\ next \in Draw(x.hist, x.sampled) /\ ram' = ram /\ req' = req
      /\ \E points \in IF want THEN Saved(x.points, x.kv, "prompt", x.after) ELSE {x.points} :
           slot' = [slot EXCEPT ![s] = [x EXCEPT !.st = "active", !.hist = h,
                                                 !.points = points, !.after = NoAfter]]
  BY DEF Start
<1>2. Good(x)
  BY DEF IInv
<1>3. /\ x \in Records /\ x.kv \in Seq(Token) /\ x.hist \in Seq(Token) /\ Len(x.hist) \in Nat
      /\ Stands(x) /\ x.points \in SUBSET Points /\ x.after \in After
      /\ \A p \in x.points : p.len \in Nat /\ Lies(p, x.kv, x.hist)
  BY <1>2, GoodFields
<1>4. x.kv = x.hist /\ AfterTrue(x.after, x.kv)
  BY <1>1, <1>3 DEF Stands
<1>5. PICK points \in IF want THEN Saved(x.points, x.kv, "prompt", x.after) ELSE {x.points} :
        slot' = [slot EXCEPT ![s] = [x EXCEPT !.st = "active", !.hist = h,
                                              !.points = points, !.after = NoAfter]]
  BY <1>1
<1>6. points \in SUBSET Points /\ \A p \in points : Lies(p, x.kv, x.kv)
  <2>1. CASE want
    <3>1. points \in Saved(x.points, x.kv, "prompt", x.after) /\ MinRetain <= Len(x.kv)
      BY <1>4, <1>5, <2>1, Sizes
    <3>2. First(x.kv, Len(x.kv)) = x.kv /\ Prefix(x.kv, x.kv)
      BY <1>3, FirstWhole DEF Prefix
    <3>3. "prompt" \in Kinds /\ \A p \in x.points : Lies(p, x.kv, x.kv)
      BY <1>3, <1>4 DEF Kinds
    <3>4. PICK a \in After : a = x.after
      BY <1>3
    <3>5. PICK b \in Seq(Token) : b = x.kv
      BY <1>3
    <3>6. PICK Q \in SUBSET Points : Q = x.points
      BY <1>3
    <3>7. /\ \A q \in Q : Lies(q, b, b)
          /\ AfterTrue(a, b) /\ Prefix(b, b) /\ MinRetain <= Len(b)
          /\ "prompt" \in Kinds /\ points \in Saved(Q, b, "prompt", a)
      BY <1>4, <3>1, <3>2, <3>3, <3>4, <3>5, <3>6
    <3>8. points \in SUBSET Points /\ \A q \in points : Lies(q, b, b)
      BY <3>7, SavedLie
    <3>9. QED
      BY <3>5, <3>8
  <2>2. CASE ~want
    BY <1>3, <1>4, <1>5, <2>2
  <2>3. QED
    BY <2>1, <2>2
<1>7. /\ h \in Seq(Token) /\ Len(h) = Len(x.hist) + 1 /\ h[Len(x.hist) + 1] = next
      /\ First(h, Len(x.hist)) = x.hist
  <2>1. First(h, Len(x.hist)) = First(x.hist, Len(x.hist))
    BY <1>3, FirstAppend
  <2>2. QED
    BY <1>3, <2>1, FirstWhole
<1>8. Prefix(x.kv, h)
  BY <1>3, <1>4, <1>7 DEF Prefix
<1>9. ~x.sampled => next = Argmax(x.hist)
  BY <1>1 DEF Draw
<1> DEFINE d == [x EXCEPT !.st = "active", !.hist = h, !.points = points, !.after = NoAfter]
<1> HIDE DEF h, want
<1>10. /\ d \in Records /\ d.st = "active" /\ d.kv = x.kv /\ d.hist = h /\ d.points = points
       /\ d.cap = x.cap /\ d.sampled = x.sampled
  <2>1. "active" \in States
    BY DEF States
  <2>2. QED
    BY <1>3, <1>6, <1>7, <2>1, NothingKnown DEF Records
<1>11. slot' = [slot EXCEPT ![s] = d]
  BY <1>5
<1> HIDE DEF d
<1>12. Len(h) - 1 = Len(x.hist) /\ h # <<>>
  BY <1>3, <1>7
<1>13. LastTrue(d)
  BY <1>7, <1>9, <1>10, <1>12 DEF LastTrue
<1>14. Stands(d)
  BY <1>4, <1>7, <1>10, <1>12, <1>13 DEF Stands
<1>15. \A p \in points : Lies(p, x.kv, h)
  BY <1>3, <1>6, <1>7, <1>8, LiesOn
<1>16. Good(d)
  BY <1>2, <1>10, <1>14, <1>15 DEF Good
<1>17. QED
  BY <1>1, <1>11, <1>16, OneKeeps

(* g is the history h with the first n tokens of a decode run after it.    *)
GoesOn(g, h, out, n) ==
  /\ g \in Seq(Token) /\ Len(g) = Len(h) + n /\ g # <<>>
  /\ g[Len(g)] = out[n] /\ First(g, Len(g) - 1) = h \o First(out, n - 1)
  /\ \A i \in Nat : i <= Len(h) => First(g, i) = First(h, i)

(* A run of tokens continues a history.                                    *)
LEMMA RunGoesOn ==
  ASSUME NEW h \in Seq(Token), NEW out \in Seq(Token), NEW n \in Nat, n <= Len(out), 1 <= n,
         NEW g, g = h \o First(out, n)
  PROVE  GoesOn(g, h, out, n)
<1> USE DEF GoesOn
<1> DEFINE f == First(out, n)
<1>0. g = h \o f
  OBVIOUS
<1>1. PICK k, l \in Nat : Len(h) = k /\ Len(out) = l
  OBVIOUS
<1>2. f \in Seq(Token) /\ Len(f) = n /\ \A i \in 1..n : f[i] = out[i]
  BY FirstAt
<1>3. First(f, n - 1) = First(out, n - 1)
  BY FirstFirst
<1> HIDE DEF f
<1>4. /\ g \in Seq(Token) /\ Len(g) = k + n
      /\ \A i \in 1..(k + n) : g[i] = IF i <= k THEN h[i] ELSE f[i - k]
  <2>1. /\ h \o f \in Seq(Token) /\ Len(h \o f) = k + n
        /\ \A i \in 1..(k + n) : (h \o f)[i] = IF i <= k THEN h[i] ELSE f[i - k]
    <3>1. /\ h \o f \in Seq(Token) /\ Len(h \o f) = Len(h) + Len(f)
          /\ \A i \in 1..(Len(h) + Len(f)) :
               (h \o f)[i] = IF i <= Len(h) THEN h[i] ELSE f[i - Len(h)]
      BY <1>2, ConcatProperties
    <3>2. Len(h) = k /\ Len(f) = n
      BY <1>1, <1>2
    <3>3. QED
      BY <3>1, <3>2
  <2>2. QED
    BY <1>0, <2>1
<1>5. g[k + n] = out[n]
  <2>1. PICK i \in 1..(k + n) : i = k + n /\ ~(i <= k) /\ i - k = n
    OBVIOUS
  <2>2. g[i] = f[i - k]
    BY <1>4, <2>1
  <2>3. f[n] = out[n]
    BY <1>2
  <2>4. QED
    BY <2>1, <2>2, <2>3
<1>6. First(g, k + (n - 1)) = h \o First(out, n - 1)
  <2>1. PICK m \in Nat : m = n - 1 /\ m <= Len(f)
    BY <1>2
  <2>a. f \in Seq(Token) /\ m <= Len(f)
    BY <1>2, <2>1
  <2>2. First(h \o f, Len(h) + m) = h \o First(f, m)
    BY <2>a, FirstBeyond
  <2>b. First(g, k + m) = h \o First(f, m)
    BY <1>0, <1>1, <2>2
  <2>3. QED
    BY <1>3, <2>1, <2>b
<1>7. \A i \in Nat : i <= Len(h) => First(g, i) = First(h, i)
  BY <1>0, <1>2, FirstConcat
<1>8. k + n - 1 = k + (n - 1) /\ k + n # 0
  OBVIOUS
<1>9. g # <<>>
  BY <1>4, <1>8
<1>10. QED
  BY <1>1, <1>4, <1>5, <1>6, <1>7, <1>8, <1>9 DEF f

(* A decode step, plain or speculative.                                    *)
LEMMA DecodeKeeps ==
  ASSUME IInv, NEW s \in Slots, NEW out \in Runs, NEW sent \in 1..2, Decode(s, out, sent)
  PROVE  IInv'
<1> DEFINE x == slot[s]
           st == IF sent < Len(out) THEN "done" ELSE "active"
           kv == x.hist \o First(out, Len(out) - 1)
           h == x.hist \o First(out, sent)
           d == [x EXCEPT !.kv = kv, !.hist = h, !.st = st]
<1>1. /\ x.st = "active" /\ sent \in 1..Len(out) /\ slot' = [slot EXCEPT ![s] = d]
      /\ \A i \in 1..Len(out) : out[i] \in Draw(x.hist \o First(out, i - 1), x.sampled)
      /\ ram' = ram /\ req' = req
  BY DEF Decode
<1>2. Good(x)
  BY DEF IInv
<1>3. /\ x \in Records /\ x.kv \in Seq(Token) /\ x.hist \in Seq(Token) /\ Stands(x)
      /\ x.points \in SUBSET Points
      /\ \A p \in x.points : p.len \in Nat /\ Lies(p, x.kv, x.hist)
  BY <1>2, GoodFields
<1>4. x.hist # <<>> /\ x.kv = First(x.hist, Len(x.hist) - 1)
  BY <1>1, <1>3 DEF Stands
<1>5. out \in Seq(Token)
  <2>1. PICK j \in 1..2 : out \in [1..j -> Token]
    BY DEF Runs
  <2>2. QED
    BY <2>1
<1>6. PICK k, n \in Nat : Len(x.hist) = k /\ Len(out) = n
  BY <1>3, <1>5
<1>7. k >= 1 /\ sent \in Nat /\ 1 <= sent /\ sent <= n /\ n - 1 \in Nat /\ n - 1 <= Len(out)
  <2>1. k # 0
    BY <1>3, <1>4, <1>6, EmptySeq
  <2>2. QED
    BY <1>1, <1>6, <2>1
<1>a. sent <= Len(out) /\ h = x.hist \o First(out, sent)
  BY <1>6, <1>7
<1> HIDE DEF h
<1>8. /\ h \in Seq(Token) /\ Len(h) = k + sent /\ h # <<>> /\ h[Len(h)] = out[sent]
      /\ First(h, Len(h) - 1) = x.hist \o First(out, sent - 1)
      /\ \A i \in Nat : i <= k => First(h, i) = First(x.hist, i)
  <2>1. /\ h \in Seq(Token) /\ Len(h) = Len(x.hist) + sent /\ h # <<>> /\ h[Len(h)] = out[sent]
        /\ First(h, Len(h) - 1) = x.hist \o First(out, sent - 1)
        /\ \A i \in Nat : i <= Len(x.hist) => First(h, i) = First(x.hist, i)
    <3>1. PICK b \in Seq(Token) : b = x.hist
      BY <1>3
    <3>2. sent \in Nat /\ 1 <= sent /\ sent <= Len(out) /\ out \in Seq(Token)
      BY <1>a, <1>5, <1>7
    <3>3. h = b \o First(out, sent)
      BY <1>a, <3>1
    <3>4. /\ h \in Seq(Token) /\ Len(h) = Len(b) + sent /\ h # <<>> /\ h[Len(h)] = out[sent]
          /\ First(h, Len(h) - 1) = b \o First(out, sent - 1)
          /\ \A i \in Nat : i <= Len(b) => First(h, i) = First(b, i)
      <4> HIDE DEF x, kv
      <4>1. PICK g : g = h
        OBVIOUS
      <4>2. PICK t \in Seq(Token), m \in Nat : t = out /\ m = sent
        BY <3>2
      <4>3. m <= Len(t) /\ 1 <= m /\ g = b \o First(t, m)
        BY <3>2, <3>3, <4>1, <4>2
      <4>4. GoesOn(g, b, t, m)
        BY <4>3, RunGoesOn
      <4>5. QED
        BY <4>1, <4>2, <4>4 DEF GoesOn
    <3>5. QED
      BY <3>1, <3>4
  <2>2. QED
    BY <1>6, <2>1
<1>9. kv \in Seq(Token) /\ Len(kv) = k + (n - 1)
  <2>1. PICK b \in Seq(Token) : b = x.hist
    BY <1>3
  <2>2. PICK m \in Nat : m = n - 1 /\ m <= Len(out)
    BY <1>7
  <2>3. Len(b \o First(out, m)) = Len(b) + m /\ b \o First(out, m) \in Seq(Token)
    BY <1>5, <2>2, FirstBeyond
  <2>4. kv = b \o First(out, m)
    BY <1>6, <2>1, <2>2
  <2>5. Len(b) = k
    BY <1>6, <2>1
  <2> HIDE DEF kv
  <2>6. QED
    BY <2>2, <2>3, <2>4, <2>5
<1>10. \A i \in Nat : i <= k => First(kv, i) = First(x.hist, i)
  BY <1>3, <1>5, <1>6, <1>7, FirstAt, FirstConcat
<1>11. sent = n => kv = First(h, Len(h) - 1)
  BY <1>6, <1>8 DEF kv
<1>12. sent < n => Prefix(h, kv)
  <2>1. SUFFICES ASSUME sent < n PROVE Prefix(h, kv)
    OBVIOUS
  <2> DEFINE f == First(out, n - 1)
  <2>2. f \in Seq(Token) /\ Len(f) = n - 1 /\ sent <= Len(f)
    <3>1. PICK m \in Nat : m = n - 1 /\ m <= Len(out) /\ sent <= m
      BY <1>7, <2>1
    <3>2. First(out, m) \in Seq(Token) /\ Len(First(out, m)) = m
      BY <1>5, <3>1, FirstAt
    <3>3. QED
      BY <3>1, <3>2
  <2>3. First(f, sent) = First(out, sent)
    BY <1>5, <1>6, <1>7, <2>1, FirstFirst
  <2> HIDE DEF f
  <2>4. First(x.hist \o f, Len(x.hist) + sent) = x.hist \o First(f, sent)
    BY <1>3, <1>7, <2>2, FirstBeyond
  <2>5. kv = x.hist \o f
    BY <1>6 DEF f
  <2>6. First(kv, Len(h)) = h
    BY <1>a, <1>6, <1>8, <2>3, <2>4, <2>5
  <2>7. Len(h) <= Len(kv)
    <3>1. Len(h) = k + sent /\ Len(kv) = k + (n - 1)
      BY <1>8, <1>9
    <3> HIDE DEF kv
    <3>2. k + sent <= k + (n - 1)
      BY <1>7, <2>1
    <3>3. QED
      BY <3>1, <3>2
  <2>8. QED
    BY <2>6, <2>7 DEF Prefix
<1>13. ~x.sampled => out[sent] = Argmax(x.hist \o First(out, sent - 1))
  BY <1>1 DEF Draw
<1>14. \A p \in x.points : p.len + 1 <= k
  <2>1. Len(x.kv) = k - 1
    BY <1>3, <1>4, <1>6, <1>7, FirstAt
  <2>2. ASSUME NEW p \in x.points PROVE p.len + 1 <= k
    <3>1. p.len \in Nat /\ p.len <= k - 1
      BY <1>3, <2>1 DEF Lies
    <3>2. QED
      BY <3>1, <1>7
  <2>3. QED
    BY <2>2
<1>15. st \in States /\ st \in {"active", "done"} /\ (st = "done" => sent < n) /\ (st = "active" => sent = n)
  BY <1>6, <1>7 DEF States
<1> HIDE DEF h, kv, st
<1>16. /\ d \in Records /\ d.st = st /\ d.kv = kv /\ d.hist = h /\ d.points = x.points
       /\ d.cap = x.cap /\ d.sampled = x.sampled
  BY <1>3, <1>8, <1>9, <1>15 DEF Records
<1> HIDE DEF d
<1>17. LastTrue(d)
  BY <1>8, <1>13, <1>16 DEF LastTrue
<1>18. \A p \in x.points : p.len + 1 <= Len(h)
  <2>1. ASSUME NEW p \in x.points PROVE p.len + 1 <= k + sent
    <3>1. p.len \in Nat /\ p.len + 1 <= k
      BY <1>3, <1>14
    <3>2. QED
      BY <3>1, <1>7
  <2>2. QED
    BY <1>8, <2>1
<1>19. Stands(d)
  BY <1>8, <1>11, <1>12, <1>15, <1>16, <1>17, <1>18 DEF Stands
<1>20. ASSUME NEW p \in x.points PROVE Lies(p, kv, h)
  <2>1. p.len \in Nat /\ Lies(p, x.kv, x.hist) /\ p.len + 1 <= k
    BY <1>3, <1>14
  <2>2. p.len <= k /\ p.len <= k + (n - 1) /\ p.len <= k + sent
    BY <1>7, <2>1
  <2>3. First(kv, p.len) = First(x.hist, p.len) /\ First(h, p.len) = First(x.hist, p.len)
    BY <1>8, <1>10, <2>1, <2>2
  <2>4. QED
    BY <1>8, <1>9, <2>1, <2>2, <2>3 DEF Lies
<1>21. Good(d)
  BY <1>2, <1>16, <1>19, <1>20 DEF Good
<1>22. QED
  BY <1>1, <1>21, OneKeeps

(* Rows for a running request.                                             *)
LEMMA GrowKeeps ==
  ASSUME IInv, NEW s \in Slots, NEW E \in SUBSET Slots, GrowActive(s, E)
  PROVE  IInv'
<1> DEFINE x == slot[s]
           c == x.cap + 1
           d == [x EXCEPT !.cap = c]
<1>1. /\ x.st = "active" /\ ram' \in RamWith(Snaps(E)) /\ req' = req
      /\ slot' = Updated(s, d, E) \/ slot' = Updated(s, x, E)
  BY DEF GrowActive
<1>2. (\A r \in ram' : Whole(r)) /\ Cardinality(ram') <= Cap
  BY <1>1, SnapsWhole, RamWhole
<1>3. Good(x) /\ req' \in [ids : Seq(Token), sampled : BOOLEAN]
  BY <1>1 DEF IInv
<1>4. x \in Records /\ x.cap \in Nat /\ Base <= x.cap
  BY <1>3, GoodFields
<1>5. c \in Nat /\ Base <= c
  BY <1>4, Sizes
<1> HIDE DEF c
<1>6. /\ d \in Records /\ d.st = x.st /\ d.kv = x.kv /\ d.hist = x.hist /\ d.points = x.points
      /\ d.cap = c /\ d.after = x.after /\ d.sampled = x.sampled
  BY <1>4, <1>5 DEF Records
<1> HIDE DEF d
<1>7. Stands(d)
  BY <1>1, <1>3, <1>6, GoodFields DEF Stands, LastTrue
<1>8. Good(d)
  BY <1>3, <1>5, <1>6, <1>7 DEF Good
<1>9. QED
  BY <1>1, <1>2, <1>3, <1>8, UpdatedKeeps

(* A slot is good for the points that lie in its rows.                     *)
LEMMA KeptGood ==
  ASSUME NEW x, Good(x), NEW kv \in Seq(Token), NEW h \in Seq(Token),
         NEW points \in SUBSET Points, \A p \in points : Lies(p, kv, h)
  PROVE  Good(Kept(x, kv, h, points))
<1> DEFINE d == [x EXCEPT !.st = "retained", !.kv = kv, !.hist = h, !.points = points,
                          !.after = NoAfter, !.sampled = FALSE]
<1>1. "retained" \in States /\ NoAfter \in After /\ x \in Records
  BY NothingKnown, GoodFields DEF States
<1>2. /\ d \in Records /\ d.st = "retained" /\ d.kv = kv /\ d.hist = h /\ d.points = points
      /\ d.cap = x.cap
  BY <1>1 DEF Records
<1>3. Kept(x, kv, h, points) = IF points = {} THEN Clean ELSE d
  BY DEF Kept
<1> HIDE DEF d
<1>4. Stands(d)
  BY <1>2 DEF Stands
<1>5. Good(d)
  BY <1>2, <1>4 DEF Good
<1>6. QED
  BY <1>3, <1>5, CleanGood

(* An abandoned prefill.                                                   *)
LEMMA ParkKeeps ==
  ASSUME IInv, NEW s \in Slots, Park(s)
  PROVE  IInv'
<1> DEFINE x == slot[s]
           n == Len(x.kv)
           want == x.after # NoAfter /\ n >= MinRetain /\ \A p \in x.points : p.len < n
<1>1. /\ x.st \in {"prefill", "ready"} /\ ram' = ram /\ req' = req
      /\ \E points \in IF want THEN Saved(x.points, x.kv, "prompt", x.after) ELSE {x.points} :
           slot' = [slot EXCEPT ![s] = Kept(x, x.kv, First(x.hist, n), points)]
  BY DEF Park
<1>2. PICK points \in IF want THEN Saved(x.points, x.kv, "prompt", x.after) ELSE {x.points} :
        slot' = [slot EXCEPT ![s] = Kept(x, x.kv, First(x.hist, n), points)]
  BY <1>1
<1>3. Good(x)
  BY DEF IInv
<1>4. /\ x.kv \in Seq(Token) /\ x.hist \in Seq(Token) /\ x.after \in After /\ Stands(x)
      /\ x.points \in SUBSET Points /\ \A p \in x.points : p.len \in Nat /\ Lies(p, x.kv, x.hist)
  BY <1>3, GoodFields
<1>5. Prefix(x.kv, x.hist) /\ AfterTrue(x.after, x.kv)
  BY <1>1, <1>4 DEF Stands
<1>6. First(x.hist, n) = x.kv
  BY <1>5 DEF Prefix
<1>7. \A p \in x.points : Lies(p, x.kv, x.kv)
  BY <1>4 DEF Lies
<1>8. points \in SUBSET Points /\ \A p \in points : Lies(p, x.kv, x.kv)
  <2>1. CASE want
    <3>1. points \in Saved(x.points, x.kv, "prompt", x.after) /\ MinRetain <= Len(x.kv)
      BY <1>2, <1>4, <2>1, Sizes
    <3>2. First(x.kv, Len(x.kv)) = x.kv /\ Prefix(x.kv, x.kv)
      BY <1>4, FirstWhole DEF Prefix
    <3>3. "prompt" \in Kinds
      BY DEF Kinds
    <3>4. PICK a \in After : a = x.after
      BY <1>4
    <3>5. PICK b \in Seq(Token) : b = x.kv
      BY <1>4
    <3>6. PICK Q \in SUBSET Points : Q = x.points
      BY <1>4
    <3>7. /\ \A q \in Q : Lies(q, b, b)
          /\ AfterTrue(a, b) /\ Prefix(b, b) /\ MinRetain <= Len(b)
          /\ "prompt" \in Kinds /\ points \in Saved(Q, b, "prompt", a)
      BY <1>5, <1>7, <3>1, <3>2, <3>3, <3>4, <3>5, <3>6
    <3>8. points \in SUBSET Points /\ \A q \in points : Lies(q, b, b)
      BY <3>7, SavedLie
    <3>9. QED
      BY <3>5, <3>8
  <2>2. CASE ~want
    BY <1>2, <1>4, <1>7, <2>2
  <2>3. QED
    BY <2>1, <2>2
<1>9. Good(Kept(x, x.kv, First(x.hist, n), points))
  BY <1>3, <1>4, <1>6, <1>8, KeptGood
<1>10. QED
  BY <1>1, <1>2, <1>9, OneKeeps

(* A completion's end.  Its rows are cut to its history without the last   *)
(* token, or go on past it; no point lies beyond.                          *)
LEMMA RetireKeeps ==
  ASSUME IInv, NEW s \in Slots, NEW cancelled \in BOOLEAN, NEW cut \in BOOLEAN,
         Retire(s, cancelled, cut)
  PROVE  IInv'
<1> DEFINE x == slot[s]
           n == Len(x.hist) - 1
           h == First(x.hist, n)
           atN == Len(x.kv) = n \/ cut
           kv == IF atN THEN First(x.kv, n) ELSE x.kv
           want == /\ atN /\ ~cancelled /\ n >= MinRetain
                   /\ \A p \in x.points : p.len < n
                   /\ \A g \in DeviceHit(h) : g[2].len # n
           new == IF want THEN Saved(x.points, kv, "turn", TurnAfter(x)) ELSE {x.points}
<1>1. /\ x.st \in {"active", "done"} /\ ram' = ram /\ req' = req
      /\ \E points \in new : slot' = [slot EXCEPT ![s] = Kept(x, kv, h, points)]
  BY DEF Retire
<1>2. PICK points \in new : slot' = [slot EXCEPT ![s] = Kept(x, kv, h, points)]
  BY <1>1
<1>3. Good(x)
  BY DEF IInv
<1>4. /\ x.kv \in Seq(Token) /\ x.hist \in Seq(Token) /\ Len(x.kv) \in Nat /\ x.sampled \in BOOLEAN
      /\ x.points \in SUBSET Points /\ Stands(x)
      /\ \A p \in x.points : p.len \in Nat /\ Lies(p, x.kv, x.hist)
  BY <1>3, GoodFields
<1>5. x.hist # <<>> /\ LastTrue(x)
  BY <1>1, <1>4 DEF Stands
<1>6. PICK m \in Nat : Len(x.hist) = m + 1
  <2>1. Len(x.hist) \in Nat /\ Len(x.hist) # 0
    BY <1>4, <1>5, EmptySeq
  <2>2. Len(x.hist) - 1 \in Nat /\ Len(x.hist) = (Len(x.hist) - 1) + 1
    BY <2>1
  <2>3. QED
    BY <2>2
<1>7. n = m /\ m <= Len(x.hist) /\ m + 1 \in 1..Len(x.hist)
  BY <1>6
<1>8. h \in Seq(Token) /\ Len(h) = m
  BY <1>4, <1>7, FirstAt
<1>9. m <= Len(x.kv) /\ First(x.kv, m) = h /\ \A p \in x.points : p.len <= m
  <2>1. CASE x.st = "active"
    <3>1. x.kv = h
      BY <1>4, <2>1 DEF Stands
    <3>2. First(x.kv, m) = h
      BY <1>8, <3>1, FirstWhole
    <3>3. QED
      BY <1>4, <1>8, <3>1, <3>2 DEF Lies
  <2>2. CASE x.st = "done"
    <3>1. Prefix(x.hist, x.kv) /\ \A p \in x.points : p.len + 1 <= m + 1
      BY <1>4, <1>6, <2>2 DEF Stands
    <3>2. First(x.kv, m) = First(x.hist, m) /\ Len(x.hist) <= Len(x.kv)
      BY <1>4, <1>7, <3>1, PrefixFirst
    <3>3. \A p \in x.points : p.len <= m
      BY <1>4, <3>1
    <3>4. QED
      BY <1>4, <1>6, <1>7, <3>2, <3>3
  <2>3. QED
    BY <1>1, <2>1, <2>2
<1>10. ASSUME NEW p \in x.points PROVE Lies(p, h, h) /\ Lies(p, x.kv, h)
  <2>1. p.len \in Nat /\ p.len <= m /\ Lies(p, x.kv, x.hist)
    BY <1>4, <1>9
  <2>2. First(h, p.len) = First(x.hist, p.len)
    BY <1>4, <1>7, <2>1, FirstFirst
  <2>3. QED
    BY <1>8, <2>1, <2>2 DEF Lies
<1>11. TurnAfter(x) \in After /\ AfterTrue(TurnAfter(x), h)
  <2>1. x.hist[m + 1] \in Token
    BY <1>4, <1>7
  <2>2. ~x.sampled => x.hist[m + 1] = Argmax(h)
    BY <1>5, <1>6, <1>7 DEF LastTrue
  <2> DEFINE g == IF x.sampled THEN None ELSE x.hist[m + 1]
  <2>3. TurnAfter(x) = [greedy |-> g, logits |-> FALSE]
    BY <1>6 DEF TurnAfter
  <2>4. g \in Token \cup {None} /\ g \in {None, Argmax(h)}
    BY <1>4, <2>1, <2>2
  <2> HIDE DEF g
  <2>5. QED
    BY <2>3, <2>4 DEF After, AfterTrue
<1>12. atN => kv = h
  BY <1>7, <1>9
<1>13. ~atN => kv = x.kv
  OBVIOUS
<1>14. want => atN /\ MinRetain <= Len(h) /\ points \in Saved(x.points, kv, "turn", TurnAfter(x))
  BY <1>2, <1>7, <1>8, Sizes
<1>15. ~want => points = x.points
  BY <1>2
<1> HIDE DEF h, atN, kv, want
<1>16. kv \in Seq(Token) /\ points \in SUBSET Points /\ \A p \in points : Lies(p, kv, h)
  <2>1. CASE want
    <3>1. First(h, Len(h)) = h /\ Prefix(h, h)
      BY <1>8, FirstWhole DEF Prefix
    <3>2. "turn" \in Kinds /\ kv = h
      BY <1>12, <1>14, <2>1 DEF Kinds
    <3>3. points \in Saved(x.points, h, "turn", TurnAfter(x)) /\ MinRetain <= Len(h)
      BY <1>14, <2>1, <3>2
    <3>4. points \in SUBSET Points /\ \A p \in points : Lies(p, h, h)
      <4>1. PICK a \in After : a = TurnAfter(x)
        BY <1>11
      <4>2. PICK b \in Seq(Token) : b = h
        BY <1>8
      <4>3. PICK Q \in SUBSET Points : Q = x.points
        BY <1>4
      <4>4. /\ \A q \in Q : Lies(q, b, b)
            /\ AfterTrue(a, b) /\ Prefix(b, b) /\ MinRetain <= Len(b)
            /\ points \in Saved(Q, b, "turn", a)
        BY <1>10, <1>11, <3>1, <3>3, <4>1, <4>2, <4>3
      <4>5. points \in SUBSET Points /\ \A q \in points : Lies(q, b, b)
        BY <3>2, <4>4, SavedLie
      <4>6. QED
        BY <4>2, <4>5
    <3>5. QED
      BY <1>8, <3>2, <3>4
  <2>2. CASE ~want
    BY <1>4, <1>8, <1>10, <1>12, <1>13, <1>15, <2>2
  <2>3. QED
    BY <2>1, <2>2
<1>17. Good(Kept(x, kv, h, points))
  BY <1>3, <1>8, <1>16, KeptGood
<1>18. QED
  BY <1>1, <1>2, <1>17, OneKeeps

(* A slot given back, or evicted for the image encoder.                    *)
LEMMA ReleaseKeeps ==
  ASSUME IInv, NEW s \in Slots, Release(s) \/ EvictForImages(s)
  PROVE  IInv'
<1>1. slot' = [slot EXCEPT ![s] = Clean] /\ req' = req
  BY DEF Release, EvictForImages
<1>2. slot = [y \in Slots |-> slot[y]] /\ req \in [ids : Seq(Token), sampled : BOOLEAN]
  BY DEF IInv
<1>3. slot' = Updated(s, Clean, {})
  BY <1>1, <1>2 DEF Updated
<1>4. (\A r \in ram' : Whole(r)) /\ Cardinality(ram') <= Cap
  <2>1. CASE Release(s)
    BY <2>1 DEF Release, IInv
  <2>2. CASE EvictForImages(s)
    <3>1. ram' \in RamWith(Snaps({s})) /\ {s} \in SUBSET Slots
      BY <2>2 DEF EvictForImages
    <3>2. QED
      BY <3>1, SnapsWhole, RamWhole
  <2>3. QED
    BY <2>1, <2>2
<1>5. QED
  BY <1>1, <1>2, <1>3, <1>4, CleanGood, UpdatedKeeps

(* Points over a bank's size leave for RAM.                                *)
LEMMA EnforceBanksKeeps ==
  ASSUME IInv, NEW X \in SUBSET UNION {Banked(k) : k \in Kinds}, EnforceBanks(X)
  PROVE  IInv'
<1> DEFINE Stay(s) == {p \in slot[s].points : <<s, p>> \notin X}
<1>1. /\ ram' \in RamWith({Snap(x[1], x[2]) : x \in X}) /\ req' = req
      /\ slot' = [s \in Slots |-> IF slot[s].st = "retained" /\ Stay(s) = {} THEN Clean
                                  ELSE [slot[s] EXCEPT !.points = Stay(s)]]
  BY DEF EnforceBanks
<1>2. ASSUME NEW x \in X PROVE Whole(Snap(x[1], x[2]))
  <2> DEFINE S == In("active") \cup In("retained")
  <2>1. x \in PointsOf(S)
    BY DEF Banked
  <2>2. PICK s \in S : x \in {s} \X slot[s].points
    BY <2>1 DEF PointsOf
  <2>3. x[1] = s /\ x[2] \in slot[s].points /\ s \in Slots
    BY <2>2 DEF In
  <2>4. Good(slot[s])
    BY <2>3 DEF IInv
  <2>5. QED
    BY <2>3, <2>4, SnapWhole
<1>3. (\A r \in ram' : Whole(r)) /\ Cardinality(ram') <= Cap
  BY <1>1, <1>2, RamWhole
<1>4. ASSUME NEW s \in Slots PROVE Good(slot'[s])
  <2>1. Good(slot[s]) /\ Stay(s) \in SUBSET slot[s].points
    BY DEF IInv
  <2>2. Good([slot[s] EXCEPT !.points = Stay(s)])
    BY <2>1, FewerPoints
  <2>3. slot'[s] \in {Clean, [slot[s] EXCEPT !.points = Stay(s)]}
    BY <1>1
  <2>4. QED
    BY <2>2, <2>3, CleanGood
<1>5. slot' = [s \in Slots |-> slot'[s]]
  BY <1>1
<1>6. QED
  BY <1>1, <1>3, <1>4, <1>5 DEF IInv
-----------------------------------------------------------------------------
(* The invariant.                                                          *)

(* Clean slots and an empty tier.                                          *)
LEMMA InitIInv == Init => IInv
<1> SUFFICES ASSUME Init PROVE IInv
  OBVIOUS
<1>1. slot = [s \in Slots |-> Clean] /\ ram = {} /\ req = NoReq
  BY DEF Init
<1>2. \A s \in Slots : Good(slot[s])
  BY <1>1, CleanGood
<1>3. Cardinality(ram) <= Cap
  BY <1>1, FS_EmptySet, Sizes
<1>4. req \in [ids : Seq(Token), sampled : BOOLEAN]
  BY <1>1 DEF NoReq
<1>5. QED
  BY <1>1, <1>2, <1>3, <1>4 DEF IInv

(* Every step keeps it.                                                    *)
LEMMA NextIInv == IInv /\ [Next]_vars => IInv'
<1> SUFFICES ASSUME IInv, [Next]_vars PROVE IInv'
  OBVIOUS
<1>1. CASE UNCHANGED vars
  BY <1>1 DEF vars, IInv, Good, Whole, Records
<1>2. CASE Next
  <2>1. ASSUME NEW ids \in Prompts, NEW sampled \in BOOLEAN, Miss(ids, sampled) PROVE IInv'
    BY <2>1, MissKeeps
  <2>2. ASSUME NEW ids \in Prompts, NEW sampled \in BOOLEAN, NEW h \in DeviceHitFor(ids, sampled),
               NEW f \in Slots, AdmitFork(ids, sampled, h, f)
        PROVE  IInv'
    <3>1. {} \in SUBSET Slots
      OBVIOUS
    <3>2. QED
      BY <2>2, <3>1, HitKeeps
  <2>3. ASSUME NEW ids \in Prompts, NEW sampled \in BOOLEAN, NEW h \in DeviceHitFor(ids, sampled),
               NEW E \in SUBSET Slots,
               \/ AdmitInPlace(ids, sampled, h, E) \/ Relocate(ids, sampled, h, E)
               \/ RefuseInPlace(ids, sampled, h, E)
        PROVE  IInv'
    <3>1. h[1] \in Slots
      BY PromptTyped, HitResumes
    <3>2. QED
      BY <2>3, <3>1, HitKeeps
  <2>4. ASSUME NEW f \in Slots, NEW E \in SUBSET Slots,
               AdmitCold(f, E) \/ Refuse(f, E) \/ AdmitRestored(f, E)
        PROVE  IInv'
    BY <2>4, CleanSlotKeeps
  <2>5. ASSUME NEW s \in Slots, NEW end \in 1..MaxHist, Segment(s, end) PROVE IInv'
    BY <2>5, SegmentKeeps
  <2>6. ASSUME NEW s \in Slots, NEW next \in Token, Start(s, next) PROVE IInv'
    BY <2>6, StartKeeps
  <2>7. ASSUME NEW s \in Slots, NEW out \in Runs, NEW sent \in 1..2, Decode(s, out, sent) PROVE IInv'
    BY <2>7, DecodeKeeps
  <2>8. ASSUME NEW s \in Slots, NEW E \in SUBSET Slots, GrowActive(s, E) PROVE IInv'
    BY <2>8, GrowKeeps
  <2>9. ASSUME NEW s \in Slots, NEW cancelled \in BOOLEAN, NEW cut \in BOOLEAN,
               Retire(s, cancelled, cut)
        PROVE  IInv'
    BY <2>9, RetireKeeps
  <2>10. ASSUME NEW s \in Slots, Park(s) PROVE IInv'
    BY <2>10, ParkKeeps
  <2>11. ASSUME NEW s \in Slots, Release(s) \/ EvictForImages(s) PROVE IInv'
    BY <2>11, ReleaseKeeps
  <2>12. ASSUME NEW X \in SUBSET UNION {Banked(k) : k \in Kinds}, EnforceBanks(X) PROVE IInv'
    BY <2>12, EnforceBanksKeeps
  <2>13. QED
    BY <1>2, <2>1, <2>2, <2>3, <2>4, <2>5, <2>6, <2>7, <2>8, <2>9, <2>10, <2>11, <2>12 DEF Next
<1>3. QED
  BY <1>1, <1>2

(* The invariant holds throughout.                                         *)
LEMMA AlwaysIInv == Spec => []IInv
BY InitIInv, NextIInv, PTL DEF Spec

(* Whatever order slots are forked, rewound, evicted, restored and written *)
(* again in, points, running requests and snapshots in RAM each keep the   *)
(* rows and the state of their own tokens: Pool's and the scheduler's      *)
(* moves on a slot, api.rs.                                                *)
THEOREM TiersAlwaysExact == Spec => []TiersExact
<1>1. IInv => TiersExact
  <2> SUFFICES ASSUME IInv PROVE TiersExact
    OBVIOUS
  <2>1. TypeOK
    <3>1. ASSUME NEW s \in Slots
          PROVE  /\ slot[s].st \in States
                 /\ slot[s].kv \in Seq(Token) /\ slot[s].hist \in Seq(Token)
                 /\ slot[s].cap \in Nat /\ slot[s].after \in After
                 /\ \A p \in slot[s].points : PointOK(p)
      BY GoodFields DEF IInv, PointOK
    <3>2. \A r \in ram : r.tokens \in Seq(Token) /\ r.after \in After
      BY DEF IInv, Whole, Snapshot
    <3>3. QED
      BY <3>1, <3>2 DEF TypeOK, IInv
  <2>2. PointsExact
    <3>1. ASSUME NEW s \in Slots, NEW p \in slot[s].points PROVE PointExact(s, p)
      BY GoodFields DEF IInv, PointExact, Lies
    <3>2. QED
      BY <3>1 DEF PointsExact
  <2>3. RowsExact
    BY DEF RowsExact, IInv, Good, Stands
  <2>4. RamExact
    BY DEF RamExact, IInv, Whole
  <2>5. QED
    BY <2>1, <2>2, <2>3, <2>4 DEF TiersExact
<1>2. QED
  BY <1>1, AlwaysIInv, PTL

(* A request is answered with the right first token: the greedy token a    *)
(* point or a snapshot records is the argmax (a sampled request's last     *)
(* token is not taken for it, retire), and a slot that holds the whole     *)
(* prompt can serve (device_hit_for, lookup_for).                          *)
THEOREM ResumesAlwaysTrue == Spec => []ResumeTrue
<1>1. IInv => ResumeTrue
  <2> SUFFICES ASSUME IInv PROVE ResumeTrue
    OBVIOUS
  <2>1. GreedyTrue
    <3>1. ASSUME NEW s \in Slots, NEW p \in slot[s].points PROVE AfterTrue(p.after, p.at)
      BY GoodFields DEF IInv, Lies
    <3>2. \A r \in ram : AfterTrue(r.after, r.tokens)
      BY DEF IInv, Whole
    <3>3. QED
      BY <3>1, <3>2 DEF GreedyTrue
  <2>2. ExactServes
    <3>1. ASSUME NEW s \in Slots, slot[s].st = "ready", Len(slot[s].hist) >= MinRetain
          PROVE  Serves(slot[s].after, slot[s].sampled)
      <4>1. Good(slot[s])
        BY DEF IInv
      <4>2. MinRetain <= Len(slot[s].hist)
        BY <3>1, <4>1, GoodFields, Sizes
      <4>3. QED
        BY <3>1, <4>1, <4>2 DEF Good, Stands
    <3>2. QED
      BY <3>1 DEF ExactServes
  <2>3. QED
    BY <2>1, <2>2 DEF ResumeTrue
<1>2. QED
  BY <1>1, AlwaysIInv, PTL
-----------------------------------------------------------------------------
(* Device memory.  The rows in use are pairs of a slot and a row: what an  *)
(* operation takes is a set of pairs beside those that stay.               *)

\* Cells, of slots f.
CellsOf(f) == UNION {{y} \X (1..Size(f[y])) : y \in Slots}

(* A slot's rows, with or without a prefill's working set.                 *)
LEMMA SizeOf ==
  ASSUME NEW x, Good(x)
  PROVE  /\ Size(x) \in Nat /\ x.cap \in Nat /\ Base <= x.cap
         /\ x.cap <= Size(x) /\ Size(x) <= x.cap + Swa
         /\ x.st # "prefill" => Size(x) = x.cap
<1>1. x.cap \in Nat /\ Base <= x.cap
  BY GoodFields
<1>2. Size(x) = x.cap + IF x.st = "prefill" THEN Swa ELSE 0
  BY DEF Size
<1>3. QED
  BY <1>1, <1>2, Sizes

(* The pairs.                                                              *)
LEMMA CellAt ==
  ASSUME NEW f, NEW c
  PROVE  c \in CellsOf(f) <=> \E y \in Slots : \E i \in 1..Size(f[y]) : c = <<y, i>>
BY DEF CellsOf

(* There are finitely many.                                                *)
LEMMA CellsFinite ==
  ASSUME NEW f, \A y \in Slots : Size(f[y]) \in Nat
  PROVE  IsFiniteSet(CellsOf(f)) /\ Cardinality(CellsOf(f)) \in Nat
<1> DEFINE At(y) == {y} \X (1..Size(f[y]))
           all == {At(y) : y \in Slots}
           g == [y \in Slots |-> At(y)]
<1>1. ASSUME NEW y \in Slots PROVE IsFiniteSet(At(y))
  <2>1. IsFiniteSet(1..Size(f[y]))
    BY FS_Interval
  <2>2. IsFiniteSet({y})
    BY FS_Singleton
  <2>3. QED
    BY <2>1, <2>2, FS_Product
<1>2. \A T \in all : IsFiniteSet(T)
  BY <1>1
<1>3. g \in Surjection(Slots, all)
  <2> HIDE DEF At
  <2>1. QED
    BY DEF Surjection
<1>4. IsFiniteSet(all)
  BY <1>3, PoolAssumption, FS_Surjection
<1>5. CellsOf(f) = UNION all
  BY DEF CellsOf
<1>6. IsFiniteSet(CellsOf(f))
  BY <1>2, <1>4, <1>5, FS_UNION
<1>7. QED
  BY <1>6, FS_CardinalityType

(* Slots that do not grow take no more rows.                               *)
LEMMA NoMoreRows ==
  ASSUME NEW f, NEW g,
         \A y \in Slots : Size(f[y]) \in Nat /\ Size(g[y]) \in Nat /\ Size(g[y]) <= Size(f[y])
  PROVE  Cardinality(CellsOf(g)) <= Cardinality(CellsOf(f))
<1>1. ASSUME NEW c \in CellsOf(g) PROVE c \in CellsOf(f)
  <2>1. PICK y \in Slots : \E i \in 1..Size(g[y]) : c = <<y, i>>
    BY CellAt
  <2>2. PICK i \in 1..Size(g[y]) : c = <<y, i>>
    BY <2>1
  <2>3. i \in 1..Size(f[y])
    <3>1. Size(f[y]) \in Nat /\ Size(g[y]) \in Nat /\ Size(g[y]) <= Size(f[y])
      OBVIOUS
    <3>2. QED
      BY <3>1
  <2>4. QED
    BY <2>2, <2>3, CellAt
<1>2. CellsOf(g) \in SUBSET CellsOf(f)
  BY <1>1
<1>3. QED
  BY <1>2, CellsFinite, FS_Subset

(* Slot s takes n rows instead of b, and a set of rows is given back: the  *)
(* rows in use are what stays, and what s takes beyond.                    *)
LEMMA RowsTaken ==
  ASSUME NEW f, NEW g, \A y \in Slots : Size(f[y]) \in Nat /\ Size(g[y]) \in Nat,
         NEW A \in SUBSET CellsOf(f), NEW s \in Slots, NEW b \in Nat, NEW n \in Nat, NEW r \in Nat,
         n <= b + r, Size(g[s]) = n,
         \A i \in 1..b : <<s, i>> \in CellsOf(f) \ A,
         \A y \in Slots \ {s} : \A i \in 1..Size(g[y]) : <<y, i>> \in CellsOf(f) \ A
  PROVE  /\ Cardinality(A) \in Nat
         /\ Cardinality(CellsOf(g)) <= Cardinality(CellsOf(f)) - Cardinality(A) + r
<1> DEFINE F == CellsOf(f)
           G == CellsOf(g)
           B == {s} \X ((b + 1)..n)
           D == F \ A
<1>1. IsFiniteSet(F)
  BY CellsFinite
<1>2. IsFiniteSet(A) /\ F \cap A = A
  BY <1>1, FS_Subset
<1>3. IsFiniteSet(D) /\ Cardinality(D) = Cardinality(F) - Cardinality(A)
  BY <1>1, <1>2, FS_Difference
<1>4. /\ Cardinality(F) \in Nat /\ Cardinality(A) \in Nat /\ Cardinality(D) \in Nat
  BY <1>1, <1>2, <1>3, FS_CardinalityType
<1>5. IsFiniteSet(B) /\ Cardinality(B) \in Nat /\ Cardinality(B) <= r
  <2> DEFINE I == (b + 1)..n
  <2>0. PICK a \in Nat : a = b + 1
    OBVIOUS
  <2>b. a \in Int /\ n \in Int
    OBVIOUS
  <2>1. IsFiniteSet(a..n) /\ Cardinality(a..n) = IF a > n THEN 0 ELSE n - a + 1
    BY <2>b, FS_Interval, Zenon
  <2>a. a..n = I
    BY <2>0
  <2>2. Cardinality(I) \in Nat /\ Cardinality(I) <= r
    <3> HIDE DEF I
    <3>1. Cardinality(I) = IF a > n THEN 0 ELSE n - a + 1
      BY <2>1, <2>a
    <3>2. QED
      BY <2>0, <3>1
  <2>3. IsFiniteSet({s}) /\ Cardinality({s}) = 1
    BY FS_Singleton
  <2> HIDE DEF I
  <2>4. IsFiniteSet({s} \X I) /\ Cardinality({s} \X I) = 1 * Cardinality(I)
    BY <2>1, <2>a, <2>3, FS_Product
  <2>5. QED
    BY <2>2, <2>4 DEF I
<1>6. ASSUME NEW c \in G PROVE c \in D \cup B
  <2>1. PICK y \in Slots : \E i \in 1..Size(g[y]) : c = <<y, i>>
    BY CellAt
  <2>2. PICK i \in 1..Size(g[y]) : c = <<y, i>>
    BY <2>1
  <2>3. CASE y # s
    BY <2>2, <2>3
  <2>4. CASE y = s
    <3>1. i \in 1..n
      BY <2>4
    <3>2. i \in 1..b \/ i \in (b + 1)..n
      BY <3>1
    <3>3. QED
      BY <2>2, <2>4, <3>2
  <2>5. QED
    BY <2>3, <2>4
<1> HIDE DEF F, G, B, D
<1>7. IsFiniteSet(D \cup B) /\ Cardinality(D \cup B) <= Cardinality(D) + Cardinality(B)
  <2>1. /\ IsFiniteSet(D \cup B)
        /\ Cardinality(D \cup B) = Cardinality(D) + Cardinality(B) - Cardinality(D \cap B)
    BY <1>3, <1>5, FS_Union
  <2>2. Cardinality(D \cap B) \in Nat
    BY <1>3, FS_Intersection, FS_CardinalityType
  <2>3. QED
    BY <1>4, <1>5, <2>1, <2>2
<1>8. IsFiniteSet(G) /\ Cardinality(G) \in Nat /\ Cardinality(G) <= Cardinality(D \cup B)
      /\ Cardinality(D \cup B) \in Nat
  <2>1. G \in SUBSET (D \cup B)
    BY <1>6
  <2>2. QED
    BY <1>7, <2>1, FS_Subset, FS_CardinalityType
<1>9. Cardinality(G) <= Cardinality(F) - Cardinality(A) + r
  BY <1>3, <1>4, <1>5, <1>7, <1>8
<1>10. QED
  BY <1>4, <1>9 DEF F, G

(* The rows an eviction gives back.                                        *)
LEMMA AboveAt ==
  ASSUME NEW E, NEW c
  PROVE  c \in Above(E) <=> \E y \in E : \E i \in (Base + 1)..slot[y].cap : c = <<y, i>>
BY DEF Above

(* Every slot's size is a number.                                          *)
LEMMA AllSizes == IInv => \A y \in Slots : Size(slot[y]) \in Nat
BY SizeOf DEF IInv

(* A slot that takes what admit_check found room for, with the slots E     *)
(* evicted, stays within the device.                                       *)
LEMMA RoomKept ==
  ASSUME IInv, IInv', NEW s \in Slots, NEW new, Good(new), NEW E \in SUBSET Slots,
         \A y \in E : slot[y].st = "retained", slot' = Updated(s, new, E),
         NEW cap \in Nat, NEW rows \in Nat, Fits(cap, rows, E),
         Size(new) <= cap + Need(cap, rows),
         (s \in E /\ cap = Base) \/ (s \notin E /\ cap = Size(slot[s]))
  PROVE  NoOvercommit'
<1> DEFINE r == Need(cap, rows)
           A == Above(E)
           F == CellsOf(slot)
           n == Size(new)
<1>1. /\ \A y \in Slots : Size(slot[y]) \in Nat /\ Base <= Size(slot[y])
      /\ \A y \in E : slot[y].cap = Size(slot[y]) /\ slot[y].cap \in Nat
  <2>1. \A y \in Slots : /\ Size(slot[y]) \in Nat /\ slot[y].cap \in Nat /\ Base <= slot[y].cap
                         /\ slot[y].cap <= Size(slot[y])
                         /\ slot[y].st # "prefill" => Size(slot[y]) = slot[y].cap
    BY SizeOf DEF IInv
  <2>2. \A y \in Slots : Base <= Size(slot[y])
    BY <2>1, Sizes
  <2>3. QED
    BY <2>1, <2>2
<1>2. \A y \in Slots : Size(slot'[y]) \in Nat
  BY SizeOf DEF IInv
<1>3. r \in Nat /\ n \in Nat
  <2>1. r \in Nat
    BY Sizes DEF Need
  <2>2. QED
    BY <2>1, SizeOf
<1>4. /\ slot'[s] = new /\ \A y \in Slots \ {s} : slot'[y] = IF y \in E THEN Clean ELSE slot[y]
  BY DEF Updated
<1>5. Size(Clean) = Base
  BY CleanGood, SizeOf DEF Clean
<1>6. A \in SUBSET F
  <2>1. ASSUME NEW c \in A PROVE c \in F
    <3>1. PICK y \in E : \E i \in (Base + 1)..slot[y].cap : c = <<y, i>>
      BY AboveAt
    <3>2. PICK i \in (Base + 1)..slot[y].cap : c = <<y, i>>
      BY <3>1
    <3>3. i \in 1..Size(slot[y])
      BY <1>1, Sizes
    <3>4. QED
      BY <3>2, <3>3, CellAt
  <2>2. QED
    BY <2>1
<1>7. ASSUME NEW y \in Slots, NEW i \in 1..Size(slot[y]), y \in E => i <= Base
      PROVE  <<y, i>> \in F \ A
  <2>1. <<y, i>> \in F
    BY CellAt
  <2>2. ASSUME <<y, i>> \in A PROVE FALSE
    <3>1. PICK z \in E : \E j \in (Base + 1)..slot[z].cap : <<y, i>> = <<z, j>>
      BY <2>2, AboveAt
    <3>2. PICK j \in (Base + 1)..slot[z].cap : <<y, i>> = <<z, j>>
      BY <3>1
    <3>3. z = y /\ j = i
      BY <3>2
    <3>4. QED
      BY <1>1, <1>7, <3>1, <3>2, <3>3, Sizes
  <2>3. QED
    BY <2>1, <2>2
<1>8. \A i \in 1..cap : <<s, i>> \in F \ A
  <2>1. ASSUME NEW i \in 1..cap PROVE <<s, i>> \in F \ A
    <3>1. i \in 1..Size(slot[s]) /\ (s \in E => i <= Base)
      BY <1>1, Sizes
    <3>2. QED
      BY <1>7, <3>1
  <2>2. QED
    BY <2>1
<1>9. ASSUME NEW y \in Slots \ {s}, NEW i \in 1..Size(slot'[y]) PROVE <<y, i>> \in F \ A
  <2>1. CASE y \in E
    <3>1. i \in 1..Base
      BY <1>4, <1>5, <2>1
    <3>2. i \in 1..Size(slot[y]) /\ i <= Base
      BY <1>1, <3>1, Sizes
    <3>3. QED
      BY <1>7, <3>2
  <2>2. CASE y \notin E
    BY <1>4, <1>7, <2>2
  <2>3. QED
    BY <2>1, <2>2
<1>10. Used = Cardinality(F) /\ Used' = Cardinality(CellsOf(slot'))
  BY DEF Used, Cells, CellsOf
<1>11. r <= Total - Used + Cardinality(A)
  BY DEF Fits, FreeWithout
<1> HIDE DEF r, A, F, n
<1>12. /\ Cardinality(A) \in Nat
       /\ Cardinality(CellsOf(slot')) <= Cardinality(F) - Cardinality(A) + r
  <2>1. n <= cap + r /\ Size(slot'[s]) = n
    BY <1>4 DEF n, r
  <2>2. \A y \in Slots \ {s} : \A i \in 1..Size(slot'[y]) : <<y, i>> \in F \ A
    BY <1>9
  <2>3. PICK f, g : f = slot /\ g = slot'
    OBVIOUS
  <2>4. /\ \A y \in Slots : Size(f[y]) \in Nat /\ Size(g[y]) \in Nat
        /\ A \in SUBSET CellsOf(f) /\ Size(g[s]) = n
        /\ \A i \in 1..cap : <<s, i>> \in CellsOf(f) \ A
        /\ \A y \in Slots \ {s} : \A i \in 1..Size(g[y]) : <<y, i>> \in CellsOf(f) \ A
    BY <1>1, <1>2, <1>6, <1>8, <2>1, <2>2, <2>3 DEF F
  <2>5. PICK a, m : a = A /\ m = n /\ m \in Nat
    BY <1>3
  <2>6. /\ Cardinality(a) \in Nat
        /\ Cardinality(CellsOf(g)) <= Cardinality(CellsOf(f)) - Cardinality(a) + r
    BY <1>3, <2>1, <2>4, <2>5, RowsTaken
  <2>7. QED
    BY <2>3, <2>5, <2>6 DEF F
<1>13. Cardinality(F) \in Nat /\ Cardinality(CellsOf(slot')) \in Nat
  BY <1>1, <1>2, CellsFinite DEF F
<1>14. Used' <= Total
  BY <1>3, <1>10, <1>11, <1>12, <1>13, Sizes
<1>15. QED
  BY <1>14 DEF NoOvercommit

(* Slots that do not grow leave the device as it was.                      *)
LEMMA RoomLeft ==
  ASSUME IInv, IInv', NoOvercommit, \A y \in Slots : Size(slot'[y]) <= Size(slot[y])
  PROVE  NoOvercommit'
<1>1. \A y \in Slots : Size(slot[y]) \in Nat /\ Size(slot'[y]) \in Nat
  BY SizeOf DEF IInv
<1>2. /\ Cardinality(CellsOf(slot)) \in Nat /\ Cardinality(CellsOf(slot')) \in Nat
      /\ Cardinality(CellsOf(slot')) <= Cardinality(CellsOf(slot))
  BY <1>1, CellsFinite, NoMoreRows
<1>3. Used = Cardinality(CellsOf(slot)) /\ Used' = Cardinality(CellsOf(slot'))
  BY DEF Used, Cells, CellsOf
<1>4. QED
  BY <1>2, <1>3, Sizes DEF NoOvercommit

(* Neither does a slot that keeps its rows, or is given back, with others. *)
LEMMA RoomBack ==
  ASSUME IInv, IInv', NoOvercommit, NEW s \in Slots, NEW new, NEW E,
         slot' = Updated(s, new, E),
         new = Clean \/ (new.cap = slot[s].cap /\ (new.st = "prefill" => slot[s].st = "prefill"))
  PROVE  NoOvercommit'
<1>1. ASSUME NEW y \in Slots PROVE Size(slot'[y]) <= Size(slot[y])
  <2>1. Good(slot[y]) /\ Good(slot'[y])
    BY DEF IInv
  <2>2. Size(Clean) = Base /\ Size(slot[y]) \in Nat /\ Base <= slot[y].cap /\ slot[y].cap \in Nat
        /\ slot[y].cap <= Size(slot[y])
    BY <2>1, CleanGood, SizeOf DEF Clean
  <2>3. CASE slot'[y] = Clean
    BY <2>2, <2>3, Sizes
  <2>4. CASE slot'[y] = slot[y]
    BY <2>2, <2>4
  <2>5. CASE y = s /\ slot'[y] = new /\ new # Clean
    BY <2>2, <2>5, Sizes DEF Size
  <2>6. QED
    BY <2>3, <2>4, <2>5 DEF Updated
<1>2. QED
  BY <1>1, RoomLeft

(* A request's slot takes no more than was looked for.                     *)
LEMMA RunningFits ==
  ASSUME NEW ids \in Seq(Token), NEW sampled, NEW kv, NEW points, NEW after, NEW cap \in Nat,
         NEW new, new = Running(ids, sampled, kv, points, after, cap), Good(new)
  PROVE  Rows(ids) \in Nat /\ Size(new) <= cap + Need(cap, Rows(ids))
<1>1. PICK r \in Nat : r = Rows(ids)
  BY Sizes DEF Rows
<1>2. new.cap = Larger(cap, r)
  BY <1>1 DEF Running
<1>3. PICK m \in Nat : m = Size(new) /\ m <= Larger(cap, r) + Swa
  BY <1>2, SizeOf
<1>4. m <= cap + Need(cap, r)
  BY <1>3, Sizes DEF Larger, Need
<1>5. QED
  BY <1>1, <1>3, <1>4

(* Admission from a device hit.                                            *)
LEMMA HitFits ==
  ASSUME IInv, IInv', NoOvercommit, NEW ids \in Prompts, NEW sampled \in BOOLEAN,
         NEW h \in DeviceHitFor(ids, sampled), NEW E \in SUBSET Slots, NEW f \in Slots,
         \/ AdmitFork(ids, sampled, h, f) \/ AdmitInPlace(ids, sampled, h, E)
         \/ Relocate(ids, sampled, h, E) \/ RefuseInPlace(ids, sampled, h, E)
  PROVE  NoOvercommit'
<1> DEFINE s == h[1]
           p == h[2]
           k == First(slot[s].kv, p.len)
<1>1. ids \in Seq(Token) /\ ids # <<>>
  BY PromptTyped
<1>2. s \in Slots /\ slot[s].st = "retained"
  BY <1>1, HitResumes
<1>3. Good(slot[s]) /\ Good(slot[f])
  BY <1>2 DEF IInv
<1>4. slot[s].cap \in Nat /\ Size(slot[s]) = slot[s].cap
  BY <1>2, <1>3, SizeOf
<1>5. CASE AdmitFork(ids, sampled, h, f)
  <2> DEFINE new == Running(ids, sampled, k, {}, p.after, Base)
  <2>1. slot' = Updated(f, new, {}) /\ slot[f].st = "free" /\ Fits(Base, Rows(ids), {})
    BY <1>5 DEF AdmitFork, In
  <2>2. Good(new)
    BY <2>1 DEF IInv, Updated
  <2>3. Rows(ids) \in Nat /\ Size(new) <= Base + Need(Base, Rows(ids))
    BY <1>1, <2>2, Sizes, RunningFits
  <2>4. slot[f].cap = Base
    BY <1>3, <2>1, GoodFields DEF Stands
  <2>5. Size(slot[f]) = Base
    BY <1>3, <2>1, <2>4, SizeOf
  <2> HIDE DEF new
  <2>6. f \notin {} /\ {} \in SUBSET Slots /\ \A y \in {} : slot[y].st = "retained"
    OBVIOUS
  <2>7. QED
    BY <2>1, <2>2, <2>3, <2>5, <2>6, Sizes, RoomKept
<1>6. CASE AdmitInPlace(ids, sampled, h, E)
  <2> DEFINE new == Running(ids, sampled, k, Keep(s, p), p.after, slot[s].cap)
  <2>1. /\ slot' = Updated(s, new, E) /\ Fits(slot[s].cap, Rows(ids), E)
        /\ E \in MadeRoom(slot[s].cap, Rows(ids), {}, Others(s))
    BY <1>6 DEF AdmitInPlace
  <2>2. s \notin E /\ \A y \in E : slot[y].st = "retained"
    BY <2>1 DEF MadeRoom, Others, In
  <2>3. Good(new)
    BY <1>2, <2>1 DEF IInv, Updated
  <2>4. Rows(ids) \in Nat /\ Size(new) <= slot[s].cap + Need(slot[s].cap, Rows(ids))
    BY <1>1, <1>4, <2>3, RunningFits
  <2> HIDE DEF new
  <2>5. PICK cap \in Nat : cap = slot[s].cap
    BY <1>4
  <2>6. PICK rows \in Nat : rows = Rows(ids)
    BY <2>4
  <2>7. /\ Fits(cap, rows, E) /\ Size(new) <= cap + Need(cap, rows) /\ cap = Size(slot[s])
    BY <1>4, <2>1, <2>4, <2>5, <2>6
  <2>8. QED
    BY <1>2, <2>1, <2>2, <2>3, <2>7, RoomKept
<1>7. CASE Relocate(ids, sampled, h, E)
  BY <1>2, <1>7, RoomBack DEF Relocate
<1>8. CASE RefuseInPlace(ids, sampled, h, E)
  <2> DEFINE new == [slot[s] EXCEPT !.hist = First(@, p.len), !.points = Keep(s, p)]
  <2>1. slot' = Updated(s, new, E)
    BY <1>8 DEF RefuseInPlace
  <2>2. slot[s] \in Records
    BY <1>3, GoodFields
  <2>3. new.cap = slot[s].cap /\ new.st = slot[s].st
    BY <2>2 DEF Records
  <2> HIDE DEF new
  <2>4. QED
    BY <1>2, <2>1, <2>3, RoomBack
<1>9. QED
  BY <1>5, <1>6, <1>7, <1>8

(* Admission to a clean slot.                                              *)
LEMMA CleanSlotFitsRoom ==
  ASSUME IInv, IInv', NoOvercommit, NEW f \in Slots, NEW E \in SUBSET Slots,
         AdmitCold(f, E) \/ Refuse(f, E) \/ AdmitRestored(f, E)
  PROVE  NoOvercommit'
<1>1. Good(slot[f]) /\ req.ids \in Seq(Token)
  BY DEF IInv
<1>2. CleanSlot(f, E)
  BY DEF AdmitCold, Refuse, AdmitRestored, CleanSlotFits
<1>3. CASE Refuse(f, E)
  BY <1>3, RoomBack DEF Refuse
<1>4. CASE AdmitCold(f, E) \/ AdmitRestored(f, E)
  <2>1. \E kv, points, after :
          slot' = Updated(f, Running(req.ids, req.sampled, kv, points, after, Base), E)
    BY <1>4 DEF AdmitCold, AdmitRestored
  <2>2. PICK kv, points, after :
          slot' = Updated(f, Running(req.ids, req.sampled, kv, points, after, Base), E)
    BY <2>1
  <2>3. PICK new : new = Running(req.ids, req.sampled, kv, points, after, Base)
    OBVIOUS
  <2>4. slot' = Updated(f, new, E) /\ Good(new)
    BY <2>2, <2>3 DEF IInv, Updated
  <2>5. Fits(Base, Rows(req.ids), E)
    BY <1>4 DEF AdmitCold, AdmitRestored, CleanSlotFits
  <2>6. Rows(req.ids) \in Nat /\ Size(new) <= Base + Need(Base, Rows(req.ids))
    BY <1>1, <2>3, <2>4, Sizes, RunningFits
  <2>7. slot[f].st \in {"free", "retained"} /\ (slot[f].st = "retained" => f \in E)
    BY <1>2 DEF CleanSlot, Takable, Taken, In
  <2>8. \A y \in E : slot[y].st = "retained"
    BY <1>2 DEF CleanSlot, Taken, MadeRoom, In
  <2>9. (f \in E /\ Base = Base) \/ (f \notin E /\ Base = Size(slot[f]))
    <3>1. CASE f \in E
      BY <3>1
    <3>2. CASE f \notin E
      <4>1. slot[f].st = "free"
        BY <2>7, <3>2
      <4>2. slot[f].cap = Base
        BY <1>1, <4>1, GoodFields DEF Stands
      <4>3. QED
        BY <1>1, <3>2, <4>1, <4>2, SizeOf
    <3>3. QED
      BY <3>1, <3>2
  <2>10. QED
    BY <2>4, <2>5, <2>6, <2>8, <2>9, Sizes, RoomKept
<1>5. QED
  BY <1>3, <1>4

(* More rows for a running request.                                        *)
LEMMA GrowFits ==
  ASSUME IInv, IInv', NoOvercommit, NEW s \in Slots, NEW E \in SUBSET Slots, GrowActive(s, E)
  PROVE  NoOvercommit'
<1> DEFINE x == slot[s]
           d == [x EXCEPT !.cap = @ + 1]
<1>1. /\ x.st = "active"
      /\ \/ /\ E \in MadeRoom(x.cap, x.cap + 1, {}, In("retained")) /\ Fits(x.cap, x.cap + 1, E)
            /\ slot' = Updated(s, d, E)
         \/ slot' = Updated(s, x, E)
  BY DEF GrowActive
<1>2. Good(x) /\ x \in Records /\ x.cap \in Nat
  BY GoodFields DEF IInv
<1>3. Size(x) = x.cap
  BY <1>1, <1>2, SizeOf
<1>4. CASE slot' = Updated(s, x, E)
  BY <1>4, RoomBack
<1>5. CASE /\ E \in MadeRoom(x.cap, x.cap + 1, {}, In("retained")) /\ Fits(x.cap, x.cap + 1, E)
           /\ slot' = Updated(s, d, E)
  <2>1. d.cap = x.cap + 1 /\ d.st = x.st
    BY <1>2 DEF Records
  <2> HIDE DEF d
  <2>2. Good(d)
    BY <1>5 DEF IInv, Updated
  <2>3. PICK cap \in Nat : cap = x.cap
    BY <1>2
  <2>4. Size(d) = cap + 1
    BY <1>1, <2>1, <2>2, <2>3, SizeOf
  <2>5. Size(d) <= cap + Need(cap, cap + 1)
    BY <2>4, Sizes DEF Need
  <2>6. s \notin E /\ \A y \in E : slot[y].st = "retained"
    BY <1>1, <1>5 DEF MadeRoom, In
  <2>7. Fits(cap, cap + 1, E) /\ cap = Size(slot[s]) /\ cap + 1 \in Nat
    BY <1>3, <1>5, <2>3
  <2>8. QED
    BY <1>5, <2>2, <2>5, <2>6, <2>7, RoomKept
<1>6. QED
  BY <1>1, <1>4, <1>5

(* A request's other steps in its slot, and a slot given back.             *)
LEMMA OneFits ==
  ASSUME IInv, IInv', NoOvercommit, NEW s \in Slots,
         \/ \E end \in 1..MaxHist : Segment(s, end)
         \/ \E next \in Token : Start(s, next)
         \/ \E out \in Runs, sent \in 1..2 : Decode(s, out, sent)
         \/ \E cancelled, cut \in BOOLEAN : Retire(s, cancelled, cut)
         \/ Park(s) \/ Release(s) \/ EvictForImages(s)
  PROVE  NoOvercommit'
<1> DEFINE x == slot[s]
           Takes(d) == /\ slot' = [slot EXCEPT ![s] = d]
                       /\ \/ d = Clean
                          \/ d.cap = x.cap /\ (d.st = "prefill" => x.st = "prefill")
<1>1. slot = [y \in Slots |-> slot[y]] /\ Good(x)
  BY DEF IInv
<1>2. x \in Records
  BY <1>1, GoodFields
<1>3. ASSUME NEW end \in 1..MaxHist, Segment(s, end) PROVE \E d : Takes(d)
  <2>1. PICK kv, st, after :
          slot' = [slot EXCEPT ![s] = [x EXCEPT !.kv = kv, !.st = st, !.after = after]]
    BY <1>3 DEF Segment
  <2>2. x.st = "prefill" /\ [x EXCEPT !.kv = kv, !.st = st, !.after = after].cap = x.cap
    BY <1>2, <1>3 DEF Segment, Records
  <2>3. QED
    BY <2>1, <2>2
<1>4. ASSUME NEW next \in Token, Start(s, next) PROVE \E d : Takes(d)
  <2>1. PICK h, points :
          slot' = [slot EXCEPT ![s] = [x EXCEPT !.st = "active", !.hist = h,
                                                !.points = points, !.after = NoAfter]]
    BY <1>4 DEF Start
  <2> DEFINE d == [x EXCEPT !.st = "active", !.hist = h, !.points = points, !.after = NoAfter]
  <2>2. d.st = "active" /\ d.cap = x.cap
    BY <1>2 DEF Records
  <2> HIDE DEF d
  <2>3. slot' = [slot EXCEPT ![s] = d]
    BY <2>1 DEF d
  <2>4. QED
    BY <2>2, <2>3
<1>5. ASSUME NEW out \in Runs, NEW sent \in 1..2, Decode(s, out, sent) PROVE \E d : Takes(d)
  <2> DEFINE st == IF sent < Len(out) THEN "done" ELSE "active"
  <2>1. PICK kv, h : slot' = [slot EXCEPT ![s] = [x EXCEPT !.kv = kv, !.hist = h, !.st = st]]
    BY <1>5 DEF Decode
  <2> DEFINE d == [x EXCEPT !.kv = kv, !.hist = h, !.st = st]
  <2>2. d.st \in {"done", "active"} /\ d.cap = x.cap
    BY <1>2 DEF Records
  <2> HIDE DEF d
  <2>3. slot' = [slot EXCEPT ![s] = d]
    BY <2>1 DEF d
  <2>4. QED
    BY <2>2, <2>3
<1>6. ASSUME NEW kv, NEW h, NEW points, slot' = [slot EXCEPT ![s] = Kept(x, kv, h, points)]
      PROVE  \E d : Takes(d)
  <2> DEFINE d == [x EXCEPT !.st = "retained", !.kv = kv, !.hist = h, !.points = points,
                            !.after = NoAfter, !.sampled = FALSE]
  <2>1. Kept(x, kv, h, points) \in {Clean, d}
    BY DEF Kept
  <2>2. d.st = "retained" /\ d.cap = x.cap
    BY <1>2 DEF Records
  <2> HIDE DEF d
  <2>3. QED
    BY <1>6, <2>1, <2>2
<1>7. ASSUME NEW cancelled \in BOOLEAN, NEW cut \in BOOLEAN, Retire(s, cancelled, cut)
      PROVE  \E d : Takes(d)
  <2>1. \E kv, h, points : slot' = [slot EXCEPT ![s] = Kept(x, kv, h, points)]
    BY <1>7 DEF Retire
  <2>2. QED
    BY <1>6, <2>1
<1>8. ASSUME Park(s) PROVE \E d : Takes(d)
  <2>1. \E kv, h, points : slot' = [slot EXCEPT ![s] = Kept(x, kv, h, points)]
    BY <1>8 DEF Park
  <2>2. QED
    BY <1>6, <2>1
<1>9. ASSUME Release(s) \/ EvictForImages(s) PROVE \E d : Takes(d)
  BY <1>9 DEF Release, EvictForImages
<1>10. PICK d : Takes(d)
  BY <1>3, <1>4, <1>5, <1>7, <1>8, <1>9
<1>11. slot' = Updated(s, d, {})
  BY <1>1, <1>10 DEF Updated
<1>12. QED
  BY <1>10, <1>11, RoomBack

(* Points over a bank's size leave for RAM, and slots without any go.      *)
LEMMA EnforceFits ==
  ASSUME IInv, IInv', NoOvercommit, NEW X, EnforceBanks(X)
  PROVE  NoOvercommit'
<1> DEFINE Stay(s) == {p \in slot[s].points : <<s, p>> \notin X}
<1>1. ASSUME NEW s \in Slots PROVE Size(slot'[s]) <= Size(slot[s])
  <2> DEFINE d == [slot[s] EXCEPT !.points = Stay(s)]
  <2>1. slot'[s] = Clean \/ slot'[s] = d
    BY DEF EnforceBanks
  <2>2. slot[s] \in Records /\ Good(slot[s])
    BY GoodFields DEF IInv
  <2>3. d.cap = slot[s].cap /\ d.st = slot[s].st
    BY <2>2 DEF Records
  <2> HIDE DEF d
  <2>4. Size(d) = Size(slot[s])
    BY <2>3 DEF Size
  <2>5. Size(Clean) = Base /\ Size(slot[s]) \in Nat /\ Base <= Size(slot[s])
    <3>1. Size(Clean) = Base
      BY CleanGood, SizeOf DEF Clean
    <3>2. Size(slot[s]) \in Nat /\ slot[s].cap \in Nat /\ Base <= slot[s].cap /\ slot[s].cap <= Size(slot[s])
      BY <2>2, SizeOf
    <3>3. QED
      BY <3>1, <3>2, Sizes
  <2>6. QED
    BY <2>1, <2>4, <2>5, Sizes
<1>2. QED
  BY <1>1, RoomLeft

(* Slots at their build size fit.                                          *)
LEMMA InitFits == Init => NoOvercommit
<1> SUFFICES ASSUME Init PROVE NoOvercommit
  OBVIOUS
<1>1. IInv
  BY InitIInv
<1>2. \A y \in Slots : Size(slot[y]) = Base
  BY CleanGood, SizeOf DEF Init, Clean
<1>3. Cells = Slots \X (1..Base)
  BY <1>2 DEF Cells
<1>4. IsFiniteSet(1..Base) /\ Cardinality(1..Base) = Base
  BY Sizes, FirstNumbers
<1>5. Cardinality(Cells) = Cardinality(Slots) * Base
  BY <1>3, <1>4, PoolAssumption, FS_Product
<1>6. QED
  BY <1>5, PoolAssumption DEF NoOvercommit, Used

(* Every step leaves the device its room.                                  *)
LEMMA NextFits == IInv /\ IInv' /\ NoOvercommit /\ [Next]_vars => NoOvercommit'
<1> SUFFICES ASSUME IInv, IInv', NoOvercommit, [Next]_vars PROVE NoOvercommit'
  OBVIOUS
<1>1. ASSUME slot' = slot PROVE NoOvercommit'
  BY <1>1 DEF NoOvercommit, Used, Cells
<1>2. CASE UNCHANGED vars
  BY <1>1, <1>2 DEF vars
<1>3. CASE Next
  <2>1. ASSUME NEW ids \in Prompts, NEW sampled \in BOOLEAN, Miss(ids, sampled)
        PROVE  NoOvercommit'
    BY <1>1, <2>1 DEF Miss
  <2>2. ASSUME NEW ids \in Prompts, NEW sampled \in BOOLEAN, NEW h \in DeviceHitFor(ids, sampled),
               NEW f \in Slots, AdmitFork(ids, sampled, h, f)
        PROVE  NoOvercommit'
    <3>1. {} \in SUBSET Slots
      OBVIOUS
    <3>2. QED
      BY <2>2, <3>1, HitFits
  <2>3. ASSUME NEW ids \in Prompts, NEW sampled \in BOOLEAN, NEW h \in DeviceHitFor(ids, sampled),
               NEW E \in SUBSET Slots,
               \/ AdmitInPlace(ids, sampled, h, E) \/ Relocate(ids, sampled, h, E)
               \/ RefuseInPlace(ids, sampled, h, E)
        PROVE  NoOvercommit'
    <3>1. h[1] \in Slots
      BY PromptTyped, HitResumes
    <3>2. QED
      BY <2>3, <3>1, HitFits
  <2>4. ASSUME NEW f \in Slots, NEW E \in SUBSET Slots,
               AdmitCold(f, E) \/ Refuse(f, E) \/ AdmitRestored(f, E)
        PROVE  NoOvercommit'
    BY <2>4, CleanSlotFitsRoom
  <2>5. ASSUME NEW s \in Slots,
               \/ \E end \in 1..MaxHist : Segment(s, end)
               \/ \E next \in Token : Start(s, next)
               \/ \E out \in Runs, sent \in 1..2 : Decode(s, out, sent)
               \/ \E cancelled, cut \in BOOLEAN : Retire(s, cancelled, cut)
               \/ Park(s) \/ Release(s) \/ EvictForImages(s)
        PROVE  NoOvercommit'
    BY <2>5, OneFits
  <2>6. ASSUME NEW s \in Slots, NEW E \in SUBSET Slots, GrowActive(s, E) PROVE NoOvercommit'
    BY <2>6, GrowFits
  <2>7. ASSUME NEW X \in SUBSET UNION {Banked(k) : k \in Kinds}, EnforceBanks(X)
        PROVE  NoOvercommit'
    BY <2>7, EnforceFits
  <2>8. QED
    BY <1>3, <2>1, <2>2, <2>3, <2>4, <2>5, <2>6, <2>7 DEF Next
<1>4. QED
  BY <1>2, <1>3

(* Admission and growth never take more of the device than there is,       *)
(* whichever slots were evicted for it (admit_check, make_room,            *)
(* grow_active): what admit_check counts, growth, copy and working set,    *)
(* covers every row the slot takes.                                        *)
THEOREM NeverOvercommitted == Spec => []NoOvercommit
<1>1. Init => IInv /\ NoOvercommit
  BY InitIInv, InitFits
<1>2. IInv /\ NoOvercommit /\ [Next]_vars => (IInv /\ NoOvercommit)'
  BY NextIInv, NextFits
<1>3. QED
  BY <1>1, <1>2, PTL DEF Spec
=============================================================================
