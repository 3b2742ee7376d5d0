-------------------------- MODULE HostCacheProofs --------------------------
(***************************************************************************)
(* Proofs about the RAM tier, for every set of histories, page size and    *)
(* size of the two arenas.                                                 *)
(*                                                                         *)
(* None of the properties is inductive: what a page's references count     *)
(* says nothing once two snapshots of the same tokens are held, and a slot *)
(* keeps its rows only while no one else can be handed it.  IInv adds that *)
(* the snapshots' tokens are distinct and differ from the ones being       *)
(* captured, how far the capture in flight is at each of its steps, and    *)
(* that no slot has two users.                                             *)
(***************************************************************************)
EXTENDS HostCache, Integers, Sequences, FiniteSets, Functions, FiniteSetTheorems,
        FunctionTheorems, SequenceTheorems, NaturalsInduction, TLAPS

(* Every set of naturals has a least element.                              *)
LEMMA LeastNat ==
  ASSUME NEW B, B \subseteq Nat, B # {}
  PROVE  \E n \in B : \A m \in B : n <= m
<1> DEFINE R == OpToRel(<, Nat)
<1>1. IsWellFoundedOn(R, Nat)
  BY NatLessThanWellFounded
<1> HIDE DEF R
<1>2. PICK n \in B : \A m \in B : ~(<<m, n>> \in R)
  BY <1>1, WFMin
<1>3. \A m \in B : m < n => <<m, n>> \in R
  BY <1>2 DEF R, OpToRel
<1>4. \A m \in B : m \in Nat /\ n \in Nat /\ ~(m < n)
  BY <1>2, <1>3
<1>5. QED
  BY <1>4

(* The first n numbers.                                                    *)
LEMMA FirstNumbers ==
  ASSUME NEW n \in Nat
  PROVE  IsFiniteSet(1..n) /\ Cardinality(1..n) = n
<1>1. 1 \in Int /\ n \in Int
  OBVIOUS
<1>2. IsFiniteSet(1..n) /\ Cardinality(1..n) = IF 1 > n THEN 0 ELSE n - 1 + 1
  BY <1>1, FS_Interval, Zenon
<1>3. QED
  BY <1>2

\* Histories long enough to be worth a snapshot.
Storable == {t \in Histories : Len(t) >= MinTokens}
Snapshot ==
  [tokens : Storable, tail : Slots, state : StateSlots, after : PointAfters]
Page == [slot : PageSlots, refs : Nat \ {0}]

Typed ==
  /\ pageMap \in [DOMAIN pageMap -> Page] /\ DOMAIN pageMap \subseteq Seq(Tokens)
  /\ freePages \subseteq PageSlots /\ freeStates \subseteq StateSlots
  /\ mem \in [PageSlots -> Seq(Tokens)] /\ smem \in [StateSlots -> Seq(Tokens)]
  /\ snaps \in Seq(Snapshot)
  /\ step \in Steps /\ toks \in Histories \cup {<<>>} /\ know \in PointAfters
  /\ held \in Nat /\ tail \in Slots /\ failures \in 0..MaxFailures

\* How far the capture in flight is at each of its steps.
Capturing ==
  /\ step = "idle" => toks = <<>> /\ held = 0
  /\ step # "idle" => /\ toks \in Storable /\ held <= FullPages(toks)
                      /\ \A i \in Indices : snaps[i].tokens # toks
  /\ step \in {"tail", "state"} => held = FullPages(toks)
  /\ step = "tail" => HasTail(toks)
  /\ step # "state" => tail = NoSlot
  /\ step = "state" => (tail # NoSlot <=> HasTail(toks))
  /\ tail # NoSlot => mem[tail] = toks

Distinct == \A i, j \in Indices : snaps[i].tokens = snaps[j].tokens => i = j

PagesWritten ==
  /\ \A k \in DOMAIN pageMap : mem[pageMap[k].slot] = k
  /\ Chain(toks, held) \subseteq DOMAIN pageMap

\* No slot has two users, or is in use and free.
PagesApart ==
  /\ \A k, l \in DOMAIN pageMap : pageMap[k].slot = pageMap[l].slot => k = l
  /\ \A k \in DOMAIN pageMap : pageMap[k].slot \notin freePages \cup {tail}
  /\ tail \notin freePages

TailsApart ==
  /\ \A i, j \in Indices :
       snaps[i].tail = snaps[j].tail /\ snaps[i].tail # NoSlot => i = j
  /\ \A i \in Indices :
       /\ snaps[i].tail \notin freePages
       /\ snaps[i].tail # NoSlot => snaps[i].tail # tail
       /\ \A k \in DOMAIN pageMap : pageMap[k].slot # snaps[i].tail

StatesApart ==
  /\ \A i, j \in Indices : snaps[i].state = snaps[j].state => i = j
  /\ \A i \in Indices : snaps[i].state \notin freeStates

AllUsed ==
  failures = 0 =>
    /\ \A s \in PageSlots : \/ s \in freePages \/ s = tail
                            \/ \E k \in DOMAIN pageMap : pageMap[k].slot = s
                            \/ \E i \in Indices : snaps[i].tail = s
    /\ \A s \in StateSlots : s \in freeStates \/ \E i \in Indices : snaps[i].state = s

IInv ==
  /\ Typed /\ Capturing /\ Distinct /\ PagesWritten
  /\ PagesApart /\ TailsApart /\ StatesApart /\ AllUsed
  /\ RefsExact /\ SnapshotsRestorable
-----------------------------------------------------------------------------
(* Facts about natural numbers and cardinality.                            *)

(* A bijection keeps the cardinality.                                      *)
LEMMA SameCount ==
  ASSUME NEW S, NEW T, IsFiniteSet(S), NEW f \in [T -> S],
         \A a, b \in T : f[a] = f[b] => a = b,
         \A s \in S : \E t \in T : f[t] = s
  PROVE  IsFiniteSet(T) /\ Cardinality(T) = Cardinality(S)
<1>1. f \in Bijection(T, S)
  BY Fun_IsBij
<1>2. ExistsBijection(T, S)
  BY <1>1, Fun_ExistsBij
<1>3. ExistsBijection(S, T)
  BY <1>2, Fun_ExistsBijSymmetric
<1>4. QED
  BY <1>3, FS_Bijection

(* A finite set of at most one element has no two.                         *)
LEMMA AtMostOne ==
  ASSUME NEW S, IsFiniteSet(S), Cardinality(S) <= 1, NEW a \in S, NEW b \in S
  PROVE  a = b
<1> SUFFICES ASSUME a # b PROVE FALSE
  OBVIOUS
<1>1. IsFiniteSet(S \ {a}) /\ Cardinality(S \ {a}) = Cardinality(S) - 1
  BY FS_RemoveElement
<1>2. Cardinality(S) \in Nat /\ Cardinality(S \ {a}) \in Nat
  BY <1>1, FS_CardinalityType
<1>3. Cardinality(S \ {a}) = 0
  BY <1>1, <1>2
<1>4. S \ {a} = {}
  BY <1>1, <1>3, FS_EmptySet
<1>5. QED
  BY <1>4
-----------------------------------------------------------------------------
(* Facts about pages and snapshots.                                        *)

(* A history has whole pages of rows, and what is left is its tail.        *)
LEMMA PageCount ==
  ASSUME NEW t \in Seq(Tokens)
  PROVE  /\ Len(t) \in Nat /\ FullPages(t) \in Nat
         /\ FullPages(t) * PageRows <= Len(t)
<1>1. Len(t) \in Nat /\ PageRows \in Nat /\ PageRows > 0
  BY CacheAssumption
<1>2. \A a, b \in Nat : b > 0 => a \div b \in Nat /\ (a \div b) * b <= a
  OBVIOUS
<1>3. QED
  BY <1>1, <1>2 DEF FullPages

(* A page's key is as long as the rows up to its end.                      *)
LEMMA PageLength ==
  ASSUME NEW t \in Seq(Tokens), NEW i \in 1..FullPages(t)
  PROVE  PageId(t, i) \in Seq(Tokens) /\ Len(PageId(t, i)) = i * PageRows
<1>1. /\ Len(t) \in Nat /\ FullPages(t) \in Nat /\ FullPages(t) * PageRows <= Len(t)
      /\ PageRows \in Nat \ {0}
  BY PageCount, CacheAssumption
<1>2. \A a, b, c \in Nat : a <= b => a * c <= b * c
  OBVIOUS
<1>3. i * PageRows \in Nat /\ 1 <= i * PageRows /\ i * PageRows <= Len(t)
  <2>1. i * PageRows <= FullPages(t) * PageRows /\ 1 * PageRows <= i * PageRows
    BY <1>1, <1>2
  <2>2. QED
    BY <1>1, <2>1
<1>4. \A j \in 1..(i * PageRows) : t[j] \in Tokens
  BY <1>1, <1>3
<1>5. QED
  BY <1>1, <1>3, <1>4, SubSeqProperties DEF PageId

(* The keys of one page more: one key, which was not there.                *)
LEMMA ChainGrows ==
  ASSUME NEW t \in Seq(Tokens), NEW n \in Nat, n < FullPages(t)
  PROVE  /\ Chain(t, n + 1) = Chain(t, n) \cup {PageId(t, n + 1)}
         /\ PageId(t, n + 1) \notin Chain(t, n)
         /\ PageId(t, n + 1) \in Seq(Tokens)
<1>1. FullPages(t) \in Nat /\ PageRows \in Nat \ {0}
  BY PageCount, CacheAssumption
<1>2. Chain(t, n + 1) = Chain(t, n) \cup {PageId(t, n + 1)}
  <2>1. 1..(n + 1) = (1..n) \cup {n + 1}
    OBVIOUS
  <2>2. QED
    BY <2>1 DEF Chain
<1>3. \A i \in 1..n : PageId(t, n + 1) # PageId(t, i)
  <2> TAKE i \in 1..n
  <2>1. Len(PageId(t, i)) = i * PageRows /\ Len(PageId(t, n + 1)) = (n + 1) * PageRows
    BY <1>1, PageLength
  <2>2. \A a, b, c \in Nat : a < b /\ c > 0 => a * c # b * c
    OBVIOUS
  <2>3. i * PageRows # (n + 1) * PageRows
    BY <1>1, <2>2
  <2>4. QED
    BY <2>1, <2>3
<1>4. PageId(t, n + 1) \in Seq(Tokens)
  BY <1>1, PageLength
<1>5. QED
  BY <1>2, <1>3, <1>4 DEF Chain

\* The snapshots of `sn` that use page k.
UsersOf(sn, k) ==
  {i \in 1..Len(sn) : k \in Chain(sn[i].tokens, FullPages(sn[i].tokens))}

\* The reference the capture in flight has to page k.
Mine(k) == IF k \in Chain(toks, held) THEN 1 ELSE 0

(* A page's users can be counted.                                          *)
LEMMA UsersFinite ==
  ASSUME NEW sn \in Seq(Snapshot), NEW k
  PROVE  IsFiniteSet(UsersOf(sn, k)) /\ Cardinality(UsersOf(sn, k)) \in Nat
<1>1. Len(sn) \in Nat
  OBVIOUS
<1>2. IsFiniteSet(1..Len(sn))
  BY <1>1, FirstNumbers
<1>3. IsFiniteSet(UsersOf(sn, k))
  BY <1>2, FS_Subset DEF UsersOf
<1>4. QED
  BY <1>3, FS_CardinalityType

\* Every snapshot of `b` is one of `a`: the one at j was at f[j].
Moves(f, a, b) ==
  /\ a \in Seq(Snapshot) /\ b \in Seq(Snapshot)
  /\ \A j \in 1..Len(b) : f[j] \in 1..Len(a) /\ b[j].tokens = a[f[j]].tokens
  /\ \A i, j \in 1..Len(b) : f[i] = f[j] => i = j

\* The users of page k among the snapshots of `a` that f moves to 1..n.
MovedOf(a, n, f, k) == {i \in UsersOf(a, k) : \E j \in 1..n : f[j] = i}

(* When every snapshot of `b` is one of `a`, moved, the users of a page    *)
(* among `b` are its users among the moved ones.                           *)
LEMMA MovedUsers ==
  ASSUME NEW a, NEW b, NEW f, NEW k, Moves(f, a, b)
  PROVE  Cardinality(UsersOf(b, k)) = Cardinality(MovedOf(a, Len(b), f, k))
<1> DEFINE S == {i \in UsersOf(a, k) : \E j \in 1..Len(b) : f[j] = i}
           T == UsersOf(b, k)
           g == [j \in T |-> f[j]]
<1>1. IsFiniteSet(S)
  BY UsersFinite, FS_Subset DEF Moves
<1>2. T \subseteq 1..Len(b) /\ \A j \in 1..Len(b) : j \in T <=> f[j] \in S
  BY DEF UsersOf, Moves
<1>3. g \in [T -> S]
  BY <1>2
<1>4. \A i, j \in T : g[i] = g[j] => i = j
  BY <1>2 DEF Moves
<1>5. \A i \in S : \E j \in T : g[j] = i
  BY <1>2
<1> HIDE DEF S, T, g
<1>6. Cardinality(T) = Cardinality(S)
  BY <1>1, <1>3, <1>4, <1>5, SameCount
<1>7. QED
  BY <1>6 DEF S, T, MovedOf

\* Snapshot i of `sn` taken out and put at the end as x.
Touched(sn, i, x) == Append(SubSeq(sn, 1, i - 1) \o SubSeq(sn, i + 1, Len(sn)), x)

\* Where the snapshot now at j was.
Place(n, i) == [j \in 1..n |-> IF j < i THEN j ELSE IF j < n THEN j + 1 ELSE i]

(* The other snapshots keep their order.                                   *)
LEMMA TouchMoves ==
  ASSUME NEW sn \in Seq(Snapshot), NEW i \in 1..Len(sn), NEW x \in Snapshot
  PROVE  /\ Touched(sn, i, x) \in Seq(Snapshot) /\ Len(Touched(sn, i, x)) = Len(sn)
         /\ \A j \in 1..Len(sn) :
              /\ Place(Len(sn), i)[j] \in 1..Len(sn)
              /\ Touched(sn, i, x)[j] = IF Place(Len(sn), i)[j] = i THEN x
                                        ELSE sn[Place(Len(sn), i)[j]]
         /\ \A j, k \in 1..Len(sn) : Place(Len(sn), i)[j] = Place(Len(sn), i)[k] => j = k
         /\ \A k \in 1..Len(sn) : \E j \in 1..Len(sn) : Place(Len(sn), i)[j] = k
<1> DEFINE n == Len(sn)
           u == SubSeq(sn, 1, i - 1)
           v == SubSeq(sn, i + 1, Len(sn))
           place == [j \in 1..n |-> IF j < i THEN j ELSE IF j < n THEN j + 1 ELSE i]
<1>1. n \in Nat /\ i \in 1..n /\ \A j \in 1..n : sn[j] \in Snapshot
  OBVIOUS
<1>2. /\ u \in Seq(Snapshot) /\ Len(u) = i - 1
      /\ \A j \in 1..(i - 1) : u[j] = sn[j]
  <2>1. \A j \in 1..(i - 1) : sn[j] \in Snapshot
    BY <1>1
  <2>2. QED
    BY <1>1, <2>1, SubSeqProperties
<1>3. /\ v \in Seq(Snapshot) /\ Len(v) = n - i
      /\ \A j \in 1..(n - i) : v[j] = sn[i + j]
  <2>1. \A j \in (i + 1)..n : sn[j] \in Snapshot
    BY <1>1
  <2>2. QED
    BY <1>1, <2>1, SubSeqProperties
<1> HIDE DEF u, v
<1> DEFINE w == u \o v
           b == Append(w, x)
<1>4. /\ w \in Seq(Snapshot) /\ Len(w) = Len(u) + Len(v)
      /\ \A j \in 1..(Len(u) + Len(v)) : w[j] = IF j <= Len(u) THEN u[j] ELSE v[j - Len(u)]
  BY <1>2, <1>3, ConcatProperties
<1> HIDE DEF w
<1>5. /\ b \in Seq(Snapshot) /\ Len(b) = Len(w) + 1 /\ b[Len(w) + 1] = x
      /\ \A j \in 1..Len(w) : b[j] = w[j]
  BY <1>4, AppendProperties
<1> HIDE DEF b, n
<1>6. /\ b \in Seq(Snapshot) /\ Len(b) = n /\ b[n] = x
      /\ \A j \in 1..(n - 1) : b[j] = IF j < i THEN sn[j] ELSE sn[j + 1]
  <2>1. Len(w) = n - 1 /\ Len(u) + Len(v) = n - 1
    BY <1>1, <1>2, <1>3, <1>4
  <2>3. ASSUME NEW j \in 1..(n - 1) PROVE b[j] = IF j < i THEN sn[j] ELSE sn[j + 1]
    <3>1. b[j] = IF j <= i - 1 THEN u[j] ELSE v[j - (i - 1)]
      BY <1>2, <1>4, <1>5, <2>1
    <3>2. CASE j < i
      BY <1>1, <1>2, <3>1, <3>2
    <3>3. CASE ~(j < i)
      <4>1. j - (i - 1) \in 1..(n - i) /\ i + (j - (i - 1)) = j + 1
        BY <1>1, <3>3
      <4>2. v[j - (i - 1)] = sn[j + 1]
        BY <1>3, <4>1
      <4>3. QED
        BY <1>1, <3>1, <3>3, <4>2
    <3>4. QED
      BY <3>2, <3>3
  <2>4. QED
    BY <1>1, <1>5, <2>1, <2>3
<1>7. /\ \A j \in 1..n : place[j] \in 1..n
      /\ \A j, k \in 1..n : place[j] = place[k] => j = k
  BY <1>1
<1>8. \A k \in 1..n : \E j \in 1..n : place[j] = k
  <2> TAKE k \in 1..n
  <2>1. CASE k < i
    BY <1>1, <2>1
  <2>2. CASE k > i
    <3>1. k - 1 \in 1..n /\ place[k - 1] = k
      BY <1>1, <2>2
    <3>2. QED
      BY <3>1
  <2>3. CASE k = i
    <3>1. n \in 1..n /\ place[n] = k
      BY <1>1, <2>3
    <3>2. QED
      BY <3>1
  <2>4. QED
    BY <1>1, <2>1, <2>2, <2>3
<1>9. ASSUME NEW j \in 1..n
      PROVE  b[j] = IF place[j] = i THEN x ELSE sn[place[j]]
  <2>1. CASE j = n
    BY <1>1, <1>6, <2>1
  <2>2. CASE j # n /\ j < i
    BY <1>1, <1>6, <2>2
  <2>3. CASE j # n /\ ~(j < i)
    BY <1>1, <1>6, <2>3
  <2>4. QED
    BY <2>1, <2>2, <2>3
<1> HIDE DEF place
<1>10. b = Touched(sn, i, x)
  BY DEF Touched, b, w, u, v
<1>11. n = Len(sn) /\ place = Place(Len(sn), i)
  BY DEF n, place, Place
<1>12. \A j \in 1..n : b[j] = IF place[j] = i THEN x ELSE sn[place[j]]
  BY <1>9
<1>13. QED
  BY <1>6, <1>7, <1>8, <1>10, <1>11, <1>12
-----------------------------------------------------------------------------
(* The steps that change nothing but the order of use and what is known of *)
(* the next token.                                                         *)

\* Snapshot i becomes x, the most recently used.
Touch(i, x) ==
  /\ x \in Snapshot
  /\ x.tokens = snaps[i].tokens /\ x.tail = snaps[i].tail /\ x.state = snaps[i].state
  /\ snaps' = Append(Without(i), x)
  /\ UNCHANGED <<pageMap, freePages, freeStates, mem, smem,
                 step, toks, know, held, tail, failures>>

(* Stamping a snapshot keeps the invariant.                                *)
LEMMA TouchKeeps ==
  ASSUME IInv, NEW i \in Indices, NEW x, Touch(i, x)
  PROVE  IInv'
<1>0. /\ pageMap' = pageMap /\ freePages' = freePages /\ freeStates' = freeStates
      /\ mem' = mem /\ smem' = smem /\ step' = step /\ toks' = toks /\ know' = know
      /\ held' = held /\ tail' = tail /\ failures' = failures
  BY DEF Touch
<1>1. x \in Snapshot /\ snaps \in Seq(Snapshot) /\ i \in 1..Len(snaps)
  BY DEF IInv, Typed, Indices, Touch
<1>2. snaps' = Touched(snaps, i, x)
  BY DEF Touch, Touched, Without
<1> DEFINE place == Place(Len(snaps), i)
<1>3. /\ snaps' \in Seq(Snapshot) /\ Len(snaps') = Len(snaps)
      /\ \A j \in 1..Len(snaps) :
           /\ place[j] \in 1..Len(snaps)
           /\ snaps'[j] = IF place[j] = i THEN x ELSE snaps[place[j]]
      /\ \A j, k \in 1..Len(snaps) : place[j] = place[k] => j = k
      /\ \A k \in 1..Len(snaps) : \E j \in 1..Len(snaps) : place[j] = k
  <2> DEFINE b == Touched(snaps, i, x)
  <2>1. /\ b \in Seq(Snapshot) /\ Len(b) = Len(snaps)
        /\ \A j \in 1..Len(snaps) :
             /\ place[j] \in 1..Len(snaps)
             /\ b[j] = IF place[j] = i THEN x ELSE snaps[place[j]]
        /\ \A j, k \in 1..Len(snaps) : place[j] = place[k] => j = k
        /\ \A k \in 1..Len(snaps) : \E j \in 1..Len(snaps) : place[j] = k
    BY <1>1, TouchMoves
  <2> HIDE DEF b, place
  <2>2. QED
    BY <1>2, <2>1 DEF b
<1> HIDE DEF place
<1>4. /\ \A j \in Indices' : place[j] \in Indices
      /\ \A j, k \in Indices' : place[j] = place[k] => j = k
      /\ \A k \in Indices : \E j \in Indices' : place[j] = k
      /\ \A j \in Indices' : /\ snaps'[j].tokens = snaps[place[j]].tokens
                             /\ snaps'[j].tail = snaps[place[j]].tail
                             /\ snaps'[j].state = snaps[place[j]].state
  BY <1>3 DEF Indices, Touch
<1>5. Typed'
  BY <1>0, <1>3 DEF IInv, Typed
<1>6. Capturing'
  BY <1>0, <1>4 DEF IInv, Capturing
<1>7. Distinct' /\ StatesApart'
  BY <1>0, <1>4 DEF IInv, Distinct, StatesApart
<1>8. PagesWritten' /\ PagesApart'
  BY <1>0 DEF IInv, PagesWritten, PagesApart
<1>9. TailsApart'
  BY <1>0, <1>4 DEF IInv, TailsApart
<1>10. AllUsed'
  BY <1>0, <1>4 DEF IInv, AllUsed
<1>11. SnapshotsRestorable'
  BY <1>0, <1>4 DEF IInv, SnapshotsRestorable
<1>12. RefsExact'
  <2>1. ASSUME NEW k \in DOMAIN pageMap PROVE Refs(k)' = Refs(k)
    <3>1. Cardinality(UsersOf(snaps', k))
            = Cardinality(MovedOf(snaps, Len(snaps'), place, k))
      <4>1. Moves(place, snaps, snaps')
        BY <1>1, <1>3, <1>4 DEF Indices, Moves
      <4>2. QED
        BY <4>1, MovedUsers
    <3>2. MovedOf(snaps, Len(snaps'), place, k) = UsersOf(snaps, k)
      BY <1>3 DEF UsersOf, MovedOf
    <3>3. QED
      BY <1>0, <3>1, <3>2 DEF Refs, UsersOf, Indices
  <2>2. QED
    BY <1>0, <2>1 DEF IInv, RefsExact
<1>13. QED
  BY <1>5, <1>6, <1>7, <1>8, <1>9, <1>10, <1>11, <1>12 DEF IInv
-----------------------------------------------------------------------------
(* The steps of a capture that write, before it is stored or given up.     *)

(* A page has the snapshots' references and the capture's.                 *)
LEMMA RefsSplit ==
  ASSUME NEW k
  PROVE  /\ Refs(k) = Cardinality(UsersOf(snaps, k)) + Mine(k)
         /\ Refs(k)' = Cardinality(UsersOf(snaps', k)) + Mine(k)'
  BY DEF Refs, UsersOf, Mine, Indices

(* No page has no keys.                                                    *)
LEMMA ChainEmpty ==
  ASSUME NEW t
  PROVE  Chain(t, 0) = {}
  BY DEF Chain

(* What a snapshot is made of.                                             *)
LEMMA SnapFields ==
  ASSUME IInv, NEW i \in Indices
  PROVE  /\ snaps[i] \in Snapshot
         /\ snaps[i].tokens \in Histories /\ snaps[i].tokens \in Seq(Tokens)
         /\ Len(snaps[i].tokens) >= MinTokens
         /\ snaps[i].tail \in Slots /\ snaps[i].state \in StateSlots
         /\ snaps[i].after \in PointAfters
<1>1. snaps[i] \in Snapshot
  BY DEF IInv, Typed, Indices
<1>2. /\ snaps[i].tokens \in Storable /\ snaps[i].tail \in Slots
      /\ snaps[i].state \in StateSlots /\ snaps[i].after \in PointAfters
  BY <1>1 DEF Snapshot
<1>3. QED
  BY <1>1, <1>2, CacheAssumption DEF Storable

(* A capture begins.                                                       *)
LEMMA BeginKeeps ==
  ASSUME IInv, NEW t \in Histories, NEW a \in PointAfters, Begin(t, a), failures' = failures
  PROVE  IInv'
<1>1. /\ pageMap' = pageMap /\ freePages' = freePages /\ freeStates' = freeStates
      /\ mem' = mem /\ smem' = smem /\ snaps' = snaps /\ held' = held /\ tail' = tail
      /\ step = "idle" /\ step' = "pages" /\ toks' = t /\ know' = a
      /\ t \in Storable /\ \A i \in Indices : snaps[i].tokens # t
  BY DEF Begin, Storable
<1>2. held = 0 /\ tail = NoSlot /\ FullPages(t) \in Nat /\ Indices' = Indices
  BY <1>1, PageCount, CacheAssumption DEF IInv, Capturing, Indices
<1>3. Chain(toks, held) = {} /\ Chain(toks', held') = {}
  BY <1>1, <1>2, ChainEmpty
<1>4. Typed'
  BY <1>1 DEF IInv, Typed, Steps
<1>5. Capturing'
  BY <1>1, <1>2 DEF IInv, Capturing
<1>6. Distinct' /\ PagesWritten' /\ PagesApart' /\ TailsApart' /\ StatesApart' /\ AllUsed'
  BY <1>1, <1>2, <1>3 DEF IInv, Distinct, PagesWritten, PagesApart, TailsApart, StatesApart, AllUsed
<1>7. SnapshotsRestorable'
  BY <1>1, <1>2 DEF IInv, SnapshotsRestorable
<1>8. RefsExact'
  <2>1. ASSUME NEW k PROVE Refs(k)' = Refs(k)
    BY <1>1, <1>3, RefsSplit DEF Mine
  <2>2. QED
    BY <1>1, <2>1 DEF IInv, RefsExact
<1>9. QED
  BY <1>4, <1>5, <1>6, <1>7, <1>8 DEF IInv

(* The pages are done.                                                     *)
LEMMA PagesDoneKeeps ==
  ASSUME IInv, PagesDone, failures' = failures
  PROVE  IInv'
<1>1. /\ pageMap' = pageMap /\ freePages' = freePages /\ freeStates' = freeStates
      /\ mem' = mem /\ smem' = smem /\ snaps' = snaps /\ held' = held /\ tail' = tail
      /\ toks' = toks /\ know' = know /\ step = "pages" /\ held = FullPages(toks)
      /\ step' = IF HasTail(toks) THEN "tail" ELSE "state"
  BY DEF PagesDone
<1>2. Indices' = Indices
  BY <1>1 DEF Indices
<1>3. Typed' /\ Capturing'
  BY <1>1, <1>2 DEF IInv, Typed, Steps, Capturing
<1>4. Distinct' /\ PagesWritten' /\ PagesApart' /\ TailsApart' /\ StatesApart' /\ AllUsed'
  BY <1>1, <1>2 DEF IInv, Distinct, PagesWritten, PagesApart, TailsApart, StatesApart, AllUsed
<1>5. SnapshotsRestorable'
  BY <1>1, <1>2 DEF IInv, SnapshotsRestorable
<1>6. RefsExact'
  <2>1. ASSUME NEW k PROVE Refs(k)' = Refs(k)
    BY <1>1, RefsSplit DEF Mine
  <2>2. QED
    BY <1>1, <2>1 DEF IInv, RefsExact
<1>7. QED
  BY <1>3, <1>4, <1>5, <1>6 DEF IInv

(* What a capture of a page adds to its chain.                             *)
LEMMA NextPageNew ==
  ASSUME IInv, MorePages
  PROVE  /\ toks \in Histories /\ step = "pages" /\ held + 1 <= FullPages(toks)
         /\ held \in Nat /\ tail = NoSlot
         /\ Chain(toks, held + 1) = Chain(toks, held) \cup {NextPage}
         /\ NextPage \notin Chain(toks, held) /\ NextPage \in Seq(Tokens)
<1>1. /\ step = "pages" /\ held < FullPages(toks) /\ held \in Nat /\ tail = NoSlot
      /\ toks \in Histories /\ toks \in Seq(Tokens)
  BY CacheAssumption DEF IInv, Typed, Capturing, MorePages, Storable
<1>2. FullPages(toks) \in Nat
  BY <1>1, PageCount
<1>3. QED
  BY <1>1, <1>2, ChainGrows DEF NextPage

(* A page is shared.                                                       *)
LEMMA SharePageKeeps ==
  ASSUME IInv, SharePage, failures' = failures
  PROVE  IInv'
<1>1. /\ freePages' = freePages /\ freeStates' = freeStates
      /\ mem' = mem /\ smem' = smem /\ snaps' = snaps /\ tail' = tail
      /\ toks' = toks /\ know' = know /\ step' = step /\ held' = held + 1
      /\ MorePages /\ NextPage \in DOMAIN pageMap
      /\ pageMap' = [pageMap EXCEPT ![NextPage].refs = @ + 1]
  BY DEF SharePage
<1>2. /\ toks \in Histories /\ step = "pages" /\ held + 1 <= FullPages(toks)
      /\ held \in Nat /\ tail = NoSlot
      /\ Chain(toks, held + 1) = Chain(toks, held) \cup {NextPage}
      /\ NextPage \notin Chain(toks, held)
  BY <1>1, NextPageNew
<1>3. /\ DOMAIN pageMap' = DOMAIN pageMap
      /\ pageMap' \in [DOMAIN pageMap -> Page]
      /\ \A k \in DOMAIN pageMap :
           /\ pageMap'[k].slot = pageMap[k].slot
           /\ pageMap[k].refs \in Nat
           /\ pageMap'[k].refs = IF k = NextPage THEN pageMap[k].refs + 1 ELSE pageMap[k].refs
  <2>1. PICK p : p = NextPage
    OBVIOUS
  <2>2. /\ pageMap \in [DOMAIN pageMap -> Page] /\ p \in DOMAIN pageMap
        /\ pageMap' = [pageMap EXCEPT ![p].refs = @ + 1]
    BY <1>1, <2>1 DEF IInv, Typed
  <2>3. /\ DOMAIN pageMap' = DOMAIN pageMap
        /\ \A k \in DOMAIN pageMap : pageMap[k] \in Page
        /\ \A k \in DOMAIN pageMap : k # p => pageMap'[k] = pageMap[k]
        /\ pageMap'[p] = [pageMap[p] EXCEPT !.refs = @ + 1]
    BY <2>2
  <2>4. /\ pageMap'[p] \in Page /\ pageMap'[p].slot = pageMap[p].slot
        /\ pageMap'[p].refs = pageMap[p].refs + 1
        /\ \A k \in DOMAIN pageMap : pageMap[k].refs \in Nat
    BY <2>2, <2>3 DEF Page
  <2>5. pageMap' \in [DOMAIN pageMap -> Page]
    BY <2>2, <2>3, <2>4
  <2>6. QED
    BY <2>1, <2>3, <2>4, <2>5
<1>4. Indices' = Indices
  BY <1>1 DEF Indices
<1>5. Typed'
  BY <1>1, <1>2, <1>3 DEF IInv, Typed
<1>6. Capturing'
  BY <1>1, <1>2, <1>4 DEF IInv, Capturing
<1>7. Distinct' /\ StatesApart'
  BY <1>1, <1>4 DEF IInv, Distinct, StatesApart
<1>8. PagesWritten' /\ PagesApart' /\ TailsApart' /\ AllUsed'
  BY <1>1, <1>2, <1>3, <1>4 DEF IInv, PagesWritten, PagesApart, TailsApart, AllUsed
<1>9. SnapshotsRestorable'
  BY <1>1, <1>3, <1>4 DEF IInv, SnapshotsRestorable
<1>10. RefsExact'
  <2>1. ASSUME NEW k \in DOMAIN pageMap
        PROVE  Refs(k) \in Nat /\ Refs(k)' = IF k = NextPage THEN Refs(k) + 1 ELSE Refs(k)
    <3>1. Cardinality(UsersOf(snaps, k)) \in Nat
      BY UsersFinite DEF IInv, Typed
    <3>2. QED
      BY <1>1, <1>2, <3>1, RefsSplit DEF Mine
  <2>2. QED
    BY <1>1, <1>3, <2>1 DEF IInv, RefsExact
<1>11. QED
  BY <1>5, <1>6, <1>7, <1>8, <1>9, <1>10 DEF IInv

(* A page is written: no snapshot can have used its key before.            *)
LEMMA WritePageKeeps ==
  ASSUME IInv, NEW s \in PageSlots, WritePage(s), failures' = failures
  PROVE  IInv'
<1>1. /\ freePages' = freePages \ {s} /\ s \in freePages /\ freeStates' = freeStates
      /\ mem' = [mem EXCEPT ![s] = NextPage] /\ smem' = smem /\ snaps' = snaps
      /\ tail' = tail /\ toks' = toks /\ know' = know /\ step' = step /\ held' = held + 1
      /\ MorePages /\ NextPage \notin DOMAIN pageMap
      /\ pageMap' = [k \in DOMAIN pageMap \cup {NextPage} |->
                       IF k = NextPage THEN [slot |-> s, refs |-> 1] ELSE pageMap[k]]
  BY DEF WritePage
<1>2. /\ toks \in Histories /\ step = "pages" /\ held + 1 <= FullPages(toks)
      /\ held \in Nat /\ tail = NoSlot
      /\ Chain(toks, held + 1) = Chain(toks, held) \cup {NextPage}
      /\ NextPage \notin Chain(toks, held) /\ NextPage \in Seq(Tokens)
  BY <1>1, NextPageNew
<1>3. /\ DOMAIN pageMap' = DOMAIN pageMap \cup {NextPage}
      /\ pageMap' \in [DOMAIN pageMap \cup {NextPage} -> Page]
      /\ pageMap'[NextPage].slot = s /\ pageMap'[NextPage].refs = 1
      /\ \A k \in DOMAIN pageMap : pageMap'[k] = pageMap[k] /\ pageMap[k].slot \in PageSlots
  BY <1>1 DEF IInv, Typed, Page
<1>4. Indices' = Indices /\ s # NoSlot
  BY <1>1, CacheAssumption DEF Indices
<1>5. /\ mem' \in [PageSlots -> Seq(Tokens)] /\ mem'[s] = NextPage
      /\ \A r \in PageSlots \ {s} : mem'[r] = mem[r]
  BY <1>1, <1>2 DEF IInv, Typed
<1>6. Typed'
  BY <1>1, <1>2, <1>3, <1>5 DEF IInv, Typed
<1>7. Capturing'
  BY <1>1, <1>2, <1>4 DEF IInv, Capturing
<1>8. Distinct' /\ StatesApart'
  BY <1>1, <1>4 DEF IInv, Distinct, StatesApart
<1>9. PagesWritten'
  BY <1>1, <1>2, <1>3, <1>5 DEF IInv, PagesWritten, PagesApart
<1>10. PagesApart' /\ TailsApart'
  BY <1>1, <1>2, <1>3, <1>4 DEF IInv, PagesApart, TailsApart
<1>11. AllUsed'
  BY <1>1, <1>2, <1>3, <1>4 DEF IInv, AllUsed
<1>12. SnapshotsRestorable'
  <2>1. \A i \in Indices : snaps[i].tail \in Slots /\ snaps[i].tail # s
    BY <1>1, SnapFields DEF IInv, TailsApart
  <2>2. \A k \in DOMAIN pageMap : pageMap[k].slot # s
    BY <1>1 DEF IInv, PagesApart
  <2>3. QED
    BY <1>1, <1>3, <1>4, <1>5, <2>1, <2>2 DEF IInv, SnapshotsRestorable, Slots
<1>13. RefsExact'
  <2>1. UsersOf(snaps, NextPage) = {}
    BY <1>1 DEF IInv, SnapshotsRestorable, UsersOf, Indices
  <2>2. ASSUME NEW k, k = NextPage PROVE Refs(k)' = 1
    <3>1. Mine(k)' = 1
      BY <1>1, <1>2, <2>2 DEF Mine
    <3>2. Cardinality(UsersOf(snaps', k)) = 0
      BY <1>1, <2>1, <2>2, FS_EmptySet
    <3>3. QED
      BY <3>1, <3>2, RefsSplit
  <2>3. ASSUME NEW k \in DOMAIN pageMap PROVE Refs(k)' = Refs(k)
    BY <1>1, <1>2, RefsSplit DEF Mine
  <2>4. QED
    BY <1>1, <1>3, <2>2, <2>3 DEF IInv, RefsExact
<1>14. QED
  BY <1>6, <1>7, <1>8, <1>9, <1>10, <1>11, <1>12, <1>13 DEF IInv

(* The tail is written.                                                    *)
LEMMA WriteTailKeeps ==
  ASSUME IInv, NEW s \in PageSlots, WriteTail(s), failures' = failures
  PROVE  IInv'
<1>1. /\ freePages' = freePages \ {s} /\ s \in freePages /\ freeStates' = freeStates
      /\ mem' = [mem EXCEPT ![s] = toks] /\ smem' = smem /\ snaps' = snaps
      /\ tail' = s /\ toks' = toks /\ know' = know /\ held' = held
      /\ step = "tail" /\ step' = "state" /\ pageMap' = pageMap
  BY DEF WriteTail
<1>2. /\ toks \in Histories /\ toks \in Seq(Tokens) /\ HasTail(toks) /\ tail = NoSlot
      /\ held = FullPages(toks)
  BY <1>1, CacheAssumption DEF IInv, Capturing, Storable
<1>3. Indices' = Indices /\ s # NoSlot
  BY <1>1, CacheAssumption DEF Indices
<1>4. /\ mem' \in [PageSlots -> Seq(Tokens)] /\ mem'[s] = toks
      /\ \A r \in PageSlots \ {s} : mem'[r] = mem[r]
  BY <1>1, <1>2 DEF IInv, Typed
<1>5. Typed'
  BY <1>1, <1>4 DEF IInv, Typed, Steps, Slots
<1>6. Capturing'
  BY <1>1, <1>2, <1>3, <1>4 DEF IInv, Capturing
<1>7. Distinct' /\ StatesApart'
  BY <1>1, <1>3 DEF IInv, Distinct, StatesApart
<1>8. \A k \in DOMAIN pageMap : pageMap[k].slot \in PageSlots /\ pageMap[k].slot # s
  BY <1>1 DEF IInv, Typed, Page, PagesApart
<1>9. PagesWritten'
  BY <1>1, <1>4, <1>8 DEF IInv, PagesWritten
<1>10. PagesApart' /\ TailsApart'
  BY <1>1, <1>2, <1>3, <1>8 DEF IInv, PagesApart, TailsApart
<1>11. AllUsed'
  BY <1>1, <1>2, <1>3, CacheAssumption DEF IInv, AllUsed
<1>12. SnapshotsRestorable'
  <2>1. \A i \in Indices : snaps[i].tail \in Slots /\ snaps[i].tail # s
    BY <1>1, SnapFields DEF IInv, TailsApart
  <2>2. QED
    BY <1>1, <1>3, <1>4, <1>8, <2>1 DEF IInv, SnapshotsRestorable, Slots
<1>13. RefsExact'
  <2>1. ASSUME NEW k PROVE Refs(k)' = Refs(k)
    BY <1>1, RefsSplit DEF Mine
  <2>2. QED
    BY <1>1, <2>1 DEF IInv, RefsExact
<1>14. QED
  BY <1>5, <1>6, <1>7, <1>9, <1>10, <1>11, <1>12, <1>13 DEF IInv

(* An export fails: the slot and the references it had are stranded.       *)
LEMMA FailureKeeps ==
  ASSUME IInv, \/ \E s \in PageSlots : ExportError(s)
               \/ SyncError
  PROVE  IInv'
<1>1. /\ freePages' \subseteq freePages /\ freeStates' = freeStates
      /\ mem' = mem /\ smem' = smem /\ snaps' = snaps /\ pageMap' = pageMap
      /\ tail' = NoSlot /\ toks' = <<>> /\ know' = NoAfter /\ held' = 0 /\ step' = "idle"
      /\ failures < MaxFailures /\ failures' = failures + 1
  BY DEF ExportError, SyncError, NoCapture
<1>2. failures \in 0..MaxFailures /\ failures' \in 0..MaxFailures /\ failures' # 0
  BY <1>1, CacheAssumption DEF IInv, Typed
<1>3. Indices' = Indices
  BY <1>1 DEF Indices
<1>4. Chain(toks', held') = {}
  BY <1>1, ChainEmpty
<1>5. Typed'
  BY <1>1, <1>2 DEF IInv, Typed, Steps, Slots, NoAfter, PointAfters
<1>6. Capturing' /\ AllUsed'
  BY <1>1, <1>2 DEF Capturing, AllUsed
<1>7. Distinct' /\ StatesApart'
  BY <1>1, <1>3 DEF IInv, Distinct, StatesApart
<1>8. PagesWritten'
  BY <1>1, <1>4 DEF IInv, PagesWritten
<1>9. PagesApart' /\ TailsApart'
  <2>1. \A k \in DOMAIN pageMap : pageMap[k].slot # NoSlot
    BY CacheAssumption DEF IInv, Typed, Page
  <2>2. NoSlot \notin freePages
    BY CacheAssumption DEF IInv, Typed
  <2>3. QED
    BY <1>1, <1>3, <2>1, <2>2 DEF IInv, PagesApart, TailsApart
<1>10. SnapshotsRestorable'
  BY <1>1, <1>3 DEF IInv, SnapshotsRestorable
<1>11. RefsExact'
  <2>1. ASSUME NEW k \in DOMAIN pageMap PROVE pageMap[k].refs \in Nat /\ Refs(k)' <= pageMap[k].refs
    <3>1. Cardinality(UsersOf(snaps, k)) \in Nat /\ pageMap[k].refs \in Nat
      BY UsersFinite DEF IInv, Typed, Page
    <3>2. Refs(k)' <= Refs(k) /\ Refs(k) \in Nat /\ Refs(k)' \in Nat
      BY <1>1, <1>4, <3>1, RefsSplit DEF Mine
    <3>3. QED
      BY <3>1, <3>2 DEF IInv, RefsExact
  <2>2. QED
    BY <1>1, <1>2, <2>1 DEF RefsExact
<1>12. QED
  BY <1>5, <1>6, <1>7, <1>8, <1>9, <1>10, <1>11 DEF IInv
-----------------------------------------------------------------------------
(* The steps that give references up.                                      *)

(* What is left of page_map when one reference to each of `ids` goes.      *)
LEMMA Released ==
  ASSUME IInv, NEW ids, pageMap' = MapWithout(ids)
  PROVE  /\ DOMAIN pageMap' = DOMAIN pageMap \ Last(ids)
         /\ pageMap' \in [DOMAIN pageMap \ Last(ids) -> Page]
         /\ \A k \in DOMAIN pageMap \ Last(ids) :
              /\ pageMap'[k].slot = pageMap[k].slot /\ pageMap[k].refs \in Nat
              /\ pageMap'[k].refs = pageMap[k].refs - (IF k \in ids THEN 1 ELSE 0)
<1>1. pageMap \in [DOMAIN pageMap -> Page]
  BY DEF IInv, Typed
<1>2. \A k \in DOMAIN pageMap \ Last(ids) :
        /\ pageMap[k] \in Page
        /\ k \in ids => pageMap[k].refs # 1
  BY <1>1 DEF Last
<1>3. pageMap' = [k \in DOMAIN pageMap \ Last(ids) |->
                    [pageMap[k] EXCEPT !.refs = IF k \in ids THEN @ - 1 ELSE @]]
  BY DEF MapWithout
<1>4. ASSUME NEW k \in DOMAIN pageMap \ Last(ids)
      PROVE  /\ pageMap'[k] \in Page
             /\ pageMap'[k].slot = pageMap[k].slot /\ pageMap[k].refs \in Nat
             /\ pageMap'[k].refs = pageMap[k].refs - (IF k \in ids THEN 1 ELSE 0)
  <2>1. pageMap'[k] = [pageMap[k] EXCEPT !.refs = IF k \in ids THEN @ - 1 ELSE @]
    BY <1>3
  <2>2. CASE k \in ids
    BY <1>2, <2>1, <2>2 DEF Page
  <2>3. CASE k \notin ids
    BY <1>2, <2>1, <2>3 DEF Page
  <2>4. QED
    BY <2>2, <2>3
<1>5. QED
  BY <1>3, <1>4

(* A page whose last reference was the capture's has no snapshot.          *)
LEMMA LastIsMine ==
  ASSUME IInv, NEW k \in Last(Chain(toks, held))
  PROVE  UsersOf(snaps, k) = {}
<1>1. /\ k \in DOMAIN pageMap /\ pageMap[k].refs = 1 /\ k \in Chain(toks, held)
  BY DEF Last
<1>2. IsFiniteSet(UsersOf(snaps, k)) /\ Cardinality(UsersOf(snaps, k)) \in Nat
  BY UsersFinite DEF IInv, Typed
<1>3. Refs(k) <= 1 /\ Mine(k) = 1
  BY <1>1 DEF IInv, RefsExact, Mine
<1>4. Cardinality(UsersOf(snaps, k)) = 0
  BY <1>2, <1>3, RefsSplit
<1>5. QED
  BY <1>2, <1>4, FS_EmptySet

(* A capture gives everything back.                                        *)
LEMMA AbortKeeps ==
  ASSUME IInv, Abort, failures' = failures
  PROVE  IInv'
<1> DEFINE ids == Chain(toks, held)
<1>1. /\ freePages' = freePages \cup TailSlot(tail) \cup Freed(ids)
      /\ freeStates' = freeStates /\ pageMap' = MapWithout(ids)
      /\ mem' = mem /\ smem' = smem /\ snaps' = snaps
      /\ tail' = NoSlot /\ toks' = <<>> /\ know' = NoAfter /\ held' = 0 /\ step' = "idle"
  BY DEF Abort, NoCapture
<1>2. Indices' = Indices
  BY <1>1 DEF Indices
<1>3. Chain(toks', held') = {}
  BY <1>1, ChainEmpty
<1>4. /\ DOMAIN pageMap' = DOMAIN pageMap \ Last(ids)
      /\ pageMap' \in [DOMAIN pageMap \ Last(ids) -> Page]
      /\ \A k \in DOMAIN pageMap \ Last(ids) :
           /\ pageMap'[k].slot = pageMap[k].slot /\ pageMap[k].refs \in Nat
           /\ pageMap'[k].refs = pageMap[k].refs - (IF k \in ids THEN 1 ELSE 0)
  BY <1>1, Released
<1>5. /\ ids \subseteq DOMAIN pageMap
      /\ \A k \in Last(ids) : k \in DOMAIN pageMap /\ UsersOf(snaps, k) = {}
  BY LastIsMine DEF IInv, PagesWritten, Last
<1>6. /\ \A k \in DOMAIN pageMap : pageMap[k].slot \in PageSlots /\ pageMap[k].slot # NoSlot
      /\ NoSlot \notin freePages /\ freePages \subseteq PageSlots /\ tail \in Slots
  BY CacheAssumption DEF IInv, Typed, Page
<1>7. \A r : r \in freePages' <=> \/ r \in freePages
                                  \/ r = tail /\ tail # NoSlot
                                  \/ \E k \in Last(ids) : r = pageMap[k].slot
  BY <1>1 DEF Freed, TailSlot
<1> HIDE DEF ids
<1>8. Typed'
  <2>1. freePages' \subseteq PageSlots
    BY <1>5, <1>6, <1>7 DEF Slots
  <2>2. QED
    BY <1>1, <1>4, <2>1 DEF IInv, Typed, Steps, Slots, NoAfter, PointAfters
<1>9. Capturing'
  BY <1>1 DEF Capturing
<1>10. Distinct' /\ StatesApart'
  BY <1>1, <1>2 DEF IInv, Distinct, StatesApart
<1>11. PagesWritten'
  BY <1>1, <1>3, <1>4 DEF IInv, PagesWritten
<1>12. PagesApart'
  BY <1>1, <1>4, <1>5, <1>6, <1>7 DEF IInv, PagesApart
<1>13. TailsApart'
  BY <1>1, <1>2, <1>4, <1>5, <1>6, <1>7 DEF IInv, TailsApart
<1>14. AllUsed'
  BY <1>1, <1>2, <1>4, <1>7, CacheAssumption DEF IInv, AllUsed
<1>15. SnapshotsRestorable'
  <2>1. \A i \in Indices : \A k \in Chain(snaps[i].tokens, FullPages(snaps[i].tokens)) :
          k \in DOMAIN pageMap \ Last(ids)
    BY <1>5 DEF IInv, SnapshotsRestorable, UsersOf, Indices
  <2>2. QED
    BY <1>1, <1>2, <1>4, <2>1 DEF IInv, SnapshotsRestorable
<1>16. RefsExact'
  <2>1. ASSUME NEW k \in DOMAIN pageMap \ Last(ids)
        PROVE  Refs(k) \in Nat /\ Refs(k)' = Refs(k) - (IF k \in ids THEN 1 ELSE 0)
    <3>1. Cardinality(UsersOf(snaps, k)) \in Nat
      BY UsersFinite DEF IInv, Typed
    <3>2. QED
      BY <1>1, <1>3, <3>1, RefsSplit DEF Mine, ids
  <2>2. QED
    BY <1>1, <1>4, <2>1 DEF IInv, RefsExact
<1>17. QED
  BY <1>8, <1>9, <1>10, <1>11, <1>12, <1>13, <1>14, <1>15, <1>16 DEF IInv

\* Where the snapshot at j was before the first was dropped.
Shift(n) == [j \in 1..n |-> j + 1]

(* The first snapshot dropped: the others move up by one.                  *)
LEMMA TailMoves ==
  ASSUME NEW sn \in Seq(Snapshot), sn # <<>>
  PROVE  /\ 1 \in 1..Len(sn) /\ Head(sn) = sn[1] /\ Tail(sn) \in Seq(Snapshot)
         /\ Len(sn) \in Nat /\ Len(Tail(sn)) \in Nat /\ Len(sn) = Len(Tail(sn)) + 1
         /\ \A j \in 1..Len(Tail(sn)) : Tail(sn)[j] = sn[j + 1]
         /\ Moves(Shift(Len(Tail(sn))), sn, Tail(sn))
         /\ \A k : MovedOf(sn, Len(Tail(sn)), Shift(Len(Tail(sn))), k) = UsersOf(sn, k) \ {1}
<1>1. /\ Tail(sn) \in Seq(Snapshot) /\ Len(Tail(sn)) = Len(sn) - 1
      /\ \A j \in 1..Len(Tail(sn)) : Tail(sn)[j] = sn[j + 1]
  BY HeadTailProperties
<1>2. Len(sn) \in Nat /\ Len(Tail(sn)) \in Nat
  BY <1>1, LenProperties
<1>3. Head(sn) = sn[1] /\ 1 \in 1..Len(sn) /\ Len(sn) = Len(Tail(sn)) + 1
  BY <1>1, <1>2
<1> DEFINE b == Tail(sn)
           n == Len(b)
           f == Shift(n)
<1>4. \A j \in 1..n : f[j] = j + 1
  BY DEF Shift
<1> HIDE DEF b, n, f
<1>5. n \in Nat /\ Len(sn) = n + 1 /\ b \in Seq(Snapshot) /\ \A j \in 1..n : b[j] = sn[j + 1]
  BY <1>1, <1>2, <1>3 DEF n, b
<1>6. /\ \A j \in 1..n : f[j] \in 1..Len(sn) /\ b[j].tokens = sn[f[j]].tokens
      /\ \A i, j \in 1..n : f[i] = f[j] => i = j
  BY <1>4, <1>5
<1>7. Moves(f, sn, b)
  BY <1>5, <1>6 DEF Moves, n
<1>8. ASSUME NEW k PROVE MovedOf(sn, n, f, k) = UsersOf(sn, k) \ {1}
  <2>1. \A i \in 1..Len(sn) : i # 1 => i - 1 \in 1..n /\ f[i - 1] = i
    BY <1>4, <1>5
  <2>2. \A j \in 1..n : f[j] # 1
    BY <1>4, <1>5
  <2>3. UsersOf(sn, k) \subseteq 1..Len(sn)
    BY DEF UsersOf
  <2>4. QED
    BY <2>1, <2>2, <2>3 DEF MovedOf
<1>9. QED
  BY <1>1, <1>2, <1>3, <1>7, <1>8 DEF b, n, f

(* A page whose last reference was a snapshot's has no other user.         *)
LEMMA LastIsIts ==
  ASSUME IInv, NEW i \in Indices,
         NEW k \in Last(Chain(snaps[i].tokens, FullPages(snaps[i].tokens)))
  PROVE  k \notin Chain(toks, held) /\ UsersOf(snaps, k) \subseteq {i}
<1>1. /\ k \in DOMAIN pageMap /\ pageMap[k].refs = 1
      /\ k \in Chain(snaps[i].tokens, FullPages(snaps[i].tokens))
  BY DEF Last
<1>2. IsFiniteSet(UsersOf(snaps, k)) /\ Cardinality(UsersOf(snaps, k)) \in Nat
  BY UsersFinite DEF IInv, Typed
<1>3. i \in UsersOf(snaps, k)
  BY <1>1 DEF UsersOf, Indices
<1>4. Cardinality(UsersOf(snaps, k)) # 0
  BY <1>2, <1>3, FS_EmptySet
<1>5. Refs(k) <= 1 /\ Refs(k) = Cardinality(UsersOf(snaps, k)) + Mine(k)
  BY <1>1, RefsSplit DEF IInv, RefsExact
<1>6. Mine(k) \in {0, 1} /\ (Mine(k) = 0 <=> k \notin Chain(toks, held))
  BY DEF Mine
<1>7. Cardinality(UsersOf(snaps, k)) <= 1 /\ Mine(k) = 0
  BY <1>2, <1>4, <1>5, <1>6
<1>8. QED
  BY <1>2, <1>3, <1>6, <1>7, AtMostOne

(* The least recently used snapshot is evicted.                            *)
LEMMA EvictKeeps ==
  ASSUME IInv, EvictOne, failures' = failures
  PROVE  IInv'
<1> DEFINE ids == Chain(snaps[1].tokens, FullPages(snaps[1].tokens))
           itsTail == snaps[1].tail
           itsState == snaps[1].state
<1>1. snaps \in Seq(Snapshot) /\ snaps # <<>>
  BY DEF IInv, Typed, EvictOne
<1>2. /\ 1 \in 1..Len(snaps) /\ Head(snaps) = snaps[1]
      /\ Len(snaps) \in Nat /\ Len(Tail(snaps)) \in Nat /\ Len(snaps) = Len(Tail(snaps)) + 1
      /\ Tail(snaps) \in Seq(Snapshot)
      /\ \A j \in 1..Len(Tail(snaps)) : Tail(snaps)[j] = snaps[j + 1]
      /\ Moves(Shift(Len(Tail(snaps))), snaps, Tail(snaps))
      /\ \A k : MovedOf(snaps, Len(Tail(snaps)), Shift(Len(Tail(snaps))), k)
                  = UsersOf(snaps, k) \ {1}
  BY <1>1, TailMoves
<1>3. /\ freePages' = freePages \cup TailSlot(itsTail) \cup Freed(ids)
      /\ freeStates' = freeStates \cup {itsState} /\ pageMap' = MapWithout(ids)
      /\ mem' = mem /\ smem' = smem /\ snaps' = Tail(snaps)
      /\ tail' = tail /\ toks' = toks /\ know' = know /\ held' = held /\ step' = step
  BY <1>2 DEF EvictOne
<1> DEFINE f == Shift(Len(Tail(snaps)))
<1>4. /\ 1 \in Indices
      /\ \A j \in Indices' : f[j] \in Indices /\ f[j] # 1 /\ snaps'[j] = snaps[f[j]]
      /\ \A i \in Indices : i = 1 \/ \E j \in Indices' : f[j] = i
      /\ \A i, j \in Indices' : f[i] = f[j] => i = j
  <2>1. Indices = 1..Len(snaps) /\ Indices' = 1..Len(Tail(snaps))
    BY <1>3 DEF Indices
  <2>2. \A j \in Indices' : f[j] = j + 1
    BY <2>1 DEF Shift
  <2> HIDE DEF f
  <2>3. \A i \in Indices : i = 1 \/ (i - 1 \in Indices' /\ f[i - 1] = i)
    BY <1>2, <2>1, <2>2
  <2>4. /\ 1 \in Indices
        /\ \A j \in Indices' : f[j] \in Indices /\ f[j] # 1 /\ snaps'[j] = snaps[f[j]]
        /\ \A i, j \in Indices' : f[i] = f[j] => i = j
    BY <1>2, <1>3, <2>1, <2>2
  <2>5. QED
    BY <2>3, <2>4
<1> HIDE DEF f
<1>a. PICK keys : keys = ids
  OBVIOUS
<1>b. pageMap' = MapWithout(keys)
  BY <1>3, <1>a
<1>c. /\ DOMAIN pageMap' = DOMAIN pageMap \ Last(keys)
      /\ pageMap' \in [DOMAIN pageMap \ Last(keys) -> Page]
      /\ \A k \in DOMAIN pageMap \ Last(keys) :
           /\ pageMap'[k].slot = pageMap[k].slot /\ pageMap[k].refs \in Nat
           /\ pageMap'[k].refs = pageMap[k].refs - (IF k \in keys THEN 1 ELSE 0)
  BY <1>b, Released
<1>5. /\ DOMAIN pageMap' = DOMAIN pageMap \ Last(ids)
      /\ pageMap' \in [DOMAIN pageMap \ Last(ids) -> Page]
      /\ \A k \in DOMAIN pageMap \ Last(ids) :
           /\ pageMap'[k].slot = pageMap[k].slot /\ pageMap[k].refs \in Nat
           /\ pageMap'[k].refs = pageMap[k].refs - (IF k \in ids THEN 1 ELSE 0)
  BY <1>a, <1>c
<1>6. \A k \in Last(ids) : /\ k \in DOMAIN pageMap /\ k \notin Chain(toks, held)
                           /\ UsersOf(snaps, k) \subseteq {1}
  BY <1>4, LastIsIts DEF Last
<1>7. /\ itsTail \in Slots /\ itsState \in StateSlots
      /\ \A k \in DOMAIN pageMap : pageMap[k].slot \in PageSlots /\ pageMap[k].slot # NoSlot
      /\ NoSlot \notin freePages /\ freePages \subseteq PageSlots
  BY <1>4, SnapFields, CacheAssumption DEF IInv, Typed, Page
<1>8. \A r : r \in freePages' <=> \/ r \in freePages
                                  \/ r = itsTail /\ itsTail # NoSlot
                                  \/ \E k \in Last(ids) : r = pageMap[k].slot
  BY <1>3 DEF Freed, TailSlot
<1>9. \A k : k \in ids <=> 1 \in UsersOf(snaps, k)
  BY <1>2 DEF UsersOf
<1>s. /\ \A k \in DOMAIN pageMap : pageMap[k].slot # itsTail
      /\ itsTail \notin freePages /\ itsTail # NoSlot => itsTail # tail
  BY <1>4 DEF IInv, TailsApart
<1>o. \A j \in Indices' : /\ snaps'[j].state # itsState
                          /\ itsTail # NoSlot => snaps'[j].tail # itsTail
  BY <1>4 DEF IInv, TailsApart, StatesApart
<1>i. \A i \in Indices : \/ snaps[i].tail = itsTail /\ snaps[i].state = itsState
                         \/ \E j \in Indices' : snaps'[j] = snaps[i]
  BY <1>4
<1> HIDE DEF ids, itsTail, itsState
<1>f. /\ freeStates' = freeStates \cup {itsState} /\ mem' = mem /\ smem' = smem
      /\ tail' = tail /\ toks' = toks /\ know' = know /\ held' = held /\ step' = step
      /\ snaps' \in Seq(Snapshot)
  BY <1>2, <1>3
<1>10. Typed'
  <2>1. freePages' \subseteq PageSlots /\ freeStates' \subseteq StateSlots
    <3>1. freeStates' \subseteq StateSlots
      BY <1>f, <1>7 DEF IInv, Typed
    <3>2. itsTail # NoSlot => itsTail \in PageSlots
      BY <1>7 DEF Slots
    <3>3. \A k \in Last(ids) : pageMap[k].slot \in PageSlots
      BY <1>6, <1>7
    <3>4. freePages' \subseteq PageSlots
      BY <1>7, <1>8, <3>2, <3>3
    <3>5. QED
      BY <3>1, <3>4
  <2>2. QED
    BY <1>f, <1>5, <2>1 DEF IInv, Typed
<1>11. Capturing'
  BY <1>f, <1>4 DEF IInv, Capturing
<1>12. Distinct' /\ StatesApart'
  <2>1. Distinct'
    BY <1>4 DEF IInv, Distinct
  <2>2. \A i, j \in Indices' : snaps'[i].state = snaps'[j].state => i = j
    BY <1>4 DEF IInv, StatesApart
  <2>3. \A i \in Indices' : snaps'[i].state \notin freeStates'
    BY <1>f, <1>4, <1>o DEF IInv, StatesApart
  <2>4. QED
    BY <2>2, <2>1, <2>3 DEF StatesApart
<1>13. PagesWritten'
  BY <1>f, <1>5, <1>6 DEF IInv, PagesWritten
<1>14. PagesApart'
  BY <1>f, <1>5, <1>6, <1>7, <1>8, <1>s DEF IInv, PagesApart
<1>15. TailsApart'
  <2>1. \A i, j \in Indices' : snaps'[i].tail = snaps'[j].tail /\ snaps'[i].tail # NoSlot => i = j
    BY <1>4 DEF IInv, TailsApart
  <2>2. ASSUME NEW i \in Indices'
        PROVE  /\ snaps'[i].tail \notin freePages'
               /\ snaps'[i].tail # NoSlot => snaps'[i].tail # tail'
               /\ \A k \in DOMAIN pageMap' : pageMap'[k].slot # snaps'[i].tail
    <3>1. f[i] \in Indices /\ f[i] # 1 /\ snaps'[i] = snaps[f[i]]
      BY <1>4
    <3>2. /\ snaps[f[i]].tail \notin freePages
          /\ snaps[f[i]].tail # NoSlot => snaps[f[i]].tail # tail
          /\ \A k \in DOMAIN pageMap : pageMap[k].slot # snaps[f[i]].tail
      BY <3>1 DEF IInv, TailsApart
    <3>3. QED
      BY <1>f, <1>o, <1>5, <1>6, <1>8, <3>1, <3>2
  <2>3. QED
    BY <2>1, <2>2 DEF TailsApart
<1>16. AllUsed'
  <2> SUFFICES ASSUME failures = 0
               PROVE  /\ \A r \in PageSlots :
                           \/ r \in freePages' \/ r = tail'
                           \/ \E k \in DOMAIN pageMap' : pageMap'[k].slot = r
                           \/ \E i \in Indices' : snaps'[i].tail = r
                      /\ \A r \in StateSlots :
                           r \in freeStates' \/ \E i \in Indices' : snaps'[i].state = r
    BY DEF AllUsed
  <2>1. ASSUME NEW r \in StateSlots
        PROVE  r \in freeStates' \/ \E i \in Indices' : snaps'[i].state = r
    <3>1. r \in freeStates \/ \E i \in Indices : snaps[i].state = r
      BY DEF IInv, AllUsed
    <3>2. QED
      BY <1>f, <1>i, <3>1
  <2>2. ASSUME NEW r \in PageSlots
        PROVE  \/ r \in freePages' \/ r = tail'
               \/ \E k \in DOMAIN pageMap' : pageMap'[k].slot = r
               \/ \E i \in Indices' : snaps'[i].tail = r
    <3>1. CASE r \in freePages \/ r = tail
      BY <1>f, <1>8, <3>1
    <3>2. ASSUME NEW k \in DOMAIN pageMap, pageMap[k].slot = r
          PROVE  r \in freePages' \/ \E l \in DOMAIN pageMap' : pageMap'[l].slot = r
      BY <1>5, <1>8, <3>2
    <3>3. ASSUME NEW i \in Indices, snaps[i].tail = r
          PROVE  r \in freePages' \/ \E j \in Indices' : snaps'[j].tail = r
      <4>1. r # NoSlot
        BY CacheAssumption
      <4>2. QED
        BY <1>8, <1>i, <3>3, <4>1
    <3>4. QED
      BY <3>1, <3>2, <3>3 DEF IInv, AllUsed
  <2>3. QED
    BY <2>1, <2>2
<1>17. SnapshotsRestorable'
  <2>1. ASSUME NEW i \in Indices, i # 1,
               NEW k \in Chain(snaps[i].tokens, FullPages(snaps[i].tokens))
        PROVE  k \in DOMAIN pageMap \ Last(ids)
    <3>1. k \in DOMAIN pageMap /\ i \in UsersOf(snaps, k)
      BY DEF IInv, SnapshotsRestorable, UsersOf, Indices
    <3>2. QED
      BY <1>6, <2>1, <3>1
  <2>2. ASSUME NEW j \in Indices'
        PROVE  /\ \A k \in Chain(snaps'[j].tokens, FullPages(snaps'[j].tokens)) :
                    k \in DOMAIN pageMap' /\ mem'[pageMap'[k].slot] = k
               /\ snaps'[j].tail # NoSlot <=> HasTail(snaps'[j].tokens)
               /\ snaps'[j].tail # NoSlot => mem'[snaps'[j].tail] = snaps'[j].tokens
               /\ smem'[snaps'[j].state] = snaps'[j].tokens
    <3>1. f[j] \in Indices /\ f[j] # 1 /\ snaps'[j] = snaps[f[j]]
      BY <1>4
    <3>2. QED
      BY <1>f, <1>5, <2>1, <3>1 DEF IInv, SnapshotsRestorable
  <2>3. QED
    BY <2>2 DEF SnapshotsRestorable
<1>18. RefsExact'
  <2>1. ASSUME NEW k \in DOMAIN pageMap \ Last(ids)
        PROVE  Refs(k) \in Nat /\ Refs(k)' = Refs(k) - (IF k \in ids THEN 1 ELSE 0)
    <3>1. IsFiniteSet(UsersOf(snaps, k)) /\ Cardinality(UsersOf(snaps, k)) \in Nat
      BY <1>1, UsersFinite
    <3>2. Cardinality(UsersOf(snaps', k)) = Cardinality(UsersOf(snaps, k) \ {1})
      <4>1. Moves(f, snaps, snaps') /\ MovedOf(snaps, Len(snaps'), f, k) = UsersOf(snaps, k) \ {1}
        BY <1>2, <1>3 DEF f
      <4>2. Cardinality(UsersOf(snaps', k)) = Cardinality(MovedOf(snaps, Len(snaps'), f, k))
        BY <4>1, MovedUsers
      <4>3. QED
        BY <4>1, <4>2
    <3>3. Cardinality(UsersOf(snaps, k) \ {1})
            = IF k \in ids THEN Cardinality(UsersOf(snaps, k)) - 1
              ELSE Cardinality(UsersOf(snaps, k))
      BY <1>9, <3>1, FS_RemoveElement
    <3>4. Mine(k)' = Mine(k) /\ Mine(k) \in {0, 1}
      BY <1>3 DEF Mine
    <3>5. QED
      BY <3>1, <3>2, <3>3, <3>4, RefsSplit
  <2>2. QED
    BY <1>f, <1>5, <2>1 DEF IInv, RefsExact
<1>19. QED
  BY <1>10, <1>11, <1>12, <1>13, <1>14, <1>15, <1>16, <1>17, <1>18 DEF IInv
-----------------------------------------------------------------------------
(* The capture is stored.                                                  *)

(* A snapshot appended uses its pages; the others' stay as they are.       *)
LEMMA AppendUses ==
  ASSUME NEW sn \in Seq(Snapshot), NEW x \in Snapshot
  PROVE  /\ Len(sn) \in Nat /\ Append(sn, x) \in Seq(Snapshot)
         /\ 1..Len(Append(sn, x)) = 1..Len(sn) \cup {Len(sn) + 1}
         /\ Len(sn) + 1 \notin 1..Len(sn)
         /\ \A j \in 1..Len(sn) : Append(sn, x)[j] = sn[j]
         /\ Append(sn, x)[Len(sn) + 1] = x
         /\ \A k : UsersOf(Append(sn, x), k)
                     = IF k \in Chain(x.tokens, FullPages(x.tokens))
                       THEN UsersOf(sn, k) \cup {Len(sn) + 1} ELSE UsersOf(sn, k)
<1> DEFINE b == Append(sn, x)
           n == Len(sn)
<1>1. /\ b \in Seq(Snapshot) /\ Len(b) = n + 1
      /\ \A j \in 1..n : b[j] = sn[j]
      /\ b[n + 1] = x
  BY AppendProperties
<1>2. n \in Nat
  BY LenProperties
<1> HIDE DEF b, n
<1>3. 1..Len(b) = (1..n) \cup {n + 1} /\ n + 1 \notin 1..n
  BY <1>1, <1>2
<1>4. ASSUME NEW k
      PROVE  UsersOf(b, k) = IF k \in Chain(x.tokens, FullPages(x.tokens))
                             THEN UsersOf(sn, k) \cup {n + 1} ELSE UsersOf(sn, k)
  <2>1. UsersOf(b, k) = {i \in (1..n) \cup {n + 1} : k \in Chain(b[i].tokens, FullPages(b[i].tokens))}
    BY <1>3 DEF UsersOf
  <2>2. UsersOf(sn, k) = {i \in 1..n : k \in Chain(b[i].tokens, FullPages(b[i].tokens))}
    BY <1>1 DEF UsersOf, n
  <2>3. QED
    BY <1>1, <1>3, <2>1, <2>2
<1>5. QED
  BY <1>1, <1>2, <1>3, <1>4 DEF b, n

(* The capture becomes a snapshot, and its references the snapshot's.      *)
LEMMA CommitKeeps ==
  ASSUME IInv, NEW s \in StateSlots, Commit(s), failures' = failures
  PROVE  IInv'
<1> DEFINE x == [tokens |-> toks, tail |-> tail, state |-> s, after |-> know]
           n == Len(snaps)
<1>1. /\ freePages' = freePages /\ freeStates' = freeStates \ {s} /\ s \in freeStates
      /\ pageMap' = pageMap /\ mem' = mem /\ smem' = [smem EXCEPT ![s] = toks]
      /\ tail' = NoSlot /\ toks' = <<>> /\ know' = NoAfter /\ held' = 0
      /\ step = "state" /\ step' = "idle"
  BY DEF Commit, NoCapture
<1>2. snaps' = Append(snaps, x)
  BY DEF Commit
<1>3. /\ toks \in Storable /\ toks \in Seq(Tokens) /\ held = FullPages(toks)
      /\ tail # NoSlot <=> HasTail(toks)
      /\ tail # NoSlot => mem[tail] = toks
      /\ tail \in Slots /\ know \in PointAfters
      /\ \A i \in Indices : snaps[i].tokens # toks
  BY <1>1, CacheAssumption DEF IInv, Capturing, Typed, Storable
<1>4. x \in Snapshot /\ x.tokens = toks /\ x.tail = tail /\ x.state = s
  BY <1>3 DEF Snapshot
<1> HIDE DEF x
<1>5. /\ n \in Nat /\ snaps' \in Seq(Snapshot) /\ n + 1 \notin Indices
      /\ Indices' = Indices \cup {n + 1}
      /\ \A j \in Indices : snaps'[j] = snaps[j]
      /\ snaps'[n + 1] = x
      /\ \A k : UsersOf(snaps', k) = IF k \in Chain(toks, held)
                                     THEN UsersOf(snaps, k) \cup {n + 1} ELSE UsersOf(snaps, k)
  <2>1. snaps \in Seq(Snapshot)
    BY DEF IInv, Typed
  <2>2. QED
    BY <1>2, <1>3, <1>4, <2>1, AppendUses DEF Indices
<1> HIDE DEF n
<1>6. Chain(toks', held') = {}
  BY <1>1, ChainEmpty
<1>7. Typed'
  BY <1>1, <1>3, <1>5 DEF IInv, Typed, Steps, Slots, NoAfter, PointAfters
<1>8. Capturing'
  BY <1>1 DEF Capturing
<1>9. Distinct'
  BY <1>3, <1>4, <1>5 DEF IInv, Distinct
<1>10. StatesApart'
  BY <1>1, <1>4, <1>5 DEF IInv, StatesApart
<1>11. PagesWritten'
  BY <1>1, <1>6 DEF IInv, PagesWritten
<1>12. /\ \A k \in DOMAIN pageMap : pageMap[k].slot \in PageSlots /\ pageMap[k].slot # NoSlot
       /\ NoSlot \notin freePages
  BY CacheAssumption DEF IInv, Typed, Page
<1>13. PagesApart'
  BY <1>1, <1>12 DEF IInv, PagesApart
<1>14. TailsApart'
  <2>1. \A i, j \in Indices' : snaps'[i].tail = snaps'[j].tail /\ snaps'[i].tail # NoSlot => i = j
    BY <1>4, <1>5 DEF IInv, TailsApart
  <2>2. \A i \in Indices' : /\ snaps'[i].tail \notin freePages
                            /\ \A k \in DOMAIN pageMap : pageMap[k].slot # snaps'[i].tail
    BY <1>4, <1>5 DEF IInv, TailsApart, PagesApart
  <2>3. QED
    BY <1>1, <2>1, <2>2 DEF TailsApart
<1>15. AllUsed'
  <2> SUFFICES ASSUME failures = 0
               PROVE  /\ \A r \in PageSlots :
                           \/ r \in freePages' \/ r = tail'
                           \/ \E k \in DOMAIN pageMap' : pageMap'[k].slot = r
                           \/ \E i \in Indices' : snaps'[i].tail = r
                      /\ \A r \in StateSlots :
                           r \in freeStates' \/ \E i \in Indices' : snaps'[i].state = r
    BY DEF AllUsed
  <2>1. \A i \in Indices : i \in Indices' /\ snaps'[i] = snaps[i]
    BY <1>5
  <2>2. n + 1 \in Indices' /\ snaps'[n + 1].tail = tail /\ snaps'[n + 1].state = s
    BY <1>4, <1>5
  <2>3. ASSUME NEW r \in PageSlots
        PROVE  \/ r \in freePages' \/ r = tail'
               \/ \E k \in DOMAIN pageMap' : pageMap'[k].slot = r
               \/ \E i \in Indices' : snaps'[i].tail = r
    BY <1>1, <2>1, <2>2 DEF IInv, AllUsed
  <2>4. ASSUME NEW r \in StateSlots
        PROVE  r \in freeStates' \/ \E i \in Indices' : snaps'[i].state = r
    BY <1>1, <2>1, <2>2 DEF IInv, AllUsed
  <2>5. QED
    BY <2>3, <2>4
<1>16. SnapshotsRestorable'
  <2>1. ASSUME NEW j \in Indices'
        PROVE  /\ \A k \in Chain(snaps'[j].tokens, FullPages(snaps'[j].tokens)) :
                    k \in DOMAIN pageMap /\ mem[pageMap[k].slot] = k
               /\ snaps'[j].tail # NoSlot <=> HasTail(snaps'[j].tokens)
               /\ snaps'[j].tail # NoSlot => mem[snaps'[j].tail] = snaps'[j].tokens
               /\ smem'[snaps'[j].state] = snaps'[j].tokens
    <3>1. CASE j \in Indices
      <4>1. snaps'[j] = snaps[j] /\ snaps[j].state \in StateSlots /\ snaps[j].state # s
        BY <1>1, <1>5, <3>1, SnapFields DEF IInv, StatesApart
      <4>2. smem'[snaps[j].state] = smem[snaps[j].state]
        BY <1>1, <4>1 DEF IInv, Typed
      <4>3. QED
        BY <3>1, <4>1, <4>2 DEF IInv, SnapshotsRestorable
    <3>2. CASE j = n + 1
      <4>1. snaps'[j].tokens = toks /\ snaps'[j].tail = tail /\ snaps'[j].state = s
        BY <1>4, <1>5, <3>2
      <4>2. smem'[s] = toks
        BY <1>1 DEF IInv, Typed
      <4>3. QED
        BY <1>3, <4>1, <4>2 DEF IInv, PagesWritten
    <3>3. QED
      BY <1>5, <3>1, <3>2
  <2>2. QED
    BY <1>1, <2>1 DEF SnapshotsRestorable
<1>17. RefsExact'
  <2>1. ASSUME NEW k PROVE Refs(k)' = Refs(k)
    <3>1. /\ IsFiniteSet(UsersOf(snaps, k)) /\ Cardinality(UsersOf(snaps, k)) \in Nat
      BY UsersFinite DEF IInv, Typed
    <3>2. n + 1 \notin UsersOf(snaps, k)
      BY <1>5 DEF UsersOf, Indices
    <3>3. Cardinality(UsersOf(snaps', k)) = Cardinality(UsersOf(snaps, k)) + Mine(k)
      BY <1>5, <3>1, <3>2, FS_AddElement DEF Mine
    <3>4. Mine(k)' = 0
      BY <1>6 DEF Mine
    <3>5. QED
      BY <3>1, <3>3, <3>4, RefsSplit DEF Mine
  <2>2. QED
    BY <1>1, <2>1 DEF IInv, RefsExact
<1>18. QED
  BY <1>7, <1>8, <1>9, <1>10, <1>11, <1>13, <1>14, <1>15, <1>16, <1>17 DEF IInv
-----------------------------------------------------------------------------
(* What lookup finds.                                                      *)

\* The snapshots that prefix p.
Hits(p) == {i \in Indices : Prefix(snaps[i].tokens, p)}

(* lookup answers 0 when no snapshot prefixes the prompt, and otherwise    *)
(* with a longest one that does: the CHOOSE is of something.               *)
LEMMA LookupLongest ==
  ASSUME IInv, NEW p \in Seq(Tokens)
  PROVE  /\ Hits(p) = {} => Lookup(p) = 0
         /\ Hits(p) # {} =>
              /\ Lookup(p) \in Hits(p) /\ Lookup(p) \in Indices /\ Lookup(p) # 0
              /\ \A j \in Hits(p) : Len(snaps[j].tokens) <= Len(snaps[Lookup(p)].tokens)
<1>1. Hits(p) = {} => Lookup(p) = 0
  BY DEF Hits, Lookup
<1>2. ASSUME Hits(p) # {}
      PROVE  \E i \in Hits(p) : \A j \in Hits(p) : Len(snaps[j].tokens) <= Len(snaps[i].tokens)
  <2> DEFINE B == {n \in Nat : \A j \in Hits(p) : Len(snaps[j].tokens) <= n}
  <2>1. \A j \in Hits(p) : Len(snaps[j].tokens) \in Nat /\ Len(snaps[j].tokens) <= Len(p)
    BY SnapFields, LenProperties DEF Hits, Prefix
  <2>2. Len(p) \in B
    BY <2>1
  <2>3. PICK n \in B : \A m \in B : n <= m
    BY <2>2, LeastNat
  <2>4. n \in Nat /\ \A j \in Hits(p) : Len(snaps[j].tokens) <= n
    BY <2>3
  <2>5. SUFFICES ASSUME \A j \in Hits(p) : Len(snaps[j].tokens) # n
                 PROVE  FALSE
    BY <2>4
  <2>6. \A j \in Hits(p) : Len(snaps[j].tokens) <= n - 1
    BY <2>1, <2>4, <2>5
  <2>7. n - 1 \in Nat
    BY <1>2, <2>1, <2>4, <2>6
  <2>8. n - 1 \in B
    BY <2>6, <2>7
  <2> HIDE DEF B
  <2>9. n <= n - 1
    BY <2>3, <2>8
  <2>10. QED
    BY <2>4, <2>9
<1>3. ASSUME Hits(p) # {}
      PROVE  /\ Lookup(p) \in Hits(p)
             /\ \A j \in Hits(p) : Len(snaps[j].tokens) <= Len(snaps[Lookup(p)].tokens)
  <2>1. Lookup(p) = CHOOSE i \in Hits(p) :
                      \A j \in Hits(p) : Len(snaps[j].tokens) <= Len(snaps[i].tokens)
    BY <1>3 DEF Lookup, Hits
  <2>2. QED
    BY <1>2, <1>3, <2>1
<1>4. \A i \in Hits(p) : i \in Indices /\ i # 0
  BY DEF Hits, Indices
<1>5. QED
  BY <1>1, <1>3, <1>4

(* A prefix as long as the prompt is the prompt.                           *)
LEMMA PrefixWhole ==
  ASSUME NEW s \in Seq(Tokens), NEW p \in Seq(Tokens), Prefix(s, p), Len(s) >= Len(p)
  PROVE  s = p
<1>1. Len(s) = Len(p)
  BY LenProperties DEF Prefix
<1>2. SubSeq(p, 1, Len(p)) = p
  BY SubSeqFull
<1>3. QED
  BY <1>1, <1>2 DEF Prefix

(* The proper prefixes of a prompt are the prefixes of all but its last    *)
(* token.                                                                  *)
LEMMA PrefixShorter ==
  ASSUME NEW s \in Seq(Tokens), NEW p \in Seq(Tokens), Len(p) > 0
  PROVE  /\ SubSeq(p, 1, Len(p) - 1) \in Seq(Tokens)
         /\ Prefix(s, SubSeq(p, 1, Len(p) - 1)) <=> Prefix(s, p) /\ s # p
<1> DEFINE q == SubSeq(p, 1, Len(p) - 1)
<1>1. Len(p) \in Nat /\ Len(s) \in Nat
  BY LenProperties
<1>2. \A i \in 1..(Len(p) - 1) : p[i] \in Tokens
  BY <1>1
<1>3. /\ q \in Seq(Tokens) /\ Len(q) = Len(p) - 1
      /\ \A i \in 1..(Len(p) - 1) : q[i] = p[i]
  <2> DEFINE m == Len(p) - 1
  <2>1. m \in Nat
    BY <1>1
  <2> HIDE DEF m
  <2>2. /\ SubSeq(p, 1, m) \in Seq(Tokens) /\ Len(SubSeq(p, 1, m)) = m
        /\ \A i \in 1..m : SubSeq(p, 1, m)[i] = p[i]
    <3>1. \A i \in 1..m : p[i] \in Tokens
      BY <1>2 DEF m
    <3>2. QED
      BY <2>1, <3>1, SubSeqProperties
  <2>3. QED
    BY <2>2 DEF m
<1> HIDE DEF q
<1>4. ASSUME Len(s) <= Len(p) - 1
      PROVE  SubSeq(q, 1, Len(s)) = SubSeq(p, 1, Len(s))
  <2>1. \A i \in 1..Len(s) : q[i] \in Tokens /\ p[i] \in Tokens /\ q[i] = p[i]
    BY <1>1, <1>2, <1>3, <1>4
  <2> DEFINE u == SubSeq(q, 1, Len(s))
             v == SubSeq(p, 1, Len(s))
  <2>2. u \in Seq(Tokens) /\ Len(u) = Len(s) /\ \A i \in 1..Len(s) : u[i] = q[i]
    BY <1>1, <2>1, SubSeqProperties
  <2>3. v \in Seq(Tokens) /\ Len(v) = Len(s) /\ \A i \in 1..Len(s) : v[i] = p[i]
    BY <1>1, <2>1, SubSeqProperties
  <2> HIDE DEF u, v
  <2>4. Len(u) = Len(v) /\ \A i \in 1..Len(u) : u[i] = v[i]
    BY <2>1, <2>2, <2>3
  <2>6. u = v
    BY <2>2, <2>3, <2>4, SeqEqual
  <2>5. QED
    BY <2>6 DEF u, v
<1>5. ASSUME Prefix(s, q) PROVE Prefix(s, p) /\ s # p
  BY <1>1, <1>3, <1>4, <1>5 DEF Prefix
<1>6. ASSUME Prefix(s, p), s # p PROVE Prefix(s, q)
  <2>1. ~(Len(s) >= Len(p))
    BY <1>6, PrefixWhole
  <2>2. QED
    BY <1>1, <1>3, <1>4, <1>6, <2>1 DEF Prefix
<1>7. QED
  BY <1>3, <1>5, <1>6 DEF q

(* lookup_for answers with the longest snapshot that can serve.            *)
LEMMA LookupServes ==
  ASSUME IInv, NEW p \in Seq(Tokens), NEW sampled \in BOOLEAN
  PROVE  LET good == {i \in Indices :
                        /\ Prefix(snaps[i].tokens, p)
                        /\ snaps[i].tokens = p => Serves(snaps[i].after, sampled)}
             hit  == LookupFor(p, sampled)
         IN  /\ hit = 0 <=> good = {}
             /\ hit # 0 => /\ hit \in good
                           /\ \A i \in good : Len(snaps[i].tokens) <= Len(snaps[hit].tokens)
<1> DEFINE good == {i \in Indices :
                      /\ Prefix(snaps[i].tokens, p)
                      /\ snaps[i].tokens = p => Serves(snaps[i].after, sampled)}
           hit  == LookupFor(p, sampled)
           i    == Lookup(p)
<1>1. good \subseteq Hits(p) /\ \A j \in Indices : j # 0
  BY DEF Hits, Indices
<1>2. CASE Hits(p) = {}
  <2>1. i = 0
    BY <1>2, LookupLongest
  <2>2. hit = 0
    BY <2>1 DEF LookupFor
  <2>3. QED
    BY <1>1, <1>2, <2>2
<1>3. CASE Hits(p) # {} /\ ~(snaps[i].tokens = p /\ ~Serves(snaps[i].after, sampled))
  <2>1. /\ i \in Hits(p) /\ i \in Indices /\ i # 0
        /\ \A j \in Hits(p) : Len(snaps[j].tokens) <= Len(snaps[i].tokens)
    BY <1>3, LookupLongest
  <2>2. hit = i
    BY <1>3 DEF LookupFor
  <2>3. i \in good
    BY <1>3, <2>1 DEF Hits
  <2>4. QED
    BY <1>1, <2>1, <2>2, <2>3
<1>4. CASE Hits(p) # {} /\ snaps[i].tokens = p /\ ~Serves(snaps[i].after, sampled)
  <2> DEFINE q == SubSeq(p, 1, Len(p) - 1)
  <2>1. i \in Indices /\ i # 0
    BY <1>4, LookupLongest
  <2>2. hit = Lookup(q)
    BY <1>4, <2>1 DEF LookupFor
  <2>3. Len(p) > 0 /\ q \in Seq(Tokens)
    <3>1. Len(p) >= MinTokens /\ Len(p) \in Nat
      BY <1>4, <2>1, SnapFields, LenProperties
    <3>2. Len(p) > 0
      BY <3>1, CacheAssumption
    <3>3. QED
      BY <3>2, PrefixShorter
  <2>4. good = Hits(q)
    <3>1. \A j \in Indices : snaps[j].tokens = p => j = i
      BY <1>4, <2>1 DEF IInv, Distinct
    <3>2. \A j \in Indices : Prefix(snaps[j].tokens, q)
                               <=> Prefix(snaps[j].tokens, p) /\ snaps[j].tokens # p
      BY <2>3, SnapFields, PrefixShorter
    <3>3. QED
      BY <1>4, <3>1, <3>2 DEF Hits
  <2> HIDE DEF q, good, hit
  <2>5. QED
    BY <2>2, <2>3, <2>4, LookupLongest DEF good, hit
<1>5. QED
  BY <1>2, <1>3, <1>4
-----------------------------------------------------------------------------
(* The invariant.                                                          *)

(* What two captures of the same tokens know is what a point can know.     *)
LEMMA MergeTyped ==
  ASSUME NEW a \in PointAfters, NEW b \in PointAfters
  PROVE  Merge(a, b) \in PointAfters
<1>1. \A p, q \in BOOLEAN :
        [greedy |-> p, logits |-> q] \in PointAfters <=> (q => p)
  BY DEF PointAfters, NoAfter
<1>2. PICK p, q \in BOOLEAN : a = [greedy |-> p, logits |-> q] /\ (q => p)
  BY DEF PointAfters, NoAfter
<1>3. PICK r, s \in BOOLEAN : b = [greedy |-> r, logits |-> s] /\ (s => r)
  BY DEF PointAfters, NoAfter
<1>4. Merge(a, b) = [greedy |-> p \/ r, logits |-> q \/ s]
  BY <1>2, <1>3 DEF Merge
<1>5. QED
  BY <1>1, <1>2, <1>3, <1>4

(* capture of tokens already held stamps their snapshot.                   *)
LEMMA RefreshTouches ==
  ASSUME IInv, NEW t \in Histories, NEW a \in PointAfters, Refresh(t, a), failures' = failures
  PROVE  \E i \in Indices :
           /\ snaps[i].tokens = t
           /\ Touch(i, [snaps[i] EXCEPT !.after = Merge(@, a)])
<1>1. PICK i \in Indices :
        /\ snaps[i].tokens = t
        /\ snaps' = Append(Without(i), [snaps[i] EXCEPT !.after = Merge(@, a)])
  BY DEF Refresh
<1> DEFINE x == [snaps[i] EXCEPT !.after = Merge(@, a)]
<1>2. /\ x \in Snapshot /\ x.tokens = snaps[i].tokens
      /\ x.tail = snaps[i].tail /\ x.state = snaps[i].state
  <2>1. snaps[i] \in Snapshot /\ Merge(snaps[i].after, a) \in PointAfters
    BY SnapFields, MergeTyped
  <2>2. QED
    BY <2>1 DEF Snapshot
<1>3. UNCHANGED <<pageMap, freePages, freeStates, mem, smem,
                  step, toks, know, held, tail, failures>>
  BY DEF Refresh
<1>4. snaps' = Append(Without(i), x)
  BY <1>1
<1> HIDE DEF x
<1>5. Touch(i, x)
  BY <1>2, <1>3, <1>4 DEF Touch
<1>6. QED
  BY <1>1, <1>5 DEF x

(* restore stamps the snapshot that lookup_for finds.                      *)
LEMMA RestoreTouches ==
  ASSUME IInv, NEW t \in Histories, NEW sampled \in BOOLEAN, Restore(t, sampled),
         failures' = failures
  PROVE  \E i \in Indices : Touch(i, snaps[i])
<1> DEFINE i == LookupFor(t, sampled)
<1>1. /\ i # 0 /\ snaps' = Append(Without(i), snaps[i])
      /\ UNCHANGED <<pageMap, freePages, freeStates, mem, smem,
                     step, toks, know, held, tail, failures>>
  BY DEF Restore
<1>2. i \in Indices
  <2>1. t \in Seq(Tokens)
    BY CacheAssumption
  <2>2. i \in {j \in Indices :
                 /\ Prefix(snaps[j].tokens, t)
                 /\ snaps[j].tokens = t => Serves(snaps[j].after, sampled)}
    BY <1>1, <2>1, LookupServes
  <2>3. QED
    BY <2>2
<1>3. snaps[i] \in Snapshot
  BY <1>2, SnapFields
<1>4. Touch(i, snaps[i])
  BY <1>1, <1>3 DEF Touch
<1>5. QED
  BY <1>2, <1>4

(* Every step keeps the invariant.                                         *)
LEMMA StepKeeps ==
  ASSUME IInv, [Next]_vars
  PROVE  IInv'
<1>1. ASSUME Works, failures' = failures PROVE IInv'
  <2>1. ASSUME NEW t \in Histories, NEW a \in PointAfters, Refresh(t, a) PROVE IInv'
    BY <1>1, <2>1, RefreshTouches, TouchKeeps
  <2>2. ASSUME NEW t \in Histories, NEW a \in PointAfters, Begin(t, a) PROVE IInv'
    BY <1>1, <2>2, BeginKeeps
  <2>3. ASSUME NEW t \in Histories, NEW sampled \in BOOLEAN, Restore(t, sampled) PROVE IInv'
    BY <1>1, <2>3, RestoreTouches, TouchKeeps
  <2>4. ASSUME NEW s \in PageSlots, WritePage(s) PROVE IInv'
    BY <1>1, <2>4, WritePageKeeps
  <2>5. ASSUME NEW s \in PageSlots, WriteTail(s) PROVE IInv'
    BY <1>1, <2>5, WriteTailKeeps
  <2>6. ASSUME NEW s \in StateSlots, Commit(s) PROVE IInv'
    BY <1>1, <2>6, CommitKeeps
  <2>7. CASE SharePage
    BY <1>1, <2>7, SharePageKeeps
  <2>8. CASE PagesDone
    BY <1>1, <2>8, PagesDoneKeeps
  <2>9. CASE EvictOne
    BY <1>1, <2>9, EvictKeeps
  <2>10. CASE GiveUp \/ StateError
    BY <1>1, <2>10, AbortKeeps DEF GiveUp, StateError
  <2>11. QED
    BY <1>1, <2>1, <2>2, <2>3, <2>4, <2>5, <2>6, <2>7, <2>8, <2>9, <2>10 DEF Works
<1>2. CASE (\E s \in PageSlots : ExportError(s)) \/ SyncError
  BY <1>2, FailureKeeps
<1>3. CASE UNCHANGED vars
  <2>1. /\ pageMap' = pageMap /\ freePages' = freePages /\ freeStates' = freeStates
        /\ mem' = mem /\ smem' = smem /\ snaps' = snaps /\ step' = step /\ toks' = toks
        /\ know' = know /\ held' = held /\ tail' = tail /\ failures' = failures
    BY <1>3 DEF vars
  <2>2. Indices' = Indices
    BY <2>1 DEF Indices
  <2>3. Typed' /\ Capturing' /\ Distinct' /\ PagesWritten'
    BY <2>1, <2>2 DEF IInv, Typed, Capturing, Distinct, PagesWritten
  <2>4. PagesApart' /\ TailsApart' /\ StatesApart' /\ AllUsed'
    BY <2>1, <2>2 DEF IInv, PagesApart, TailsApart, StatesApart, AllUsed
  <2>5. SnapshotsRestorable'
    BY <2>1, <2>2 DEF IInv, SnapshotsRestorable
  <2>6. RefsExact'
    BY <2>1, <2>2 DEF IInv, RefsExact, Refs
  <2>7. QED
    BY <2>3, <2>4, <2>5, <2>6 DEF IInv
<1>4. QED
  BY <1>1, <1>2, <1>3 DEF Next

(* The empty cache satisfies it.                                           *)
LEMMA InitHolds == Init => IInv
<1> SUFFICES ASSUME Init PROVE IInv
  OBVIOUS
<1>1. Indices = {} /\ DOMAIN pageMap = {}
  BY DEF Init, Indices
<1>2. Chain(toks, held) = {}
  BY ChainEmpty DEF Init
<1>3. Typed
  BY CacheAssumption DEF Init, Typed, Steps, Slots, NoAfter, PointAfters
<1>4. Capturing /\ AllUsed
  BY <1>1 DEF Init, Capturing, AllUsed
<1>5. Distinct /\ PagesWritten /\ StatesApart /\ RefsExact /\ SnapshotsRestorable
  BY <1>1, <1>2 DEF Distinct, PagesWritten, StatesApart, RefsExact, SnapshotsRestorable
<1>6. PagesApart /\ TailsApart
  BY <1>1, CacheAssumption DEF Init, PagesApart, TailsApart
<1>7. QED
  BY <1>3, <1>4, <1>5, <1>6 DEF IInv

(* The invariant holds throughout.                                         *)
LEMMA InvariantHolds == Spec => []IInv
<1>1. IInv /\ [Next]_vars => IInv'
  BY StepKeeps
<1>2. QED
  BY <1>1, InitHolds, PTL DEF Spec
-----------------------------------------------------------------------------
(* The properties.                                                         *)

(* Two finite sets that share nothing.                                     *)
LEMMA CountDisjoint ==
  ASSUME NEW S, NEW T, IsFiniteSet(S), IsFiniteSet(T), S \cap T = {}
  PROVE  /\ IsFiniteSet(S \cup T)
         /\ Cardinality(S \cup T) = Cardinality(S) + Cardinality(T)
         /\ Cardinality(S) \in Nat /\ Cardinality(T) \in Nat
<1>1. /\ IsFiniteSet(S \cup T)
      /\ Cardinality(S \cup T) = Cardinality(S) + Cardinality(T) - Cardinality(S \cap T)
  BY FS_Union
<1>2. Cardinality(S \cap T) = 0
  BY FS_EmptySet
<1>3. Cardinality(S) \in Nat /\ Cardinality(T) \in Nat
  BY FS_CardinalityType
<1>4. QED
  BY <1>1, <1>2, <1>3

(* There are as many page slots in use as pages, and as many tails.        *)
LEMMA SlotsCounted ==
  ASSUME IInv
  PROVE  /\ IsFiniteSet(InUse.map) /\ Cardinality(InUse.map) = Cardinality(DOMAIN pageMap)
         /\ IsFiniteSet(InUse.tails)
         /\ Cardinality(InUse.tails) = Cardinality({i \in Indices : snaps[i].tail # NoSlot})
         /\ IsFiniteSet({snaps[i].state : i \in Indices})
         /\ Cardinality({snaps[i].state : i \in Indices}) = Len(snaps)
<1>1. InUse.map = {pageMap[k].slot : k \in DOMAIN pageMap}
  BY DEF InUse
<1>2. IsFiniteSet(InUse.map) /\ Cardinality(InUse.map) = Cardinality(DOMAIN pageMap)
  <2> DEFINE T == DOMAIN pageMap
             S == {pageMap[k].slot : k \in DOMAIN pageMap}
             g == [k \in T |-> pageMap[k].slot]
  <2>1. S \subseteq PageSlots
    BY DEF IInv, Typed, Page
  <2>2. IsFiniteSet(S)
    BY <2>1, CacheAssumption, FS_Subset
  <2>3. /\ g \in [T -> S] /\ \A a, b \in T : g[a] = g[b] => a = b
        /\ \A s \in S : \E t \in T : g[t] = s
    BY DEF IInv, PagesApart
  <2> HIDE DEF S, T, g
  <2>4. Cardinality(T) = Cardinality(S)
    BY <2>2, <2>3, SameCount
  <2>5. QED
    BY <1>1, <2>2, <2>4 DEF S, T
<1>3. InUse.tails = {snaps[i].tail : i \in Indices} \ {NoSlot}
  BY DEF InUse
<1>4. /\ IsFiniteSet(InUse.tails)
      /\ Cardinality(InUse.tails) = Cardinality({i \in Indices : snaps[i].tail # NoSlot})
  <2> DEFINE T == {i \in Indices : snaps[i].tail # NoSlot}
             S == {snaps[i].tail : i \in Indices} \ {NoSlot}
             g == [i \in T |-> snaps[i].tail]
  <2>1. S \subseteq PageSlots
    BY SnapFields DEF Slots
  <2>2. IsFiniteSet(S)
    BY <2>1, CacheAssumption, FS_Subset
  <2>3. /\ g \in [T -> S] /\ \A a, b \in T : g[a] = g[b] => a = b
        /\ \A s \in S : \E t \in T : g[t] = s
    BY DEF IInv, TailsApart
  <2> HIDE DEF S, T, g
  <2>4. Cardinality(T) = Cardinality(S)
    BY <2>2, <2>3, SameCount
  <2>5. QED
    BY <1>3, <2>2, <2>4 DEF S, T
<1>5. /\ IsFiniteSet({snaps[i].state : i \in Indices})
      /\ Cardinality({snaps[i].state : i \in Indices}) = Len(snaps)
  <2> DEFINE T == Indices
             S == {snaps[i].state : i \in Indices}
             g == [i \in T |-> snaps[i].state]
  <2>1. S \subseteq StateSlots
    BY SnapFields
  <2>2. IsFiniteSet(S)
    BY <2>1, CacheAssumption, FS_Subset
  <2>3. /\ g \in [T -> S] /\ \A a, b \in T : g[a] = g[b] => a = b
        /\ \A s \in S : \E t \in T : g[t] = s
    BY DEF IInv, StatesApart
  <2>4. Len(snaps) \in Nat
    BY LenProperties DEF IInv, Typed
  <2>5. Cardinality(Indices) = Len(snaps)
    BY <2>4, FirstNumbers DEF Indices
  <2> HIDE DEF S, T, g
  <2>6. Cardinality(T) = Cardinality(S)
    BY <2>2, <2>3, SameCount
  <2>7. QED
    BY <2>2, <2>5, <2>6 DEF S, T
<1>6. QED
  BY <1>2, <1>4, <1>5

(* Slots with one user each, and none forgotten, add up.                   *)
LEMMA SlotsAddUp ==
  ASSUME IInv, failures = 0
  PROVE  SlotsConserved
<1> DEFINE M == InUse.map
           U == InUse.tails
           W == InUse.tail
<1>1. /\ M = {pageMap[k].slot : k \in DOMAIN pageMap}
      /\ U = {snaps[i].tail : i \in Indices} \ {NoSlot}
      /\ W = IF tail = NoSlot THEN {} ELSE {tail}
  BY DEF InUse, TailSlot
<1>2. /\ freePages \cup M \cup U \cup W = PageSlots
      /\ freeStates \cup {snaps[i].state : i \in Indices} = StateSlots
  <2>1. freePages \subseteq PageSlots /\ freeStates \subseteq StateSlots /\ tail \in Slots
    BY DEF IInv, Typed
  <2>2. M \subseteq PageSlots
    BY <1>1 DEF IInv, Typed, Page
  <2>3. U \subseteq PageSlots /\ {snaps[i].state : i \in Indices} \subseteq StateSlots
    BY <1>1, SnapFields DEF Slots
  <2>4. W \subseteq PageSlots
    BY <1>1, <2>1 DEF Slots
  <2>5. \A s \in PageSlots : s \in freePages \/ s \in M \/ s \in U \/ s \in W
    BY <1>1, CacheAssumption DEF IInv, AllUsed
  <2>6. \A s \in StateSlots : s \in freeStates \/ s \in {snaps[i].state : i \in Indices}
    BY DEF IInv, AllUsed
  <2> HIDE DEF M, U, W
  <2>7. QED
    BY <2>1, <2>2, <2>3, <2>4, <2>5, <2>6
<1>3. /\ freePages \cap M = {} /\ (freePages \cup M) \cap U = {}
      /\ (freePages \cup M \cup U) \cap W = {}
      /\ freeStates \cap {snaps[i].state : i \in Indices} = {}
  BY <1>1 DEF IInv, PagesApart, TailsApart, StatesApart
<1>4. /\ IsFiniteSet(freePages) /\ IsFiniteSet(freeStates)
      /\ IsFiniteSet(M) /\ IsFiniteSet(U) /\ IsFiniteSet(W)
  <2>1. IsFiniteSet(freePages) /\ IsFiniteSet(freeStates)
    BY CacheAssumption, FS_Subset DEF IInv, Typed
  <2>2. IsFiniteSet(W)
    <3>1. W = {} \/ W = {tail}
      BY <1>1
    <3>2. QED
      BY <3>1, FS_EmptySet, FS_Singleton
  <2>3. QED
    BY <2>1, <2>2, SlotsCounted
<1> HIDE DEF M, U, W
<1>5. /\ IsFiniteSet(freePages \cup M)
      /\ Cardinality(freePages \cup M) = Cardinality(freePages) + Cardinality(M)
  BY <1>3, <1>4, CountDisjoint
<1>6. /\ IsFiniteSet(freePages \cup M \cup U)
      /\ Cardinality(freePages \cup M \cup U) = Cardinality(freePages \cup M) + Cardinality(U)
  BY <1>3, <1>4, <1>5, CountDisjoint
<1>7. Cardinality(freePages \cup M \cup U \cup W)
        = Cardinality(freePages \cup M \cup U) + Cardinality(W)
  BY <1>3, <1>4, <1>6, CountDisjoint
<1>8. Cardinality(freeStates \cup {snaps[i].state : i \in Indices})
        = Cardinality(freeStates) + Len(snaps)
  <2> DEFINE V == {snaps[i].state : i \in Indices}
  <2>1. freeStates \cap V = {} /\ IsFiniteSet(V) /\ Cardinality(V) = Len(snaps)
    BY <1>3, SlotsCounted
  <2> HIDE DEF V
  <2>2. Cardinality(freeStates \cup V) = Cardinality(freeStates) + Cardinality(V)
    BY <1>4, <2>1, CountDisjoint
  <2>3. QED
    BY <2>1, <2>2 DEF V
<1>9. Cardinality(M) = Cardinality(DOMAIN pageMap)
        /\ Cardinality(U) = Cardinality({i \in Indices : snaps[i].tail # NoSlot})
  BY SlotsCounted DEF M, U
<1>10. Cardinality(freePages) + Cardinality(DOMAIN pageMap)
         + Cardinality({i \in Indices : snaps[i].tail # NoSlot})
         + Cardinality(W) = Cardinality(PageSlots)
  BY <1>2, <1>5, <1>6, <1>7, <1>9
<1>11. Cardinality(freeStates) + Len(snaps) = Cardinality(StateSlots)
  BY <1>2, <1>8
<1>12. QED
  BY <1>2, <1>10, <1>11 DEF SlotsConserved, M, U, W

(* Whatever is captured, shared, evicted and given up, and wherever an     *)
(* export fails: no page has a reference too few, so none is freed under a *)
(* snapshot; and until an export fails none has one too many, and every    *)
(* slot of both arenas is free or in use by exactly one page, tail or      *)
(* snapshot.                                                               *)
THEOREM ArenasAlwaysExact == Spec => []ArenasExact
<1>1. IInv => ArenasExact
  <2> SUFFICES ASSUME IInv PROVE ArenasExact
    OBVIOUS
  <2>1. TypeOK
    <3>1. \A k \in DOMAIN pageMap :
            pageMap[k].slot \in PageSlots /\ pageMap[k].refs \in Nat \ {0}
      BY DEF IInv, Typed, Page
    <3>2. \A i \in Indices : snaps[i].tail \in Slots /\ snaps[i].state \in StateSlots
      BY SnapFields
    <3>3. know \in After
      <4>1. know \in PointAfters
        BY DEF IInv, Typed
      <4>2. PICK p, q \in BOOLEAN : know = [greedy |-> p, logits |-> q]
        BY <4>1 DEF PointAfters, NoAfter
      <4>3. QED
        BY <4>2 DEF After
    <3>4. QED
      BY <3>1, <3>2, <3>3 DEF IInv, Typed, TypeOK
  <2>2. RefsExact
    BY DEF IInv
  <2>3. SlotsKept
    BY SlotsAddUp DEF SlotsKept
  <2>4. QED
    BY <2>1, <2>2, <2>3 DEF ArenasExact
<1>2. QED
  BY <1>1, InvariantHolds, PTL

(* What lookup_for finds is the longest snapshot that can serve the        *)
(* prompt, and each snapshot restores the rows that were captured, however *)
(* often its pages were shared and its slots used before.                  *)
THEOREM SnapshotsAlwaysServe == Spec => []SnapshotsServe
<1>1. IInv => SnapshotsServe
  <2> SUFFICES ASSUME IInv PROVE SnapshotsServe
    OBVIOUS
  <2>1. SnapshotsRestorable
    BY DEF IInv
  <2>2. LookupBest
    <3>1. \A p \in Histories : p \in Seq(Tokens)
      BY CacheAssumption
    <3>2. QED
      BY <3>1, LookupServes DEF LookupBest
  <2>3. QED
    BY <2>1, <2>2 DEF SnapshotsServe
<1>2. QED
  BY <1>1, InvariantHolds, PTL

(* A capture ends, stored or dropped, however often it has to evict: each  *)
(* of its steps is its last or leaves it less to do.                       *)
THEOREM CapturesEnd == Spec => CaptureEnds
<1> DEFINE Less == step # "idle" => step' = "idle" \/ WorkLeft' < WorkLeft
<1>1. IInv /\ [Next]_vars => [Less]_vars
  <2> SUFFICES ASSUME IInv, Next, step # "idle", step' # "idle"
               PROVE  WorkLeft' < WorkLeft
    OBVIOUS
  <2>1. /\ toks \in Seq(Tokens) /\ held \in Nat /\ held <= FullPages(toks)
        /\ FullPages(toks) \in Nat /\ Len(snaps) \in Nat /\ step \in Steps
        /\ step \in {"tail", "state"} => held = FullPages(toks)
    BY PageCount, CacheAssumption, LenProperties DEF IInv, Typed, Capturing, Storable
  <2>2. CASE (\E s \in PageSlots : ExportError(s)) \/ SyncError \/ GiveUp \/ StateError
    BY <2>2 DEF ExportError, SyncError, GiveUp, StateError, Abort, NoCapture
  <2>3. CASE \E s \in StateSlots : Commit(s)
    BY <2>3 DEF Commit, NoCapture
  <2>4. CASE (\E t \in Histories, a \in PointAfters : Refresh(t, a) \/ Begin(t, a))
             \/ \E t \in Histories, sampled \in BOOLEAN : Restore(t, sampled)
    BY <2>4 DEF Refresh, Begin, Restore
  <2>5. CASE SharePage \/ \E s \in PageSlots : WritePage(s)
    <3>1. /\ step = "pages" /\ step' = "pages" /\ toks' = toks /\ held' = held + 1
          /\ snaps' = snaps
      BY <2>5 DEF SharePage, WritePage, MorePages
    <3>2. QED
      BY <2>1, <3>1 DEF WorkLeft
  <2>6. CASE PagesDone
    <3>1. /\ step = "pages" /\ step' \in {"tail", "state"} /\ held = FullPages(toks)
          /\ snaps' = snaps
      BY <2>6 DEF PagesDone
    <3>2. QED
      BY <2>1, <3>1 DEF WorkLeft
  <2>7. CASE \E s \in PageSlots : WriteTail(s)
    <3>1. step = "tail" /\ step' = "state" /\ snaps' = snaps
      BY <2>7 DEF WriteTail
    <3>2. QED
      BY <2>1, <3>1 DEF WorkLeft
  <2>8. CASE EvictOne
    <3>1. /\ step' = step /\ toks' = toks /\ held' = held
          /\ snaps # <<>> /\ snaps' = Tail(snaps) /\ snaps \in Seq(Snapshot)
      BY <2>8 DEF EvictOne, IInv, Typed
    <3>2. Len(snaps') = Len(snaps) - 1
      BY <3>1, HeadTailProperties
    <3>3. QED
      BY <2>1, <3>1, <3>2 DEF WorkLeft, Steps
  <2>9. QED
    BY <2>2, <2>3, <2>4, <2>5, <2>6, <2>7, <2>8 DEF Next, Works
<1>2. QED
  BY <1>1, InvariantHolds, PTL DEF Spec, CaptureEnds
-----------------------------------------------------------------------------
(* The refinement of RamTier.                                              *)

Ram == {[tokens |-> snaps[i].tokens, after |-> snaps[i].after] : i \in Indices}
RamBounded == Cardinality(Ram) <= Cardinality(StateSlots)

(* Each snapshot has a state slot, so there are at most that many.         *)
LEMMA RamIsBounded ==
  ASSUME IInv
  PROVE  RamBounded
<1> DEFINE V == {snaps[i].state : i \in Indices}
           g == [i \in Indices |-> [tokens |-> snaps[i].tokens, after |-> snaps[i].after]]
<1>1. Len(snaps) \in Nat
  BY LenProperties DEF IInv, Typed
<1>2. IsFiniteSet(Indices) /\ Cardinality(Indices) = Len(snaps)
  BY <1>1, FirstNumbers DEF Indices
<1>3. V \subseteq StateSlots /\ Cardinality(V) = Len(snaps)
  BY SnapFields, SlotsCounted
<1>4. Cardinality(V) <= Cardinality(StateSlots)
  BY <1>3, CacheAssumption, FS_Subset
<1>5. g \in [Indices -> Ram] /\ \A r \in Ram : \E i \in Indices : g[i] = r
  BY DEF Ram
<1> HIDE DEF g
<1>6. g \in Surjection(Indices, Ram)
  BY <1>5, Fun_IsSurj
<1>7. IsFiniteSet(Ram) /\ Cardinality(Ram) <= Cardinality(Indices)
  BY <1>2, <1>6, FS_Surjection
<1>8. Cardinality(Ram) \in Nat /\ Cardinality(StateSlots) \in Nat
  BY <1>7, CacheAssumption, FS_CardinalityType
<1>9. Cardinality(Ram) <= Len(snaps) /\ Len(snaps) <= Cardinality(StateSlots)
  <2> HIDE DEF V
  <2>1. QED
    BY <1>2, <1>3, <1>4, <1>7
<1>10. QED
  BY <1>1, <1>8, <1>9 DEF RamBounded

(* Stamping a snapshot leaves the others, and it, in the set.              *)
LEMMA TouchRam ==
  ASSUME IInv, NEW i \in Indices, NEW x, Touch(i, x)
  PROVE  /\ \A r : r \in Ram' <=>
              \/ r = [tokens |-> x.tokens, after |-> x.after]
              \/ \E j \in Indices : j # i /\ r = [tokens |-> snaps[j].tokens,
                                                  after |-> snaps[j].after]
<1>1. x \in Snapshot /\ snaps \in Seq(Snapshot) /\ i \in 1..Len(snaps)
  BY DEF IInv, Typed, Indices, Touch
<1>2. snaps' = Touched(snaps, i, x)
  BY DEF Touch, Touched, Without
<1> DEFINE place == Place(Len(snaps), i)
           b == Touched(snaps, i, x)
<1>3. /\ b \in Seq(Snapshot) /\ Len(b) = Len(snaps)
      /\ \A j \in 1..Len(snaps) :
           /\ place[j] \in 1..Len(snaps)
           /\ b[j] = IF place[j] = i THEN x ELSE snaps[place[j]]
      /\ \A j, k \in 1..Len(snaps) : place[j] = place[k] => j = k
      /\ \A k \in 1..Len(snaps) : \E j \in 1..Len(snaps) : place[j] = k
  BY <1>1, TouchMoves
<1> HIDE DEF b, place
<1>4. /\ Indices' = Indices
      /\ \A j \in Indices : /\ place[j] \in Indices
                            /\ place[j] = i => snaps'[j] = x
                            /\ place[j] # i => snaps'[j] = snaps[place[j]]
      /\ \A k \in Indices : \E j \in Indices : place[j] = k
  <2>1. snaps' = b
    BY <1>2 DEF b
  <2>2. QED
    BY <1>3, <2>1 DEF Indices
<1>5. Ram' = {[tokens |-> snaps'[j].tokens, after |-> snaps'[j].after] : j \in Indices}
  BY <1>4 DEF Ram
<1>6. QED
  BY <1>4, <1>5

(* Every step of the cache is a step of the tier, or changes nothing the   *)
(* tier shows.                                                             *)
LEMMA StepRefines ==
  ASSUME IInv, RamBounded', [Next]_vars
  PROVE  \/ Ram' = Ram
         \/ \E e \in [tokens : Histories, after : PointAfters] :
              Ram' \in Tier!Stored(Ram, e)
<1> DEFINE Bar(r) == [tokens |-> r.tokens, after |-> r.after]
<1>1. ASSUME NEW e \in [tokens : Histories, after : PointAfters],
             Ram' \subseteq Tier!Joined(Ram, e)
      PROVE  Ram' \in Tier!Stored(Ram, e)
  <2>1. Tier!Cardinality(Ram') = Cardinality(Ram')
    BY DEF Tier!Cardinality, Cardinality
  <2>2. QED
    BY <1>1, <2>1 DEF RamBounded, Tier!Stored
<1>2. ASSUME NEW t \in Histories, NEW a \in PointAfters, Refresh(t, a), failures' = failures
      PROVE  Ram' \in Tier!Stored(Ram, [tokens |-> t, after |-> a])
  <2> DEFINE e == [tokens |-> t, after |-> a]
  <2>1. PICK i \in Indices : /\ snaps[i].tokens = t
                             /\ Touch(i, [snaps[i] EXCEPT !.after = Merge(@, a)])
    BY <1>2, RefreshTouches
  <2> DEFINE x == [snaps[i] EXCEPT !.after = Merge(@, a)]
             old == [tokens |-> snaps[i].tokens, after |-> snaps[i].after]
  <2>2. snaps[i] \in Snapshot /\ snaps[i].after \in PointAfters
    BY <2>1, SnapFields
  <2>3. x.tokens = t /\ x.after = Merge(snaps[i].after, a)
    BY <2>1, <2>2 DEF Snapshot
  <2>4. Tier!MergeAfter(snaps[i].after, a) = Merge(snaps[i].after, a)
    <3>1. PICK p \in PointAfters : p = snaps[i].after
      BY <2>2
    <3>2. p.greedy = TRUE \/ p.greedy = FALSE
      BY <3>1 DEF PointAfters, NoAfter
    <3>3. a.greedy = TRUE \/ a.greedy = FALSE
      BY <1>2 DEF PointAfters, NoAfter
    <3>4. (IF p.greedy # FALSE THEN p.greedy ELSE a.greedy) = (p.greedy \/ a.greedy)
      BY <3>2, <3>3
    <3>5. Tier!MergeAfter(p, a) = Merge(p, a)
      BY <3>4 DEF Tier!MergeAfter, Merge
    <3>6. QED
      BY <3>1, <3>5
  <2>5. old \in Ram /\ old.tokens = e.tokens
    BY <2>1 DEF Ram
  <2>6. \A r \in Ram' : r = [tokens |-> t, after |-> Merge(snaps[i].after, a)]
                        \/ \E j \in Indices : j # i /\ r = Bar(snaps[j])
    <3>1. Touch(i, x)
      BY <2>1
    <3> HIDE DEF x
    <3>2. \A r : r \in Ram' <=>
              \/ r = [tokens |-> x.tokens, after |-> x.after]
              \/ \E j \in Indices : j # i /\ r = [tokens |-> snaps[j].tokens,
                                                  after |-> snaps[j].after]
      BY <2>1, <3>1, TouchRam
    <3>3. QED
      BY <2>3, <3>2
  <2>7. ASSUME NEW r \in Ram' PROVE r \in Tier!Refreshed(Ram, e)
    <3>1. CASE r = [tokens |-> t, after |-> Merge(snaps[i].after, a)]
      <4>1. [old EXCEPT !.after = Tier!MergeAfter(@, e.after)] = r
        BY <2>1, <2>4, <3>1
      <4>2. QED
        BY <2>5, <4>1 DEF Tier!Refreshed
    <3>2. ASSUME NEW j \in Indices, j # i, r = Bar(snaps[j])
          PROVE  r \in Tier!Refreshed(Ram, e)
      <4>1. r \in Ram /\ r.tokens # e.tokens
        BY <2>1, <3>2 DEF Ram, IInv, Distinct
      <4>2. QED
        BY <4>1 DEF Tier!Refreshed
    <3>3. QED
      BY <2>6, <3>1, <3>2
  <2>8. Tier!Joined(Ram, e) = Tier!Refreshed(Ram, e)
    BY <2>5 DEF Tier!Joined
  <2>9. e \in [tokens : Histories, after : PointAfters]
    BY <1>2
  <2> HIDE DEF e
  <2>10. Ram' \in Tier!Stored(Ram, e)
    BY <1>1, <2>7, <2>8, <2>9
  <2>11. QED
    BY <2>10 DEF e
<1>3. ASSUME NEW t \in Histories, NEW sampled \in BOOLEAN, Restore(t, sampled),
             failures' = failures
      PROVE  Ram' = Ram
  <2>1. PICK i \in Indices : Touch(i, snaps[i])
    BY <1>3, RestoreTouches
  <2>2. \A r : r \in Ram' <=> r = Bar(snaps[i]) \/ \E j \in Indices : j # i /\ r = Bar(snaps[j])
    BY <2>1, TouchRam
  <2>3. QED
    BY <2>2 DEF Ram
<1>4. ASSUME step # "idle"
      PROVE  /\ [tokens |-> toks, after |-> know] \in [tokens : Histories, after : PointAfters]
             /\ Tier!Joined(Ram, [tokens |-> toks, after |-> know])
                  = Ram \cup {[tokens |-> toks, after |-> know]}
  <2>1. toks \in Histories /\ know \in PointAfters /\ \A i \in Indices : snaps[i].tokens # toks
    BY <1>4 DEF IInv, Capturing, Storable, Typed
  <2>2. \A r \in Ram : r.tokens # toks
    BY <2>1 DEF Ram
  <2>3. QED
    BY <2>1, <2>2 DEF Tier!Joined
<1>5. ASSUME NEW s \in StateSlots, Commit(s)
      PROVE  Ram' \in Tier!Stored(Ram, [tokens |-> toks, after |-> know])
  <2> DEFINE x == [tokens |-> toks, tail |-> tail, state |-> s, after |-> know]
  <2>1. step = "state" /\ snaps' = Append(snaps, x)
    BY <1>5 DEF Commit
  <2>2. snaps \in Seq(Snapshot) /\ x \in Snapshot
    BY <2>1 DEF IInv, Typed, Capturing, Snapshot
  <2> HIDE DEF x
  <2>3. /\ Indices' = Indices \cup {Len(snaps) + 1} /\ snaps'[Len(snaps) + 1] = x
        /\ \A j \in Indices : snaps'[j] = snaps[j]
    BY <2>1, <2>2, AppendUses DEF Indices
  <2>4. x.tokens = toks /\ x.after = know
    BY DEF x
  <2>5. Ram' \subseteq Ram \cup {[tokens |-> toks, after |-> know]}
    BY <2>3, <2>4 DEF Ram
  <2>6. QED
    BY <1>1, <1>4, <2>1, <2>5
<1>6. ASSUME EvictOne
      PROVE  Ram' \in Tier!Stored(Ram, [tokens |-> toks, after |-> know])
  <2>1. snaps \in Seq(Snapshot) /\ snaps # <<>> /\ snaps' = Tail(snaps) /\ step # "idle"
    BY <1>6 DEF EvictOne, NeedsSlot, MorePages, IInv, Typed
  <2>2. \A j \in Indices' : \E i \in Indices : snaps'[j] = snaps[i]
    <3>1. /\ Len(snaps) \in Nat /\ Len(snaps') \in Nat /\ Len(snaps) = Len(snaps') + 1
          /\ \A j \in 1..Len(snaps') : snaps'[j] = snaps[j + 1]
      BY <2>1, TailMoves
    <3>2. \A j \in Indices' : j + 1 \in Indices /\ snaps'[j] = snaps[j + 1]
      BY <3>1 DEF Indices
    <3>3. QED
      BY <3>2
  <2>3. Ram' \subseteq Ram
    BY <2>2 DEF Ram
  <2>4. QED
    BY <1>1, <1>4, <2>1, <2>3
<1>7. ASSUME snaps' = snaps PROVE Ram' = Ram
  BY <1>7 DEF Ram, Indices
<1>8. ASSUME NEW s, \/ WritePage(s) \/ WriteTail(s) \/ ExportError(s) \/ SyncError
                    \/ SharePage \/ PagesDone \/ GiveUp \/ StateError
      PROVE  snaps' = snaps
  BY <1>8 DEF WritePage, WriteTail, ExportError, SyncError, SharePage, PagesDone,
              GiveUp, StateError, Abort
<1>9. ASSUME NEW t, NEW a, Begin(t, a) PROVE snaps' = snaps
  BY <1>9 DEF Begin
<1>10. CASE UNCHANGED vars
  BY <1>7, <1>10 DEF vars
<1>11. CASE Works /\ failures' = failures
  <2>1. \A t \in Histories, a \in PointAfters :
          [tokens |-> t, after |-> a] \in [tokens : Histories, after : PointAfters]
    OBVIOUS
  <2>2. CASE \E t \in Histories, a \in PointAfters : Refresh(t, a) \/ Begin(t, a)
    BY <1>2, <1>7, <1>9, <1>11, <2>1, <2>2
  <2>3. CASE \E t \in Histories, sampled \in BOOLEAN : Restore(t, sampled)
    BY <1>3, <1>11, <2>3
  <2>4. CASE EvictOne
    <3>1. step # "idle"
      BY <2>4 DEF EvictOne, NeedsSlot, MorePages
    <3>2. QED
      BY <1>4, <1>6, <2>4, <3>1
  <2>5. CASE \E s \in StateSlots : Commit(s)
    <3>1. step # "idle"
      BY <2>5 DEF Commit
    <3>2. QED
      BY <1>4, <1>5, <2>5, <3>1
  <2>6. CASE \/ SharePage \/ PagesDone \/ GiveUp \/ StateError
             \/ \E s \in PageSlots : WritePage(s) \/ WriteTail(s)
    BY <1>7, <1>8, <2>6
  <2>7. QED
    BY <1>11, <2>2, <2>3, <2>4, <2>5, <2>6 DEF Works
<1>12. CASE (\E s \in PageSlots : ExportError(s)) \/ SyncError
  BY <1>7, <1>8, <1>12
<1>13. QED
  BY <1>10, <1>11, <1>12 DEF Next

(* The cache implements the tier its user relies on: one snapshot for each *)
(* token sequence, which a capture may delete to make room, and which,     *)
(* while it stays, never forgets what it knows of its next token.          *)
THEOREM CacheImplementsTier == Spec => ImplementsTier
<1>1. Init => Tier!Init
  <2>1. Init => Indices = {}
    BY DEF Init, Indices
  <2>2. QED
    BY <2>1 DEF Tier!Init
<1>2. IInv => RamBounded
  BY RamIsBounded
<1>3. IInv /\ RamBounded' /\ [Next]_vars => [Tier!Next]_Ram
  <2>1. ASSUME NEW e \in [tokens : Histories, after : PointAfters],
               Ram' \in Tier!Stored(Ram, e)
        PROVE  Tier!Next
    BY <2>1 DEF Tier!Next, Ram
  <2>2. QED
    BY <2>1, StepRefines
<1>4. QED
  BY <1>1, <1>2, <1>3, InvariantHolds, PTL DEF Spec, ImplementsTier, Tier!Spec, Ram
=============================================================================
