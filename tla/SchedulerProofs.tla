-------------------------- MODULE SchedulerProofs --------------------------
(***************************************************************************)
(* Proofs about Scheduler, for any jobs, prompts, budgets and bounds: no   *)
(* job is lost or served twice, and a running request has budget left.     *)
(*                                                                         *)
(* The invariant says of each of the loop's lists that it holds no job     *)
(* twice, and of the five hands a job can be in (the channel, the deferred *)
(* list, the stalled job, the prefill list and the active set) that they   *)
(* are apart and together are the jobs not yet answered.  Every action is  *)
(* then a move of some jobs between the hands.                             *)
(***************************************************************************)
EXTENDS Scheduler, Integers, Sequences, FiniteSets, Functions, FiniteSetTheorems,
        FunctionTheorems, SequenceTheorems, NaturalsInduction, TLAPS

\* s lists each element of S once, and no other.
Lists(s, S) ==
  /\ s \in Seq(S)
  /\ \A x \in S : \E i \in 1..Len(s) : s[i] = x
  /\ \A i, k \in 1..Len(s) : s[i] = s[k] => i = k

(* Every set of naturals has a least element.                              *)
LEMMA LeastNat ==
  ASSUME NEW B, B \subseteq Nat, B # {}
  PROVE  \E n \in B : \A m \in B : n <= m
<1> DEFINE R == OpToRel(<, Nat)
<1>1. IsWellFoundedOn(R, Nat)
  BY NatLessThanWellFounded
<1> HIDE DEF R
<1>2. PICK n \in B : \A m \in B : ~(<<m, n>> \in R)
  BY <1>1, WFMin
<1>3. \A m \in B : m < n => <<m, n>> \in R
  BY <1>2 DEF R, OpToRel
<1>4. \A m \in B : m \in Nat /\ n \in Nat /\ ~(m < n)
  BY <1>2, <1>3
<1>5. QED
  BY <1>4

(* A sequence is one of the elements it has.                               *)
LEMMA Retyped ==
  ASSUME NEW S, NEW T, NEW s \in Seq(S), \A i \in 1..Len(s) : s[i] \in T
  PROVE  s \in Seq(T)
<1>1. Len(s) \in Nat /\ s \in [1..Len(s) -> T]
  OBVIOUS
<1>2. QED
  BY <1>1, SeqDef

(* The first n numbers.                                                    *)
LEMMA FirstNumbers ==
  ASSUME NEW n \in Nat
  PROVE  IsFiniteSet(1..n) /\ Cardinality(1..n) = n
<1>1. 1 \in Int /\ n \in Int
  OBVIOUS
<1>2. IsFiniteSet(1..n) /\ Cardinality(1..n) = IF 1 > n THEN 0 ELSE n - 1 + 1
  BY <1>1, FS_Interval, Zenon
<1>3. QED
  BY <1>2

(* What it means to list a set, part by part.                              *)
LEMMA ListsHas ==
  ASSUME NEW s, NEW S, Lists(s, S)
  PROVE  /\ Len(s) \in Nat /\ s \in Seq(S)
         /\ \A k \in 1..Len(s) : s[k] \in S
         /\ \A y \in S : \E k \in 1..Len(s) : s[k] = y
         /\ \A k, m \in 1..Len(s) : s[k] = s[m] => k = m
<1>1. /\ s \in Seq(S)
      /\ \A y \in S : \E k \in 1..Len(s) : s[k] = y
      /\ \A k, m \in 1..Len(s) : s[k] = s[m] => k = m
  BY Zenon DEF Lists
<1>2. Len(s) \in Nat
  BY <1>1, LenProperties
<1>3. \A k \in 1..Len(s) : s[k] \in S
  BY <1>1, ElementOfSeq
<1>4. QED
  BY <1>1, <1>2, <1>3

(* What a list lists is the set of its elements.                           *)
LEMMA ListsRange ==
  ASSUME NEW s, NEW S, Lists(s, S)
  PROVE  Range(s) = S /\ Lists(s, Range(s))
<1>1. Len(s) \in Nat /\ DOMAIN s = 1..Len(s)
  BY DEF Lists
<1>2. Range(s) = S
  BY <1>1 DEF Lists, Range
<1>3. QED
  BY <1>2

(* An element is listed at one position, or at none.                       *)
LEMMA ListsCount ==
  ASSUME NEW s, NEW S, Lists(s, S), NEW j
  PROVE  Cardinality({i \in 1..Len(s) : s[i] = j}) = IF j \in S THEN 1 ELSE 0
<1>1. CASE j \in S
  <2>1. PICK k \in 1..Len(s) : s[k] = j
    BY <1>1 DEF Lists
  <2>2. {i \in 1..Len(s) : s[i] = j} = {k}
    BY <2>1 DEF Lists
  <2>3. QED
    BY <1>1, <2>2, FS_Singleton
<1>2. CASE j \notin S
  <2>1. {i \in 1..Len(s) : s[i] = j} = {}
    BY <1>2 DEF Lists
  <2>2. QED
    BY <1>2, <2>1, FS_EmptySet
<1>3. QED
  BY <1>1, <1>2

(* A new element at the end.                                               *)
LEMMA ListsAppend ==
  ASSUME NEW s, NEW S, Lists(s, S), NEW x, x \notin S
  PROVE  Lists(Append(s, x), S \cup {x})
<1> DEFINE b == Append(s, x)
           n == Len(s)
<1>1. s \in Seq(S \cup {x}) /\ n \in Nat
  <2>1. s \in Seq(S) /\ \A i \in 1..Len(s) : s[i] \in S \cup {x}
    BY DEF Lists
  <2>2. QED
    BY <2>1, Retyped
<1>2. /\ b \in Seq(S \cup {x}) /\ Len(b) = n + 1
      /\ \A i \in 1..n : b[i] = s[i]
      /\ b[n + 1] = x
  BY <1>1, AppendProperties
<1>3. 1..(n + 1) = (1..n) \cup {n + 1} /\ n + 1 \notin 1..n
  BY <1>1
<1>4. /\ \A i \in 1..n : s[i] \in S
      /\ \A y \in S : \E i \in 1..n : s[i] = y
      /\ \A i, k \in 1..n : s[i] = s[k] => i = k
  BY ListsHas
<1> HIDE DEF b, n
<1>5. \A i \in 1..Len(b) : b[i] \in S \cup {x}
  BY <1>2, <1>3, <1>4
<1>6. \A y \in S \cup {x} : \E i \in 1..Len(b) : b[i] = y
  BY <1>2, <1>3, <1>4
<1>7. \A i, k \in 1..Len(b) : b[i] = b[k] => i = k
  BY <1>2, <1>3, <1>4
<1>8. Lists(b, S \cup {x})
  BY <1>2, <1>4, <1>5, <1>6, <1>7 DEF Lists
<1>9. QED
  BY <1>8 DEF b

(* The element at position i taken out.                                    *)
LEMMA ListsRemove ==
  ASSUME NEW s, NEW S, Lists(s, S), NEW i \in 1..Len(s)
  PROVE  /\ s[i] \in S
         /\ Lists(SubSeq(s, 1, i - 1) \o SubSeq(s, i + 1, Len(s)), S \ {s[i]})
<1> DEFINE n == Len(s)
           u == SubSeq(s, 1, i - 1)
           v == SubSeq(s, i + 1, n)
           b == u \o v
<1>1. /\ n \in Nat /\ s \in Seq(S)
      /\ \A k \in 1..n : s[k] \in S
      /\ \A y \in S : \E k \in 1..n : s[k] = y
      /\ \A k, m \in 1..n : s[k] = s[m] => k = m
  BY ListsHas
<1>2. u \in Seq(S) /\ Len(u) = i - 1 /\ \A k \in 1..(i - 1) : u[k] = s[k]
  <2>1. \A k \in 1..(i - 1) : s[k] \in S
    BY <1>1
  <2>2. QED
    BY <1>1, <2>1, SubSeqProperties
<1>3. v \in Seq(S) /\ Len(v) = n - i /\ \A k \in 1..(n - i) : v[k] = s[i + k]
  <2>1. \A k \in (i + 1)..n : s[k] \in S
    BY <1>1
  <2>2. QED
    BY <1>1, <2>1, SubSeqProperties
<1> HIDE DEF u, v
<1>4. /\ b \in Seq(S) /\ Len(b) = Len(u) + Len(v)
      /\ \A k \in 1..(Len(u) + Len(v)) : b[k] = IF k <= Len(u) THEN u[k] ELSE v[k - Len(u)]
  BY <1>2, <1>3, ConcatProperties
<1> HIDE DEF b
<1> HIDE DEF n
<1>0. i \in 1..n
  BY DEF n
<1>5. Len(b) = n - 1 /\ \A k \in 1..(n - 1) : b[k] = IF k < i THEN s[k] ELSE s[k + 1]
  <2>1. Len(b) = n - 1
    BY <1>0, <1>1, <1>2, <1>3, <1>4
  <2>2. ASSUME NEW k \in 1..(n - 1), k < i PROVE b[k] = s[k]
    BY <1>0, <1>1, <1>2, <1>3, <1>4, <2>2
  <2>3. ASSUME NEW k \in 1..(n - 1), ~(k < i) PROVE b[k] = s[k + 1]
    <3>1. b[k] = v[k - (i - 1)] /\ k - (i - 1) \in 1..(n - i)
      BY <1>0, <1>1, <1>2, <1>3, <1>4, <2>3
    <3>2. v[k - (i - 1)] = s[i + (k - (i - 1))] /\ i + (k - (i - 1)) = k + 1
      BY <1>0, <1>1, <1>3, <3>1
    <3>3. QED
      BY <3>1, <3>2
  <2>4. QED
    BY <2>1, <2>2, <2>3
<1> DEFINE at(k) == IF k < i THEN k ELSE k + 1
<1>6. n \in Nat /\ \A k \in 1..(n - 1) : at(k) \in 1..n /\ at(k) # i /\ b[k] = s[at(k)]
  <2>1. n \in Nat /\ i \in 1..n
    BY <1>0, <1>1
  <2>2. ASSUME NEW k \in 1..(n - 1), k < i
        PROVE  at(k) \in 1..n /\ at(k) # i /\ b[k] = s[at(k)]
    BY <1>5, <2>1, <2>2
  <2>3. ASSUME NEW k \in 1..(n - 1), ~(k < i)
        PROVE  at(k) \in 1..n /\ at(k) # i /\ b[k] = s[at(k)]
    BY <1>5, <2>1, <2>3
  <2> HIDE DEF at
  <2>4. QED
    BY <2>1, <2>2, <2>3
<1>7. \A m \in 1..n : m # i => \E k \in 1..(n - 1) : at(k) = m
  <2> TAKE m \in 1..n
  <2> HAVE m # i
  <2>1. CASE m < i
    BY <1>0, <1>6, <2>1
  <2>2. CASE m > i
    <3>1. m - 1 \in 1..(n - 1) /\ at(m - 1) = m
      BY <1>0, <1>6, <2>2
    <3>2. QED
      BY <3>1
  <2>3. QED
    BY <1>0, <1>6, <2>1, <2>2
<1>8. \A k, m \in 1..(n - 1) : at(k) = at(m) => k = m
  BY <1>0, <1>6
<1> HIDE DEF at
<1>9. Lists(b, S \ {s[i]}) /\ s[i] \in S
  <2>0. /\ \A k \in 1..n : s[k] \in S
        /\ \A y \in S : \E k \in 1..n : s[k] = y
        /\ \A k, m \in 1..n : s[k] = s[m] => k = m
    BY <1>1
  <2>1. \A k \in 1..(n - 1) : b[k] \in S \ {s[i]}
    BY <1>0, <1>6, <2>0
  <2>2. b \in Seq(S \ {s[i]})
    BY <1>4, <1>5, <2>1, Retyped
  <2>3. ASSUME NEW y \in S \ {s[i]} PROVE \E k \in 1..(n - 1) : b[k] = y
    <3>1. PICK m \in 1..n : s[m] = y
      BY <2>0
    <3>2. PICK k \in 1..(n - 1) : at(k) = m
      BY <1>7, <2>3, <3>1
    <3>3. QED
      BY <1>6, <3>1, <3>2
  <2>4. \A k, m \in 1..(n - 1) : b[k] = b[m] => k = m
    BY <1>6, <1>8, <2>0
  <2>5. QED
    BY <1>0, <1>1, <1>5, <2>2, <2>3, <2>4 DEF Lists
<1>10. QED
  BY <1>9 DEF b, u, v, n

(* The first element taken out.                                            *)
LEMMA ListsTail ==
  ASSUME NEW s, NEW S, Lists(s, S), s # <<>>
  PROVE  Head(s) \in S /\ Lists(Tail(s), S \ {Head(s)})
<1> DEFINE n == Len(s)
           b == Tail(s)
<1>1. /\ n \in Nat /\ s \in Seq(S)
      /\ \A k \in 1..n : s[k] \in S
      /\ \A y \in S : \E k \in 1..n : s[k] = y
      /\ \A k, m \in 1..n : s[k] = s[m] => k = m
  BY ListsHas
<1>2. /\ b \in Seq(S) /\ Len(b) = n - 1 /\ n >= 1 /\ Head(s) = s[1]
      /\ \A k \in 1..(n - 1) : b[k] = s[k + 1]
  BY <1>1, HeadTailProperties
<1> HIDE DEF b, n
<1>3. 1 \in 1..n /\ \A k \in 1..(n - 1) : k + 1 \in 1..n /\ k + 1 # 1
  BY <1>1, <1>2
<1>4. \A k \in 1..(n - 1) : b[k] \in S /\ b[k] # s[1]
  BY <1>1, <1>2, <1>3
<1>5. ASSUME NEW y \in S, y # s[1] PROVE \E k \in 1..(n - 1) : b[k] = y
  <2>1. PICK m \in 1..n : s[m] = y
    BY <1>1, <1>5
  <2>2. m # 1
    BY <1>5, <2>1
  <2>3. PICK i \in 1..(n - 1) : i + 1 = m
    BY <1>1, <2>1, <2>2
  <2>4. b[i] = s[m]
    BY <1>2, <2>3
  <2>5. QED
    BY <2>1, <2>3, <2>4
<1>6. \A k, m \in 1..(n - 1) : b[k] = b[m] => k = m
  BY <1>1, <1>2, <1>3
<1>7. s[1] \in S
  BY <1>1, <1>3
<1>8. Lists(b, S \ {s[1]})
  <2>1. b \in Seq(S \ {s[1]})
    BY <1>2, <1>4, Retyped
  <2>2. QED
    BY <1>2, <1>5, <1>6, <2>1 DEF Lists
<1>9. QED
  BY <1>2, <1>7, <1>8 DEF b

(* One list after the other.                                               *)
LEMMA ListsConcat ==
  ASSUME NEW s, NEW S, Lists(s, S), NEW t, NEW T, Lists(t, T), S \cap T = {}
  PROVE  Lists(s \o t, S \cup T)
<1> DEFINE n == Len(s)
           m == Len(t)
           b == s \o t
<1>1. /\ n \in Nat /\ s \in Seq(S)
      /\ \A k \in 1..n : s[k] \in S
      /\ \A y \in S : \E k \in 1..n : s[k] = y
      /\ \A k, l \in 1..n : s[k] = s[l] => k = l
  BY ListsHas
<1>2. /\ m \in Nat /\ t \in Seq(T)
      /\ \A k \in 1..m : t[k] \in T
      /\ \A y \in T : \E k \in 1..m : t[k] = y
      /\ \A k, l \in 1..m : t[k] = t[l] => k = l
  BY ListsHas
<1>3. /\ b \in Seq(S \cup T) /\ Len(b) = n + m
      /\ \A k \in 1..(n + m) : b[k] = IF k <= n THEN s[k] ELSE t[k - n]
  <2>1. s \in Seq(S \cup T) /\ t \in Seq(S \cup T)
    <3>1. \A k \in 1..Len(s) : s[k] \in S \cup T
      BY <1>1
    <3>2. \A k \in 1..Len(t) : t[k] \in S \cup T
      BY <1>2
    <3>3. QED
      BY <1>1, <1>2, <3>1, <3>2, Retyped
  <2>2. QED
    BY <2>1, ConcatProperties
<1> HIDE DEF b, n, m
<1>4. \A k \in 1..(n + m) : \/ k \in 1..n /\ b[k] = s[k] /\ b[k] \in S
                            \/ k - n \in 1..m /\ b[k] = t[k - n] /\ b[k] \in T
  BY <1>1, <1>2, <1>3
<1>5. \A y \in S : \E k \in 1..(n + m) : b[k] = y
  <2>1. \A k \in 1..n : k \in 1..(n + m) /\ b[k] = s[k]
    BY <1>1, <1>2, <1>3
  <2>2. QED
    BY <1>1, <2>1
<1>6. \A y \in T : \E k \in 1..(n + m) : b[k] = y
  <2>1. \A k \in 1..m : k + n \in 1..(n + m) /\ b[k + n] = t[k]
    <3> TAKE k \in 1..m
    <3>1. k + n \in 1..(n + m) /\ ~(k + n <= n) /\ (k + n) - n = k
      BY <1>1, <1>2
    <3>2. QED
      BY <1>3, <3>1
  <2>2. QED
    BY <1>2, <2>1
<1>7. ASSUME NEW k \in 1..(n + m), NEW l \in 1..(n + m), b[k] = b[l] PROVE k = l
  <2>1. CASE k \in 1..n /\ b[k] = s[k] /\ b[k] \in S
    <3>1. b[l] \notin T
      BY <1>7, <2>1
    <3>2. QED
      BY <1>1, <1>4, <1>7, <2>1, <3>1
  <2>2. CASE k - n \in 1..m /\ b[k] = t[k - n] /\ b[k] \in T
    <3>1. b[l] \notin S
      BY <1>7, <2>2
    <3>2. l - n \in 1..m /\ b[l] = t[l - n]
      BY <1>4, <3>1
    <3>3. k - n = l - n
      BY <1>2, <1>7, <2>2, <3>2
    <3>4. QED
      BY <1>1, <1>2, <3>3
  <2>3. QED
    BY <1>4, <2>1, <2>2
<1>8. Lists(b, S \cup T)
  BY <1>1, <1>2, <1>3, <1>4, <1>5, <1>6, <1>7 DEF Lists
<1>9. QED
  BY <1>8 DEF b

\* The sets are apart, and Q is all of them.
Hands(C, D, P, A, W, Q) ==
  /\ Q = C \cup D \cup P \cup A \cup W
  /\ \A j \in Q : /\ j \in C => j \notin D /\ j \notin P /\ j \notin A /\ j \notin W
                  /\ j \in D => j \notin P /\ j \notin A /\ j \notin W
                  /\ j \in P => j \notin A /\ j \notin W
                  /\ j \in A => j \notin W

Waiting(s) == IF s = None THEN {} ELSE {s}

Counters ==
  /\ pc \in {"admit", "batch", "round", "reap", "decode"}
  /\ rem \in [Jobs -> Nat] /\ (\A j \in Jobs : rem[j] <= Rows[j])
  /\ sent \in [Jobs -> Nat] /\ cancel \in [Jobs -> BOOLEAN]
  /\ pending \subseteq Jobs

Listed ==
  /\ Lists(chan, Range(chan)) /\ Lists(deferred, Range(deferred))
  /\ Lists(prefilling, Range(prefilling))
  /\ active \subseteq Jobs /\ stalled \in Jobs \cup {None}

InHands ==
  Hands(Range(chan), Range(deferred), Range(prefilling), active, Waiting(stalled), pending)

IInv == Counters /\ Listed /\ InHands /\ NoTwins /\ BudgetLeft
-----------------------------------------------------------------------------
(* Facts about lists.                                                      *)

(* The elements at some of the positions.                                  *)
LEMMA ListsAt ==
  ASSUME NEW s, NEW S, Lists(s, S), NEW P, P \subseteq 1..Len(s)
  PROVE  Lists(At(s, P), {s[i] : i \in P}) /\ {s[i] : i \in P} \subseteq S
<1> DEFINE N == Cardinality(P)
           Upto(i) == {x \in P : x <= i}
           rank(i) == Cardinality(Upto(i))
           pos(k) == CHOOSE i \in P : rank(i) = k
           r == [i \in P |-> rank(i)]
           b == [k \in 1..N |-> s[pos(k)]]
<1>1. /\ Len(s) \in Nat
      /\ \A k \in 1..Len(s) : s[k] \in S
      /\ \A k, l \in 1..Len(s) : s[k] = s[l] => k = l
  BY ListsHas
<1>2. IsFiniteSet(P) /\ N \in Nat /\ \A i \in P : i \in Nat
  <2>1. IsFiniteSet(1..Len(s))
    BY <1>1, FirstNumbers
  <2>2. IsFiniteSet(P)
    BY <2>1, FS_Subset
  <2>3. QED
    BY <1>1, <2>2, FS_CardinalityType
<1>3. \A i \in P : IsFiniteSet(Upto(i)) /\ rank(i) \in 1..N
  <2> TAKE i \in P
  <2>1. i \in Upto(i) /\ Upto(i) \subseteq P
    BY <1>2
  <2>2. IsFiniteSet(Upto(i)) /\ rank(i) <= N
    BY <1>2, <2>1, FS_Subset
  <2>3. rank(i) \in Nat /\ rank(i) # 0
    BY <2>1, <2>2, FS_CardinalityType, FS_EmptySet
  <2> HIDE DEF rank, N
  <2>4. QED
    BY <1>2, <2>2, <2>3
<1>4. \A i, j \in P : i < j => rank(i) # rank(j)
  <2> TAKE i, j \in P
  <2> HAVE i < j
  <2>1. Upto(i) \subseteq Upto(j) /\ j \in Upto(j) /\ j \notin Upto(i)
    <3>1. i \in Nat /\ j \in Nat /\ i < j
      BY <1>2
    <3>2. \A x \in P : x <= i => x <= j
      BY <1>2, <3>1
    <3>3. j <= j /\ ~(j <= i)
      BY <3>1
    <3>4. QED
      BY <3>2, <3>3
  <2>2. Upto(i) # Upto(j)
    BY <2>1
  <2>3. IsFiniteSet(Upto(j))
    BY <1>3
  <2> HIDE DEF Upto
  <2>4. QED
    BY <2>1, <2>2, <2>3, FS_Subset
<1> HIDE DEF rank, N
<1>5. \A i, j \in P : rank(i) = rank(j) => i = j
  BY <1>2, <1>4
<1>6. \A k \in 1..N : \E i \in P : rank(i) = k
  <2>1. r \in [P -> 1..N] /\ \A i, j \in P : r[i] = r[j] => i = j
    BY <1>3, <1>5
  <2>2. IsFiniteSet(1..N) /\ Cardinality(1..N) = N
    BY <1>2, FirstNumbers
  <2>3. \A i \in P : r[i] = rank(i)
    OBVIOUS
  <2> HIDE DEF r
  <2>4. r \in Injection(P, 1..N)
    BY <2>1, Fun_IsInj
  <2>5. r \in Surjection(P, 1..N)
    BY <2>2, <2>4, FS_Injection DEF N
  <2>6. QED
    BY <2>3, <2>5 DEF Surjection
<1>7. \A k \in 1..N : pos(k) \in P /\ rank(pos(k)) = k
  BY <1>6
<1> HIDE DEF pos
<1>8. \A i \in P : pos(rank(i)) = i
  BY <1>3, <1>5, <1>7
<1>9. /\ b \in Seq({s[i] : i \in P}) /\ Len(b) = N
      /\ \A k \in 1..N : b[k] = s[pos(k)]
  <2>1. \A k \in 1..N : s[pos(k)] \in {s[i] : i \in P}
    BY <1>7
  <2> HIDE DEF N
  <2>2. QED
    BY <1>2, <2>1
<1> HIDE DEF b
<1>10. \A y \in {s[i] : i \in P} : \E k \in 1..N : b[k] = y
  <2> TAKE y \in {s[i] : i \in P}
  <2>1. PICK i \in P : y = s[i]
    OBVIOUS
  <2>2. rank(i) \in 1..N /\ b[rank(i)] = s[i]
    BY <1>3, <1>8, <1>9
  <2>3. QED
    BY <2>1, <2>2
<1>11. \A k, l \in 1..N : b[k] = b[l] => k = l
  <2> TAKE k, l \in 1..N
  <2> HAVE b[k] = b[l]
  <2>1. s[pos(k)] = s[pos(l)] /\ pos(k) \in 1..Len(s) /\ pos(l) \in 1..Len(s)
    BY <1>7, <1>9
  <2>2. pos(k) = pos(l)
    BY <1>1, <2>1
  <2>3. QED
    BY <1>7, <2>2
<1>12. {s[i] : i \in P} \subseteq S
  BY <1>1
<1>13. Lists(b, {s[i] : i \in P})
  BY <1>9, <1>10, <1>11 DEF Lists
<1>14. At(s, P) = b
  BY DEF At, b, pos, rank, N
<1>15. QED
  BY <1>12, <1>13, <1>14

(* The scan for short prompts takes some of the positions.                 *)
LEMMA BatchChosen ==
  ASSUME Lists(prefilling, Range(prefilling))
  PROVE  BatchAt \subseteq 1..Len(prefilling) /\ Scanned(BatchAt, Len(prefilling))
<1> DEFINE Has(n) == \E P : P \subseteq 1..n /\ Scanned(P, n)
           Fails == {n \in Nat : ~Has(n)}
<1>1. Has(0)
  <2>1. {} \subseteq 1..0 /\ Scanned({}, 0)
    BY DEF Scanned
  <2>2. QED
    BY <2>1
<1>2. ASSUME NEW n \in Nat, Has(n) PROVE Has(n + 1)
  <2>1. PICK P : P \subseteq 1..n /\ Scanned(P, n)
    BY <1>2
  <2> DEFINE j == prefilling[n + 1]
             Takes1 == /\ ~cancel[j] /\ j \notin ImageJobs
                       /\ RowsAt(P) + rem[j] <= BatchRows
             Q == IF Takes1 THEN P \cup {n + 1} ELSE P
  <2> HIDE DEF Takes1
  <2>2. /\ Q \subseteq 1..(n + 1) /\ \A i \in 1..n : i \in Q <=> i \in P
        /\ n + 1 \in Q <=> Takes1
    BY <2>1
  <2>3. /\ \A i \in 1..n : {k \in Q : k < i} = {k \in P : k < i}
        /\ {k \in Q : k < n + 1} = P
    <3>1. \A i \in 1..n : {k \in P \cup {n + 1} : k < i} = {k \in P : k < i}
      <4> TAKE i \in 1..n
      <4>1. ~(n + 1 < i)
        OBVIOUS
      <4>2. QED
        BY <4>1
    <3>2. {k \in P \cup {n + 1} : k < n + 1} = P /\ {k \in P : k < n + 1} = P
      <4>1. (\A k \in P : k < n + 1) /\ ~(n + 1 < n + 1)
        BY <2>1
      <4>2. QED
        BY <4>1
    <3>3. Q = P \/ Q = P \cup {n + 1}
      OBVIOUS
    <3> HIDE DEF Q
    <3>4. QED
      BY <3>1, <3>2, <3>3
  <2> HIDE DEF Q
  <2>4. Scanned(Q, n)
    BY <2>1, <2>2, <2>3 DEF Scanned
  <2>5. n + 1 \in Q <=> /\ ~cancel[j] /\ j \notin ImageJobs
                        /\ RowsAt({k \in Q : k < n + 1}) + rem[j] <= BatchRows
    BY <2>2, <2>3 DEF Takes1
  <2>6. 1..(n + 1) = (1..n) \cup {n + 1}
    OBVIOUS
  <2>7. Scanned(Q, n + 1)
    BY <2>4, <2>5, <2>6 DEF Scanned
  <2>8. QED
    BY <2>2, <2>7
<1> HIDE DEF Has
<1>3. Fails = {}
  <2> SUFFICES ASSUME Fails # {} PROVE FALSE
    OBVIOUS
  <2>1. PICK n \in Fails : \A m \in Fails : n <= m
    BY LeastNat
  <2>2. n # 0 /\ n \in Nat
    BY <1>1, <2>1
  <2>3. n - 1 \in Nat /\ n - 1 \notin Fails
    BY <2>1, <2>2
  <2>4. Has((n - 1) + 1) /\ (n - 1) + 1 = n
    BY <1>2, <2>2, <2>3
  <2>5. QED
    BY <2>1, <2>4
<1>4. Len(prefilling) \in Nat
  BY DEF Lists
<1>5. Has(Len(prefilling))
  BY <1>3, <1>4
<1>6. QED
  BY <1>5 DEF Has, BatchAt
-----------------------------------------------------------------------------
(* What the parts of an action do.                                         *)

(* The job admission takes leaves the channel, the deferred list or the    *)
(* stalled place, and none is stalled then.                                *)
LEMMA TakenMoves ==
  ASSUME Counters, Listed, InHands, Taken, NEW j, j = Takes[2]
  PROVE  /\ j \in Jobs /\ j \in pending /\ StalledLeft = None
         /\ Lists(chan', Range(chan')) /\ Lists(DeferredLeft, Range(DeferredLeft))
         /\ Hands(Range(chan'), Range(DeferredLeft), Range(prefilling), active, {},
                  pending \ {j})
<1> DEFINE C == Range(chan)
           D == Range(deferred)
           P == Range(prefilling)
<1>1. /\ Lists(chan, C) /\ Lists(deferred, D) /\ stalled \in Jobs \cup {None}
      /\ Hands(C, D, P, active, Waiting(stalled), pending)
  BY DEF Listed, InHands
<1>2. None \notin Jobs
  BY SchedulerAssumption
<1>3. CASE stalled # None
  <2>1. Takes = <<"stalled", stalled>>
    BY <1>3 DEF Takes
  <2>2. chan' = chan /\ DeferredLeft = deferred /\ StalledLeft = None /\ j = stalled
    BY <2>1 DEF Taken, DeferredLeft, StalledLeft
  <2>3. Waiting(stalled) = {j}
    BY <1>3, <2>2 DEF Waiting
  <2> HIDE DEF C, D, P
  <2>4. j \in pending /\ Hands(C, D, P, active, {}, pending \ {j})
    BY <1>1, <2>3 DEF Hands
  <2>5. QED
    BY <1>1, <1>3, <2>2, <2>4 DEF C, D, P
<1>4. CASE stalled = None /\ Ready # {}
  <2>1. Takes = <<"deferred", deferred[Min(Ready)]>>
    BY <1>4 DEF Takes
  <2> DEFINE i == Min(Ready)
  <2>2. i \in Ready
    <3>1. Len(deferred) \in Nat /\ Ready \subseteq Nat
      BY <1>1 DEF Ready, Lists
    <3>2. \E n \in Ready : \A m \in Ready : n <= m
      BY <1>4, <3>1, LeastNat
    <3>3. QED
      BY <3>2 DEF Min
  <2> HIDE DEF i
  <2>3. i \in 1..Len(deferred)
    BY <2>2 DEF Ready
  <2>4. /\ chan' = chan /\ DeferredLeft = RemoveAt(deferred, i) /\ StalledLeft = None
        /\ j = deferred[i]
    BY <1>4, <2>1 DEF Taken, DeferredLeft, StalledLeft, i
  <2>5. j \in D /\ Lists(DeferredLeft, D \ {j})
    BY <1>1, <2>3, <2>4, ListsRemove DEF RemoveAt
  <2>6. Range(DeferredLeft) = D \ {j} /\ j \in Jobs
    <3> HIDE DEF D
    <3>1. Range(DeferredLeft) = D \ {j}
      BY <2>5, ListsRange
    <3>2. D \subseteq Jobs
      BY <1>1 DEF Hands, Counters
    <3>3. QED
      BY <2>5, <3>1, <3>2
  <2>7. Waiting(stalled) = {}
    BY <1>4 DEF Waiting
  <2> HIDE DEF C, D, P
  <2>8. j \in pending /\ Hands(C, D \ {j}, P, active, {}, pending \ {j})
    BY <1>1, <2>5, <2>7 DEF Hands
  <2>9. QED
    BY <1>1, <2>4, <2>5, <2>6, <2>8 DEF C, P
<1>5. CASE stalled = None /\ Ready = {} /\ chan # <<>>
  <2>1. Takes = <<"chan", Head(chan)>>
    BY <1>5 DEF Takes
  <2>2. chan' = Tail(chan) /\ DeferredLeft = deferred /\ StalledLeft = None /\ j = Head(chan)
    BY <1>5, <2>1 DEF Taken, DeferredLeft, StalledLeft
  <2>3. j \in C /\ Lists(chan', C \ {j})
    BY <1>1, <1>5, <2>2, ListsTail
  <2>4. Range(chan') = C \ {j} /\ j \in Jobs
    <3> HIDE DEF C
    <3>1. Range(chan') = C \ {j}
      BY <2>3, ListsRange
    <3>2. C \subseteq Jobs
      BY <1>1 DEF Hands, Counters
    <3>3. QED
      BY <2>3, <3>1, <3>2
  <2>5. Waiting(stalled) = {}
    BY <1>5 DEF Waiting
  <2> HIDE DEF C, D, P
  <2>6. j \in pending /\ Hands(C \ {j}, D, P, active, {}, pending \ {j})
    BY <1>1, <2>3, <2>5 DEF Hands
  <2>7. QED
    BY <1>1, <2>2, <2>3, <2>4, <2>6 DEF D, P
<1>6. CASE stalled = None /\ Ready = {} /\ chan = <<>>
  BY <1>6 DEF Taken, Takes
<1>7. QED
  BY <1>3, <1>4, <1>5, <1>6

(* Ending jobs clears their flags.                                         *)
LEMMA EndKeeps ==
  ASSUME NEW E, Counters, End(E)
  PROVE  /\ pending' = pending \ E /\ pending' \subseteq Jobs
         /\ cancel' \in [Jobs -> BOOLEAN]
BY DEF End, Counters

(* A cleared counter is no larger.                                         *)
LEMMA ClearedKeeps ==
  ASSUME NEW E, NEW f \in [Jobs -> Nat]
  PROVE  /\ Cleared(f, E) \in [Jobs -> Nat]
         /\ \A j \in Jobs : Cleared(f, E)[j] <= f[j]
         /\ \A j \in Jobs : j \notin E => Cleared(f, E)[j] = f[j]
BY DEF Cleared

(* A request starts with one token sent and budget for another.            *)
LEMMA StartKeeps ==
  ASSUME Counters, BudgetLeft, active \subseteq Jobs,
         NEW J, J \subseteq Jobs \ active, NEW E, Start(J, E), pc' \in {"admit", "round", "reap"}
  PROVE  /\ Counters' /\ BudgetLeft' /\ E \subseteq J
         /\ active' = active \cup (J \ E) /\ pending' = pending \ E
<1>1. /\ E \subseteq J /\ \A j \in J : MaxTokens[j] = 1 => j \in E
      /\ active' = active \cup (J \ E)
      /\ rem' = Cleared(rem, J)
      /\ sent' = [j \in Jobs |-> IF j \in E THEN 0 ELSE IF j \in J THEN 1 ELSE sent[j]]
      /\ End(E)
  BY DEF Start
<1>2. /\ rem \in [Jobs -> Nat] /\ (\A j \in Jobs : rem[j] <= Rows[j])
      /\ sent \in [Jobs -> Nat]
  BY DEF Counters
<1>3. \A j \in Jobs : MaxTokens[j] \in Nat \ {0} /\ Rows[j] \in Nat
  BY SchedulerAssumption
<1>4. rem' \in [Jobs -> Nat] /\ (\A j \in Jobs : rem'[j] <= rem[j])
  BY <1>1, <1>2, ClearedKeeps
<1>5. \A j \in Jobs : rem'[j] <= Rows[j]
  BY <1>2, <1>3, <1>4
<1>6. sent' \in [Jobs -> Nat]
  BY <1>1, <1>2
<1>7. pending' = pending \ E /\ pending' \subseteq Jobs /\ cancel' \in [Jobs -> BOOLEAN]
  BY <1>1, EndKeeps
<1>8. ASSUME NEW j \in active' PROVE sent'[j] \in 1..(MaxTokens[j] - 1)
  <2>1. j \in Jobs
    BY <1>1, <1>8
  <2>2. CASE j \in J
    <3>1. CASE j \notin E
      BY <1>1, <1>3, <2>1, <2>2, <3>1
    <3>2. CASE j \in E
      BY <1>1, <1>8, <3>2
    <3>3. QED
      BY <3>1, <3>2
  <2>3. CASE j \notin J
    BY <1>1, <1>8, <2>1, <2>3 DEF BudgetLeft
  <2>4. QED
    BY <2>2, <2>3
<1>9. Counters'
  BY <1>4, <1>5, <1>6, <1>7 DEF Counters
<1>10. BudgetLeft'
  BY <1>8 DEF BudgetLeft
<1>11. QED
  BY <1>1, <1>7, <1>9, <1>10

(* The lists after a step, from what they list.                            *)
LEMMA Reassemble ==
  ASSUME NEW C, NEW D, NEW P, NEW W,
         Lists(chan', C), Lists(deferred', D), Lists(prefilling', P),
         active' \subseteq Jobs, stalled' \in Jobs \cup {None}, Waiting(stalled') = W,
         Hands(C, D, P, active', W, pending')
  PROVE  Listed' /\ InHands'
<1>1. Range(chan') = C /\ Range(deferred') = D /\ Range(prefilling') = P
  BY ListsRange
<1>2. QED
  BY <1>1 DEF Listed, InHands

(* No twins join.                                                          *)
LEMMA TwinsStayOut ==
  ASSUME NoTwins, Range(prefilling') \subseteq Range(prefilling)
  PROVE  NoTwins'
BY DEF NoTwins

(* The invariant's lists as they are.                                      *)
LEMMA Lists0 ==
  ASSUME Counters, Listed, InHands
  PROVE  /\ Lists(chan, Range(chan)) /\ Lists(deferred, Range(deferred))
         /\ Lists(prefilling, Range(prefilling))
         /\ active \subseteq Jobs /\ stalled \in Jobs \cup {None} /\ pending \subseteq Jobs
         /\ Hands(Range(chan), Range(deferred), Range(prefilling), active,
                  Waiting(stalled), pending)
         /\ Range(chan) \subseteq Jobs /\ Range(deferred) \subseteq Jobs
         /\ Range(prefilling) \subseteq Jobs \ active
<1> DEFINE C == Range(chan)
           D == Range(deferred)
           P == Range(prefilling)
<1>1. Hands(C, D, P, active, Waiting(stalled), pending) /\ pending \subseteq Jobs
  BY DEF Counters, InHands
<1> HIDE DEF C, D, P
<1>2. C \subseteq Jobs /\ D \subseteq Jobs /\ P \subseteq Jobs \ active
  BY <1>1 DEF Hands
<1>3. QED
  BY <1>1, <1>2 DEF Listed, C, D, P
-----------------------------------------------------------------------------
(* The actions.                                                            *)

(* DropCancelled, AdmitFails and Refuse: the job taken ends.               *)
LEMMA TakenEnds ==
  ASSUME IInv, Taken, NEW j, j = Takes[2],
         deferred' = DeferredLeft, stalled' = StalledLeft, End({j}),
         UNCHANGED <<pc, prefilling, active, rem, sent>>
  PROVE  IInv'
<1>1. Counters /\ Listed /\ InHands /\ NoTwins /\ BudgetLeft
  BY DEF IInv
<1>2. /\ j \in Jobs /\ j \in pending /\ stalled' = None
      /\ Lists(chan', Range(chan')) /\ Lists(deferred', Range(deferred'))
      /\ Hands(Range(chan'), Range(deferred'), Range(prefilling), active, {}, pending \ {j})
  BY <1>1, TakenMoves
<1>3. pending' = pending \ {j} /\ pending' \subseteq Jobs /\ cancel' \in [Jobs -> BOOLEAN]
  BY <1>1, EndKeeps
<1>4. Counters' /\ NoTwins' /\ BudgetLeft'
  BY <1>1, <1>3 DEF Counters, NoTwins, BudgetLeft
<1>5. Waiting(stalled') = {}
  BY <1>2 DEF Waiting
<1>6. Lists(prefilling', Range(prefilling)) /\ active' \subseteq Jobs /\ active' = active
  BY <1>1 DEF Listed
<1>7. Listed' /\ InHands'
  BY <1>2, <1>3, <1>5, <1>6, Reassemble
<1>8. QED
  BY <1>4, <1>7 DEF IInv

(* Defer: the job taken goes to the end of the deferred list.              *)
LEMMA DeferKeeps ==
  ASSUME IInv, Defer
  PROVE  IInv'
<1> DEFINE j == Takes[2]
<1>1. Counters /\ Listed /\ InHands /\ NoTwins /\ BudgetLeft
  BY DEF IInv
<1>2. /\ Taken /\ deferred' = Append(DeferredLeft, j) /\ stalled' = StalledLeft
      /\ UNCHANGED <<pc, prefilling, active, rem, sent, cancel, pending>>
  BY DEF Defer
<1> HIDE DEF j
<1>3. /\ j \in Jobs /\ j \in pending /\ StalledLeft = None
      /\ Lists(chan', Range(chan')) /\ Lists(DeferredLeft, Range(DeferredLeft))
      /\ Hands(Range(chan'), Range(DeferredLeft), Range(prefilling), active, {},
               pending \ {j})
  BY <1>1, <1>2, TakenMoves DEF j
<1> DEFINE C == Range(chan')
           D == Range(DeferredLeft)
           P == Range(prefilling)
<1>4. Lists(prefilling', P) /\ active' \subseteq Jobs /\ stalled' = None
  BY <1>1, <1>2, <1>3 DEF Listed
<1>5. Lists(chan', C) /\ Lists(DeferredLeft, D) /\ Hands(C, D, P, active, {}, pending \ {j})
  BY <1>3
<1> HIDE DEF C, D, P
<1>6. Hands(C, D \cup {j}, P, active', {}, pending') /\ j \notin D
  BY <1>2, <1>3, <1>5 DEF Hands
<1>7. Lists(deferred', D \cup {j})
  BY <1>2, <1>3, <1>5, <1>6, ListsAppend
<1>8. Waiting(stalled') = {}
  BY <1>4 DEF Waiting
<1>9. Listed' /\ InHands'
  BY <1>4, <1>5, <1>6, <1>7, <1>8, Reassemble
<1>10. Counters' /\ NoTwins' /\ BudgetLeft'
  BY <1>1, <1>2 DEF Counters, NoTwins, BudgetLeft
<1>11. QED
  BY <1>9, <1>10 DEF IInv

(* Stall: the job taken becomes the stalled one.                           *)
LEMMA StallKeeps ==
  ASSUME IInv, Stall
  PROVE  IInv'
<1> DEFINE j == Takes[2]
<1>1. Counters /\ Listed /\ InHands /\ NoTwins /\ BudgetLeft
  BY DEF IInv
<1>2. /\ Taken /\ deferred' = DeferredLeft /\ stalled' = j /\ pc' = "batch"
      /\ UNCHANGED <<prefilling, active, rem, sent, cancel, pending>>
  BY DEF Stall, Candidate
<1> HIDE DEF j
<1>3. /\ j \in Jobs /\ j \in pending
      /\ Lists(chan', Range(chan')) /\ Lists(deferred', Range(deferred'))
      /\ Hands(Range(chan'), Range(deferred'), Range(prefilling), active, {},
               pending \ {j})
  BY <1>1, <1>2, TakenMoves DEF j
<1> DEFINE C == Range(chan')
           D == Range(deferred')
           P == Range(prefilling)
<1>4. Lists(prefilling', P) /\ active' \subseteq Jobs
  BY <1>1, <1>2 DEF Listed
<1>5. Lists(chan', C) /\ Lists(deferred', D) /\ Hands(C, D, P, active, {}, pending \ {j})
  BY <1>3
<1> HIDE DEF C, D, P
<1>6. Hands(C, D, P, active', {j}, pending')
  BY <1>2, <1>3, <1>5 DEF Hands
<1>7. Waiting(stalled') = {j} /\ stalled' \in Jobs \cup {None}
  BY <1>2, <1>3, SchedulerAssumption DEF Waiting
<1>8. Listed' /\ InHands'
  BY <1>4, <1>5, <1>6, <1>7, Reassemble
<1>9. Counters' /\ NoTwins' /\ BudgetLeft'
  BY <1>1, <1>2 DEF Counters, NoTwins, BudgetLeft
<1>10. QED
  BY <1>8, <1>9 DEF IInv

(* AdmitPrefill: the job taken joins the prefill list, and extends none of *)
(* the prompts there.                                                      *)
LEMMA AdmitPrefillKeeps ==
  ASSUME IInv, NEW r \in Nat, AdmitPrefill(r)
  PROVE  IInv'
<1> DEFINE j == Takes[2]
<1>1. Counters /\ Listed /\ InHands /\ NoTwins /\ BudgetLeft
  BY DEF IInv
<1>2. /\ Taken /\ deferred' = DeferredLeft /\ stalled' = StalledLeft
      /\ ~Waits(j) /\ r \in 1..Rows[j]
      /\ prefilling' = Append(prefilling, j) /\ rem' = [rem EXCEPT ![j] = r]
      /\ UNCHANGED <<pc, active, sent, cancel, pending>>
  BY DEF AdmitPrefill, Candidate
<1> HIDE DEF j
<1>3. /\ j \in Jobs /\ j \in pending /\ stalled' = None
      /\ Lists(chan', Range(chan')) /\ Lists(deferred', Range(deferred'))
      /\ Hands(Range(chan'), Range(deferred'), Range(prefilling), active, {},
               pending \ {j})
  BY <1>1, <1>2, TakenMoves DEF j
<1>a. Rows[j] \in Nat /\ r \in Nat /\ r <= Rows[j]
  BY <1>2, <1>3, SchedulerAssumption
<1> DEFINE C == Range(chan')
           D == Range(deferred')
           P == Range(prefilling)
<1>4. Lists(prefilling, P) /\ active' \subseteq Jobs
  BY <1>1, <1>2 DEF Listed
<1>5. Lists(chan', C) /\ Lists(deferred', D) /\ Hands(C, D, P, active, {}, pending \ {j})
  BY <1>3
<1>6. \A x \in P : <<j, x>> \notin Extends
  <2> HIDE DEF P
  <2>1. QED
    BY <1>2, <1>4 DEF Waits, Lists
<1>7. \A x, y \in P : x # y => ~(<<x, y>> \in Extends /\ <<y, x>> \in Extends)
  BY <1>1 DEF NoTwins
<1> HIDE DEF C, D, P
<1>8. Hands(C, D, P \cup {j}, active', {}, pending') /\ j \notin P
  BY <1>2, <1>3, <1>5 DEF Hands
<1>9. Lists(prefilling', P \cup {j})
  BY <1>2, <1>3, <1>4, <1>8, ListsAppend
<1>10. Waiting(stalled') = {}
  BY <1>3 DEF Waiting
<1>11. Listed' /\ InHands'
  BY <1>3, <1>4, <1>5, <1>8, <1>9, <1>10, Reassemble
<1>12. NoTwins'
  <2>1. Range(prefilling') = P \cup {j}
    BY <1>9, ListsRange
  <2>2. QED
    BY <1>6, <1>7, <2>1 DEF NoTwins
<1>13. Counters'
  <2>1. rem' \in [Jobs -> Nat]
    BY <1>1, <1>2 DEF Counters
  <2>2. ASSUME NEW x \in Jobs PROVE rem'[x] <= Rows[x]
    <3>1. rem'[x] = IF x = j THEN r ELSE rem[x]
      BY <1>1, <1>2 DEF Counters
    <3>2. rem[x] <= Rows[x]
      BY <1>1 DEF Counters
    <3>3. QED
      BY <1>a, <3>1, <3>2
  <2>3. QED
    BY <1>1, <1>2, <2>1, <2>2 DEF Counters
<1>14. BudgetLeft'
  BY <1>1, <1>2 DEF BudgetLeft
<1>15. QED
  BY <1>11, <1>12, <1>13, <1>14 DEF IInv

(* AdmitExact: the job taken starts.                                       *)
LEMMA AdmitExactKeeps ==
  ASSUME IInv, NEW E, AdmitExact(E)
  PROVE  IInv'
<1> DEFINE j == Takes[2]
<1>1. Counters /\ Listed /\ InHands /\ NoTwins /\ BudgetLeft
  BY DEF IInv
<1>2. /\ Taken /\ deferred' = DeferredLeft /\ stalled' = StalledLeft
      /\ Start({j}, E) /\ UNCHANGED <<pc, prefilling>> /\ pc = "admit"
  BY DEF AdmitExact, Candidate, Taken
<1> HIDE DEF j
<1>3. /\ j \in Jobs /\ j \in pending /\ stalled' = None
      /\ Lists(chan', Range(chan')) /\ Lists(deferred', Range(deferred'))
      /\ Hands(Range(chan'), Range(deferred'), Range(prefilling), active, {},
               pending \ {j})
  BY <1>1, <1>2, TakenMoves DEF j
<1> DEFINE C == Range(chan')
           D == Range(deferred')
           P == Range(prefilling)
<1>4. Lists(prefilling', P) /\ active \subseteq Jobs
  BY <1>1, <1>2 DEF Listed
<1>5. Lists(chan', C) /\ Lists(deferred', D) /\ Hands(C, D, P, active, {}, pending \ {j})
  BY <1>3
<1> HIDE DEF C, D, P
<1>6. {j} \subseteq Jobs \ active /\ pc' \in {"admit", "round", "reap"}
  BY <1>2, <1>3, <1>5 DEF Hands
<1>7. /\ Counters' /\ BudgetLeft' /\ E \subseteq {j}
      /\ active' = active \cup ({j} \ E) /\ pending' = pending \ E
  BY <1>1, <1>2, <1>4, <1>6, StartKeeps
<1>8. Hands(C, D, P, active', {}, pending') /\ active' \subseteq Jobs
  BY <1>3, <1>4, <1>5, <1>7 DEF Hands
<1>9. Waiting(stalled') = {}
  BY <1>3 DEF Waiting
<1>10. Listed' /\ InHands'
  BY <1>3, <1>4, <1>5, <1>8, <1>9, Reassemble
<1>11. NoTwins'
  BY <1>1, <1>2 DEF NoTwins
<1>12. QED
  BY <1>7, <1>10, <1>11 DEF IInv

(* Submit: a new job at the end of the channel.                            *)
LEMMA SubmitKeeps ==
  ASSUME IInv, NEW j \in Jobs, Submit(j)
  PROVE  IInv'
<1>1. Counters /\ Listed /\ InHands /\ NoTwins /\ BudgetLeft
  BY DEF IInv
<1>2. /\ j \notin pending /\ chan' = Append(chan, j) /\ pending' = pending \cup {j}
      /\ UNCHANGED <<pc, deferred, stalled, prefilling, active, rem, sent, cancel>>
  BY DEF Submit
<1> DEFINE C == Range(chan)
           D == Range(deferred)
           P == Range(prefilling)
           W == Waiting(stalled)
<1>3. /\ Lists(chan, C) /\ Lists(deferred, D) /\ Lists(prefilling, P)
      /\ active \subseteq Jobs /\ stalled \in Jobs \cup {None}
      /\ Hands(C, D, P, active, W, pending)
  BY <1>1, Lists0
<1>4. Waiting(stalled') = W
  BY <1>2
<1> HIDE DEF C, D, P, W
<1>5. Hands(C \cup {j}, D, P, active', W, pending') /\ j \notin C
  BY <1>2, <1>3 DEF Hands
<1>6. Lists(chan', C \cup {j})
  BY <1>2, <1>3, <1>5, ListsAppend
<1>7. Lists(deferred', D) /\ Lists(prefilling', P) /\ active' \subseteq Jobs
      /\ stalled' \in Jobs \cup {None}
  BY <1>2, <1>3
<1>8. Listed' /\ InHands'
  BY <1>4, <1>5, <1>6, <1>7, Reassemble
<1>9. Counters' /\ NoTwins' /\ BudgetLeft'
  BY <1>1, <1>2 DEF Counters, NoTwins, BudgetLeft
<1>10. QED
  BY <1>8, <1>9 DEF IInv

(* AdmitDone, RoundDone and Cancel move no job.                            *)
LEMMA QuietKeeps ==
  ASSUME IInv, cancel' \in [Jobs -> BOOLEAN],
         pc' \in {"admit", "batch", "round", "reap", "decode"},
         UNCHANGED <<chan, deferred, stalled, prefilling, active, rem, sent, pending>>
  PROVE  IInv'
<1>1. Counters' /\ NoTwins' /\ BudgetLeft'
  BY DEF IInv, Counters, NoTwins, BudgetLeft
<1>2. Listed' /\ InHands'
  BY DEF IInv, Listed, InHands
<1>3. QED
  BY <1>1, <1>2 DEF IInv

\* A step that only takes jobs from the prefill list: B leave it, and those of A
\* become active.
Leave(B, A, E) ==
  /\ Lists(prefilling', Range(prefilling) \ B)
  /\ B \subseteq Range(prefilling) /\ A \subseteq B /\ E = B \ A
  /\ active' = active \cup A /\ pending' = pending \ E
  /\ UNCHANGED <<chan, deferred, stalled>>

(* Jobs that leave the prefill list run or end.                            *)
LEMMA LeaveKeeps ==
  ASSUME IInv, NEW B, NEW A, NEW E, Leave(B, A, E), Counters', BudgetLeft'
  PROVE  IInv'
<1>1. Counters /\ Listed /\ InHands /\ NoTwins
  BY DEF IInv
<1> DEFINE C == Range(chan)
           D == Range(deferred)
           P == Range(prefilling)
           W == Waiting(stalled)
<1>2. /\ Lists(chan, C) /\ Lists(deferred, D) /\ Lists(prefilling, P)
      /\ active \subseteq Jobs /\ stalled \in Jobs \cup {None}
      /\ Hands(C, D, P, active, W, pending) /\ P \subseteq Jobs
  BY <1>1, Lists0
<1>3. /\ Lists(prefilling', P \ B) /\ B \subseteq P /\ A \subseteq B /\ E = B \ A
      /\ active' = active \cup A /\ pending' = pending \ E
      /\ chan' = chan /\ deferred' = deferred /\ stalled' = stalled
  BY DEF Leave
<1>4. Waiting(stalled') = W
  BY <1>3
<1>5. NoTwins'
  <2>1. Range(prefilling') = P \ B
    BY <1>3, ListsRange
  <2>2. QED
    BY <1>1, <2>1, TwinsStayOut
<1> HIDE DEF C, D, P, W
<1>6. Hands(C, D, P \ B, active', W, pending') /\ active' \subseteq Jobs
  BY <1>2, <1>3 DEF Hands
<1>7. Lists(chan', C) /\ Lists(deferred', D) /\ stalled' \in Jobs \cup {None}
  BY <1>2, <1>3
<1>8. Listed' /\ InHands'
  BY <1>3, <1>4, <1>6, <1>7, Reassemble
<1>9. QED
  BY <1>5, <1>8 DEF IInv

(* The batch and the others share the prefill list.                        *)
LEMMA BatchParts ==
  ASSUME Listed, NEW P, P = Range(prefilling)
  PROVE  /\ Lists(Batch, Range(Batch)) /\ Range(Batch) \subseteq P
         /\ Lists(Others, P \ Range(Batch))
<1> DEFINE n == Len(prefilling)
           A == BatchAt
           X == {prefilling[i] : i \in A}
           Y == {prefilling[i] : i \in (1..n) \ A}
<1>1. Lists(prefilling, P)
  BY DEF Listed
<1>2. A \subseteq 1..n /\ (1..n) \ A \subseteq 1..n
  BY BatchChosen DEF Listed
<1>3. Lists(Batch, X) /\ X \subseteq P
  BY <1>1, <1>2, ListsAt DEF Batch
<1>4. Lists(Others, Y)
  BY <1>1, <1>2, ListsAt DEF Others
<1>5. Y = P \ X
  <2>1. /\ \A i \in 1..n : prefilling[i] \in P
        /\ \A x \in P : \E i \in 1..n : prefilling[i] = x
        /\ \A i, k \in 1..n : prefilling[i] = prefilling[k] => i = k
    BY <1>1 DEF Lists
  <2> HIDE DEF n, A
  <2>2. Y \subseteq P \ X
    BY <1>2, <2>1
  <2>3. P \ X \subseteq Y
    BY <1>2, <2>1
  <2>4. QED
    BY <2>2, <2>3
<1> HIDE DEF X, Y
<1>6. Range(Batch) = X
  BY <1>3, ListsRange
<1>7. QED
  BY <1>3, <1>4, <1>5, <1>6

(* PrefillBatch: the batch's jobs start.                                   *)
LEMMA PrefillBatchKeeps ==
  ASSUME IInv, NEW E, PrefillBatch(E)
  PROVE  IInv'
<1> DEFINE B == Range(Batch)
<1>1. Counters /\ Listed /\ InHands /\ BudgetLeft /\ active \subseteq Jobs
  BY DEF IInv, Listed
<1>2. /\ Start(B, E) /\ prefilling' = Others /\ pc' = "round"
      /\ UNCHANGED <<chan, deferred, stalled>>
  BY DEF PrefillBatch
<1>3. B \subseteq Range(prefilling) /\ Lists(Others, Range(prefilling) \ B)
  BY <1>1, BatchParts
<1> HIDE DEF B
<1>4. B \subseteq Jobs \ active
  <2>1. Range(prefilling) \subseteq Jobs \ active
    BY <1>1, Lists0
  <2>2. QED
    BY <1>3, <2>1
<1>5. /\ Counters' /\ BudgetLeft' /\ E \subseteq B
      /\ active' = active \cup (B \ E) /\ pending' = pending \ E
  BY <1>1, <1>2, <1>4, StartKeeps
<1>6. Leave(B, B \ E, E)
  BY <1>2, <1>3, <1>5 DEF Leave
<1>7. QED
  BY <1>5, <1>6, LeaveKeeps

(* BatchFails: the batch's jobs end.                                       *)
LEMMA BatchFailsKeeps ==
  ASSUME IInv, BatchFails
  PROVE  IInv'
<1> DEFINE B == Range(Batch)
<1>1. Counters /\ Listed /\ InHands /\ BudgetLeft
  BY DEF IInv
<1>2. /\ End(B) /\ rem' = Cleared(rem, B) /\ prefilling' = Others /\ pc' = "round"
      /\ UNCHANGED <<chan, deferred, stalled, active, sent>>
  BY DEF BatchFails
<1>3. B \subseteq Range(prefilling) /\ Lists(Others, Range(prefilling) \ B)
  BY <1>1, BatchParts
<1> HIDE DEF B
<1>4. pending' = pending \ B /\ pending' \subseteq Jobs /\ cancel' \in [Jobs -> BOOLEAN]
  BY <1>1, <1>2, EndKeeps
<1>5. rem' \in [Jobs -> Nat] /\ \A j \in Jobs : rem'[j] <= rem[j]
  BY <1>1, <1>2, ClearedKeeps DEF Counters
<1>6. \A j \in Jobs : rem'[j] <= Rows[j]
  BY <1>1, <1>5, SchedulerAssumption DEF Counters
<1>7. Counters' /\ BudgetLeft'
  BY <1>1, <1>2, <1>4, <1>5, <1>6 DEF Counters, BudgetLeft
<1>8. Leave(B, {}, B)
  BY <1>2, <1>3, <1>4 DEF Leave
<1>9. QED
  BY <1>7, <1>8, LeaveKeeps

(* NoBatch: the list is put in another order, with nothing lost.           *)
LEMMA NoBatchKeeps ==
  ASSUME IInv, NoBatch
  PROVE  IInv'
<1>1. Counters /\ Listed /\ InHands /\ NoTwins /\ BudgetLeft
  BY DEF IInv
<1>2. /\ prefilling' = prefilling \/ prefilling' = Batch \o Others
      /\ pc' = "round"
      /\ UNCHANGED <<chan, deferred, stalled, active, rem, sent, cancel, pending>>
  BY DEF NoBatch
<1> DEFINE P == Range(prefilling)
           B == Range(Batch)
<1>3. Lists(prefilling, P) /\ Lists(Batch, B) /\ B \subseteq P /\ Lists(Others, P \ B)
  BY <1>1, BatchParts DEF Listed
<1>4. Lists(prefilling', P)
  <2> HIDE DEF P, B
  <2>1. Lists(Batch \o Others, B \cup (P \ B))
    BY <1>3, ListsConcat
  <2>2. B \cup (P \ B) = P
    BY <1>3
  <2>3. QED
    BY <1>2, <1>3, <2>1, <2>2
<1>5. Leave({}, {}, {})
  <2>1. P \ {} = P /\ active \cup {} = active /\ pending \ {} = pending /\ {} \ {} = {}
    OBVIOUS
  <2> HIDE DEF P
  <2>2. QED
    BY <1>2, <1>4, <2>1 DEF Leave, P
<1>6. Counters' /\ BudgetLeft'
  BY <1>1, <1>2 DEF Counters, BudgetLeft
<1>7. QED
  BY <1>5, <1>6, LeaveKeeps

(* ParkCancelled, ImagesFail and SegmentFails: the first prompt ends.      *)
LEMMA FirstEnds ==
  ASSUME IInv, prefilling # <<>>, prefilling' = Tail(prefilling),
         rem' = Cleared(rem, {First}), End({First}), pc' \in {"round", "reap"},
         UNCHANGED <<chan, deferred, stalled, active, sent>>
  PROVE  IInv'
<1>1. Counters /\ Listed /\ BudgetLeft
  BY DEF IInv
<1>2. First \in Range(prefilling) /\ Lists(prefilling', Range(prefilling) \ {First})
  BY <1>1, ListsTail DEF First, Listed
<1>3. pending' = pending \ {First} /\ pending' \subseteq Jobs /\ cancel' \in [Jobs -> BOOLEAN]
  BY <1>1, EndKeeps
<1>4. rem' \in [Jobs -> Nat] /\ \A j \in Jobs : rem'[j] <= rem[j]
  BY <1>1, ClearedKeeps DEF Counters
<1>5. \A j \in Jobs : rem'[j] <= Rows[j]
  <2> TAKE j \in Jobs
  <2>1. rem[j] \in Nat /\ Rows[j] \in Nat /\ rem[j] <= Rows[j]
    BY <1>1, SchedulerAssumption DEF Counters
  <2>2. rem'[j] \in Nat /\ rem'[j] <= rem[j]
    BY <1>4
  <2>3. QED
    BY <2>1, <2>2
<1>6. Counters' /\ BudgetLeft'
  BY <1>1, <1>3, <1>4, <1>5 DEF Counters, BudgetLeft
<1>7. Leave({First}, {}, {First})
  BY <1>2, <1>3 DEF Leave
<1>8. QED
  BY <1>6, <1>7, LeaveKeeps

(* Segment: the first prompt goes to the back.                             *)
LEMMA SegmentKeeps ==
  ASSUME IInv, NEW r \in Nat, Segment(r)
  PROVE  IInv'
<1>1. Counters /\ Listed /\ InHands /\ BudgetLeft
  BY DEF IInv
<1>2. /\ prefilling # <<>> /\ r \in 1..(rem[First] - SegRows)
      /\ prefilling' = Append(Tail(prefilling), First)
      /\ rem' = [rem EXCEPT ![First] = r] /\ pc' \in {"round", "reap"}
      /\ UNCHANGED <<chan, deferred, stalled, active, sent, cancel, pending>>
  BY DEF Segment, Turn, AfterPass
<1> DEFINE P == Range(prefilling)
<1>3. First \in P /\ Lists(Tail(prefilling), P \ {First})
  BY <1>1, <1>2, ListsTail DEF First, Listed
<1>4. P \subseteq Jobs
  BY <1>1, Lists0
<1>5. Lists(prefilling', P)
  <2> HIDE DEF P
  <2>1. Lists(prefilling', (P \ {First}) \cup {First})
    BY <1>2, <1>3, <1>4, ListsAppend
  <2>2. (P \ {First}) \cup {First} = P
    BY <1>3
  <2>3. QED
    BY <2>1, <2>2
<1>6. Leave({}, {}, {})
  <2>1. P \ {} = P /\ active \cup {} = active /\ pending \ {} = pending /\ {} \ {} = {}
    OBVIOUS
  <2> HIDE DEF P
  <2>2. QED
    BY <1>2, <1>5, <2>1 DEF Leave, P
<1>7. First \in Jobs
  BY <1>3, <1>4
<1>8. rem' \in [Jobs -> Nat] /\ \A j \in Jobs : rem'[j] <= Rows[j]
  <2>1. rem[First] \in Nat /\ Rows[First] \in Nat /\ rem[First] <= Rows[First] /\ SegRows \in Nat
    BY <1>1, <1>7, SchedulerAssumption DEF Counters
  <2>2. r <= Rows[First]
    BY <1>2, <2>1
  <2>3. QED
    BY <1>1, <1>2, <1>7, <2>2 DEF Counters
<1>9. Counters' /\ BudgetLeft'
  BY <1>1, <1>2, <1>8 DEF Counters, BudgetLeft
<1>10. QED
  BY <1>6, <1>9, LeaveKeeps

(* LastSegment: the first prompt's request starts.                         *)
LEMMA LastSegmentKeeps ==
  ASSUME IInv, NEW E, LastSegment(E)
  PROVE  IInv'
<1> DEFINE P == Range(prefilling)
<1>1. Counters /\ Listed /\ InHands /\ BudgetLeft /\ active \subseteq Jobs
  BY DEF IInv, Listed
<1>2. /\ prefilling # <<>> /\ prefilling' = Tail(prefilling) /\ Start({First}, E)
      /\ pc' \in {"round", "reap"}
      /\ UNCHANGED <<chan, deferred, stalled>>
  BY DEF LastSegment, Turn, AfterPass
<1>3. First \in P /\ Lists(prefilling', P \ {First})
  BY <1>1, <1>2, ListsTail DEF First, Listed
<1>4. {First} \subseteq Jobs \ active
  <2>1. P \subseteq Jobs \ active
    BY <1>1, Lists0
  <2> HIDE DEF P
  <2>2. QED
    BY <1>3, <2>1
<1>5. /\ Counters' /\ BudgetLeft' /\ E \subseteq {First}
      /\ active' = active \cup ({First} \ E) /\ pending' = pending \ E
  BY <1>1, <1>2, <1>4, StartKeeps
<1>6. Leave({First}, {First} \ E, E)
  BY <1>2, <1>3, <1>5 DEF Leave
<1>7. QED
  BY <1>5, <1>6, LeaveKeeps

\* A step that only ends active jobs.
Finish(E) ==
  /\ E \subseteq active /\ active' = active \ E /\ pending' = pending \ E
  /\ pending' \subseteq Jobs /\ cancel' \in [Jobs -> BOOLEAN] /\ pc' \in {"admit", "decode"}
  /\ UNCHANGED <<chan, deferred, stalled, prefilling, rem>>

(* Reap, Decode and DecodeFails: active jobs end.                          *)
LEMMA FinishKeeps ==
  ASSUME IInv, NEW E, Finish(E), sent' \in [Jobs -> Nat], BudgetLeft'
  PROVE  IInv'
<1>1. Counters /\ Listed /\ InHands /\ NoTwins
  BY DEF IInv
<1> DEFINE C == Range(chan)
           D == Range(deferred)
           P == Range(prefilling)
           W == Waiting(stalled)
<1>2. /\ Lists(chan, C) /\ Lists(deferred, D) /\ Lists(prefilling, P)
      /\ active \subseteq Jobs /\ stalled \in Jobs \cup {None}
      /\ Hands(C, D, P, active, W, pending)
  BY <1>1, Lists0
<1>3. /\ E \subseteq active /\ active' = active \ E /\ pending' = pending \ E
      /\ pending' \subseteq Jobs /\ cancel' \in [Jobs -> BOOLEAN]
      /\ pc' \in {"admit", "decode"}
      /\ UNCHANGED <<chan, deferred, stalled, prefilling, rem>>
  BY DEF Finish
<1>4. Waiting(stalled') = W
  BY <1>3
<1> HIDE DEF C, D, P, W
<1>5. Hands(C, D, P, active', W, pending') /\ active' \subseteq Jobs
  BY <1>2, <1>3 DEF Hands
<1>6. Lists(chan', C) /\ Lists(deferred', D) /\ Lists(prefilling', P)
      /\ stalled' \in Jobs \cup {None}
  BY <1>2, <1>3
<1>7. Listed' /\ InHands'
  BY <1>4, <1>5, <1>6, Reassemble
<1>8. Counters' /\ NoTwins'
  BY <1>1, <1>3 DEF Counters, NoTwins
<1>9. QED
  BY <1>7, <1>8 DEF IInv

(* Reap: the cancelled requests end.                                       *)
LEMMA ReapKeeps ==
  ASSUME IInv, Reap
  PROVE  IInv'
<1> DEFINE gone == {j \in active : cancel[j]}
<1>1. /\ active' = active \ gone /\ sent' = Cleared(sent, gone) /\ End(gone)
      /\ pc' \in {"admit", "decode"}
      /\ UNCHANGED <<chan, deferred, stalled, prefilling, rem>>
  BY DEF Reap
<1>2. gone \subseteq active
  OBVIOUS
<1> HIDE DEF gone
<1>3. Counters /\ BudgetLeft /\ active \subseteq Jobs
  BY DEF IInv, Listed
<1>4. /\ sent' \in [Jobs -> Nat] /\ \A j \in Jobs : j \notin gone => sent'[j] = sent[j]
  BY <1>1, <1>3, ClearedKeeps DEF Counters
<1>5. BudgetLeft'
  BY <1>1, <1>3, <1>4 DEF BudgetLeft
<1>6. pending' = pending \ gone /\ pending' \subseteq Jobs /\ cancel' \in [Jobs -> BOOLEAN]
  BY <1>1, <1>3, EndKeeps
<1>7. Finish(gone)
  BY <1>1, <1>2, <1>6 DEF Finish
<1>8. QED
  BY <1>4, <1>5, <1>7, FinishKeeps

(* Decode: no request that goes on has its budget spent.                   *)
LEMMA DecodeKeeps ==
  ASSUME IInv, NEW n \in [active -> 1..Run], NEW E, E \subseteq active, Decode(n, E)
  PROVE  IInv'
<1>1. /\ \A j \in active : n[j] <= MaxTokens[j] - sent[j]
      /\ \A j \in active : n[j] = MaxTokens[j] - sent[j] => j \in E
      /\ active' = active \ E
      /\ sent' = [j \in Jobs |-> IF j \in E THEN 0
                                 ELSE IF j \in active THEN sent[j] + n[j] ELSE sent[j]]
      /\ End(E) /\ pc' = "admit"
      /\ UNCHANGED <<chan, deferred, stalled, prefilling, rem>>
  BY DEF Decode
<1>2. /\ Counters /\ BudgetLeft /\ active \subseteq Jobs /\ sent \in [Jobs -> Nat]
      /\ \A j \in Jobs : MaxTokens[j] \in Nat
  BY SchedulerAssumption DEF IInv, Listed, Counters
<1>3. \A j \in active : n[j] \in Nat /\ n[j] >= 1
  BY SchedulerAssumption
<1>4. sent' \in [Jobs -> Nat]
  BY <1>1, <1>2, <1>3
<1>5. ASSUME NEW j \in active' PROVE sent'[j] \in 1..(MaxTokens[j] - 1)
  <2>1. j \in active /\ j \notin E /\ j \in Jobs /\ sent'[j] = sent[j] + n[j]
    BY <1>1, <1>2, <1>5
  <2>2. /\ sent[j] \in Nat /\ n[j] \in Nat /\ n[j] >= 1 /\ MaxTokens[j] \in Nat
        /\ n[j] <= MaxTokens[j] - sent[j] /\ n[j] # MaxTokens[j] - sent[j]
    BY <1>1, <1>2, <1>3, <2>1
  <2>3. QED
    BY <2>1, <2>2
<1>6. BudgetLeft'
  BY <1>5 DEF BudgetLeft
<1>7. pending' = pending \ E /\ pending' \subseteq Jobs /\ cancel' \in [Jobs -> BOOLEAN]
  BY <1>1, <1>2, EndKeeps
<1>8. Finish(E)
  BY <1>1, <1>7 DEF Finish
<1>9. QED
  BY <1>4, <1>6, <1>8, FinishKeeps

(* DecodeFails: every active request ends.                                 *)
LEMMA DecodeFailsKeeps ==
  ASSUME IInv, DecodeFails
  PROVE  IInv'
<1>1. /\ active' = {} /\ sent' = Cleared(sent, active) /\ End(active) /\ pc' = "admit"
      /\ UNCHANGED <<chan, deferred, stalled, prefilling, rem>>
  BY DEF DecodeFails
<1>2. Counters
  BY DEF IInv
<1>3. sent' \in [Jobs -> Nat]
  BY <1>1, <1>2, ClearedKeeps DEF Counters
<1>4. pending' = pending \ active /\ pending' \subseteq Jobs /\ cancel' \in [Jobs -> BOOLEAN]
  BY <1>1, <1>2, EndKeeps
<1>5. Finish(active) /\ BudgetLeft'
  BY <1>1, <1>4 DEF Finish, BudgetLeft
<1>6. QED
  BY <1>3, <1>5, FinishKeeps
-----------------------------------------------------------------------------
(* The invariant.                                                          *)

(* Every step keeps the invariant.                                         *)
LEMMA StepKeeps ==
  ASSUME IInv, [Next]_vars
  PROVE  IInv'
<1>0. Counters /\ cancel \in [Jobs -> BOOLEAN]
      /\ pc \in {"admit", "batch", "round", "reap", "decode"}
  BY DEF IInv, Counters
<1>1. CASE UNCHANGED vars
  BY <1>0, <1>1, QuietKeeps DEF vars
<1>2. CASE DropCancelled
  BY <1>2, TakenEnds DEF DropCancelled
<1>3. CASE AdmitFails
  BY <1>3, TakenEnds DEF AdmitFails, Candidate
<1>4. CASE Refuse
  BY <1>4, TakenEnds DEF Refuse, Candidate
<1>5. CASE Defer \/ Stall
  BY <1>5, DeferKeeps, StallKeeps
<1>6. CASE AdmitDone \/ RoundDone
  BY <1>0, <1>6, QuietKeeps DEF AdmitDone, RoundDone
<1>7. ASSUME NEW r \in 1..MaxRows, AdmitPrefill(r) \/ Segment(r)
      PROVE  IInv'
  <2>1. CASE AdmitPrefill(r)
    <3>1. r \in Nat
      BY <2>1 DEF AdmitPrefill
    <3>2. QED
      BY <2>1, <3>1, AdmitPrefillKeeps
  <2>2. CASE Segment(r)
    <3>1. r \in Nat
      BY <2>2 DEF Segment
    <3>2. QED
      BY <2>2, <3>1, SegmentKeeps
  <2>3. QED
    BY <1>7, <2>1, <2>2
<1>8. ASSUME NEW E \in SUBSET Jobs, AdmitExact(E) \/ PrefillBatch(E) \/ LastSegment(E)
      PROVE  IInv'
  BY <1>8, AdmitExactKeeps, PrefillBatchKeeps, LastSegmentKeeps
<1>9. CASE BatchFails \/ NoBatch
  BY <1>9, BatchFailsKeeps, NoBatchKeeps
<1>10. CASE ParkCancelled \/ ImagesFail \/ SegmentFails
  <2>1. /\ prefilling # <<>> /\ prefilling' = Tail(prefilling)
        /\ rem' = Cleared(rem, {First}) /\ End({First}) /\ pc' \in {"round", "reap"}
        /\ UNCHANGED <<chan, deferred, stalled, active, sent>>
    BY <1>10 DEF ParkCancelled, ImagesFail, SegmentFails, Turn, AfterPass
  <2>2. QED
    BY <2>1, FirstEnds
<1>11. CASE Reap \/ DecodeFails
  BY <1>11, ReapKeeps, DecodeFailsKeeps
<1>12. ASSUME NEW n \in [active -> 1..Run], NEW E \in SUBSET active, Decode(n, E)
       PROVE  IInv'
  BY <1>12, DecodeKeeps
<1>13. ASSUME NEW j \in Jobs, Submit(j) \/ Cancel(j)
       PROVE  IInv'
  <2>1. CASE Submit(j)
    BY <2>1, SubmitKeeps
  <2>2. CASE Cancel(j)
    <3>1. cancel' \in [Jobs -> BOOLEAN]
      BY <1>0, <2>2 DEF Cancel
    <3>2. QED
      BY <1>0, <2>2, <3>1, QuietKeeps DEF Cancel
  <2>3. QED
    BY <1>13, <2>1, <2>2
<1>14. QED
  BY <1>1, <1>2, <1>3, <1>4, <1>5, <1>6, <1>7, <1>8, <1>9, <1>10, <1>11, <1>12, <1>13
     DEF Next, Loop

(* It holds at first.                                                      *)
LEMMA InitHolds == Init => IInv
<1> SUFFICES ASSUME Init PROVE IInv
  OBVIOUS
<1>1. Lists(<<>>, {}) /\ Range(<<>>) = {}
  <2>1. Lists(<<>>, {})
    BY DEF Lists
  <2>2. QED
    BY <2>1, ListsRange
<1>2. Listed /\ InHands
  BY <1>1 DEF Init, Listed, InHands, Hands, Waiting
<1>3. Counters
  BY SchedulerAssumption DEF Init, Counters
<1>4. NoTwins /\ BudgetLeft
  BY <1>1 DEF Init, NoTwins, BudgetLeft
<1>5. QED
  BY <1>2, <1>3, <1>4 DEF IInv

(* The invariant holds of every behaviour.                                 *)
LEMMA InvariantHolds == Spec => []IInv
<1>1. Init => IInv
  BY InitHolds
<1>2. IInv /\ [Next]_vars => IInv'
  BY StepKeeps
<1>3. QED
  BY <1>1, <1>2, PTL DEF Spec

(* No job is lost and none is served twice (scheduler): whatever arrives,  *)
(* waits, stalls, fails or goes away, a job that was sent and not answered *)
(* to its end is in exactly one of the scheduler's hands, any other in     *)
(* none, and no two prompts that extend one another prefill together.      *)
THEOREM NoJobEverLost == Spec => []JobsKept
<1>1. ASSUME IInv PROVE JobsKept
  <2> DEFINE C == Range(chan)
             D == Range(deferred)
             P == Range(prefilling)
             W == Waiting(stalled)
  <2>1. /\ Lists(chan, C) /\ Lists(deferred, D) /\ Lists(prefilling, P)
        /\ active \subseteq Jobs /\ stalled \in Jobs \cup {None} /\ pending \subseteq Jobs
        /\ Hands(C, D, P, active, W, pending)
        /\ C \subseteq Jobs /\ D \subseteq Jobs /\ P \subseteq Jobs
    BY <1>1, Lists0 DEF IInv
  <2>2. TypeOK
    BY <1>1, <2>1 DEF IInv, Counters, TypeOK
  <2>3. ASSUME NEW j \in Jobs PROVE Places(j) = IF j \in pending THEN 1 ELSE 0
    <3> DEFINE c == Cardinality({i \in 1..Len(chan) : chan[i] = j})
               d == Cardinality({i \in 1..Len(deferred) : deferred[i] = j})
               p == Cardinality({i \in 1..Len(prefilling) : prefilling[i] = j})
    <3>1. c = IF j \in C THEN 1 ELSE 0
      BY <2>1, ListsCount
    <3>2. d = IF j \in D THEN 1 ELSE 0
      BY <2>1, ListsCount
    <3>3. p = IF j \in P THEN 1 ELSE 0
      BY <2>1, ListsCount
    <3>4. stalled = j <=> j \in W
      BY SchedulerAssumption DEF Waiting
    <3>5. Places(j) = c + d + p + (IF j \in active THEN 1 ELSE 0)
                        + (IF stalled = j THEN 1 ELSE 0)
      BY DEF Places
    <3> HIDE DEF c, d, p, C, D, P, W
    <3>6. QED
      BY <2>1, <3>1, <3>2, <3>3, <3>4, <3>5 DEF Hands
  <2>4. QED
    BY <1>1, <2>2, <2>3 DEF IInv, JobsKept, NoJobLost
<1>2. QED
  BY <1>1, InvariantHolds, PTL

(* A running request always has budget left, so that max - generated - 1,  *)
(* computed on unsigned integers (step_requests), is never below zero.     *)
THEOREM BudgetAlwaysLeft == Spec => []BudgetLeft
<1>1. IInv => BudgetLeft
  BY DEF IInv
<1>2. QED
  BY <1>1, InvariantHolds, PTL
=============================================================================
