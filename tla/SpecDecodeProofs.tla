-------------------------- MODULE SpecDecodeProofs --------------------------
(***************************************************************************)
(* Proofs about SpecDecode: for any requests, prompts, budgets, selection, *)
(* drafts, policies and copy windows, a request is sent what the target    *)
(* selects one token at a time, the drafter sees the rows of its tokens,   *)
(* and the copy index proposes what a search of the context would.         *)
(***************************************************************************)
EXTENDS SpecDecode, FiniteSetTheorems, SequenceTheorems, NaturalsInduction,
        WellFoundedInduction, TLAPS

\* The one hypothesis on the model: whatever the context, the target selects a
\* token of its vocabulary.
SelectsTokens == \A r \in Requests : \A ctx, n : Select(r, ctx, n) \in Token

\* The tokens of h after the first n are selections, from position gen on.
Chosen(r, h, n, gen) ==
  \A i \in 1..(Len(h) - n) : h[n + i] = Select(r, SubSeq(h, 1, n + i - 1), gen + i - 1)

\* t begins with s.
Begins(s, t) == Len(s) <= Len(t) /\ \A i \in 1..Len(s) : t[i] = s[i]

\* The tokens of x are the prompt and then the target's selections.
Selected(r, x) ==
  /\ x.hist \in Seq(Token)
  /\ Len(x.hist) = Len(Prompt[r]) + x.gen
  /\ Begins(Prompt[r], x.hist)
  /\ Chosen(r, x.hist, Len(Prompt[r]), 0)

\* Its rows are those of its tokens but the last, and of no others while it
\* runs.
Rows(r, x) ==
  /\ x.kv \in Seq(Token)
  /\ Len(x.kv) < Len(Prompt[r]) + Budget[r]
  /\ x.st # "failed" =>
       /\ Len(x.hist) - 1 <= Len(x.kv)
       /\ \A i \in 1..(Len(x.hist) - 1) : x.kv[i] = x.hist[i]
  /\ x.st = "active" => Len(x.kv) = Len(x.hist) - 1

\* What holds of every request that was started.
ReqInv(r, x) ==
  /\ x.st \in {"active", "ended", "failed"}
  /\ x.gen \in Nat /\ 1 <= x.gen /\ x.gen <= Budget[r]
  /\ x.st = "active" => x.gen < Budget[r]
  /\ Selected(r, x)
  /\ Rows(r, x)

Inv ==
  /\ req = [r \in Requests |-> req[r]]
  /\ \A r \in Requests : req[r] = Waiting \/ ReqInv(r, req[r])

-----------------------------------------------------------------------------
(* Sequences.                                                              *)

\* g selects tokens of T after the rows of block b, and agrees with its first
\* `a` drafts.
Agrees(U, T, b, g, a) ==
  /\ b \in Seq(U) /\ g \in [1..Len(b) -> T] /\ a \in 0..(Len(b) - 1)
  /\ \A j \in 1..a : b[j + 1] = g[j]

\* Out is the target's selection of the accepted rows.
LEMMA OutIsSelection ==
  ASSUME NEW U, NEW T, NEW b, NEW g, NEW a, Agrees(U, T, b, g, a)
  PROVE  /\ Out(b, g, a) \in Seq(T)
         /\ Len(Out(b, g, a)) = a + 1
         /\ \A i \in 1..(a + 1) : Out(b, g, a)[i] = g[i]
  <1> DEFINE s == SubSeq(b, 2, a + 1)
             t == <<g[a + 1]>>
  <1>a. /\ b \in Seq(U) /\ g \in [1..Len(b) -> T] /\ a \in 0..(Len(b) - 1)
        /\ \A j \in 1..a : b[j + 1] = g[j]
    BY DEF Agrees
  <1>0. Len(b) \in Nat /\ a \in Nat /\ a + 1 <= Len(b)
    BY <1>a, LenProperties
  <1>1. \A i \in 2..(a + 1) : b[i] \in T
    <2> TAKE i \in 2..(a + 1)
    <2>1. i - 1 \in 1..a /\ i - 1 \in 1..Len(b) /\ (i - 1) + 1 = i
      BY <1>0
    <2> QED BY <2>1, <1>a
  <1>2. /\ s \in Seq(T)
        /\ Len(s) = IF 2 <= a + 1 THEN (a + 1) - 2 + 1 ELSE 0
        /\ \A i \in 1..((a + 1) - 2 + 1) : s[i] = b[2 + i - 1]
    BY <1>0, <1>1, SubSeqProperties
  <1>3. s \in Seq(T) /\ Len(s) = a /\ \A i \in 1..a : s[i] = g[i]
    <2>1. Len(s) = a
      BY <1>0, <1>2
    <2>2. \A i \in 1..a : s[i] = g[i]
      <3> TAKE i \in 1..a
      <3>1. i \in 1..((a + 1) - 2 + 1) /\ 2 + i - 1 = i + 1
        BY <1>0
      <3> QED BY <3>1, <1>2, <1>a
    <2> QED BY <1>2, <2>1, <2>2
  <1>4. t \in Seq(T) /\ Len(t) = 1 /\ t[1] = g[a + 1]
    <2>1. g[a + 1] \in T
      BY <1>0, <1>a
    <2> QED BY <2>1
  <1>5. Out(b, g, a) = s \o t
    BY DEF Out
  <1> HIDE DEF s, t
  <1>6. /\ s \o t \in Seq(T)
        /\ Len(s \o t) = Len(s) + Len(t)
        /\ \A i \in 1..(Len(s) + Len(t)) :
             (s \o t)[i] = IF i <= Len(s) THEN s[i] ELSE t[i - Len(s)]
    BY <1>3, <1>4, ConcatProperties
  <1>7. \A i \in 1..(a + 1) : (s \o t)[i] = g[i]
    <2> TAKE i \in 1..(a + 1)
    <2>1. CASE i <= a
      <3>1. i \in 1..a /\ i \in 1..(Len(s) + Len(t)) /\ i <= Len(s)
        BY <2>1, <1>0, <1>3, <1>4
      <3>2. (s \o t)[i] = s[i]
        BY <3>1, <1>6
      <3>3. s[i] = g[i]
        BY <3>1, <1>3
      <3> QED BY <3>2, <3>3
    <2>2. CASE i = a + 1
      <3>1. i - Len(s) = 1 /\ ~(i <= Len(s))
        BY <2>2, <1>0, <1>3
      <3> QED BY <3>1, <2>2, <1>0, <1>3, <1>4, <1>6
    <2>3. i <= a \/ i = a + 1
      BY <1>0
    <2> QED BY <2>1, <2>2, <2>3
  <1> QED BY <1>3, <1>4, <1>5, <1>6, <1>7

\* The tokens h followed by the first n of `out`.
LEMMA HistoryGrows ==
  ASSUME NEW T, NEW h \in Seq(T), NEW out \in Seq(T), NEW n \in 1..Len(out)
  PROVE  LET hh == h \o SubSeq(out, 1, n)
         IN  /\ hh \in Seq(T)
             /\ Len(hh) = Len(h) + n
             /\ \A i \in 1..Len(h) : hh[i] = h[i]
             /\ \A i \in 1..n : hh[Len(h) + i] = out[i]
  <1> DEFINE f == SubSeq(out, 1, n)
  <1>0. Len(h) \in Nat /\ Len(out) \in Nat /\ n \in Nat /\ 1 <= n
    BY LenProperties
  <1>1. \A i \in 1..n : out[i] \in T
    BY <1>0, ElementOfSeq
  <1>2. /\ f \in Seq(T)
        /\ Len(f) = IF 1 <= n THEN n - 1 + 1 ELSE 0
        /\ \A i \in 1..(n - 1 + 1) : f[i] = out[1 + i - 1]
    BY <1>0, <1>1, SubSeqProperties
  <1>3. Len(f) = n /\ \A i \in 1..n : f[i] = out[i]
    BY <1>0, <1>2
  <1> HIDE DEF f
  <1>4. /\ h \o f \in Seq(T)
        /\ Len(h \o f) = Len(h) + Len(f)
        /\ \A i \in 1..(Len(h) + Len(f)) :
             (h \o f)[i] = IF i <= Len(h) THEN h[i] ELSE f[i - Len(h)]
    BY <1>2, ConcatProperties
  <1>5. \A i \in 1..Len(h) : (h \o f)[i] = h[i]
    BY <1>0, <1>3, <1>4
  <1>6. \A i \in 1..n : (h \o f)[Len(h) + i] = out[i]
    <2> TAKE i \in 1..n
    <2>1. /\ Len(h) + i \in 1..(Len(h) + Len(f))
          /\ ~(Len(h) + i <= Len(h)) /\ (Len(h) + i) - Len(h) = i
      BY <1>0, <1>3
    <2> QED BY <2>1, <1>3, <1>4
  <1> QED BY <1>3, <1>4, <1>5, <1>6 DEF f

\* The rows `kv` and then block b are the tokens of hh, as far as b's tokens
\* after its first are those of hh.
LEMMA ContextIsHistory ==
  ASSUME NEW T, NEW U, T \subseteq U, NEW kv \in Seq(T), NEW b \in Seq(U), NEW hh \in Seq(T),
         NEW m \in 1..Len(b), Len(kv) + m <= Len(hh),
         \A i \in 1..Len(kv) : kv[i] = hh[i],
         \A j \in 1..m : b[j] = hh[Len(kv) + j]
  PROVE  /\ kv \o SubSeq(b, 1, m) = SubSeq(hh, 1, Len(kv) + m)
         /\ SubSeq(kv \o b, 1, Len(kv) + m) = SubSeq(hh, 1, Len(kv) + m)
         /\ Len(SubSeq(hh, 1, Len(kv) + m)) = Len(kv) + m
  <1> DEFINE k == Len(kv)
             f == SubSeq(b, 1, m)
             l == SubSeq(hh, 1, k + m)
  <1>0. k \in Nat /\ Len(b) \in Nat /\ Len(hh) \in Nat /\ m \in Nat /\ 1 <= m /\ k + m \in Nat
    BY LenProperties
  <1>1. \A i \in 1..m : b[i] \in T
    <2> TAKE i \in 1..m
    <2>1. k + i \in 1..Len(hh)
      BY <1>0
    <2> QED BY <2>1, ElementOfSeq
  <1>2. /\ f \in Seq(T)
        /\ Len(f) = IF 1 <= m THEN m - 1 + 1 ELSE 0
        /\ \A i \in 1..(m - 1 + 1) : f[i] = b[1 + i - 1]
    BY <1>0, <1>1, SubSeqProperties
  <1>3. Len(f) = m /\ \A i \in 1..m : f[i] = b[i]
    BY <1>0, <1>2
  <1>4. \A i \in 1..(k + m) : hh[i] \in T
    BY <1>0, ElementOfSeq
  <1>5. /\ l \in Seq(T)
        /\ Len(l) = IF 1 <= k + m THEN (k + m) - 1 + 1 ELSE 0
        /\ \A i \in 1..((k + m) - 1 + 1) : l[i] = hh[1 + i - 1]
    BY <1>0, <1>4, SubSeqProperties
  <1>6. Len(l) = k + m /\ \A i \in 1..(k + m) : l[i] = hh[i]
    BY <1>0, <1>5
  <1> HIDE DEF f, l
  <1>7. /\ kv \o f \in Seq(T)
        /\ Len(kv \o f) = k + Len(f)
        /\ \A i \in 1..(k + Len(f)) : (kv \o f)[i] = IF i <= k THEN kv[i] ELSE f[i - k]
    BY <1>2, ConcatProperties
  <1>8. \A i \in 1..(k + m) : (kv \o f)[i] = l[i]
    <2> TAKE i \in 1..(k + m)
    <2>1. CASE i <= k
      <3>1. i \in 1..k /\ i \in 1..(k + Len(f))
        BY <2>1, <1>0, <1>3
      <3>2. (kv \o f)[i] = kv[i]
        BY <2>1, <3>1, <1>7
      <3>3. l[i] = hh[i] /\ kv[i] = hh[i]
        BY <3>1, <1>6
      <3> QED BY <3>2, <3>3
    <2>2. CASE ~(i <= k)
      <3>1. i - k \in 1..m /\ k + (i - k) = i
        BY <2>2, <1>0
      <3> QED BY <3>1, <2>2, <1>3, <1>6, <1>7
    <2> QED BY <2>1, <2>2
  <1>9. kv \o f = l
    BY <1>3, <1>5, <1>6, <1>7, <1>8, SeqEqual
  <1>10. kv \in Seq(U)
    BY SeqMonotonic
  <1>11. /\ kv \o b \in Seq(U)
         /\ Len(kv \o b) = k + Len(b)
         /\ \A i \in 1..(k + Len(b)) : (kv \o b)[i] = IF i <= k THEN kv[i] ELSE b[i - k]
    BY <1>10, ConcatProperties
  <1> DEFINE q == SubSeq(kv \o b, 1, k + m)
  <1>12. \A i \in 1..(k + m) : (kv \o b)[i] = hh[i]
    <2> TAKE i \in 1..(k + m)
    <2>0. i \in 1..(k + Len(b))
      BY <1>0
    <2>1. CASE i <= k
      BY <2>0, <2>1, <1>0, <1>11
    <2>2. CASE ~(i <= k)
      <3>1. i - k \in 1..m /\ k + (i - k) = i
        BY <2>2, <1>0
      <3> QED BY <3>1, <2>0, <2>2, <1>11
    <2> QED BY <2>1, <2>2
  <1>a. \A i \in 1..(k + m) : (kv \o b)[i] \in T
    BY <1>4, <1>12
  <1>13. /\ q \in Seq(T)
         /\ Len(q) = IF 1 <= k + m THEN (k + m) - 1 + 1 ELSE 0
         /\ \A i \in 1..((k + m) - 1 + 1) : q[i] = (kv \o b)[1 + i - 1]
    BY <1>0, <1>a, SubSeqProperties
  <1>14. Len(q) = k + m /\ \A i \in 1..(k + m) : q[i] = (kv \o b)[i]
    BY <1>0, <1>13
  <1>15. \A i \in 1..(k + m) : q[i] = l[i]
    BY <1>6, <1>12, <1>14
  <1> HIDE DEF q
  <1>16. q = l
    BY <1>5, <1>6, <1>13, <1>14, <1>15, SeqEqual
  <1> QED BY <1>6, <1>9, <1>16 DEF f, l, q

\* Two sequences that agree up to n have the same prefix.
LEMMA PrefixSame ==
  ASSUME NEW T, NEW s \in Seq(T), NEW t \in Seq(T), NEW n \in Nat,
         n <= Len(s), n <= Len(t), \A i \in 1..n : s[i] = t[i]
  PROVE  /\ SubSeq(s, 1, n) = SubSeq(t, 1, n)
         /\ SubSeq(s, 1, n) \in Seq(T)
         /\ Len(SubSeq(s, 1, n)) = n
         /\ \A i \in 1..n : SubSeq(s, 1, n)[i] = s[i]
  <1> DEFINE u == SubSeq(s, 1, n)
             v == SubSeq(t, 1, n)
  <1>0. Len(s) \in Nat /\ Len(t) \in Nat
    BY LenProperties
  <1>1. \A i \in 1..n : s[i] \in T /\ t[i] \in T
    <2> TAKE i \in 1..n
    <2>1. i \in 1..Len(s) /\ i \in 1..Len(t)
      BY <1>0
    <2> QED BY <2>1, ElementOfSeq
  <1>2. /\ u \in Seq(T)
        /\ Len(u) = IF 1 <= n THEN n - 1 + 1 ELSE 0
        /\ \A i \in 1..(n - 1 + 1) : u[i] = s[1 + i - 1]
    BY <1>1, SubSeqProperties
  <1>3. /\ v \in Seq(T)
        /\ Len(v) = IF 1 <= n THEN n - 1 + 1 ELSE 0
        /\ \A i \in 1..(n - 1 + 1) : v[i] = t[1 + i - 1]
    BY <1>1, SubSeqProperties
  <1>4. Len(u) = n /\ Len(v) = n
    BY <1>2, <1>3
  <1>5. \A i \in 1..n : u[i] = s[i] /\ v[i] = t[i]
    BY <1>2, <1>3
  <1> HIDE DEF u, v
  <1>6. u = v
    BY <1>2, <1>3, <1>4, <1>5, SeqEqual
  <1> QED BY <1>2, <1>4, <1>5, <1>6 DEF u, v

\* Tokens h of an output of gen tokens, followed by m more selections.
LEMMA SelectedGrows ==
  ASSUME NEW r \in Requests, NEW p \in Seq(Token), NEW gen \in Nat,
         NEW h \in Seq(Token), NEW hh \in Seq(Token), Len(h) = Len(p) + gen,
         Begins(p, h), Begins(h, hh),
         Chosen(r, h, Len(p), 0), Chosen(r, hh, Len(h), gen)
  PROVE  Begins(p, hh) /\ Chosen(r, hh, Len(p), 0)
  <1> DEFINE P == Len(p)
             n == Len(h)
             N == Len(hh)
  <1>0. P \in Nat /\ n \in Nat /\ N \in Nat
    BY LenProperties
  <1>1. n = P + gen /\ n <= N
    BY DEF Begins
  <1>2. /\ \A i \in 1..P : h[i] = p[i]
        /\ \A i \in 1..n : hh[i] = h[i]
    BY DEF Begins
  <1>3. \A i \in 1..(n - P) : h[P + i] = Select(r, SubSeq(h, 1, P + i - 1), 0 + i - 1)
    BY DEF Chosen
  <1>4. \A i \in 1..(N - n) : hh[n + i] = Select(r, SubSeq(hh, 1, n + i - 1), gen + i - 1)
    BY DEF Chosen
  <1> HIDE DEF P, n, N
  <1>5. P <= N
    BY <1>0, <1>1
  <1>6. \A i \in 1..P : hh[i] = p[i]
    <2> TAKE i \in 1..P
    <2>1. i \in 1..n
      BY <1>0, <1>1
    <2> QED BY <2>1, <1>2
  <1>7. \A i \in 1..(N - P) : hh[P + i] = Select(r, SubSeq(hh, 1, P + i - 1), 0 + i - 1)
    <2> TAKE i \in 1..(N - P)
    <2>1. CASE i <= gen
      <3>1. i \in 1..(n - P) /\ P + i \in 1..n /\ P + i - 1 \in Nat
            /\ P + i - 1 <= n /\ P + i - 1 <= N
        BY <1>0, <1>1, <2>1
      <3>2. \A j \in 1..(P + i - 1) : hh[j] = h[j]
        <4> TAKE j \in 1..(P + i - 1)
        <4>1. j \in 1..n
          BY <3>1, <1>0
        <4> QED BY <4>1, <1>2
      <3>3. SubSeq(hh, 1, P + i - 1) = SubSeq(h, 1, P + i - 1)
        BY <3>1, <3>2, PrefixSame DEF n, N
      <3>4. hh[P + i] = h[P + i]
        BY <3>1, <1>2
      <3>5. h[P + i] = Select(r, SubSeq(h, 1, P + i - 1), 0 + i - 1)
        BY <3>1, <1>3
      <3> QED BY <3>3, <3>4, <3>5
    <2>2. CASE ~(i <= gen)
      <3> DEFINE j == i - gen
      <3>1. /\ j \in 1..(N - n) /\ P + i = n + j /\ P + i - 1 = n + j - 1
            /\ 0 + i - 1 = gen + j - 1
        BY <1>0, <1>1, <2>2
      <3> HIDE DEF j
      <3>2. hh[n + j] = Select(r, SubSeq(hh, 1, n + j - 1), gen + j - 1)
        BY <3>1, <1>4
      <3> QED BY <3>1, <3>2
    <2> QED BY <2>1, <2>2
  <1> QED BY <1>5, <1>6, <1>7 DEF P, N, Begins, Chosen
-----------------------------------------------------------------------------
(* One request's part of a step.                                           *)

\* The facts about a running request's fields.
LEMMA ActiveFacts ==
  ASSUME NEW r \in Requests, NEW x, ReqInv(r, x), x.st = "active"
  PROVE  /\ Prompt[r] \in Seq(Token) /\ Len(Prompt[r]) \in Nat /\ 1 <= Len(Prompt[r])
         /\ Budget[r] \in Nat /\ x.gen \in Nat /\ 1 <= x.gen /\ x.gen + 1 <= Budget[r]
         /\ x.hist \in Seq(Token) /\ x.kv \in Seq(Token)
         /\ Len(x.hist) \in Nat /\ Len(x.kv) \in Nat
         /\ Len(x.hist) = Len(Prompt[r]) + x.gen
         /\ Len(x.hist) = Len(x.kv) + 1
         /\ x.hist[Len(x.hist)] \in Token
         /\ \A i \in 1..Len(x.kv) : x.kv[i] = x.hist[i]
  <1>1. Prompt[r] \in Seq(Token) /\ Prompt[r] # <<>> /\ Budget[r] \in Nat
    BY SpecAssumption
  <1>2. Len(Prompt[r]) \in Nat /\ 1 <= Len(Prompt[r])
    <2>1. Len(Prompt[r]) \in Nat \ {0}
      BY <1>1, EmptySeq
    <2> QED BY <2>1
  <1>3. x.hist \in Seq(Token) /\ x.kv \in Seq(Token)
    BY DEF ReqInv, Selected, Rows
  <1>4. Len(x.hist) \in Nat /\ Len(x.kv) \in Nat
    BY <1>3, LenProperties
  <1>5. x.gen \in Nat /\ 1 <= x.gen /\ x.gen < Budget[r]
    BY DEF ReqInv
  <1>6. /\ Len(x.hist) = Len(Prompt[r]) + x.gen
        /\ Len(x.kv) = Len(x.hist) - 1
        /\ \A i \in 1..(Len(x.hist) - 1) : x.kv[i] = x.hist[i]
    BY DEF ReqInv, Selected, Rows
  <1>7. Len(x.hist) = Len(x.kv) + 1 /\ x.gen + 1 <= Budget[r] /\ Len(x.hist) \in 1..Len(x.hist)
    BY <1>1, <1>2, <1>4, <1>5, <1>6
  <1>8. x.hist[Len(x.hist)] \in Token
    BY <1>3, <1>7, ElementOfSeq
  <1> QED BY <1>1, <1>2, <1>3, <1>4, <1>5, <1>6, <1>7, <1>8

\* Drafts never go past the budget nor DRAFTS, whoever drafted them.
LEMMA DraftsAreShort ==
  ASSUME NEW r \in Requests, NEW x, ReqInv(r, x), x.st = "active", NEW d \in DraftsOf(r, x)
  PROVE  \E U : /\ Token \subseteq U /\ d \in Seq(U)
                /\ Len(d) + x.gen + 1 <= Budget[r] /\ Len(d) <= Drafts
  <1>1. Budget[r] \in Nat /\ x.gen \in Nat /\ x.gen + 1 <= Budget[r] /\ Drafts \in Nat
    BY ActiveFacts, SpecAssumption
  <1>2. /\ Allowed(r, x) \in Nat /\ Allowed(r, x) + x.gen + 1 <= Budget[r]
        /\ Allowed(r, x) <= Drafts
    BY <1>1 DEF Allowed, Least
  <1> DEFINE k == Allowed(r, x)
  <1> HIDE DEF k
  <1>3. CASE Copies(r, x) # <<>>
    <2> DEFINE idx == IndexAfter(x.index, x.hist, k)
               p == Best(x.hist, Tried(idx, idx.head[Gram(x.hist, Len(x.hist))]))
    <2>1. d = Copies(r, x)
      BY <1>3 DEF DraftsOf
    <2>2. d = CopyFrom(x.hist, p, k)
      BY <1>3, <2>1 DEF Copies, Propose, k
    <2> HIDE DEF p
    <2>3. d = [j \in 1..k |-> d[j]]
      <3> DEFINE f == CHOOSE out : out = [j \in 1..k |->
                   IF p + j <= Len(x.hist) THEN x.hist[p + j] ELSE out[p + j - Len(x.hist)]]
      <3>1. d = [j \in 1..k |-> f[j]]
        BY <2>2 DEF CopyFrom
      <3> HIDE DEF f
      <3> QED BY <3>1
    <2> DEFINE U == Token \cup {d[j] : j \in 1..k}
    <2>4. d \in [1..k -> U]
      BY <2>3
    <2>5. d \in Seq(U) /\ Len(d) = k
      BY <2>4, <1>2 DEF k
    <2>6. Token \subseteq U
      OBVIOUS
    <2> HIDE DEF U
    <2> QED BY <2>5, <2>6, <1>2 DEF k
  <1>4. CASE Copies(r, x) = <<>>
    <2>1. PICK n \in 0..k : d \in [1..n -> Token]
      BY <1>4 DEF DraftsOf, k
    <2>2. n \in Nat /\ n <= k
      BY <1>2 DEF k
    <2>3. d \in Seq(Token) /\ Len(d) = n
      BY <2>1, <2>2
    <2>4. Len(d) + x.gen + 1 <= Budget[r] /\ Len(d) <= Drafts
      BY <2>2, <2>3, <1>1, <1>2 DEF k
    <2> QED BY <2>3, <2>4
  <1> QED BY <1>3, <1>4

\* A block: the last token, then the drafts.
LEMMA BlockFacts ==
  ASSUME NEW U, NEW d \in Seq(U), NEW x, x.hist[Len(x.hist)] \in U
  PROVE  /\ Block(x, d) \in Seq(U)
         /\ Len(Block(x, d)) = Len(d) + 1
         /\ Block(x, d)[1] = x.hist[Len(x.hist)]
  <1> DEFINE l == x.hist[Len(x.hist)]
             t == <<l>>
  <1>1. t \in Seq(U) /\ Len(t) = 1 /\ t[1] = l
    OBVIOUS
  <1>2. Block(x, d) = t \o d
    BY DEF Block
  <1>3. Len(d) \in Nat
    BY LenProperties
  <1> HIDE DEF l, t
  <1>4. /\ t \o d \in Seq(U)
        /\ Len(t \o d) = Len(t) + Len(d)
        /\ \A i \in 1..(Len(t) + Len(d)) :
             (t \o d)[i] = IF i <= Len(t) THEN t[i] ELSE d[i - Len(t)]
    BY <1>1, ConcatProperties
  <1>5. 1 \in 1..(Len(t) + Len(d)) /\ 1 <= Len(t) /\ Len(t) + Len(d) = Len(d) + 1
    BY <1>1, <1>3
  <1>6. (t \o d)[1] = l
    BY <1>1, <1>4, <1>5
  <1> QED BY <1>2, <1>4, <1>5, <1>6 DEF l

\* A verified block's selections, accepted drafts and sent tokens.
LEMMA StepExact ==
  ASSUME SelectsTokens, NEW r \in Requests, NEW x, ReqInv(r, x), x.st = "active",
         NEW d \in DraftsOf(r, x),
         NEW a \in Accepts(Block(x, d), Selection(r, x, Block(x, d))),
         NEW s \in Sends(r, x, Out(Block(x, d), Selection(r, x, Block(x, d)), a))
  PROVE  ReqInv(r, Stepped(r, x, Block(x, d), a, s))
  <1> DEFINE b == Block(x, d)
             g == Selection(r, x, b)
             out == Out(b, g, a)
             h == x.hist
             kv == x.kv
             gen == x.gen
             m == s.n
             max == Budget[r]
             n == Len(h)
             k == Len(kv)
             P == Len(Prompt[r])
             L == Len(b)
             hf == h \o SubSeq(out, 1, a + 1)
             hh == h \o SubSeq(out, 1, m)
             y == Stepped(r, x, b, a, s)
  <1>1. /\ Prompt[r] \in Seq(Token) /\ h \in Seq(Token) /\ kv \in Seq(Token) /\ h[n] \in Token
        /\ \A i \in 1..k : kv[i] = h[i]
    BY ActiveFacts
  <1>2. /\ P \in Nat /\ 1 <= P /\ max \in Nat /\ gen \in Nat /\ 1 <= gen /\ gen + 1 <= max
        /\ n \in Nat /\ k \in Nat /\ n = P + gen /\ n = k + 1
    BY ActiveFacts
  <1>3. PICK U : Token \subseteq U /\ d \in Seq(U) /\ Len(d) + gen + 1 <= max
    BY DraftsAreShort
  <1>4. b \in Seq(U) /\ L = Len(d) + 1 /\ b[1] = h[n]
    <2>1. d \in Seq(U) /\ x.hist[Len(x.hist)] \in U
      BY <1>1, <1>3
    <2> QED BY <2>1, BlockFacts, Zenon
  <1>5. g \in [1..L -> Token] /\ \A j \in 1..L : g[j] = Select(r, kv \o SubSeq(b, 1, j), gen + j - 1)
    BY DEF Selection, SelectsTokens
  <1>6. a \in 0..(L - 1) /\ \A j \in 1..a : b[j + 1] = g[j]
    BY DEF Accepts
  <1>7. /\ m \in 1..Len(out) /\ s.done \in BOOLEAN
        /\ \A i \in 1..(m - 1) : ~(gen + i >= max)
        /\ ~s.done => ~(gen + m >= max) /\ ~(m < Len(out))
    BY DEF Sends, Stops
  <1>8. /\ y.st = State(s.done) /\ y.hist = hh /\ y.kv = SubSeq(kv \o b, 1, k + a + 1)
        /\ y.gen = gen + m
    BY DEF Stepped, Kept
  <1>9. Begins(Prompt[r], h) /\ Chosen(r, h, Len(Prompt[r]), 0)
    BY DEF ReqInv, Selected
  <1> HIDE DEF b, g, h, kv, gen, max, y, m
  <1>10. a \in Nat /\ L \in Nat /\ a + 1 <= L /\ a + gen + 1 <= max
    <2>1. L \in Nat /\ Len(d) \in Nat
      BY <1>3, <1>4, LenProperties
    <2> HIDE DEF L
    <2> QED BY <2>1, <1>2, <1>3, <1>4, <1>6
  <1>11. /\ out \in Seq(Token)
         /\ Len(out) = a + 1
         /\ \A i \in 1..(a + 1) : out[i] = g[i]
    <2>1. Agrees(U, Token, b, g, a)
      BY <1>4, <1>5, <1>6 DEF Agrees
    <2> HIDE DEF L, out
    <2>2. /\ Out(b, g, a) \in Seq(Token)
          /\ Len(Out(b, g, a)) = a + 1
          /\ \A i \in 1..(a + 1) : Out(b, g, a)[i] = g[i]
      BY <2>1, OutIsSelection
    <2> QED BY <2>2 DEF out
  <1> HIDE DEF out
  <1>12. m \in Nat /\ 1 <= m /\ m <= a + 1 /\ m \in 1..Len(out) /\ a + 1 \in 1..Len(out)
    BY <1>7, <1>10, <1>11
  <1>13. /\ hf \in Seq(Token) /\ Len(hf) = n + (a + 1)
         /\ \A i \in 1..n : hf[i] = h[i]
         /\ \A i \in 1..(a + 1) : hf[n + i] = out[i]
    BY <1>1, <1>11, <1>12, HistoryGrows
  <1>14. /\ hh \in Seq(Token) /\ Len(hh) = n + m
         /\ \A i \in 1..n : hh[i] = h[i]
         /\ \A i \in 1..m : hh[n + i] = out[i]
    BY <1>1, <1>11, <1>12, HistoryGrows
  <1> HIDE DEF hf, hh, n, k, P, L
  <1>15. \A i \in 1..(n + m) : hf[i] = hh[i]
    <2> TAKE i \in 1..(n + m)
    <2>1. CASE i <= n
      <3>1. i \in 1..n
        BY <2>1, <1>2
      <3> QED BY <3>1, <1>13, <1>14
    <2>2. CASE ~(i <= n)
      <3>1. i - n \in 1..m /\ i - n \in 1..(a + 1) /\ n + (i - n) = i
        BY <2>2, <1>2, <1>10, <1>12
      <3>2. hf[i] = out[i - n] /\ hh[i] = out[i - n]
        BY <3>1, <1>13, <1>14
      <3> QED BY <3>2
    <2> QED BY <2>1, <2>2
  <1>16. \A i \in 1..k : kv[i] = hf[i]
    <2> TAKE i \in 1..k
    <2>1. i \in 1..n
      BY <1>2
    <2> QED BY <2>1, <1>1, <1>13
  <1>17. \A j \in 1..(a + 1) : b[j] = hf[k + j]
    <2> TAKE j \in 1..(a + 1)
    <2>1. CASE j = 1
      <3>1. k + j = n /\ n \in 1..n
        BY <2>1, <1>2
      <3> QED BY <2>1, <3>1, <1>4, <1>13
    <2>2. CASE j # 1
      <3>1. /\ j - 1 \in 1..a /\ j - 1 \in 1..(a + 1)
            /\ (j - 1) + 1 = j /\ n + (j - 1) = k + j
        BY <2>2, <1>2, <1>10
      <3>2. b[j] = g[j - 1]
        BY <3>1, <1>6
      <3>3. hf[k + j] = g[j - 1]
        BY <3>1, <1>11, <1>13
      <3> QED BY <3>2, <3>3
    <2> QED BY <2>1, <2>2
  <1>18. \A i \in 1..(a + 1) :
           /\ kv \o SubSeq(b, 1, i) = SubSeq(hf, 1, k + i)
           /\ SubSeq(kv \o b, 1, k + i) = SubSeq(hf, 1, k + i)
    <2> TAKE i \in 1..(a + 1)
    <2>1. i \in 1..L /\ k + i <= n + (a + 1)
      BY <1>2, <1>10
    <2>2. i \in 1..Len(b) /\ Len(kv) + i <= Len(hf)
      BY <2>1, <1>13 DEF L, k
    <2>3. \A j \in 1..i : b[j] = hf[Len(kv) + j]
      <3> TAKE j \in 1..i
      <3>1. j \in 1..(a + 1)
        BY <1>10
      <3> QED BY <3>1, <1>17 DEF k
    <2>4. \A j \in 1..Len(kv) : kv[j] = hf[j]
      BY <1>16 DEF k
    <2>5. /\ kv \o SubSeq(b, 1, i) = SubSeq(hf, 1, Len(kv) + i)
          /\ SubSeq(kv \o b, 1, Len(kv) + i) = SubSeq(hf, 1, Len(kv) + i)
      <3>1. Token \subseteq U /\ kv \in Seq(Token) /\ b \in Seq(U) /\ hf \in Seq(Token)
        BY <1>1, <1>3, <1>4, <1>13
      <3> QED BY <2>2, <2>3, <2>4, <3>1, ContextIsHistory
    <2> QED BY <2>5 DEF k
  <1>19. \A i \in 1..m : hh[n + i] = Select(r, SubSeq(hh, 1, n + i - 1), gen + i - 1)
    <2> TAKE i \in 1..m
    <2>1. /\ i \in 1..(a + 1) /\ i \in 1..L /\ k + i = n + i - 1 /\ k + i \in Nat
          /\ k + i <= n + (a + 1) /\ k + i <= n + m
      BY <1>2, <1>10, <1>12
    <2>2. \A j \in 1..(k + i) : hf[j] = hh[j]
      <3> TAKE j \in 1..(k + i)
      <3>1. j \in 1..(n + m)
        BY <2>1, <1>2, <1>12
      <3> QED BY <3>1, <1>15
    <2>3. SubSeq(hf, 1, k + i) = SubSeq(hh, 1, k + i)
      <3>1. k + i <= Len(hf) /\ k + i <= Len(hh)
        BY <2>1, <1>13, <1>14
      <3> QED BY <2>1, <2>2, <3>1, <1>13, <1>14, PrefixSame
    <2>4. kv \o SubSeq(b, 1, i) = SubSeq(hf, 1, k + i)
      BY <2>1, <1>18
    <2>5. hh[n + i] = g[i]
      BY <2>1, <1>11, <1>14
    <2>6. g[i] = Select(r, kv \o SubSeq(b, 1, i), gen + i - 1)
      BY <2>1, <1>5
    <2> QED BY <2>1, <2>3, <2>4, <2>5, <2>6
  <1>20. y.st \in {"active", "ended", "failed"} /\ (y.st = "active" <=> ~s.done) /\ y.st # "failed"
    BY <1>7, <1>8 DEF State
  <1>21. /\ y.gen \in Nat /\ 1 <= y.gen /\ y.gen <= max
         /\ y.st = "active" => y.gen < max
    <2>1. gen + m <= max
      <3>1. CASE m = 1
        BY <3>1, <1>2
      <3>2. CASE m # 1
        <4>1. m - 1 \in 1..(m - 1)
          BY <3>2, <1>12
        <4>2. ~(gen + (m - 1) >= max)
          BY <4>1, <1>7
        <4> QED BY <4>2, <1>2, <1>12
      <3> QED BY <3>1, <3>2
    <2>2. gen + m \in Nat /\ 1 <= gen + m
      BY <1>2, <1>12
    <2>3. ~s.done => gen + m < max
      BY <1>2, <1>7, <1>12
    <2> QED BY <2>1, <2>2, <2>3, <1>8, <1>20
  <1>22. Selected(r, y)
    <2>1. Begins(h, hh)
      <3>1. n <= n + m
        BY <1>2, <1>12
      <3> QED BY <3>1, <1>14 DEF Begins, n
    <2>2. Chosen(r, hh, Len(h), gen)
      <3>1. (n + m) - n = m
        BY <1>2, <1>12
      <3>2. \A i \in 1..((n + m) - n) :
              hh[n + i] = Select(r, SubSeq(hh, 1, n + i - 1), gen + i - 1)
        BY <3>1, <1>19
      <3> QED BY <3>2, <1>14 DEF Chosen, n
    <2>3. Len(h) = Len(Prompt[r]) + gen /\ gen \in Nat
      BY <1>2 DEF n, P
    <2>4. Begins(Prompt[r], hh) /\ Chosen(r, hh, Len(Prompt[r]), 0)
      BY <2>1, <2>2, <2>3, <1>1, <1>9, <1>14, SelectedGrows
    <2>5. n + m = P + (gen + m)
      BY <1>2, <1>12
    <2> QED BY <2>4, <2>5, <1>8, <1>14 DEF Selected, P
  <1>23. Rows(r, y)
    <2> DEFINE q == SubSeq(hf, 1, k + (a + 1))
               w == k + (a + 1)
    <2>0. k + a + 1 = w /\ a + 1 \in 1..(a + 1)
      BY <1>2, <1>10
    <2>1. y.kv = q
      BY <2>0, <1>8, <1>18
    <2>2. w \in Nat /\ w <= n + (a + 1) /\ w < P + max /\ (n + m) - 1 <= w
      BY <1>2, <1>10, <1>12
    <2>3. q \in Seq(Token) /\ Len(q) = w /\ \A i \in 1..w : q[i] = hf[i]
      BY <2>2, <1>13, PrefixSame
    <2> HIDE DEF q, w
    <2>4. \A i \in 1..((n + m) - 1) : q[i] = hh[i]
      <3> TAKE i \in 1..((n + m) - 1)
      <3>1. i \in 1..w /\ i \in 1..(n + m)
        BY <2>2, <1>2, <1>12
      <3> QED BY <3>1, <2>3, <1>15
    <2>5. y.st = "active" => w = (n + m) - 1
      <3>1. ~s.done => m = a + 1
        BY <1>7, <1>10, <1>11, <1>12
      <3>2. m = a + 1 => w = (n + m) - 1
        BY <1>2, <1>10 DEF w
      <3> QED BY <3>1, <3>2, <1>20
    <2> QED BY <2>1, <2>2, <2>3, <2>4, <2>5, <1>8, <1>14 DEF Rows, P, max
  <1> QED BY <1>20, <1>21, <1>22, <1>23 DEF ReqInv, y, b, max

\* A prompt followed by its first selection.
LEMMA StartExact ==
  ASSUME SelectsTokens, NEW r \in Requests, NEW gone \in BOOLEAN
  PROVE  ReqInv(r, Started(r, gone))
  <1> DEFINE p == Prompt[r]
             t == Select(r, p, 0)
             hh == Append(p, t)
             P == Len(p)
             max == Budget[r]
             y == Started(r, gone)
  <1>1. p \in Seq(Token) /\ p # <<>> /\ max \in Nat /\ 1 <= max
    BY SpecAssumption
  <1>2. P \in Nat /\ 1 <= P
    <2>1. P \in Nat \ {0}
      BY <1>1, EmptySeq
    <2> QED BY <2>1
  <1>3. t \in Token
    BY DEF SelectsTokens
  <1>4. /\ y.st = State(gone \/ t \in Eos \/ max <= 1) /\ y.hist = hh /\ y.kv = p /\ y.gen = 1
    BY DEF Started
  <1> HIDE DEF p, t, max, y
  <1>5. /\ hh \in Seq(Token) /\ Len(hh) = P + 1
        /\ \A i \in 1..P : hh[i] = p[i]
        /\ hh[P + 1] = t
    BY <1>1, <1>3, AppendProperties
  <1> HIDE DEF hh
  <1>6. y.st \in {"active", "ended"} /\ (y.st = "active" => 1 < max)
    BY <1>1, <1>4 DEF State
  <1>7. Begins(p, hh)
    <2>1. P <= P + 1
      BY <1>2
    <2> QED BY <2>1, <1>5 DEF Begins
  <1>8. Chosen(r, hh, P, 0)
    <2> SUFFICES ASSUME NEW i \in 1..(Len(hh) - P)
                 PROVE  hh[P + i] = Select(r, SubSeq(hh, 1, P + i - 1), 0 + i - 1)
      BY DEF Chosen
    <2>1. i = 1 /\ P + i - 1 = P /\ 0 + i - 1 = 0
      <3>1. (P + 1) - P = 1
        BY <1>2
      <3> HIDE DEF P
      <3> QED BY <3>1, <1>2, <1>5
    <2>2. SubSeq(hh, 1, P) = SubSeq(p, 1, P)
      <3>1. P <= P + 1
        BY <1>2
      <3> QED BY <3>1, <1>1, <1>2, <1>5, PrefixSame
    <2>3. SubSeq(p, 1, P) = p
      BY <1>1, SubSeqFull
    <2> QED BY <2>1, <2>2, <2>3, <1>5 DEF t
  <1>9. Selected(r, y)
    BY <1>4, <1>5, <1>7, <1>8 DEF Selected, p
  <1>10. Rows(r, y)
    <2>1. P < P + max /\ (P + 1) - 1 = P
      BY <1>1, <1>2
    <2> QED BY <2>1, <1>1, <1>4, <1>5, <1>6 DEF Rows, p, max
  <1> QED BY <1>1, <1>4, <1>6, <1>9, <1>10 DEF ReqInv, y, max

\* A plain step: the last token's row, and the selection after it.
LEMMA DecodeExact ==
  ASSUME SelectsTokens, NEW r \in Requests, NEW x, ReqInv(r, x), x.st = "active",
         NEW gone \in BOOLEAN
  PROVE  ReqInv(r, Decoded(r, x, gone))
  <1> DEFINE h == x.hist
             kv == Append(x.kv, h[Len(h)])
             gen == x.gen
             t == Select(r, kv, gen)
             hh == Append(h, t)
             n == Len(h)
             P == Len(Prompt[r])
             max == Budget[r]
             y == Decoded(r, x, gone)
  <1>1. /\ Prompt[r] \in Seq(Token) /\ h \in Seq(Token) /\ x.kv \in Seq(Token) /\ h[n] \in Token
        /\ n = Len(x.kv) + 1 /\ Len(x.kv) \in Nat
        /\ \A i \in 1..Len(x.kv) : x.kv[i] = h[i]
    BY ActiveFacts
  <1>2. /\ P \in Nat /\ 1 <= P /\ max \in Nat /\ gen \in Nat /\ 1 <= gen /\ gen + 1 <= max
        /\ n \in Nat /\ n = P + gen
    BY ActiveFacts
  <1>3. Begins(Prompt[r], h) /\ Chosen(r, h, Len(Prompt[r]), 0)
    BY DEF ReqInv, Selected
  <1>4. t \in Token
    BY DEF SelectsTokens
  <1>5. /\ y.st = State(gone \/ t \in Eos \/ gen + 1 >= max)
        /\ y.hist = hh /\ y.kv = kv /\ y.gen = gen + 1
    BY DEF Decoded
  <1> HIDE DEF h, gen, t, max, y
  <1>6. kv = h
    <2>1. /\ kv \in Seq(Token) /\ Len(kv) = Len(x.kv) + 1
          /\ \A i \in 1..Len(x.kv) : kv[i] = x.kv[i]
          /\ kv[Len(x.kv) + 1] = h[n]
      BY <1>1, AppendProperties
    <2> HIDE DEF kv
    <2>2. \A i \in 1..Len(kv) : kv[i] = h[i]
      <3> TAKE i \in 1..Len(kv)
      <3>1. i \in 1..Len(x.kv) \/ i = Len(x.kv) + 1
        BY <1>1, <2>1
      <3>2. CASE i \in 1..Len(x.kv)
        BY <3>2, <1>1, <2>1
      <3>3. CASE i = Len(x.kv) + 1
        BY <3>3, <1>1, <2>1
      <3> QED BY <3>1, <3>2, <3>3
    <2> QED BY <1>1, <2>1, <2>2, SeqEqual
  <1>7. /\ hh \in Seq(Token) /\ Len(hh) = n + 1
        /\ \A i \in 1..n : hh[i] = h[i]
        /\ hh[n + 1] = t
    BY <1>1, <1>4, AppendProperties
  <1> HIDE DEF hh, kv, P, n
  <1>8. Begins(h, hh)
    <2>1. n <= n + 1
      BY <1>2
    <2> QED BY <2>1, <1>7 DEF Begins, n
  <1>9. Chosen(r, hh, Len(h), gen)
    <2> SUFFICES ASSUME NEW i \in 1..(Len(hh) - n)
                 PROVE  hh[n + i] = Select(r, SubSeq(hh, 1, n + i - 1), gen + i - 1)
      BY DEF Chosen, n
    <2>1. i = 1 /\ n + i - 1 = n /\ gen + i - 1 = gen
      <3>1. (n + 1) - n = 1
        BY <1>2
      <3> QED BY <3>1, <1>2, <1>7
    <2>2. SubSeq(hh, 1, n) = SubSeq(h, 1, n)
      <3>1. n <= Len(hh) /\ n <= Len(h)
        BY <1>2, <1>7 DEF n
      <3> QED BY <3>1, <1>1, <1>2, <1>7, PrefixSame
    <2>3. SubSeq(h, 1, n) = h
      BY <1>1, SubSeqFull DEF n
    <2> QED BY <2>1, <2>2, <2>3, <1>6, <1>7 DEF t
  <1>10. Selected(r, y)
    <2>1. Len(h) = Len(Prompt[r]) + gen /\ gen \in Nat
      BY <1>2 DEF n, P
    <2>2. Begins(Prompt[r], hh) /\ Chosen(r, hh, Len(Prompt[r]), 0)
      BY <2>1, <1>1, <1>3, <1>7, <1>8, <1>9, SelectedGrows
    <2>3. n + 1 = P + (gen + 1)
      BY <1>2
    <2> QED BY <2>2, <2>3, <1>5, <1>7 DEF Selected, P
  <1>11. y.st \in {"active", "ended"} /\ (y.st = "active" => gen + 1 < max)
    BY <1>2, <1>5 DEF State
  <1>12. Rows(r, y)
    <2>1. n < P + max /\ (n + 1) - 1 = n
      BY <1>2
    <2>2. y.kv \in Seq(Token) /\ Len(y.kv) = n /\ \A i \in 1..n : y.kv[i] = y.hist[i]
      BY <1>1, <1>5, <1>6, <1>7 DEF n
    <2> QED BY <2>1, <2>2, <1>5, <1>7, <1>11 DEF Rows, P, max
  <1>13. gen + 1 \in Nat /\ 1 <= gen + 1
    BY <1>2
  <1> QED BY <1>2, <1>5, <1>10, <1>11, <1>12, <1>13 DEF ReqInv, y, max

\* A failed request keeps what it was sent.
LEMMA FailExact ==
  ASSUME NEW r \in Requests, NEW x, ReqInv(r, x), x.st = "active"
  PROVE  ReqInv(r, Failed(x))
  <1> DEFINE y == Failed(x)
             P == Len(Prompt[r])
             max == Budget[r]
  <1>1. y.st = "failed" /\ y.hist = x.hist /\ y.kv = <<>> /\ y.gen = x.gen
    BY DEF Failed
  <1>2. P \in Nat /\ 1 <= P /\ max \in Nat
    BY ActiveFacts
  <1>3. 0 < P + max /\ <<>> \in Seq(Token) /\ Len(<<>>) = 0
    BY <1>2
  <1>4. x.gen \in Nat /\ 1 <= x.gen /\ x.gen <= max /\ Selected(r, x)
    BY DEF ReqInv
  <1> HIDE DEF y
  <1>5. Selected(r, y)
    BY <1>1, <1>4 DEF Selected
  <1>6. Rows(r, y)
    BY <1>1, <1>3 DEF Rows
  <1> QED BY <1>1, <1>4, <1>5, <1>6 DEF ReqInv, y
-----------------------------------------------------------------------------
(* The drafter's cache.                                                    *)

\* Two positions less than a whole ring apart have rows of their own.
LEMMA RowsApart ==
  ASSUME NEW R \in Nat \ {0}, NEW p \in Nat, NEW q \in Nat, p < q, q - p < R
  PROVE  p % R \in 0..(R - 1) /\ p % R # q % R
  <1>1. p % R \in 0..(R - 1) /\ q % R \in 0..(R - 1)
    OBVIOUS
  <1>2. p = R * (p \div R) + (p % R) /\ q = R * (q \div R) + (q % R)
    OBVIOUS
  <1>3. p \div R \in Int /\ q \div R \in Int
    OBVIOUS
  <1> DEFINE d == (q \div R) - (p \div R)
  <1>4. ASSUME p % R = q % R
        PROVE  FALSE
    <2>1. d \in Int
      BY <1>3
    <2>2. q - p = R * d
      BY <1>1, <1>2, <1>3, <1>4
    <2> HIDE DEF d
    <2>3. CASE d <= 0
      <3>1. R * d <= 0
        BY <2>1, <2>3
      <3> QED BY <3>1, <2>1, <2>2
    <2>4. CASE d >= 1
      <3>1. R * d >= R
        BY <2>1, <2>4
      <3> QED BY <3>1, <2>1, <2>2
    <2> QED BY <2>1, <2>3, <2>4
  <1> QED BY <1>1, <1>4

\* The positions from..to that share p's row, when they are less than a ring.
LEMMA RowOf ==
  ASSUME NEW from \in Nat, NEW to \in Nat, NEW p \in Nat,
         p <= to, to - p < Ring, to - from < Ring
  PROVE  \A q \in from..to : q % Ring = p % Ring => q = p
  <1>1. Ring \in Nat \ {0}
    BY SpecAssumption
  <1> SUFFICES ASSUME NEW q \in from..to, q % Ring = p % Ring, q # p
               PROVE  FALSE
    OBVIOUS
  <1>2. q \in Nat
    OBVIOUS
  <1>3. CASE q < p
    <2>1. p - q < Ring
      BY <1>1, <1>2, <1>3
    <2> QED BY <2>1, <1>1, <1>2, <1>3, RowsApart
  <1>4. CASE p < q
    <2>1. q - p < Ring
      BY <1>1, <1>2, <1>4
    <2> QED BY <2>1, <1>1, <1>2, <1>4, RowsApart
  <1> QED BY <1>2, <1>3, <1>4

\* Rows from..to written: p is one of them.
LEMMA RingWrites ==
  ASSUME NEW ring, NEW toks, NEW from \in Nat, NEW to \in Nat, NEW p \in Nat,
         p <= to, to - p < Ring, to - from < Ring, from <= p
  PROVE  RingWith(ring, from, to, toks)[p % Ring] = SubSeq(toks, 1, p + 1)
  <1> DEFINE ps == {q \in from..to : q % Ring = p % Ring}
  <1>1. p % Ring \in 0..(Ring - 1)
    BY SpecAssumption
  <1>2. ps = {p}
    <2>1. p \in from..to
      OBVIOUS
    <2>2. \A q \in from..to : q % Ring = p % Ring => q = p
      BY RowOf
    <2> QED BY <2>1, <2>2
  <1>3. RingWith(ring, from, to, toks)[p % Ring]
          = IF ps = {} THEN ring[p % Ring] ELSE SubSeq(toks, 1, Max(ps) + 1)
    BY <1>1 DEF RingWith
  <1> HIDE DEF ps
  <1>4. Max(ps) = p
    BY <1>2 DEF Max
  <1> QED BY <1>2, <1>3, <1>4

\* Rows from..to written: p comes before them.
LEMMA RingLeaves ==
  ASSUME NEW ring, NEW toks, NEW from \in Nat, NEW to \in Nat, NEW p \in Nat,
         p <= to, to - p < Ring, to - from < Ring, p < from
  PROVE  RingWith(ring, from, to, toks)[p % Ring] = ring[p % Ring]
  <1> DEFINE ps == {q \in from..to : q % Ring = p % Ring}
  <1>1. p % Ring \in 0..(Ring - 1)
    BY SpecAssumption
  <1>2. ps = {}
    BY RowOf
  <1>3. RingWith(ring, from, to, toks)[p % Ring]
          = IF ps = {} THEN ring[p % Ring] ELSE SubSeq(toks, 1, Max(ps) + 1)
    BY <1>1 DEF RingWith
  <1> QED BY <1>2, <1>3

\* A drafted block spares the rows the window still sees.
LEMMA RingSpares ==
  ASSUME NEW ring, NEW start \in Nat, NEW p \in Nat, p < start, start + Drafts - p < Ring
  PROVE  RingDrafted(ring, start)[p % Ring] = ring[p % Ring]
  <1>1. Ring \in Nat \ {0} /\ Drafts \in Nat
    BY SpecAssumption
  <1>2. p % Ring \in 0..(Ring - 1)
    BY <1>1
  <1>3. ASSUME NEW q \in start..(start + Drafts)
        PROVE  q % Ring # p % Ring
    <2>1. q \in Nat /\ p < q /\ q - p < Ring
      BY <1>1
    <2> QED BY <2>1, <1>1, RowsApart
  <1> QED BY <1>2, <1>3 DEF RingDrafted

\* Every row a block at the end of x's tokens can see is the row of those
\* tokens.
ContextSeen(x) ==
  \A p \in Nat :
    p < Len(x.kv) /\ Len(x.kv) - p < DraftWindow => x.ring[p % Ring] = SubSeq(x.hist, 1, p + 1)

\* The prompt's tail is written before the first draft.
LEMMA StartSeen ==
  ASSUME NEW r \in Requests, NEW gone \in BOOLEAN, SelectsTokens
  PROVE  ContextSeen(Started(r, gone))
  <1> DEFINE p == Prompt[r]
             n == Len(p)
             t == Select(r, p, 0)
             from == Max({0, n - DraftWindow})
             y == Started(r, gone)
  <1>1. p \in Seq(Token) /\ n \in Nat \ {0} /\ t \in Token
    <2>1. p \in Seq(Token) /\ p # <<>>
      BY SpecAssumption
    <2> QED BY <2>1, EmptySeq DEF SelectsTokens
  <1>2. DraftWindow \in Nat /\ Ring \in Nat /\ Drafts \in Nat /\ Ring >= DraftWindow + Drafts
    BY SpecAssumption
  <1>3. y.hist = Append(p, t) /\ y.kv = p /\ y.ring = RingWith(EmptyRing, from, n - 1, p)
    BY DEF Started
  <1> HIDE DEF p, t, y
  <1>4. PICK m \in Nat : m = n - 1
    <2> HIDE DEF n
    <2> QED BY <1>1
  <1>5. from \in Nat /\ n - DraftWindow <= from /\ (from = 0 \/ from = n - DraftWindow)
    <2> DEFINE w == n - DraftWindow
    <2>1. w \in Int
      BY <1>1, <1>2
    <2> HIDE DEF w, n
    <2>2. Max({0, w}) = IF w <= 0 THEN 0 ELSE w
      BY <2>1 DEF Max
    <2> HIDE DEF from
    <2>3. from = Max({0, w})
      BY DEF from, w
    <2>4. from \in Nat /\ w <= from /\ (from = 0 \/ from = w)
      BY <2>1, <2>2, <2>3
    <2> QED BY <2>4 DEF w
  <1> HIDE DEF from
  <1>6. /\ Len(Append(p, t)) = n + 1 /\ Append(p, t) \in Seq(Token)
        /\ \A i \in 1..n : Append(p, t)[i] = p[i]
    BY <1>1, AppendProperties
  <1>b. PICK w \in Nat : w = n
    BY <1>1
  <1> SUFFICES ASSUME NEW q \in Nat, q < w, w - q < DraftWindow
               PROVE  RingWith(EmptyRing, from, m, p)[q % Ring] = SubSeq(Append(p, t), 1, q + 1)
    BY <1>3, <1>4, <1>b DEF ContextSeen, y
  <1> HIDE DEF n
  <1>7. q <= m /\ m - q < Ring /\ m - from < Ring /\ from <= q
    BY <1>1, <1>2, <1>4, <1>5, <1>b
  <1>8. RingWith(EmptyRing, from, m, p)[q % Ring] = SubSeq(p, 1, q + 1)
    <2>1. PICK f \in Nat : f = from
      BY <1>5
    <2>2. PICK toks : toks = p
      OBVIOUS
    <2>3. PICK ring : ring = EmptyRing
      OBVIOUS
    <2>4. q <= m /\ m - q < Ring /\ m - f < Ring /\ f <= q
      BY <2>1, <1>7
    <2>5. RingWith(ring, f, m, toks)[q % Ring] = SubSeq(toks, 1, q + 1)
      BY <2>4, RingWrites
    <2> QED BY <2>1, <2>2, <2>3, <2>5
  <1>9. SubSeq(p, 1, q + 1) = SubSeq(Append(p, t), 1, q + 1)
    <2>1. /\ q + 1 \in Nat /\ q + 1 <= Len(p) /\ q + 1 <= Len(Append(p, t))
          /\ \A i \in 1..(q + 1) : p[i] = Append(p, t)[i]
      BY <1>1, <1>6, <1>b DEF n
    <2> QED BY <2>1, <1>1, <1>6, PrefixSame
  <1> QED BY <1>8, <1>9

\* A step's drafted rows are overwritten or out of sight, its accepted rows are
\* those of the tokens sent.
LEMMA StepSeen ==
  ASSUME SelectsTokens, NEW r \in Requests, NEW x, ReqInv(r, x), x.st = "active",
         ContextSeen(x),
         NEW d \in DraftsOf(r, x),
         NEW a \in Accepts(Block(x, d), Selection(r, x, Block(x, d))),
         NEW s \in Sends(r, x, Out(Block(x, d), Selection(r, x, Block(x, d)), a)),
         Stepped(r, x, Block(x, d), a, s).st = "active"
  PROVE  ContextSeen(Stepped(r, x, Block(x, d), a, s))
  <1> DEFINE b == Block(x, d)
             k == Len(x.kv)
             kb == x.kv \o b
             R0 == IF Copies(r, x) = <<>> THEN RingDrafted(x.ring, k) ELSE x.ring
             y == Stepped(r, x, b, a, s)
  <1>1. ReqInv(r, y)
    BY StepExact
  <1>2. /\ x.kv \in Seq(Token) /\ x.hist \in Seq(Token) /\ k \in Nat
        /\ Len(x.hist) = k + 1 /\ \A i \in 1..k : x.kv[i] = x.hist[i]
        /\ x.hist[Len(x.hist)] \in Token
    BY ActiveFacts
  <1>3. PICK U : Token \subseteq U /\ d \in Seq(U) /\ Len(d) <= Drafts
    BY DraftsAreShort
  <1>4. b \in Seq(U) /\ Len(b) = Len(d) + 1 /\ Len(d) \in Nat
    BY <1>2, <1>3, BlockFacts, LenProperties
  <1>5. /\ DraftWindow \in Nat \ {0} /\ Ring \in Nat /\ Drafts \in Nat
        /\ Ring >= DraftWindow + Drafts
    BY SpecAssumption
  <1>6. a \in Nat /\ a + 1 <= Len(b) /\ a <= Drafts
    <2>1. a \in 0..(Len(b) - 1)
      BY DEF Accepts
    <2> HIDE DEF b
    <2> QED BY <2>1, <1>3, <1>4, <1>5
  <1>7. /\ y.kv = SubSeq(kb, 1, k + a + 1)
        /\ y.ring = RingWith(R0, k, k + a, kb)
    BY DEF Stepped, Kept, Context
  <1> HIDE DEF b
  <1>8. /\ kb \in Seq(U) /\ Len(kb) = k + Len(b)
        /\ \A i \in 1..k : kb[i] = x.kv[i]
    <2>1. x.kv \in Seq(U)
      BY <1>2, <1>3, SeqMonotonic
    <2>2. /\ kb \in Seq(U) /\ Len(kb) = Len(x.kv) + Len(b)
          /\ \A i \in 1..(Len(x.kv) + Len(b)) :
               kb[i] = IF i <= Len(x.kv) THEN x.kv[i] ELSE b[i - Len(x.kv)]
      BY <2>1, <1>4, ConcatProperties
    <2> QED BY <2>2, <1>2, <1>4
  <1> HIDE DEF kb, y, R0
  <1>9. PICK w \in Nat : w = k + a + 1
    <2> HIDE DEF k
    <2> QED BY <1>2, <1>6
  <1>10. w <= Len(kb)
    <2> HIDE DEF k
    <2> QED BY <1>2, <1>4, <1>6, <1>8, <1>9
  <1>11. Len(y.kv) = w /\ \A i \in 1..w : y.kv[i] = kb[i]
    BY <1>7, <1>8, <1>9, <1>10, PrefixSame
  <1>12. y.hist \in Seq(Token) /\ Len(y.hist) = w + 1 /\ \A i \in 1..w : kb[i] = y.hist[i]
    <2>1. y.st = "active"
      BY DEF b, y
    <2>2. /\ y.hist \in Seq(Token)
          /\ Len(y.hist) = Len(y.kv) + 1 /\ \A i \in 1..Len(y.kv) : y.kv[i] = y.hist[i]
      BY <1>1, <2>1, ActiveFacts
    <2> QED BY <2>2, <1>11
  <1> SUFFICES ASSUME NEW q \in Nat, q < w, w - q < DraftWindow
               PROVE  y.ring[q % Ring] = SubSeq(y.hist, 1, q + 1)
    BY <1>11 DEF ContextSeen, b, y
  <1>13. PICK e \in Nat : e = k + a
    BY <1>2, <1>6
  <1> HIDE DEF k
  <1>14. q <= e /\ e - q < Ring /\ e - k < Ring
    BY <1>2, <1>5, <1>6, <1>9, <1>13
  <1>15. y.ring = RingWith(R0, k, e, kb)
    BY <1>7, <1>13
  <1>16. y.hist \in Seq(U)
    BY <1>3, <1>12, SeqMonotonic
  <1>17. SubSeq(kb, 1, q + 1) = SubSeq(y.hist, 1, q + 1)
    <2>1. /\ q + 1 \in Nat /\ q + 1 <= Len(kb) /\ q + 1 <= Len(y.hist)
          /\ \A i \in 1..(q + 1) : kb[i] = y.hist[i]
      BY <1>8, <1>10, <1>12, LenProperties
    <2> QED BY <2>1, <1>8, <1>16, PrefixSame
  <1>18. CASE k <= q
    <2>1. RingWith(R0, k, e, kb)[q % Ring] = SubSeq(kb, 1, q + 1)
      BY <1>2, <1>14, <1>18, RingWrites
    <2> QED BY <2>1, <1>15, <1>17
  <1>19. CASE q < k
    <2>1. q < k /\ k - q < DraftWindow /\ k + Drafts - q < Ring
      BY <1>2, <1>5, <1>6, <1>9, <1>13, <1>14, <1>19
    <2>2. R0[q % Ring] = x.ring[q % Ring]
      <3>1. RingDrafted(x.ring, k)[q % Ring] = x.ring[q % Ring]
        BY <2>1, <1>2, RingSpares
      <3> QED BY <3>1 DEF R0
    <2>3. x.ring[q % Ring] = SubSeq(x.hist, 1, q + 1)
      BY <2>1 DEF ContextSeen, k
    <2>4. SubSeq(x.hist, 1, q + 1) = SubSeq(y.hist, 1, q + 1)
      <3>1. /\ q + 1 \in Nat /\ q + 1 <= Len(x.hist) /\ q + 1 <= Len(y.hist)
            /\ \A i \in 1..(q + 1) : x.hist[i] = y.hist[i]
        <4>1. PICK p \in Nat : p = q + 1 /\ p <= k /\ p <= w
          BY <2>1, <1>2, <1>6, <1>9
        <4>2. p <= Len(x.hist) /\ p <= Len(y.hist)
          BY <4>1, <1>2, <1>12
        <4>3. ASSUME NEW i \in 1..p PROVE x.hist[i] = y.hist[i]
          <5>1. i \in 1..k /\ i \in 1..w
            BY <4>1, <1>2
          <5>2. x.kv[i] = x.hist[i] /\ kb[i] = x.kv[i] /\ kb[i] = y.hist[i]
            BY <5>1, <1>2, <1>8, <1>12
          <5> QED BY <5>2
        <4> QED BY <4>1, <4>2, <4>3
      <3> QED BY <3>1, <1>2, <1>12, PrefixSame
    <2>5. RingWith(R0, k, e, kb)[q % Ring] = R0[q % Ring]
      BY <1>2, <1>14, <1>19, RingLeaves
    <2> QED BY <2>2, <2>3, <2>4, <2>5, <1>15
  <1> QED BY <1>2, <1>18, <1>19

-----------------------------------------------------------------------------
(* The invariant.                                                          *)

LEMMA InitInv == Init => Inv
  BY DEF Init, Inv

\* Every step keeps every request's invariant.
LEMMA NextInv ==
  ASSUME SelectsTokens, Inv, [Next]_vars
  PROVE  Inv'
  <1>1. CASE \E r \in Requests, gone \in BOOLEAN : Start(r, gone)
    <2>1. PICK r \in Requests, gone \in BOOLEAN : Start(r, gone)
      BY <1>1
    <2>2. req' = [req EXCEPT ![r] = Started(r, gone)]
      BY <2>1 DEF Start
    <2>3. ReqInv(r, Started(r, gone))
      BY StartExact
    <2> QED BY <2>2, <2>3 DEF Inv
  <1>2. CASE SpecStep
    <2>1. PICK y : /\ \A r \in Active : y[r] \in Steps(r, req[r])
                   /\ req' = [r \in Requests |-> IF r \in Active THEN y[r] ELSE req[r]]
      BY <1>2 DEF SpecStep
    <2>2. ASSUME NEW r \in Requests, r \in Active
          PROVE  ReqInv(r, y[r])
      <3>1. req[r].st = "active" /\ ReqInv(r, req[r])
        BY <2>2 DEF Inv, Active, Waiting
      <3>2. y[r] \in Steps(r, req[r])
        BY <2>1, <2>2
      <3>3. PICK d \in DraftsOf(r, req[r]) : y[r] \in StepsOf(r, req[r], Block(req[r], d))
        BY <3>2 DEF Steps
      <3> DEFINE b == Block(req[r], d)
      <3>4. PICK a \in Accepts(b, Selection(r, req[r], b)) :
              y[r] \in {Stepped(r, req[r], b, a, s) :
                          s \in Sends(r, req[r], Out(b, Selection(r, req[r], b), a))}
        BY <3>3 DEF StepsOf
      <3>5. PICK s \in Sends(r, req[r], Out(b, Selection(r, req[r], b), a)) :
              y[r] = Stepped(r, req[r], b, a, s)
        BY <3>4
      <3>6. ReqInv(r, Stepped(r, req[r], b, a, s))
        BY <3>1, <3>3, <3>4, <3>5, StepExact
      <3> QED BY <3>5, <3>6
    <2> QED BY <2>1, <2>2 DEF Inv
  <1>3. CASE \E gone \in SUBSET Requests : DecodeStep(gone)
    <2>1. PICK gone \in SUBSET Requests : DecodeStep(gone)
      BY <1>3
    <2>2. req' = [r \in Requests |->
                    IF r \in Active THEN Decoded(r, req[r], r \in gone) ELSE req[r]]
      BY <2>1 DEF DecodeStep
    <2>3. ASSUME NEW r \in Requests, r \in Active
          PROVE  ReqInv(r, Decoded(r, req[r], r \in gone))
      <3>1. req[r].st = "active" /\ ReqInv(r, req[r])
        BY <2>3 DEF Inv, Active, Waiting
      <3>2. (r \in gone) \in BOOLEAN
        OBVIOUS
      <3> QED BY <3>1, <3>2, DecodeExact
    <2> QED BY <2>2, <2>3 DEF Inv
  <1>4. CASE StepFails
    <2>1. req' = [r \in Requests |-> IF r \in Active THEN Failed(req[r]) ELSE req[r]]
      BY <1>4 DEF StepFails
    <2>2. ASSUME NEW r \in Requests, r \in Active
          PROVE  ReqInv(r, Failed(req[r]))
      <3>1. req[r].st = "active" /\ ReqInv(r, req[r])
        BY <2>2 DEF Inv, Active, Waiting
      <3> QED BY <3>1, FailExact
    <2> QED BY <2>1, <2>2 DEF Inv
  <1>5. CASE UNCHANGED vars
    BY <1>5 DEF Inv, vars
  <1> QED BY <1>1, <1>2, <1>3, <1>4, <1>5 DEF Next

\* While the scheduler speculates, what a running request's drafter sees.
SeenInv == spec => \A r \in Requests : req[r].st = "active" => ContextSeen(req[r])

\* Every step keeps it: a plain step and a start-up without a drafter need not.
LEMMA NextSeen ==
  ASSUME SelectsTokens, Inv, SeenInv, [Next]_vars
  PROVE  SeenInv'
  <1> SUFFICES ASSUME spec', NEW r \in Requests, req'[r].st = "active"
               PROVE  ContextSeen(req'[r])
    BY DEF SeenInv, ContextSeen
  <1>0. spec
    BY DEF Next, Start, SpecStep, DecodeStep, StepFails, vars
  <1>1. CASE \E q \in Requests, gone \in BOOLEAN : Start(q, gone)
    <2>1. PICK q \in Requests, gone \in BOOLEAN : Start(q, gone)
      BY <1>1
    <2>2. req' = [req EXCEPT ![q] = Started(q, gone)]
      BY <2>1 DEF Start
    <2>3. CASE r = q
      <3>1. req'[r] = Started(r, gone)
        BY <2>2, <2>3 DEF Inv
      <3> QED BY <3>1, StartSeen
    <2>4. CASE r # q
      <3>1. req'[r] = req[r]
        BY <2>2, <2>4 DEF Inv
      <3> QED BY <3>1, <1>0 DEF SeenInv
    <2> QED BY <2>3, <2>4
  <1>2. CASE SpecStep
    <2>1. PICK y : /\ \A q \in Active : y[q] \in Steps(q, req[q])
                   /\ req' = [q \in Requests |-> IF q \in Active THEN y[q] ELSE req[q]]
      BY <1>2 DEF SpecStep
    <2>2. r \in Active
      BY <2>1 DEF Active
    <2>3. req[r].st = "active" /\ ReqInv(r, req[r]) /\ ContextSeen(req[r])
      BY <2>2, <1>0 DEF Inv, Active, Waiting, SeenInv
    <2>4. req'[r] = y[r] /\ y[r] \in Steps(r, req[r])
      BY <2>1, <2>2
    <2>5. PICK d \in DraftsOf(r, req[r]) : y[r] \in StepsOf(r, req[r], Block(req[r], d))
      BY <2>4 DEF Steps
    <2> DEFINE b == Block(req[r], d)
    <2>6. PICK a \in Accepts(b, Selection(r, req[r], b)) :
            y[r] \in {Stepped(r, req[r], b, a, s) :
                        s \in Sends(r, req[r], Out(b, Selection(r, req[r], b), a))}
      BY <2>5 DEF StepsOf
    <2>7. PICK s \in Sends(r, req[r], Out(b, Selection(r, req[r], b), a)) :
            y[r] = Stepped(r, req[r], b, a, s)
      BY <2>6
    <2>8. ContextSeen(Stepped(r, req[r], b, a, s))
      <3>1. Stepped(r, req[r], b, a, s).st = "active"
        BY <2>4, <2>7
      <3> QED BY <3>1, <2>3, <2>5, <2>6, <2>7, StepSeen
    <2> QED BY <2>4, <2>7, <2>8
  <1>3. CASE \E gone \in SUBSET Requests : DecodeStep(gone)
    BY <1>0, <1>3 DEF DecodeStep
  <1>4. CASE StepFails
    BY <1>4 DEF StepFails, Active, Failed
  <1>5. CASE UNCHANGED vars
    BY <1>0, <1>5 DEF SeenInv, vars
  <1> QED BY <1>1, <1>2, <1>3, <1>4, <1>5 DEF Next

-----------------------------------------------------------------------------
(* Copy windows: the index of a context, and what it proposes.             *)

\* The greatest of some positions, or 0.
LastOf(S) == IF S = {} THEN 0 ELSE Max(S)

\* Where gram g ends in a context, up to position m.
Ends(ctx, g, m) == {q \in Match..m : Gram(ctx, q) = g}

\* The index of a context's first m positions: each gram's last end, and each
\* position's last end of its gram before it.
IndexOf(ctx, m) ==
  [head |-> [g \in {Gram(ctx, q) : q \in Match..m} |-> LastOf(Ends(ctx, g, m))],
   prev |-> [p \in 1..m |-> LastOf(Ends(ctx, Gram(ctx, p), p - 1))]]

(* Every set of naturals has a least element.                              *)
LEMMA LeastNat ==
  ASSUME NEW B, B \subseteq Nat, B # {}
  PROVE  \E n \in B : \A m \in B : n <= m
<1> DEFINE R == OpToRel(<, Nat)
<1>1. IsWellFoundedOn(R, Nat)
  BY NatLessThanWellFounded
<1> HIDE DEF R
<1>2. PICK n \in B : \A m \in B : ~(<<m, n>> \in R)
  BY <1>1, WFMin
<1>3. \A m \in B : m < n => <<m, n>> \in R
  BY <1>2 DEF R, OpToRel
<1>4. \A m \in B : m \in Nat /\ n \in Nat /\ ~(m < n)
  BY <1>2, <1>3
<1> QED BY <1>4

\* A bounded set of naturals has a greatest one, which Max is.
LEMMA Greatest ==
  ASSUME NEW S, S \subseteq Nat, S # {}, NEW b \in Nat, \A x \in S : x <= b
  PROVE  Max(S) \in S /\ \A y \in S : y <= Max(S)
  <1> DEFINE B == {b - x : x \in S}
  <1>0. \A x \in S : b - x \in Nat
    <2>1. \A x \in S : x \in Nat /\ x <= b
      OBVIOUS
    <2> QED BY <2>1
  <1>1. B \subseteq Nat /\ B # {}
    BY <1>0
  <1> HIDE DEF B
  <1>2. PICK n \in B : \A m \in B : n <= m
    BY <1>1, LeastNat
  <1>3. PICK x \in S : n = b - x
    BY <1>2 DEF B
  <1>4. \A y \in S : x >= y
    BY <1>2, <1>3 DEF B
  <1>5. \E z \in S : \A y \in S : z >= y
    BY <1>4
  <1>6. Max(S) \in S /\ \A y \in S : Max(S) >= y
    BY <1>5, Zenon DEF Max
  <1> QED BY <1>6

\* It is the one that no other exceeds.
LEMMA GreatestIs ==
  ASSUME NEW S, S \subseteq Nat, NEW n \in S, \A y \in S : y <= n
  PROVE  Max(S) = n /\ LastOf(S) = n
  <1>0. n \in Nat /\ S # {}
    OBVIOUS
  <1>1. Max(S) \in S /\ \A y \in S : y <= Max(S)
    BY <1>0, Greatest
  <1> DEFINE m == Max(S)
  <1> HIDE DEF m
  <1>3. m \in Nat /\ m <= n /\ n <= m
    BY <1>1 DEF m
  <1>2. Max(S) = n
    BY <1>0, <1>3 DEF m
  <1> QED BY <1>2 DEF LastOf

\* The last end of a gram, or 0.
LEMMA LastEnd ==
  ASSUME NEW ctx, NEW g, NEW m \in Nat
  PROVE  /\ Ends(ctx, g, m) \subseteq Nat /\ LastOf(Ends(ctx, g, m)) \in Nat
         /\ Ends(ctx, g, m) = {} => LastOf(Ends(ctx, g, m)) = 0
         /\ Ends(ctx, g, m) # {} => LastOf(Ends(ctx, g, m)) \in Ends(ctx, g, m)
         /\ \A q \in Ends(ctx, g, m) : q <= LastOf(Ends(ctx, g, m))
  <1> DEFINE E == Ends(ctx, g, m)
  <1>1. E \subseteq Nat /\ \A q \in E : q <= m
    BY CopyAssumption DEF Ends
  <1> HIDE DEF E
  <1>2. CASE E = {}
    BY <1>2 DEF LastOf, E
  <1>3. CASE E # {}
    <2>1. Max(E) \in E /\ \A y \in E : y <= Max(E)
      BY <1>1, <1>3, Greatest
    <2> QED BY <1>1, <1>3, <2>1 DEF LastOf, E
  <1> QED BY <1>2, <1>3

\* One more element of a sequence that is given by its elements.
LEMMA AppendGiven ==
  ASSUME NEW p \in Nat \ {0}, NEW f, f = [q \in 1..p |-> f[q]]
  PROVE  Append([q \in 1..(p - 1) |-> f[q]], f[p]) = f
  <1> DEFINE T == {f[q] : q \in 1..p}
             s == [q \in 1..(p - 1) |-> f[q]]
  <1>1. s \in [1..(p - 1) -> T] /\ p - 1 \in Nat
    OBVIOUS
  <1>2. f \in [1..p -> T] /\ f[p] \in T
    OBVIOUS
  <1>3. s \in Seq(T) /\ Len(s) = p - 1 /\ f \in Seq(T) /\ Len(f) = p
    <2>1. \A k \in Nat : \A t \in [1..k -> T] : t \in Seq(T) /\ Len(t) = k
      OBVIOUS
    <2> HIDE DEF s
    <2> QED BY <1>1, <1>2, <2>1
  <1>4. \A q \in 1..(p - 1) : s[q] = f[q]
    OBVIOUS
  <1> HIDE DEF s, T
  <1>5. /\ Append(s, f[p]) \in Seq(T) /\ Len(Append(s, f[p])) = Len(s) + 1
        /\ \A i \in 1..Len(s) : Append(s, f[p])[i] = s[i]
        /\ Append(s, f[p])[Len(s) + 1] = f[p]
    BY <1>2, <1>3, AppendProperties
  <1>6. Len(Append(s, f[p])) = Len(f)
    BY <1>3, <1>5
  <1>7. \A i \in 1..Len(f) : Append(s, f[p])[i] = f[i]
    <2> TAKE i \in 1..Len(f)
    <2>1. CASE i = p
      BY <1>3, <1>5, <2>1
    <2>2. CASE i # p
      <3>1. i \in 1..(p - 1)
        BY <1>3, <2>2
      <3> QED BY <3>1, <1>3, <1>4, <1>5
    <2> QED BY <2>1, <2>2
  <1>8. Append(s, f[p]) = f
    BY <1>3, <1>5, <1>6, <1>7, SeqEqual
  <1> QED BY <1>8 DEF s

\* Position p joins the index of those before it.
LEMMA IndexStep ==
  ASSUME NEW ctx, NEW p \in Nat \ {0}
  PROVE  IndexOne(IndexOf(ctx, p - 1), ctx, p) = IndexOf(ctx, p)
  <1> DEFINE idx == IndexOf(ctx, p - 1)
             g == Gram(ctx, p)
             D(m) == {Gram(ctx, q) : q \in Match..m}
             H(m) == [x \in D(m) |-> LastOf(Ends(ctx, x, m))]
             F(m) == [q \in 1..m |-> LastOf(Ends(ctx, Gram(ctx, q), q - 1))]
             v == LastOf(Ends(ctx, g, p - 1))
  <1>0. Match \in Nat \ {0} /\ p - 1 \in Nat
    BY CopyAssumption
  <1>1. idx = [head |-> H(p - 1), prev |-> F(p - 1)] /\ IndexOf(ctx, p) = [head |-> H(p), prev |-> F(p)]
    BY DEF IndexOf
  <1>2. Append(F(p - 1), v) = F(p)
    <2>1. F(p) = [q \in 1..p |-> F(p)[q]] /\ F(p)[p] = v
      OBVIOUS
    <2>2. [q \in 1..(p - 1) |-> F(p)[q]] = F(p - 1)
      OBVIOUS
    <2>3. PICK f : f = F(p)
      OBVIOUS
    <2>4. Append([q \in 1..(p - 1) |-> f[q]], f[p]) = f
      BY <2>1, <2>3, AppendGiven
    <2> QED BY <2>1, <2>2, <2>3, <2>4
  <1>3. CASE p < Match
    <2>1. Match..p = {} /\ Match..(p - 1) = {}
      BY <1>0, <1>3
    <2>2. D(p) = {} /\ D(p - 1) = {}
      BY <2>1
    <2>3. H(p) = H(p - 1)
      BY <2>2
    <2>4. v = 0
      BY <2>1 DEF Ends, LastOf
    <2>5. IndexOne(idx, ctx, p) = [idx EXCEPT !.prev = Append(@, 0)]
      BY <1>3 DEF IndexOne
    <2> HIDE DEF H, F, v, idx
    <2>6. [idx EXCEPT !.prev = Append(@, 0)] = [head |-> H(p - 1), prev |-> Append(F(p - 1), 0)]
      BY <1>1
    <2> QED BY <1>1, <1>2, <2>3, <2>4, <2>5, <2>6 DEF idx
  <1>4. CASE ~(p < Match)
    <2>1. /\ \A q : (q \in Match..p) <=> (q \in Match..(p - 1) \/ q = p)
          /\ p \notin Match..(p - 1)
      BY <1>0, <1>4
    <2>2. D(p) = D(p - 1) \cup {g}
      BY <2>1
    <2>3. v = IF g \in D(p - 1) THEN H(p - 1)[g] ELSE 0
      <3>1. (g \in D(p - 1)) <=> (Ends(ctx, g, p - 1) # {})
        BY DEF Ends
      <3> QED BY <3>1 DEF LastOf
    <2>4. ASSUME NEW x \in D(p) PROVE LastOf(Ends(ctx, x, p)) = IF x = g THEN p ELSE H(p - 1)[x]
      <3>1. CASE x = g
        <4>1. p \in Ends(ctx, x, p) /\ Ends(ctx, x, p) \subseteq Nat /\ \A y \in Ends(ctx, x, p) : y <= p
          BY <1>0, <2>1, <3>1 DEF Ends
        <4>2. LastOf(Ends(ctx, x, p)) = p
          BY <4>1, GreatestIs
        <4> QED BY <3>1, <4>2
      <3>2. CASE x # g
        <4>1. Ends(ctx, x, p) = Ends(ctx, x, p - 1)
          BY <2>1, <3>2 DEF Ends
        <4>2. x \in D(p - 1)
          BY <2>2, <3>2
        <4> QED BY <3>2, <4>1, <4>2
      <3> QED BY <3>1, <3>2
    <2>5. IndexOne(idx, ctx, p) =
            [head |-> [x \in DOMAIN idx.head \cup {g} |-> IF x = g THEN p ELSE idx.head[x]],
             prev |-> Append(idx.prev, IF g \in DOMAIN idx.head THEN idx.head[g] ELSE 0)]
      BY <1>4, Zenon DEF IndexOne
    <2>6. idx.head = H(p - 1) /\ idx.prev = F(p - 1) /\ DOMAIN idx.head = D(p - 1)
      BY <1>1
    <2>7. [x \in D(p - 1) \cup {g} |-> IF x = g THEN p ELSE idx.head[x]] = H(p)
      BY <2>2, <2>4, <2>6
    <2> HIDE DEF D, H, F, v, g
    <2>8. IndexOne(idx, ctx, p) = [head |-> H(p), prev |-> Append(F(p - 1), v)]
      BY <2>3, <2>5, <2>6, <2>7, Zenon
    <2> QED BY <1>1, <1>2, <2>8, Zenon
  <1> QED BY <1>3, <1>4

\* The length of an index is the number of positions it has.
LEMMA IndexLen ==
  ASSUME NEW ctx, NEW m \in Nat
  PROVE  Len(IndexOf(ctx, m).prev) = m
  <1> DEFINE f == [p \in 1..m |-> LastOf(Ends(ctx, Gram(ctx, p), p - 1))]
             T == {f[p] : p \in 1..m}
  <1>1. f \in [1..m -> T]
    OBVIOUS
  <1>2. \A t \in [1..m -> T] : Len(t) = m
    OBVIOUS
  <1>3. IndexOf(ctx, m).prev = f
    BY DEF IndexOf
  <1> HIDE DEF f
  <1> QED BY <1>1, <1>2, <1>3

\* The indexes on the way, as the positions after the first m join.
Joining(u, idx, ctx, m, n) == u = [p \in m..n |-> IF p = m THEN idx ELSE IndexOne(u[p - 1], ctx, p)]

\* Extending the index of the first m positions gives that of the first n.
LEMMA IndexedIs ==
  ASSUME NEW ctx, NEW n \in Nat, Len(ctx) - 1 = n, NEW m \in 0..n, NEW idx, idx = IndexOf(ctx, m)
  PROVE  Indexed(idx, ctx) = IndexOf(ctx, n)
  <1>0. m \in Nat /\ m <= n /\ Len(idx.prev) = m
    BY IndexLen
  <1> DEFINE w == [p \in m..n |-> IndexOf(ctx, p)]
  <1>1. Joining(w, idx, ctx, m, n)
    <2>1. ASSUME NEW p \in m..n PROVE w[p] = IF p = m THEN idx ELSE IndexOne(w[p - 1], ctx, p)
      <3>1. CASE p = m
        BY <3>1
      <3>2. CASE p # m
        <4>1. p \in Nat \ {0} /\ p - 1 \in m..n
          BY <1>0, <3>2
        <4>2. IndexOne(IndexOf(ctx, p - 1), ctx, p) = IndexOf(ctx, p)
          BY <4>1, IndexStep
        <4> QED BY <3>2, <4>1, <4>2
      <3> QED BY <3>1, <3>2
    <2>2. w = [p \in m..n |-> w[p]]
      OBVIOUS
    <2> HIDE DEF w
    <2>3. w = [p \in m..n |-> IF p = m THEN idx ELSE IndexOne(w[p - 1], ctx, p)]
      BY <2>1, <2>2
    <2> QED BY <2>3 DEF Joining
  <1> HIDE DEF w
  <1> DEFINE u == CHOOSE g : g = [p \in Len(idx.prev)..(Len(ctx) - 1) |->
                    IF p = Len(idx.prev) THEN idx ELSE IndexOne(g[p - 1], ctx, p)]
  <1>2. Joining(u, idx, ctx, m, n)
    <2>1. w = [p \in Len(idx.prev)..(Len(ctx) - 1) |->
                    IF p = Len(idx.prev) THEN idx ELSE IndexOne(w[p - 1], ctx, p)]
      BY <1>0, <1>1 DEF Joining
    <2>2. u = [p \in Len(idx.prev)..(Len(ctx) - 1) |->
                    IF p = Len(idx.prev) THEN idx ELSE IndexOne(u[p - 1], ctx, p)]
      BY <2>1, Zenon
    <2> HIDE DEF u
    <2> QED BY <1>0, <2>2 DEF Joining
  <1>3. Indexed(idx, ctx) = u[n]
    <2>1. Indexed(idx, ctx) = u[Len(ctx) - 1]
      BY Zenon DEF Indexed
    <2> HIDE DEF u
    <2> QED BY <2>1
  <1> HIDE DEF u
  <1> DEFINE B == {p \in m..n : u[p] # IndexOf(ctx, p)}
  <1>4. B = {}
    <2> SUFFICES ASSUME B # {} PROVE FALSE
      OBVIOUS
    <2>1. B \subseteq Nat
      BY <1>0
    <2>2. PICK p \in B : \A q \in B : p <= q
      BY <2>1, LeastNat
    <2>3. p \in m..n /\ u[p] # IndexOf(ctx, p)
      OBVIOUS
    <2>4. u[p] = IF p = m THEN idx ELSE IndexOne(u[p - 1], ctx, p)
      BY <1>2, <2>3 DEF Joining
    <2>5. p # m
      BY <2>3, <2>4
    <2>6. p \in Nat \ {0} /\ p - 1 \in m..n /\ ~(p <= p - 1)
      BY <1>0, <2>3, <2>5
    <2>7. u[p - 1] = IndexOf(ctx, p - 1)
      BY <2>2, <2>6
    <2>8. IndexOne(IndexOf(ctx, p - 1), ctx, p) = IndexOf(ctx, p)
      BY <2>6, IndexStep
    <2> QED BY <2>3, <2>4, <2>5, <2>7, <2>8
  <1>5. n \in m..n
    BY <1>0
  <1> QED BY <1>3, <1>4, <1>5

\* A part that two sequences have in common.
LEMMA PartSame ==
  ASSUME NEW T, NEW s \in Seq(T), NEW t \in Seq(T), NEW a \in Nat \ {0}, NEW b \in Nat,
         b <= Len(s), b <= Len(t), \A i \in 1..b : s[i] = t[i]
  PROVE  SubSeq(s, a, b) = SubSeq(t, a, b)
  <1> DEFINE u == SubSeq(s, a, b)
             v == SubSeq(t, a, b)
  <1>0. Len(s) \in Nat /\ Len(t) \in Nat
    BY LenProperties
  <1>1. \A i \in a..b : i \in 1..b /\ s[i] \in T /\ t[i] \in T
    <2> TAKE i \in a..b
    <2>1. i \in 1..b /\ i \in 1..Len(s) /\ i \in 1..Len(t)
      BY <1>0
    <2> QED BY <2>1, ElementOfSeq
  <1>2. /\ u \in Seq(T)
        /\ Len(u) = IF a <= b THEN b - a + 1 ELSE 0
        /\ \A i \in 1..(b - a + 1) : u[i] = s[a + i - 1]
    BY <1>1, SubSeqProperties
  <1>3. /\ v \in Seq(T)
        /\ Len(v) = IF a <= b THEN b - a + 1 ELSE 0
        /\ \A i \in 1..(b - a + 1) : v[i] = t[a + i - 1]
    BY <1>1, SubSeqProperties
  <1>4. \A i \in 1..Len(u) : i \in 1..(b - a + 1) /\ a + i - 1 \in 1..b
    BY <1>2
  <1>5. \A i \in 1..Len(u) : u[i] = v[i]
    BY <1>2, <1>3, <1>4
  <1> HIDE DEF u, v
  <1> QED BY <1>2, <1>3, <1>5, SeqEqual DEF u, v

\* The index is of the positions it has, whatever follows them.
LEMMA IndexMoves ==
  ASSUME NEW T, NEW s \in Seq(T), NEW t \in Seq(T), NEW m \in Nat,
         m <= Len(s), m <= Len(t), \A i \in 1..m : s[i] = t[i]
  PROVE  IndexOf(s, m) = IndexOf(t, m)
  <1>0. Match \in Nat \ {0}
    BY CopyAssumption
  <1>1. ASSUME NEW q \in Match..m PROVE Gram(s, q) = Gram(t, q)
    <2>1. /\ q \in Nat /\ q <= m /\ q - Match + 1 \in Nat \ {0}
          /\ q <= Len(s) /\ q <= Len(t) /\ \A i \in 1..q : i \in 1..m
      <3>1. Len(s) \in Nat /\ Len(t) \in Nat
        BY LenProperties
      <3> QED BY <1>0, <3>1
    <2>2. \A i \in 1..q : s[i] = t[i]
      BY <2>1
    <2>3. PICK a \in Nat \ {0} : a = q - Match + 1
      BY <2>1
    <2>4. SubSeq(s, a, q) = SubSeq(t, a, q)
      BY <2>1, <2>2, PartSame
    <2> QED BY <2>3, <2>4 DEF Gram
  <1>2. {Gram(s, q) : q \in Match..m} = {Gram(t, q) : q \in Match..m}
    BY <1>1
  <1>3. ASSUME NEW k \in Nat, k <= m, NEW g PROVE Ends(s, g, k) = Ends(t, g, k)
    <2>1. \A q \in Match..k : q \in Match..m
      BY <1>0, <1>3
    <2> QED BY <1>1, <2>1 DEF Ends
  <1>4. ASSUME NEW p \in 1..m
        PROVE  LastOf(Ends(s, Gram(s, p), p - 1)) = LastOf(Ends(t, Gram(t, p), p - 1))
    <2>1. p - 1 \in Nat /\ p - 1 <= m
      OBVIOUS
    <2>2. CASE p < Match
      <3>1. Match..(p - 1) = {}
        BY <1>0, <2>2
      <3> QED BY <3>1 DEF Ends
    <2>3. CASE ~(p < Match)
      <3>1. p \in Match..m
        BY <1>0, <2>3
      <3> QED BY <1>1, <1>3, <2>1, <3>1
    <2> QED BY <2>2, <2>3
  <1>5. \A g : LastOf(Ends(s, g, m)) = LastOf(Ends(t, g, m))
    BY <1>3
  <1> QED BY <1>2, <1>4, <1>5 DEF IndexOf

\* The occurrences tried one after the other: each is what the index has before
\* the last.
Walk(c, idx, newest, n) ==
  c = [i \in 1..n |-> IF i = 1 THEN newest ELSE IF c[i - 1] = 0 THEN 0 ELSE idx.prev[c[i - 1]]]

\* There is such a walk of any length.
LEMMA WalkOn ==
  ASSUME NEW idx, NEW newest, NEW n \in Nat
  PROVE  \E c : Walk(c, idx, newest, n)
  <1> DEFINE B == {k \in Nat : ~ \E c : Walk(c, idx, newest, k)}
  <1>1. B = {}
    <2> SUFFICES ASSUME B # {} PROVE FALSE
      OBVIOUS
    <2>1. PICK k \in B : \A m \in B : k <= m
      BY LeastNat
    <2>2. CASE k = 0
      <3> DEFINE h == [i \in 1..0 |-> 0]
      <3>1. Walk(h, idx, newest, 0)
        <4>1. 1..0 = {}
          OBVIOUS
        <4> QED BY <4>1 DEF Walk
      <3> QED BY <2>1, <2>2, <3>1
    <2>3. CASE k # 0
      <3>1. k \in Nat /\ k - 1 \in Nat /\ ~(k <= k - 1)
        BY <2>3
      <3>2. PICK c : Walk(c, idx, newest, k - 1)
        BY <2>1, <3>1
      <3> DEFINE v == IF k = 1 THEN newest ELSE IF c[k - 1] = 0 THEN 0 ELSE idx.prev[c[k - 1]]
                 h == [i \in 1..k |-> IF i = k THEN v ELSE c[i]]
      <3>3. ASSUME NEW i \in 1..k
            PROVE  h[i] = IF i = 1 THEN newest ELSE IF h[i - 1] = 0 THEN 0 ELSE idx.prev[h[i - 1]]
        <4>1. CASE i = 1 /\ i = k
          BY <4>1
        <4>2. CASE i = 1 /\ i # k
          <5>1. i \in 1..(k - 1) /\ h[i] = c[i]
            BY <3>1, <4>2
          <5>2. c[i] = newest
            BY <3>2, <4>2, <5>1 DEF Walk
          <5> QED BY <4>2, <5>1, <5>2
        <4>3. CASE i # 1 /\ i = k
          <5>1. k - 1 \in 1..k /\ k - 1 # k
            BY <3>1, <4>3
          <5>2. h[k - 1] = c[k - 1] /\ h[k] = v
            BY <4>3, <5>1
          <5> QED BY <4>3, <5>2
        <4>4. CASE i # 1 /\ i # k
          <5>1. i \in 1..(k - 1) /\ i - 1 \in 1..k /\ i - 1 # k
            BY <3>1, <4>4
          <5>2. h[i] = c[i] /\ h[i - 1] = c[i - 1]
            BY <4>4, <5>1
          <5>3. c[i] = IF c[i - 1] = 0 THEN 0 ELSE idx.prev[c[i - 1]]
            BY <3>2, <4>4, <5>1 DEF Walk
          <5> QED BY <4>4, <5>2, <5>3
        <4> QED BY <4>1, <4>2, <4>3, <4>4
      <3>4. h = [i \in 1..k |-> h[i]]
        OBVIOUS
      <3> HIDE DEF h, v
      <3>5. Walk(h, idx, newest, k)
        BY <3>3, <3>4 DEF Walk
      <3> QED BY <2>1, <3>5
    <2> QED BY <2>2, <2>3
  <1> QED BY <1>1

\* The numbers of O above p.
Above(O, p) == {q \in O : q > p}

\* One more than those above p, with p.
LEMMA AboveAndOne ==
  ASSUME NEW n \in Nat, NEW O, O \subseteq 1..n, NEW p \in O
  PROVE  /\ IsFiniteSet(O) /\ IsFiniteSet(Above(O, p)) /\ Cardinality(Above(O, p)) \in Nat
         /\ IsFiniteSet(Above(O, p) \cup {p})
         /\ Cardinality(Above(O, p) \cup {p}) = Cardinality(Above(O, p)) + 1
  <1>1. IsFiniteSet(1..n)
    BY FS_Interval
  <1>2. IsFiniteSet(O)
    BY <1>1, FS_Subset
  <1>3. Above(O, p) \subseteq O /\ p \notin Above(O, p)
    <2>1. p \in Nat /\ ~(p > p)
      OBVIOUS
    <2> QED BY <2>1 DEF Above
  <1>4. IsFiniteSet(Above(O, p))
    BY <1>2, <1>3, FS_Subset
  <1> QED BY <1>2, <1>3, <1>4, FS_AddElement, FS_CardinalityType

\* The i-th of the walk is the i-th from above of O.
Ith(O, c, i) ==
  IF c[i] = 0 THEN Cardinality(O) < i ELSE c[i] \in O /\ Cardinality(Above(O, c[i])) = i - 1

\* It is one if the index has, for each of O, the last of O before it.
LEMMA WalkDown ==
  ASSUME NEW n \in Nat, NEW O, O \subseteq 1..n, NEW idx, NEW N \in Nat, NEW c,
         \A p \in O : idx.prev[p] = LastOf({q \in O : q < p}),
         Walk(c, idx, LastOf(O), N)
  PROVE  \A i \in 1..N : Ith(O, c, i)
  <1>0. IsFiniteSet(O) /\ Cardinality(O) \in Nat
    <2>1. IsFiniteSet(1..n)
      BY FS_Interval
    <2> QED BY <2>1, FS_Subset, FS_CardinalityType
  <1>00. \A y \in O : y \in Nat
    OBVIOUS
  <1>1. ASSUME NEW S, S \subseteq O, S # {} PROVE LastOf(S) \in S /\ LastOf(S) # 0 /\ \A y \in S : y <= LastOf(S)
    <2>1. S \subseteq Nat /\ \A x \in S : x <= n /\ x # 0
      BY <1>1
    <2>2. Max(S) \in S /\ \A y \in S : y <= Max(S)
      BY <1>1, <2>1, Greatest
    <2> QED BY <1>1, <2>1, <2>2 DEF LastOf
  <1> DEFINE B == {i \in 1..N : ~Ith(O, c, i)}
  <1>2. B = {}
    <2> SUFFICES ASSUME B # {} PROVE FALSE
      OBVIOUS
    <2>1. B \subseteq Nat
      OBVIOUS
    <2>2. PICK i \in B : \A m \in B : i <= m
      BY <2>1, LeastNat
    <2>3. i \in 1..N /\ ~Ith(O, c, i) /\ i \in Nat
      OBVIOUS
    <2>4. c[i] = IF i = 1 THEN LastOf(O) ELSE IF c[i - 1] = 0 THEN 0 ELSE idx.prev[c[i - 1]]
      BY <2>3 DEF Walk
    <2>5. CASE i = 1
      <3>1. CASE O = {}
        <4>1. c[i] = 0
          BY <2>4, <2>5, <3>1 DEF LastOf
        <4>2. Cardinality(O) = 0
          BY <3>1, FS_EmptySet
        <4> QED BY <2>3, <2>5, <4>1, <4>2 DEF Ith
      <3>2. CASE O # {}
        <4>1. c[i] \in O /\ c[i] # 0 /\ \A y \in O : y <= c[i]
          BY <1>1, <2>4, <2>5, <3>2
        <4>2. Above(O, c[i]) = {}
          <5>1. PICK z \in Nat : z = c[i]
            BY <1>00, <4>1
          <5>2. \A y \in O : ~(y > z)
            BY <1>00, <4>1, <5>1
          <5> QED BY <5>1, <5>2 DEF Above
        <4>3. Cardinality(Above(O, c[i])) = 0
          BY <4>2, FS_EmptySet
        <4> QED BY <2>3, <2>5, <4>1, <4>3 DEF Ith
      <3> QED BY <3>1, <3>2
    <2>6. CASE i # 1
      <3>1. i - 1 \in 1..N /\ ~(i <= i - 1) /\ i - 1 \in Nat
        BY <2>3, <2>6
      <3>2. Ith(O, c, i - 1)
        BY <2>2, <3>1
      <3>3. CASE c[i - 1] = 0
        <4>1. c[i] = 0 /\ Cardinality(O) < i - 1
          BY <2>4, <2>6, <3>2, <3>3 DEF Ith
        <4>2. Cardinality(O) < i
          BY <1>0, <2>3, <4>1
        <4> QED BY <2>3, <4>1, <4>2 DEF Ith
      <3>4. CASE c[i - 1] # 0
        <4>1. c[i - 1] \in O /\ Cardinality(Above(O, c[i - 1])) = (i - 1) - 1
          BY <3>2, <3>4 DEF Ith
        <4>2. PICK p \in O : p = c[i - 1]
          BY <4>1
        <4> DEFINE S == {q \in O : q < p}
                   U == Above(O, p) \cup {p}
        <4>3. c[i] = LastOf(S)
          BY <2>4, <2>6, <3>4, <4>2
        <4>4. Cardinality(U) = i - 1
          <5>1. Cardinality(U) = Cardinality(Above(O, p)) + 1
            BY AboveAndOne
          <5> DEFINE a == Cardinality(Above(O, p))
                     b == Cardinality(U)
          <5>2. a = (i - 1) - 1 /\ b = a + 1
            BY <4>1, <4>2, <5>1
          <5> HIDE DEF a, b
          <5>3. b = i - 1
            BY <2>3, <5>2
          <5> QED BY <5>3 DEF b
        <4>5. (\A q \in O : q \in Nat) /\ p \in Nat
          BY <1>00
        <4>6. CASE S = {}
          <5>0. \A q \in O : q > p \/ q = p
            BY <4>5, <4>6
          <5>1. O = U
            BY <5>0 DEF Above
          <5>2. c[i] = 0
            BY <4>3, <4>6 DEF LastOf
          <5>3. Cardinality(O) < i
            BY <2>3, <4>4, <5>1
          <5> QED BY <2>3, <5>2, <5>3 DEF Ith
        <4>7. CASE S # {}
          <5>1. c[i] \in S /\ c[i] # 0 /\ \A y \in S : y <= c[i]
            BY <1>1, <4>3, <4>7
          <5>2. PICK z \in S : z = c[i]
            BY <5>1
          <5>3. \A q \in O : (q > z) <=> (q > p \/ q = p)
            BY <4>5, <5>1, <5>2
          <5>4. Above(O, z) = U
            BY <5>3 DEF Above
          <5> QED BY <2>3, <4>4, <5>1, <5>2, <5>4 DEF Ith
        <4> QED BY <4>6, <4>7
      <3> QED BY <3>3, <3>4
    <2> QED BY <2>5, <2>6
  <1> QED BY <1>2

\* What is tried is the newest of the occurrences.
LEMMA TriedNewest ==
  ASSUME NEW n \in Nat, NEW O, O \subseteq 1..n, NEW idx,
         \A p \in O : idx.prev[p] = LastOf({q \in O : q < p})
  PROVE  Tried(idx, LastOf(O)) = Newest(O)
  <1> DEFINE newest == LastOf(O)
             c == CHOOSE g : g = [i \in 1..Candidates |->
                    IF i = 1 THEN newest ELSE IF g[i - 1] = 0 THEN 0 ELSE idx.prev[g[i - 1]]]
  <1>0. Candidates \in Nat \ {0}
    BY CopyAssumption
  <1>1. Walk(c, idx, newest, Candidates)
    <2> HIDE DEF newest
    <2>1. \E g : g = [i \in 1..Candidates |->
                    IF i = 1 THEN newest ELSE IF g[i - 1] = 0 THEN 0 ELSE idx.prev[g[i - 1]]]
      <3>1. PICK g : Walk(g, idx, newest, Candidates)
        BY <1>0, WalkOn
      <3> QED BY <3>1, Zenon DEF Walk
    <2>2. c = [i \in 1..Candidates |->
                    IF i = 1 THEN newest ELSE IF c[i - 1] = 0 THEN 0 ELSE idx.prev[c[i - 1]]]
      BY <2>1, Zenon
    <2> HIDE DEF c
    <2> QED BY <2>2 DEF Walk
  <1>2. Tried(idx, newest) = {c[i] : i \in 1..Candidates} \ {0}
    <2> HIDE DEF newest
    <2> QED BY Zenon DEF Tried
  <1> HIDE DEF c
  <1>3. \A i \in 1..Candidates : Ith(O, c, i)
    BY <1>0, <1>1, WalkDown
  <1>4. Newest(O) = {p \in O : Cardinality(Above(O, p)) < Candidates}
    BY DEF Newest, Above
  <1>5. ASSUME NEW i \in 1..Candidates, c[i] # 0 PROVE c[i] \in Newest(O)
    <2>1. c[i] \in O /\ Cardinality(Above(O, c[i])) = i - 1
      BY <1>3, <1>5 DEF Ith
    <2>2. i - 1 < Candidates
      BY <1>0
    <2> QED BY <1>4, <2>1, <2>2
  <1>6. ASSUME NEW p \in Newest(O) PROVE p # 0 /\ \E i \in 1..Candidates : c[i] = p
    <2>1. p \in O /\ Cardinality(Above(O, p)) < Candidates /\ p # 0
      BY <1>4
    <2>2. PICK a \in Nat : a = Cardinality(Above(O, p))
      BY <2>1, AboveAndOne
    <2>3. a + 1 \in 1..Candidates /\ (a + 1) - 1 = a
      BY <1>0, <2>1, <2>2
    <2>4. IsFiniteSet(O) /\ Cardinality(Above(O, p) \cup {p}) = a + 1 /\ Above(O, p) \cup {p} \subseteq O
      BY <2>1, <2>2, AboveAndOne DEF Above
    <2>5. PICK i \in 1..Candidates : i = a + 1
      BY <2>3
    <2>6. Ith(O, c, i)
      BY <1>3
    <2>7. CASE c[i] = 0
      <3>1. Cardinality(O) < a + 1
        BY <2>5, <2>6, <2>7 DEF Ith
      <3>2. a + 1 <= Cardinality(O) /\ Cardinality(O) \in Nat
        BY <2>4, FS_Subset, FS_CardinalityType
      <3> QED BY <3>1, <3>2
    <2>8. CASE c[i] # 0
      <3>1. c[i] \in O /\ Cardinality(Above(O, c[i])) = a
        BY <2>3, <2>5, <2>6, <2>8 DEF Ith
      <3>2. PICK q \in O : q = c[i]
        BY <3>1
      <3>3. Cardinality(Above(O, q) \cup {q}) = a + 1 /\ IsFiniteSet(Above(O, q)) /\ IsFiniteSet(Above(O, p))
        BY <2>1, <3>1, <3>2, AboveAndOne
      <3>4. p \in Nat /\ q \in Nat /\ \A x \in O : x \in Nat
        BY <2>1
      <3>5. ~(q < p)
        <4> SUFFICES ASSUME q < p PROVE FALSE
          OBVIOUS
        <4>1. Above(O, p) \cup {p} \subseteq Above(O, q)
          <5>1. \A x \in O : x > p \/ x = p => x > q
            BY <3>4
          <5> QED BY <2>1, <5>1 DEF Above
        <4>2. Cardinality(Above(O, p) \cup {p}) <= Cardinality(Above(O, q))
          BY <3>3, <4>1, FS_Subset
        <4> QED BY <2>4, <3>1, <3>2, <4>2
      <3>6. ~(p < q)
        <4> SUFFICES ASSUME p < q PROVE FALSE
          OBVIOUS
        <4>1. Above(O, q) \cup {q} \subseteq Above(O, p)
          <5>1. \A x \in O : x > q \/ x = q => x > p
            BY <3>4
          <5> QED BY <2>1, <5>1 DEF Above
        <4>2. Cardinality(Above(O, q) \cup {q}) <= Cardinality(Above(O, p))
          BY <3>3, <4>1, FS_Subset
        <4> QED BY <2>2, <3>3, <4>2
      <3>7. p = q
        BY <3>4, <3>5, <3>6
      <3> QED BY <2>1, <3>2, <3>7
    <2> QED BY <2>7, <2>8
  <1> HIDE DEF newest
  <1>7. Tried(idx, newest) = Newest(O)
    <2>1. PICK W : W = Newest(O)
      OBVIOUS
    <2>2. PICK V : V = {c[i] : i \in 1..Candidates} \ {0}
      OBVIOUS
    <2>3. ASSUME NEW x \in V PROVE x \in W
      BY <1>5, <2>1, <2>2
    <2>4. ASSUME NEW x \in W PROVE x \in V
      BY <1>6, <2>1, <2>2
    <2> QED BY <1>2, <2>1, <2>2, <2>3, <2>4
  <1> QED BY <1>7 DEF newest

\* A round less leaves the remainder.
LEMMA RoundLess ==
  ASSUME NEW R \in Nat \ {0}, NEW a \in Nat, a - R \in Nat
  PROVE  (a - R) % R = a % R
  <1> DEFINE p == a - R
             u == p \div R
             v == a \div R
             r == p % R
             s == a % R
  <1>1. /\ r \in 0..(R - 1) /\ s \in 0..(R - 1) /\ u \in Int /\ v \in Int
        /\ p = R * u + r /\ a = R * v + s
    <2>1. PICK x \in Nat : x = p
      OBVIOUS
    <2>2. /\ \A y \in Nat : y % R \in 0..(R - 1) /\ y \div R \in Int
          /\ \A y \in Nat : y = R * (y \div R) + (y % R)
      OBVIOUS
    <2> HIDE DEF p
    <2> QED BY <2>1, <2>2
  <1>2. p + R = a
    OBVIOUS
  <1> HIDE DEF p, u, v, r, s
  <1> DEFINE d == (v - u) - 1
  <1>3. d \in Int /\ v = u + (d + 1)
    BY <1>1
  <1>4. R * v = R * u + (R * d + R)
    <2> HIDE DEF d
    <2> QED BY <1>1, <1>3
  <1>5. r - s = R * d
    <2>1. R * v \in Int /\ R * u \in Int /\ R * d \in Int
      BY <1>1, <1>3
    <2> HIDE DEF d
    <2> QED BY <1>1, <1>2, <1>4, <2>1
  <1> HIDE DEF d
  <1>6. ~(d >= 1)
    <2> SUFFICES ASSUME d >= 1 PROVE FALSE
      OBVIOUS
    <2>1. R * d >= R
      BY <1>3
    <2> QED BY <1>1, <1>5, <2>1
  <1>7. ~(d <= -1)
    <2> SUFFICES ASSUME d <= -1 PROVE FALSE
      OBVIOUS
    <2>1. R * d <= -R
      BY <1>3
    <2> QED BY <1>1, <1>5, <2>1
  <1>8. d = 0
    BY <1>3, <1>6, <1>7
  <1>9. r = s
    BY <1>1, <1>5, <1>8
  <1> QED BY <1>9 DEF p, r, s

\* A proposal copies round and round what followed its occurrence.
Round(ctx, p, k) == [j \in 1..k |-> ctx[p + 1 + ((j - 1) % (Len(ctx) - p))]]

LEMMA CopyIs ==
  ASSUME NEW ctx, NEW L \in Nat, L = Len(ctx), NEW p \in Nat, p < L, NEW k \in Nat
  PROVE  CopyFrom(ctx, p, k) = Round(ctx, p, k)
  <1> DEFINE d == L - p
             F(j) == ctx[p + 1 + ((j - 1) % d)]
             w == [j \in 1..k |-> F(j)]
  <1>0. d \in Nat \ {0} /\ p + d = L
    OBVIOUS
  <1>1. ASSUME NEW j \in 1..k PROVE p + j <= L => F(j) = ctx[p + j]
    <2> SUFFICES ASSUME p + j <= L PROVE F(j) = ctx[p + j]
      OBVIOUS
    <2> HIDE DEF d
    <2>1. j - 1 \in Nat /\ j - 1 < d /\ p + 1 + (j - 1) = p + j
      BY <1>0
    <2>2. (j - 1) % d = j - 1
      BY <1>0, <2>1
    <2> QED BY <2>1, <2>2
  <1>2. ASSUME NEW j \in 1..k, ~(p + j <= L)
        PROVE  p + j - L \in 1..k /\ ~(j <= p + j - L) /\ F(p + j - L) = F(j)
    <2> HIDE DEF d
    <2>1. p + j - L = j - d /\ j - d \in 1..k /\ ~(j <= j - d)
      BY <1>0, <1>2
    <2>2. PICK a \in Nat : a = j - 1
      OBVIOUS
    <2>3. (j - d) - 1 = a - d /\ a - d \in Nat
      BY <1>0, <2>1, <2>2
    <2>4. (a - d) % d = a % d
      BY <1>0, <2>2, <2>3, RoundLess
    <2> QED BY <2>1, <2>2, <2>3, <2>4
  <1> HIDE DEF F
  <1> DEFINE u == CHOOSE g : g = [j \in 1..k |-> IF p + j <= Len(ctx) THEN ctx[p + j] ELSE g[p + j - Len(ctx)]]
  <1>3. u = [j \in 1..k |-> IF p + j <= L THEN ctx[p + j] ELSE u[p + j - L]]
    <2>1. \A j \in 1..k : w[j] = IF p + j <= L THEN ctx[p + j] ELSE w[p + j - L]
      BY <1>1, <1>2
    <2>2. w = [j \in 1..k |-> w[j]]
      OBVIOUS
    <2> HIDE DEF w
    <2>3. w = [j \in 1..k |-> IF p + j <= Len(ctx) THEN ctx[p + j] ELSE w[p + j - Len(ctx)]]
      BY <2>1, <2>2
    <2>4. u = [j \in 1..k |-> IF p + j <= Len(ctx) THEN ctx[p + j] ELSE u[p + j - Len(ctx)]]
      BY <2>3, Zenon
    <2> HIDE DEF u
    <2> QED BY <2>4
  <1>4. CopyFrom(ctx, p, k) = [j \in 1..k |-> u[j]]
    BY Zenon DEF CopyFrom
  <1> HIDE DEF u
  <1> DEFINE B == {j \in 1..k : u[j] # F(j)}
  <1>5. B = {}
    <2> SUFFICES ASSUME B # {} PROVE FALSE
      OBVIOUS
    <2>1. B \subseteq Nat
      OBVIOUS
    <2>2. PICK j \in B : \A i \in B : j <= i
      BY <2>1, LeastNat
    <2>3. j \in 1..k /\ u[j] # F(j)
      OBVIOUS
    <2>4. CASE p + j <= L
      BY <1>1, <1>3, <2>3, <2>4
    <2>5. CASE ~(p + j <= L)
      <3>1. p + j - L \in 1..k /\ ~(j <= p + j - L) /\ F(p + j - L) = F(j)
        BY <1>2, <2>3, <2>5
      <3>2. u[p + j - L] = F(p + j - L)
        BY <2>2, <3>1
      <3> QED BY <1>3, <2>3, <2>5, <3>1, <3>2
    <2> QED BY <2>4, <2>5
  <1>6. \A j \in 1..k : u[j] = F(j)
    BY <1>5
  <1> QED BY <1>4, <1>6 DEF F, Round

\* The best of some occurrences is one of them.
LEMMA BestIn ==
  ASSUME NEW ctx, NEW n \in Nat, NEW ps, ps \subseteq 1..n, ps # {}
  PROVE  Best(ctx, ps) \in ps
  <1>0. Match \in Nat /\ Extend \in Nat /\ Match <= Extend
    BY CopyAssumption
  <1>1. ASSUME NEW p PROVE Backward(ctx, p) \in Nat /\ Backward(ctx, p) <= Extend
    <2> DEFINE S == {m \in Match..Extend : \A i \in Match..(m - 1) : i < p /\ ctx[p - i] = ctx[Len(ctx) - i]}
    <2>1. S \subseteq Nat /\ \A x \in S : x <= Extend
      BY <1>0
    <2>2. Match \in S
      <3>1. Match \in Match..Extend /\ Match..(Match - 1) = {}
        BY <1>0
      <3> QED BY <3>1
    <2>3. Backward(ctx, p) = Max(S)
      BY DEF Backward
    <2> HIDE DEF S
    <2>4. S # {}
      BY <2>2
    <2>5. Max(S) \in S
      BY <1>0, <2>1, <2>4, Greatest
    <2> QED BY <2>1, <2>3, <2>5
  <1> DEFINE D == {Backward(ctx, p) : p \in ps}
             T == {p \in ps : \A q \in ps : Backward(ctx, q) <= Backward(ctx, p)}
  <1>2. D \subseteq Nat /\ D # {} /\ \A x \in D : x <= Extend
    BY <1>1
  <1>3. Max(D) \in D /\ \A y \in D : y <= Max(D)
    <2> HIDE DEF D
    <2> QED BY <1>0, <1>2, Greatest
  <1>4. PICK p \in ps : Max(D) = Backward(ctx, p)
    BY <1>3
  <1>5. p \in T
    BY <1>3, <1>4
  <1>7. Best(ctx, ps) = Max(T)
    BY DEF Best
  <1>8. T \subseteq ps
    OBVIOUS
  <1>10. \A x \in ps : x \in Nat /\ x <= n
    OBVIOUS
  <1> HIDE DEF T
  <1>6. T \subseteq Nat /\ T # {} /\ \A x \in T : x <= n
    BY <1>5, <1>8, <1>10
  <1>9. Max(T) \in T
    BY <1>6, Greatest
  <1> QED BY <1>7, <1>8, <1>9

\* Of a context that is not too short, its index proposes what a search would.
LEMMA ProposesBest ==
  ASSUME NEW ctx, NEW L \in Nat, L = Len(ctx), L > Match, NEW idx, idx = IndexOf(ctx, L - 1), NEW k \in Nat
  PROVE  Propose(idx, ctx, k) = ProposeOf(ctx, k)
  <1> DEFINE O == Occurrences(ctx)
             G == Gram(ctx, L)
             n == L - 1
  <1>0. Match \in Nat \ {0} /\ n \in Nat /\ Match..n \subseteq 1..n /\ Candidates \in Nat \ {0}
    BY CopyAssumption
  <1>1. O = Ends(ctx, G, n) /\ O \subseteq 1..n
    BY <1>0 DEF Occurrences, Ends
  <1>2. (G \in DOMAIN idx.head) <=> (O # {})
    BY <1>1 DEF IndexOf, Ends
  <1>3. O # {} => idx.head[G] = LastOf(O)
    BY <1>1, <1>2 DEF IndexOf
  <1>4. ASSUME NEW p \in O PROVE idx.prev[p] = LastOf({q \in O : q < p})
    <2>1. p \in 1..n /\ p \in Nat /\ Gram(ctx, p) = G
      BY <1>1 DEF Ends
    <2>2. idx.prev[p] = LastOf(Ends(ctx, G, p - 1))
      BY <2>1 DEF IndexOf
    <2>3. \A q : (q \in Match..(p - 1)) <=> (q \in Match..n /\ q < p)
      BY <1>0, <2>1
    <2>4. Ends(ctx, G, p - 1) = {q \in O : q < p}
      BY <1>1, <2>3 DEF Ends
    <2> QED BY <2>2, <2>4
  <1> HIDE DEF O, G, n
  <1>5. CASE TooShort(ctx, k) \/ O = {}
    <2>1. Propose(idx, ctx, k) = <<>>
      BY <1>2, <1>5 DEF Propose, G
    <2>2. ProposeOf(ctx, k) = <<>>
      BY <1>5 DEF ProposeOf, O
    <2> QED BY <2>1, <2>2
  <1>6. CASE ~TooShort(ctx, k) /\ O # {}
    <2> DEFINE p == Best(ctx, Newest(O))
    <2>1. Tried(idx, LastOf(O)) = Newest(O)
      BY <1>0, <1>1, <1>4, TriedNewest
    <2>2. Propose(idx, ctx, k) = CopyFrom(ctx, p, k)
      BY <1>2, <1>3, <1>6, <2>1, Zenon DEF Propose, G
    <2>3. Newest(O) \subseteq 1..n /\ Newest(O) # {}
      <3>1. Newest(O) \subseteq O
        BY DEF Newest
      <3>2. O \subseteq Nat /\ \A x \in O : x <= n
        BY <1>0, <1>1
      <3>3. Max(O) \in O /\ \A y \in O : y <= Max(O)
        BY <1>0, <1>6, <3>2, Greatest
      <3>4. PICK z \in O : z = Max(O)
        BY <3>3
      <3>5. {q \in O : q > z} = {}
        <4>1. \A y \in O : ~(y > z)
          BY <3>2, <3>3, <3>4
        <4> QED BY <4>1
      <3>6. Cardinality({q \in O : q > z}) < Candidates
        <4>1. Cardinality({q \in O : q > z}) = 0
          BY <3>5, FS_EmptySet
        <4> QED BY <1>0, <4>1
      <3>7. z \in Newest(O)
        BY <3>6 DEF Newest
      <3> QED BY <1>1, <3>1, <3>7
    <2>4. p \in 1..n
      BY <1>0, <2>3, BestIn
    <2>5. ProposeOf(ctx, k) = Round(ctx, p, k)
      BY <1>6, Zenon DEF ProposeOf, O, Round
    <2> HIDE DEF p
    <2>6. p \in Nat /\ p < L
      BY <2>4 DEF n
    <2>7. CopyFrom(ctx, p, k) = Round(ctx, p, k)
      BY <2>6, CopyIs
    <2> QED BY <2>2, <2>5, <2>7
  <1> QED BY <1>5, <1>6

\* A request's index is that of some first positions of its tokens, and not of
\* the last.
IndexFits(x) == \E m \in 0..(Len(x.hist) - 1) : x.index = IndexOf(x.hist, m)

\* The empty index is that of no positions.
LEMMA EmptyFits ==
  ASSUME NEW ctx
  PROVE  EmptyIndex = IndexOf(ctx, 0)
  <1>1. Match..0 = {} /\ 1..0 = {}
    BY CopyAssumption
  <1> DEFINE H == [g \in {Gram(ctx, q) : q \in Match..0} |-> LastOf(Ends(ctx, g, 0))]
             F == [p \in 1..0 |-> LastOf(Ends(ctx, Gram(ctx, p), p - 1))]
  <1>2. \A f : f = [g \in {} |-> f[g]] => f = <<>>
    OBVIOUS
  <1>3. H = [g \in {} |-> H[g]] /\ F = [g \in {} |-> F[g]]
    BY <1>1
  <1>4. IndexOf(ctx, 0) = [head |-> H, prev |-> F]
    BY DEF IndexOf
  <1> HIDE DEF H, F
  <1>5. H = <<>> /\ F = <<>>
    BY <1>2, <1>3
  <1> QED BY <1>4, <1>5 DEF EmptyIndex

\* So it is when the tokens grow.
LEMMA FitsGrows ==
  ASSUME NEW h \in Seq(Token), NEW y, y.hist \in Seq(Token), Begins(h, y.hist),
         NEW m \in Nat, m < Len(h), y.index = IndexOf(h, m)
  PROVE  IndexFits(y)
  <1>1. PICK t \in Seq(Token) : t = y.hist
    OBVIOUS
  <1>2. /\ Len(h) \in Nat /\ Len(t) \in Nat /\ Len(h) <= Len(t)
        /\ \A i \in 1..Len(h) : t[i] = h[i]
    BY <1>1, LenProperties DEF Begins
  <1>3. m <= Len(h) /\ m <= Len(t) /\ m \in 0..(Len(t) - 1) /\ \A i \in 1..m : i \in 1..Len(h)
    BY <1>2
  <1>4. IndexOf(h, m) = IndexOf(t, m)
    BY <1>2, <1>3, IndexMoves
  <1> QED BY <1>1, <1>3, <1>4 DEF IndexFits

\* A proposal extends the index to all positions but the last, or not at all.
LEMMA ExtendsFits ==
  ASSUME NEW ctx, NEW L \in Nat \ {0}, L = Len(ctx), NEW m \in 0..(L - 1), NEW idx, idx = IndexOf(ctx, m), NEW k
  PROVE  /\ TooShort(ctx, k) => IndexAfter(idx, ctx, k) = idx
         /\ ~TooShort(ctx, k) => IndexAfter(idx, ctx, k) = IndexOf(ctx, L - 1)
  <1>1. PICK n \in Nat : n = L - 1
    OBVIOUS
  <1>2. Indexed(idx, ctx) = IndexOf(ctx, n)
    BY <1>1, IndexedIs
  <1> QED BY <1>1, <1>2 DEF IndexAfter

\* A started request's index is empty.
LEMMA StartFits ==
  ASSUME SelectsTokens, NEW r \in Requests, NEW gone \in BOOLEAN
  PROVE  IndexFits(Started(r, gone))
  <1> DEFINE y == Started(r, gone)
  <1>1. ReqInv(r, y)
    BY StartExact
  <1>2. y.index = EmptyIndex
    BY DEF Started
  <1> HIDE DEF y
  <1>3. Prompt[r] \in Seq(Token) /\ Len(Prompt[r]) \in Nat
    BY SpecAssumption
  <1>4. Len(y.hist) = Len(Prompt[r]) + y.gen /\ y.gen \in Nat /\ 1 <= y.gen
    BY <1>1 DEF ReqInv, Selected
  <1>5. 0 \in 0..(Len(y.hist) - 1)
    BY <1>3, <1>4
  <1>6. y.index = IndexOf(y.hist, 0)
    BY <1>2, EmptyFits
  <1> QED BY <1>5, <1>6 DEF IndexFits, y

\* A plain step leaves the index.
LEMMA DecodeFits ==
  ASSUME SelectsTokens, NEW r \in Requests, NEW x, ReqInv(r, x), x.st = "active", IndexFits(x),
         NEW gone \in BOOLEAN
  PROVE  IndexFits(Decoded(r, x, gone))
  <1> DEFINE y == Decoded(r, x, gone)
             h == x.hist
             t == Select(r, Append(x.kv, h[Len(h)]), x.gen)
  <1>1. h \in Seq(Token) /\ Len(h) \in Nat /\ t \in Token
    BY ActiveFacts DEF SelectsTokens
  <1>2. y.hist = Append(h, t) /\ y.index = x.index
    BY DEF Decoded
  <1>3. PICK m \in 0..(Len(h) - 1) : x.index = IndexOf(h, m)
    BY DEF IndexFits
  <1> HIDE DEF y, h, t
  <1>4. y.hist \in Seq(Token) /\ Begins(h, y.hist)
    BY <1>1, <1>2, AppendProperties DEF Begins
  <1>5. m \in Nat /\ m < Len(h)
    BY <1>1
  <1>6. y.index = IndexOf(h, m)
    BY <1>2, <1>3
  <1> QED BY <1>1, <1>4, <1>5, <1>6, FitsGrows DEF y

\* A speculative step extends it, if it proposes.
LEMMA StepFits ==
  ASSUME SelectsTokens, NEW r \in Requests, NEW x, ReqInv(r, x), x.st = "active", IndexFits(x),
         NEW d \in DraftsOf(r, x),
         NEW a \in Accepts(Block(x, d), Selection(r, x, Block(x, d))),
         NEW s \in Sends(r, x, Out(Block(x, d), Selection(r, x, Block(x, d)), a))
  PROVE  IndexFits(Stepped(r, x, Block(x, d), a, s))
  <1> DEFINE b == Block(x, d)
             g == Selection(r, x, b)
             out == Out(b, g, a)
             y == Stepped(r, x, b, a, s)
             h == x.hist
             k == Allowed(r, x)
  <1>1. ReqInv(r, y)
    BY StepExact
  <1>2. /\ h \in Seq(Token) /\ h[Len(h)] \in Token /\ Len(h) \in Nat \ {0}
        /\ x.kv \in Seq(Token) /\ Len(x.kv) \in Nat /\ Len(h) = Len(x.kv) + 1
    BY ActiveFacts
  <1>3. PICK U : Token \subseteq U /\ d \in Seq(U)
    BY DraftsAreShort
  <1>4. b \in Seq(U) /\ Len(b) = Len(d) + 1 /\ Len(d) \in Nat
    BY <1>2, <1>3, BlockFacts, LenProperties
  <1>5. g \in [1..Len(b) -> Token]
    BY DEF Selection, SelectsTokens
  <1>6. a \in 0..(Len(b) - 1) /\ \A j \in 1..a : b[j + 1] = g[j]
    BY DEF Accepts
  <1>7. s.n \in 1..Len(out)
    BY DEF Sends
  <1>8. y.hist = h \o SubSeq(out, 1, s.n) /\ y.index = CopyIndexAfter(r, x)
    BY DEF Stepped
  <1> HIDE DEF b, g, y, h, k
  <1>9. out \in Seq(Token)
    <2>1. Agrees(U, Token, b, g, a)
      BY <1>4, <1>5, <1>6 DEF Agrees
    <2> QED BY <2>1, OutIsSelection
  <1> HIDE DEF out
  <1>10. y.hist \in Seq(Token) /\ Begins(h, y.hist)
    <2>1. PICK H \in Seq(Token) : H = h
      BY <1>2
    <2>2. PICK o \in Seq(Token) : o = out
      BY <1>9
    <2>3. PICK n \in 1..Len(o) : n = s.n
      BY <1>7, <2>2
    <2> DEFINE hh == H \o SubSeq(o, 1, n)
    <2>4. /\ hh \in Seq(Token) /\ Len(hh) = Len(H) + n
          /\ \A i \in 1..Len(H) : hh[i] = H[i]
      BY HistoryGrows
    <2>5. y.hist = hh
      BY <1>8, <2>1, <2>2, <2>3
    <2> HIDE DEF hh
    <2>6. Len(H) <= Len(H) + n
      BY <2>3, LenProperties
    <2> QED BY <2>1, <2>4, <2>5, <2>6 DEF Begins
  <1>11. PICK m \in 0..(Len(h) - 1) : x.index = IndexOf(h, m)
    BY DEF IndexFits, h
  <1>12. y.index = x.index \/ y.index = IndexOf(h, Len(h) - 1)
    <2>1. y.index = x.index \/ y.index = IndexAfter(x.index, h, k)
      BY <1>8 DEF CopyIndexAfter, h, k
    <2>2. PICK L \in Nat \ {0} : L = Len(h)
      BY <1>2
    <2>3. PICK idx : idx = x.index
      OBVIOUS
    <2>4. IndexAfter(idx, h, k) = idx \/ IndexAfter(idx, h, k) = IndexOf(h, L - 1)
      BY <1>11, <2>2, <2>3, ExtendsFits
    <2> QED BY <2>1, <2>2, <2>3, <2>4
  <1>13. PICK p \in Nat : p < Len(h) /\ y.index = IndexOf(h, p)
    <2>1. m \in Nat /\ m < Len(h) /\ Len(h) - 1 \in Nat /\ Len(h) - 1 < Len(h)
      BY <1>2
    <2> QED BY <1>11, <1>12, <2>1
  <1> QED BY <1>2, <1>10, <1>13, FitsGrows DEF y, b

\* Every running request's index fits.
IndexInv == \A r \in Requests : req[r].st = "active" => IndexFits(req[r])

\* Every step keeps it.
LEMMA NextFits ==
  ASSUME SelectsTokens, Inv, IndexInv, [Next]_vars
  PROVE  IndexInv'
  <1> SUFFICES ASSUME NEW r \in Requests, req'[r].st = "active"
               PROVE  IndexFits(req'[r])
    BY DEF IndexInv, IndexFits
  <1>1. CASE \E q \in Requests, gone \in BOOLEAN : Start(q, gone)
    <2>1. PICK q \in Requests, gone \in BOOLEAN : Start(q, gone)
      BY <1>1
    <2>2. req' = [req EXCEPT ![q] = Started(q, gone)]
      BY <2>1 DEF Start
    <2>3. CASE r = q
      <3>1. req'[r] = Started(r, gone)
        BY <2>2, <2>3 DEF Inv
      <3> QED BY <3>1, StartFits
    <2>4. CASE r # q
      <3>1. req'[r] = req[r]
        BY <2>2, <2>4 DEF Inv
      <3> QED BY <3>1 DEF IndexInv
    <2> QED BY <2>3, <2>4
  <1>2. CASE SpecStep
    <2>1. PICK y : /\ \A q \in Active : y[q] \in Steps(q, req[q])
                   /\ req' = [q \in Requests |-> IF q \in Active THEN y[q] ELSE req[q]]
      BY <1>2 DEF SpecStep
    <2>2. r \in Active
      BY <2>1 DEF Active
    <2>3. req[r].st = "active" /\ ReqInv(r, req[r]) /\ IndexFits(req[r])
      BY <2>2 DEF Inv, Active, Waiting, IndexInv
    <2>4. req'[r] = y[r] /\ y[r] \in Steps(r, req[r])
      BY <2>1, <2>2
    <2>5. PICK d \in DraftsOf(r, req[r]) : y[r] \in StepsOf(r, req[r], Block(req[r], d))
      BY <2>4 DEF Steps
    <2> DEFINE b == Block(req[r], d)
    <2>6. PICK a \in Accepts(b, Selection(r, req[r], b)) :
            y[r] \in {Stepped(r, req[r], b, a, s) :
                        s \in Sends(r, req[r], Out(b, Selection(r, req[r], b), a))}
      BY <2>5 DEF StepsOf
    <2>7. PICK s \in Sends(r, req[r], Out(b, Selection(r, req[r], b), a)) :
            y[r] = Stepped(r, req[r], b, a, s)
      BY <2>6
    <2>8. IndexFits(Stepped(r, req[r], b, a, s))
      BY <2>3, <2>5, <2>6, <2>7, StepFits
    <2> QED BY <2>4, <2>7, <2>8
  <1>3. CASE \E gone \in SUBSET Requests : DecodeStep(gone)
    <2>1. PICK gone \in SUBSET Requests : DecodeStep(gone)
      BY <1>3
    <2>2. req' = [q \in Requests |->
                    IF q \in Active THEN Decoded(q, req[q], q \in gone) ELSE req[q]]
      BY <2>1 DEF DecodeStep
    <2>3. r \in Active
      BY <2>2 DEF Active
    <2>4. req[r].st = "active" /\ ReqInv(r, req[r]) /\ IndexFits(req[r])
      BY <2>3 DEF Inv, Active, Waiting, IndexInv
    <2>5. req'[r] = Decoded(r, req[r], r \in gone) /\ (r \in gone) \in BOOLEAN
      BY <2>2, <2>3
    <2> QED BY <2>4, <2>5, DecodeFits
  <1>4. CASE StepFails
    BY <1>4 DEF StepFails, Active, Failed
  <1>5. CASE UNCHANGED vars
    BY <1>5 DEF IndexInv, vars
  <1> QED BY <1>1, <1>2, <1>3, <1>4, <1>5 DEF Next

\* Then what is proposed is what a search would.
LEMMA FitsExact ==
  ASSUME Inv, IndexInv
  PROVE  CopyExact
  <1> SUFFICES ASSUME NEW r \in Active, NEW k \in 2..Drafts
               PROVE  Propose(IndexAfter(req[r].index, req[r].hist, k), req[r].hist, k)
                        = ProposeOf(req[r].hist, k)
    BY DEF CopyExact
  <1>1. ReqInv(r, req[r]) /\ IndexFits(req[r]) /\ req[r].st = "active" /\ r \in Requests
    BY DEF Inv, IndexInv, Active, Waiting
  <1>2. PICK h \in Seq(Token) : h = req[r].hist
    BY <1>1, ActiveFacts
  <1>3. PICK L \in Nat \ {0} : L = Len(h)
    BY <1>1, <1>2, ActiveFacts
  <1>4. PICK idx : idx = req[r].index
    OBVIOUS
  <1>5. PICK m \in 0..(L - 1) : idx = IndexOf(h, m)
    BY <1>1, <1>2, <1>3, <1>4 DEF IndexFits
  <1>6. k \in Nat
    OBVIOUS
  <1>7. CASE TooShort(h, k)
    <2>1. Propose(IndexAfter(idx, h, k), h, k) = <<>> /\ ProposeOf(h, k) = <<>>
      BY <1>7 DEF Propose, ProposeOf
    <2> QED BY <1>2, <1>4, <2>1
  <1>8. CASE ~TooShort(h, k)
    <2>1. PICK new : new = IndexAfter(idx, h, k)
      OBVIOUS
    <2>2. new = IndexOf(h, L - 1)
      BY <1>3, <1>5, <1>8, <2>1, ExtendsFits
    <2>3. L > Match
      BY <1>3, <1>8, CopyAssumption DEF TooShort
    <2>4. Propose(new, h, k) = ProposeOf(h, k)
      BY <1>3, <1>6, <2>2, <2>3, ProposesBest
    <2> QED BY <1>2, <1>4, <2>1, <2>4
  <1> QED BY <1>7, <1>8

-----------------------------------------------------------------------------
(* What the invariants say. *)

\* What the invariant says of the output.
LEMMA InvOutput ==
  ASSUME Inv
  PROVE  OutputTrue
  <1> SUFFICES ASSUME NEW r \in Requests, req[r].st # "waiting"
               PROVE  /\ Len(req[r].hist) = Len(Prompt[r]) + req[r].gen
                      /\ SubSeq(req[r].hist, 1, Len(Prompt[r])) = Prompt[r]
                      /\ \A i \in 1..req[r].gen :
                           req[r].hist[Len(Prompt[r]) + i]
                             = Select(r, SubSeq(req[r].hist, 1, Len(Prompt[r]) + i - 1), i - 1)
    BY DEF OutputTrue
  <1> DEFINE h == req[r].hist
             p == Prompt[r]
             P == Len(p)
             gen == req[r].gen
  <1>1. ReqInv(r, req[r])
    BY DEF Inv, Waiting
  <1>2. /\ h \in Seq(Token) /\ Len(h) = P + gen /\ gen \in Nat
        /\ Begins(p, h) /\ Chosen(r, h, P, 0)
    BY <1>1 DEF ReqInv, Selected
  <1>3. p \in Seq(Token)
    BY SpecAssumption
  <1> HIDE DEF h, p, gen
  <1>4. P \in Nat
    BY <1>3, LenProperties
  <1>5. SubSeq(h, 1, P) = p
    <2>1. P <= Len(h) /\ \A i \in 1..P : h[i] = p[i]
      BY <1>2 DEF Begins
    <2>2. SubSeq(h, 1, P) = SubSeq(p, 1, P)
      BY <2>1, <1>2, <1>3, <1>4, PrefixSame
    <2>3. SubSeq(p, 1, P) = p
      BY <1>3, SubSeqFull
    <2> QED BY <2>2, <2>3
  <1>6. \A i \in 1..gen : h[P + i] = Select(r, SubSeq(h, 1, P + i - 1), i - 1)
    <2> TAKE i \in 1..gen
    <2>1. 0 + i - 1 = i - 1 /\ (P + gen) - P = gen
      BY <1>2, <1>4
    <2>2. h[P + i] = Select(r, SubSeq(h, 1, P + i - 1), 0 + i - 1)
      BY <2>1, <1>2 DEF Chosen
    <2> QED BY <2>1, <2>2
  <1> QED BY <1>2, <1>5, <1>6 DEF h, p, gen

\* What it says of the rows.
LEMMA InvRows ==
  ASSUME Inv
  PROVE  RowsKept
  <1> SUFFICES ASSUME NEW r \in Requests
               PROVE  LET x == req[r]
                          h == SubSeq(x.hist, 1, Len(x.hist) - 1)
                      IN  /\ x.st = "active" => x.kv = h
                          /\ x.st = "ended" =>
                               Len(h) <= Len(x.kv) /\ SubSeq(x.kv, 1, Len(h)) = h
    BY DEF RowsKept
  <1> DEFINE t == req[r].hist
             kv == req[r].kv
             n == Len(t) - 1
             h == SubSeq(t, 1, n)
  <1>1. CASE req[r].st \notin {"active", "ended"}
    BY <1>1
  <1>2. CASE req[r].st \in {"active", "ended"}
    <2>1. ReqInv(r, req[r])
      BY <1>2 DEF Inv, Waiting
    <2>2. /\ t \in Seq(Token) /\ kv \in Seq(Token) /\ n <= Len(kv)
          /\ \A i \in 1..n : kv[i] = t[i]
          /\ req[r].st = "active" => Len(kv) = n
      BY <2>1, <1>2 DEF ReqInv, Selected, Rows
    <2>3. Len(t) = Len(Prompt[r]) + req[r].gen /\ req[r].gen \in Nat /\ 1 <= req[r].gen
      BY <2>1 DEF ReqInv, Selected
    <2>4. Len(Prompt[r]) \in Nat
      <3>1. Prompt[r] \in Seq(Token)
        BY SpecAssumption
      <3> QED BY <3>1, LenProperties
    <2>5. n \in Nat /\ n <= Len(t)
      BY <2>3, <2>4
    <2> HIDE DEF t, kv, n
    <2>6. SubSeq(kv, 1, n) = h /\ Len(SubSeq(kv, 1, n)) = n
      BY <2>2, <2>5, PrefixSame
    <2>7. SubSeq(kv, 1, Len(kv)) = kv
      BY <2>2, SubSeqFull
    <2>8. req[r].st = "active" => kv = h
      BY <2>2, <2>6, <2>7
    <2>9. Len(h) = n
      BY <2>6
    <2> HIDE DEF h
    <2>10. Len(h) <= Len(kv) /\ SubSeq(kv, 1, Len(h)) = h
      BY <2>2, <2>6, <2>9
    <2> QED BY <2>8, <2>10 DEF t, kv, n, h
  <1> QED BY <1>1, <1>2

\* What it says of the budget.
LEMMA InvBudget ==
  ASSUME Inv
  PROVE  WithinBudget
  BY DEF Inv, ReqInv, Rows, WithinBudget, Waiting

LEMMA SpecInv ==
  ASSUME SelectsTokens
  PROVE  Spec => []Inv
  <1>1. Inv /\ [Next]_vars => Inv'
    BY NextInv
  <1> QED BY <1>1, InitInv, PTL DEF Spec

(* Whatever the drafter or a copy window drafts and however many of the    *)
(* drafts the policy has verified (spec_step), every token sent is the     *)
(* target's own selection at its position, for any prompts, budgets,       *)
(* selection rule and block length.                                        *)
THEOREM OutputAlwaysTrue ==
  ASSUME SelectsTokens
  PROVE  Spec => []OutputTrue
  <1>1. Inv => OutputTrue
    BY InvOutput
  <1> QED BY <1>1, SpecInv, PTL

(* truncate(starts + acc + 1) in spec_step leaves a running request        *)
(* exactly the rows of its tokens but the last, and an ended one no fewer. *)
THEOREM RowsAlwaysKept ==
  ASSUME SelectsTokens
  PROVE  Spec => []RowsKept
  <1>1. Inv => RowsKept
    BY InvRows
  <1> QED BY <1>1, SpecInv, PTL

(* The scheduler's bound on the drafts keeps every request's tokens and KV *)
(* rows within its budget, also when it ends inside an accepted run.       *)
THEOREM AlwaysWithinBudget ==
  ASSUME SelectsTokens
  PROVE  Spec => []WithinBudget
  <1>1. Inv => WithinBudget
    BY InvBudget
  <1> QED BY <1>1, SpecInv, PTL

(* Requests hold tokens and counts, whatever spec_step accepts and sends.  *)
THEOREM TypeCorrect ==
  ASSUME SelectsTokens
  PROVE  Spec => []TypeOK
  <1>1. Inv => TypeOK
    <2> SUFFICES ASSUME Inv, NEW r \in Requests
                 PROVE  /\ req[r].st \in {"waiting", "active", "ended", "failed"}
                        /\ req[r].hist \in Seq(Token) /\ req[r].kv \in Seq(Token)
                        /\ req[r].gen \in Nat
                        /\ req[r].st # "waiting" => req[r].gen >= 1
      BY DEF TypeOK
    <2>1. CASE req[r] = Waiting
      BY <2>1 DEF Waiting
    <2>2. CASE ReqInv(r, req[r])
      BY <2>2 DEF ReqInv, Selected, Rows
    <2> QED BY <2>1, <2>2 DEF Inv
  <1> QED BY <1>1, SpecInv, PTL

(* "Only accepted tokens become context": in every step of a speculating   *)
(* scheduler the rows the drafter's block can see are those of the         *)
(* request's own tokens. The ring is as large as the window and a block,   *)
(* so neither the block nor the accepted rows reach what is still seen.    *)
THEOREM DraftContextAlwaysExact ==
  ASSUME SelectsTokens
  PROVE  Spec => []DraftContextExact
  <1>1. Init => SeenInv
    BY DEF Init, SeenInv, Waiting
  <1>2. Inv /\ SeenInv /\ [Next]_vars => SeenInv'
    BY NextSeen
  <1>3. Inv /\ SeenInv => DraftContextExact
    <2> SUFFICES ASSUME Inv, SeenInv, spec, NEW r \in Active,
                        NEW p \in Max({0, Len(req[r].kv) - (DraftWindow - 1)})..(Len(req[r].kv) - 1)
                 PROVE  req[r].ring[p % Ring] = SubSeq(req[r].hist, 1, p + 1)
      BY DEF DraftContextExact
    <2>1. ReqInv(r, req[r]) /\ ContextSeen(req[r]) /\ req[r].st = "active" /\ r \in Requests
      BY DEF Inv, SeenInv, Active, Waiting
    <2>2. PICK n \in Nat : n = Len(req[r].kv)
      BY <2>1, ActiveFacts
    <2>3. DraftWindow \in Nat
      BY SpecAssumption
    <2> DEFINE w == n - (DraftWindow - 1)
    <2>4. w \in Int
      BY <2>3
    <2> HIDE DEF w
    <2>5. Max({0, w}) = IF w <= 0 THEN 0 ELSE w
      BY <2>4 DEF Max
    <2>6. p \in Max({0, w})..(n - 1)
      BY <2>2 DEF w
    <2>7. p \in Nat /\ w <= p /\ p < n
      BY <2>4, <2>5, <2>6
    <2>8. n - p < DraftWindow
      BY <2>3, <2>7 DEF w
    <2> QED BY <2>1, <2>2, <2>7, <2>8 DEF ContextSeen
  <1> QED BY <1>1, <1>2, <1>3, InitInv, NextInv, PTL DEF Spec

(* The index that propose extends a few positions at a time, in the rounds *)
(* that propose, leads to the same copy as a search of the whole context:  *)
(* for any MATCH, EXTEND, CANDIDATES and tokens, and whatever the target   *)
(* accepts in between. The index always is that of some first positions of *)
(* the tokens, which a longer context does not change.                     *)
THEOREM CopyAlwaysExact ==
  ASSUME SelectsTokens
  PROVE  Spec => []CopyExact
  <1>1. Init => IndexInv
    BY DEF Init, IndexInv, Waiting
  <1>2. Inv /\ IndexInv /\ [Next]_vars => IndexInv'
    BY NextFits
  <1>3. Inv /\ IndexInv => CopyExact
    BY FitsExact
  <1> QED BY <1>1, <1>2, <1>3, InitInv, NextInv, PTL DEF Spec
=============================================================================
