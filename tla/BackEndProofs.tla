----------------------------- MODULE BackEndProofs -----------------------------
(***************************************************************************)
(* Proofs about the expert side, for any number of ranks and rows: the     *)
(* sums the ladder hands out, the frames of its codec, the exchanges the   *)
(* TCP fallback hands out, and that its two ends never wait for each other *)
(* in a write.                                                             *)
(*                                                                         *)
(* The ladder's invariant follows a frame from the rank that stamps it:    *)
(* what is under way has the fields and the checksum of a stamped frame    *)
(* (`UnderWay`), so that what passes the checksum is one; and every sum    *)
(* being collected is the sum of some ranks' partials for each row         *)
(* (`SumAt`), so that a row is done when the ranks are all there.          *)
(*                                                                         *)
(* For TCP, `TcpInv` says that a frame's id follows from its sequence on   *)
(* each connection, on both sides and on the way, and that the client has  *)
(* all its connections or none.  `Calmly` is what more holds until         *)
(* something fails: one exchange, of which each rank is in one of four     *)
(* phases, its pieces spread over reader, socket and writer in order.      *)
(*                                                                         *)
(* For the codec, a damaged frame still has tables of n descriptors and n  *)
(* rows (`Bodied`), and a header that counts them right or is refused for  *)
(* its sizes; for such frames the two decoders' checks say the same.       *)
(***************************************************************************)
EXTENDS BackEnd, Functions, FiniteSetTheorems, FunctionTheorems, SequenceTheorems,
        NaturalsInduction, TLAPS

(* Every set of naturals has a least element.                              *)
LEMMA LeastNat ==
  ASSUME NEW B, B \subseteq Nat, B # {}
  PROVE  \E n \in B : \A m \in B : n <= m
<1> DEFINE R == OpToRel(<, Nat)
<1>1. IsWellFoundedOn(R, Nat)
  BY NatLessThanWellFounded
<1> HIDE DEF R
<1>2. PICK n \in B : \A m \in B : ~(<<m, n>> \in R)
  BY <1>1, WFMin
<1>3. \A m \in B : m < n => <<m, n>> \in R
  BY <1>2 DEF R, OpToRel
<1>4. \A m \in B : m \in Nat /\ n \in Nat /\ ~(m < n)
  BY <1>2, <1>3
<1>5. QED
  BY <1>4

(* The elements of a sequence with one more at its end.                    *)
LEMMA AppendAt ==
  ASSUME NEW S, NEW s \in Seq(S), NEW x \in S
  PROVE  /\ Append(s, x) \in Seq(S) /\ Len(s) \in Nat /\ Len(Append(s, x)) = Len(s) + 1
         /\ \A i \in 1..Len(s) : i \in 1..Len(Append(s, x)) /\ Append(s, x)[i] = s[i]
         /\ Append(s, x)[Len(s) + 1] = x
         /\ \A i \in 1..Len(Append(s, x)) : \/ i \in 1..Len(s) /\ Append(s, x)[i] = s[i]
                                            \/ i = Len(s) + 1 /\ Append(s, x)[i] = x
<1>1. /\ Append(s, x) \in Seq(S) /\ Len(s) \in Nat /\ Len(Append(s, x)) = Len(s) + 1
      /\ \A i \in 1..Len(s) : Append(s, x)[i] = s[i]
      /\ Append(s, x)[Len(s) + 1] = x
  BY AppendProperties
<1> DEFINE a == Append(s, x)
           n == Len(s)
<1> HIDE DEF a, n
<1>2. /\ \A i \in 1..n : i \in 1..(n + 1)
      /\ \A i \in 1..(n + 1) : i \in 1..n \/ i = n + 1
  BY <1>1 DEF n
<1>3. QED
  BY <1>1, <1>2 DEF n

(* The elements of a sequence without its first.                           *)
LEMMA TailAt ==
  ASSUME NEW S, NEW s \in Seq(S), s # <<>>
  PROVE  /\ Head(s) \in S /\ Head(s) = s[1] /\ 1 \in 1..Len(s)
         /\ Tail(s) \in Seq(S) /\ Len(s) \in Nat \ {0} /\ Len(Tail(s)) = Len(s) - 1
         /\ \A i \in 1..Len(Tail(s)) : i + 1 \in 1..Len(s) /\ Tail(s)[i] = s[i + 1]
<1>1. /\ Tail(s) \in Seq(S) /\ Len(s) \in Nat \ {0} /\ Len(Tail(s)) = Len(s) - 1
      /\ Head(s) = s[1] /\ Head(s) \in S
      /\ \A i \in 1..(Len(s) - 1) : Tail(s)[i] = s[i + 1]
  BY HeadTailProperties
<1> DEFINE n == Len(s)
<1> HIDE DEF n
<1>2. 1 \in 1..n /\ \A i \in 1..(n - 1) : i + 1 \in 1..n
  BY <1>1 DEF n
<1>3. QED
  BY <1>1, <1>2 DEF n

-----------------------------------------------------------------------------
(* The frames the Sparks stamp. *)

\* The rows of a request (the bound of Next).
RowsOf(id) == 1 + (id % MaxRows)

\* A frame rank r has stamped, or one the ladder lets through.
Stamped(f, r) ==
  /\ f = [x \in DOMAIN f |-> f[x]] /\ "crc" \in DOMAIN f /\ f.crc = Crc(f)
  /\ f.req \in Nat /\ f.layer = 1 /\ f.exec = r /\ f.tok = 0 /\ f.rows = RowsOf(f.req)
  /\ \A i \in 1..f.rows : f.hid[i].data = Partial(f.req, 1, i - 1, r)

\* What damage leaves of f: its fields, and the checksum.
FromOf(g, f) == g = [x \in DOMAIN f |-> g[x]] /\ g.crc = f.crc

\* A frame under way.
UnderWay(g, r) == \E f : Stamped(f, r) /\ FromOf(g, f)

(* A request has rows.                                                     *)
LEMMA RowsOfNat ==
  ASSUME NEW id \in Nat PROVE RowsOf(id) \in Nat \ {0}
<1> DEFINE m == id % MaxRows
<1>1. m \in Nat
  BY LadderAssumption
<1> HIDE DEF m
<1>2. 1 + m \in Nat \ {0}
  BY <1>1
<1>3. QED
  BY <1>2 DEF m, RowsOf

(* A frame whose checksum fits is the frame that was stamped.              *)
LEMMA CrcBinds ==
  ASSUME NEW r, NEW g, UnderWay(g, r), VerifyCrc(g, FALSE) = "ok"
  PROVE  Stamped(g, r)
<1>1. PICK f : Stamped(f, r) /\ FromOf(g, f)
  BY DEF UnderWay
<1>2. g.crc = Crc(g)
  BY DEF VerifyCrc
<1>3. f.crc = Crc(f) /\ g.crc = f.crc
  BY <1>1 DEF Stamped, FromOf
<1>4. [g EXCEPT !.crc = <<>>] = [f EXCEPT !.crc = <<>>]
  BY <1>2, <1>3 DEF Crc
<1>5. DOMAIN g = DOMAIN f /\ g = [x \in DOMAIN f |-> g[x]] /\ f = [x \in DOMAIN f |-> f[x]]
  BY <1>1 DEF Stamped, FromOf
<1>6. ASSUME NEW x \in DOMAIN f, x # "crc" PROVE g[x] = f[x]
  <2>1. [g EXCEPT !.crc = <<>>][x] = g[x] /\ [f EXCEPT !.crc = <<>>][x] = f[x]
    BY <1>5, <1>6
  <2>2. QED
    BY <1>4, <2>1
<1>7. \A x \in DOMAIN f : g[x] = f[x]
  BY <1>3, <1>6
<1>8. g = f
  BY <1>5, <1>7
<1>9. QED
  BY <1>1, <1>8

(* A stamped frame is under way as it is.                                  *)
LEMMA StampedWay ==
  ASSUME NEW r, NEW f, Stamped(f, r) PROVE UnderWay(f, r)
  BY DEF UnderWay, Stamped, FromOf

(* Damage leaves the fields and the checksum.                              *)
LEMMA DamageWay ==
  ASSUME NEW r, NEW g, UnderWay(g, r), NEW h \in Damage(g) PROVE UnderWay(h, r)
<1>1. PICK f : Stamped(f, r) /\ FromOf(g, f)
  BY DEF UnderWay
<1>2. "crc" \in DOMAIN f /\ DOMAIN g = DOMAIN f
  BY <1>1 DEF Stamped, FromOf
<1>3. h.crc = g.crc /\ DOMAIN h = DOMAIN g /\ h = [x \in DOMAIN g |-> h[x]]
  BY <1>2 DEF Damage
<1>4. FromOf(h, f)
  BY <1>1, <1>2, <1>3 DEF FromOf
<1>5. QED
  BY <1>1, <1>4 DEF UnderWay

(* Only the ladder's "ok" comes from its last rung.                        *)
LEMMA VerdictOk ==
  ASSUME NEW f, NEW want, Verdict(f, want) = "ok"
  PROVE  VerifyCrc(f, FALSE) = "ok" /\ f.seq = want
<1>1. DecodeFrame(f, FALSE) = "ok" /\ f.seq = want
  BY Zenon DEF Verdict
<1>2. VerifyCrc(f, FALSE) = "ok"
  BY <1>1, Zenon DEF DecodeFrame
<1>3. QED
  BY <1>1, <1>2

(* What encode_return stamps.                                              *)
LEMMA AnswerStamped ==
  ASSUME NEW r \in Ranks, NEW id \in Nat, NEW status \in Statuses, NEW seq, NEW flags,
         NEW ret, ret = [req |-> id, layer |-> 1, exec |-> r, routes |-> TopK, status |-> status, flags |-> flags,
                 rows |-> [i \in 1..RowsOf(id) |-> [size |-> ReturnRow, data |-> Partial(id, 1, i - 1, r)]]]
  PROVE  Stamped(EncodeReturn(ret, seq, FALSE), r)
<1> DEFINE G == ReturnHeader(ret, seq)
           f == [G EXCEPT !.crc = Crc(G)]
           n == RowsOf(id)
<1>1. n \in Nat \ {0}
  BY RowsOfNat
<1> HIDE DEF n
<1>2. Len(ret.rows) = n /\ ret.rows # <<>> /\ ret.routes # 0 /\ ret.rows = [i \in 1..n |-> [size |-> ReturnRow, data |-> Partial(id, 1, i - 1, r)]]
  BY <1>1, LadderAssumption DEF n
<1>3. EncodeReturn(ret, seq, FALSE) = f
  <2> DEFINE checks == << <<ret.rows = <<>>, "DimMismatch">>, <<ret.routes = 0, "DimMismatch">> >>
  <2>1. (ret.rows = <<>>) = FALSE /\ (ret.routes = 0) = FALSE
    BY <1>2
  <2>2. checks = << <<FALSE, "DimMismatch">>, <<FALSE, "DimMismatch">> >>
    BY <2>1, Zenon
  <2>3. \A i \in DOMAIN checks : checks[i][1] = FALSE
    <3> DEFINE no == <<FALSE, "DimMismatch">>
    <3>1. no[1] = FALSE
      OBVIOUS
    <3>2. checks = <<no, no>>
      BY <2>2
    <3> HIDE DEF no, checks
    <3>3. QED
      BY <3>1, <3>2
  <2> HIDE DEF checks
  <2>4. {i \in DOMAIN checks : checks[i][1]} = {}
    BY <2>3
  <2>5. First(checks) = "ok"
    BY <2>4 DEF First
  <2> USE DEF checks
  <2>6. QED
    BY <2>5 DEF EncodeReturn, Seal
<1>4. /\ G = [x \in DOMAIN G |-> G[x]] /\ "crc" \in DOMAIN G /\ G.crc = <<>>
      /\ G.req = id /\ G.layer = 1 /\ G.exec = r /\ G.tok = 0 /\ G.rows = Len(ret.rows)
      /\ G.hid = ret.rows
      /\ {"req", "layer", "exec", "tok", "rows", "hid"} \subseteq DOMAIN G
  <2> DEFINE H == Header("return", ret.req, ret.layer, ret.exec, seq, Len(ret.rows))
             E == [dtype |-> "Bf16", sk |-> "Decode", routes |-> ret.routes, descBytes |-> 0, routeBytes |-> 0,
                   payload |-> ReturnRow * Len(ret.rows), logical |-> ReturnRow * Len(ret.rows),
                   wire |-> HeaderLen + ReturnRow * Len(ret.rows), len |-> HeaderLen + ReturnRow * Len(ret.rows),
                   flags |-> ret.flags, stride |-> ReturnRow, status |-> ret.status, descs |-> <<>>, entries |-> <<>>,
                   hid |-> ret.rows]
  <2>1. G = With(H, E)
    BY DEF ReturnHeader
  <2>2. /\ H.crc = <<>> /\ H.req = id /\ H.layer = 1 /\ H.exec = r /\ H.tok = 0 /\ H.rows = Len(ret.rows)
        /\ {"req", "layer", "exec", "tok", "rows", "crc"} \subseteq DOMAIN H
        /\ "hid" \notin DOMAIN H
    BY DEF Header
  <2>3. E.hid = ret.rows /\ "hid" \in DOMAIN E
    OBVIOUS
  <2> HIDE DEF H, E, G
  <2>4. /\ G = [x \in DOMAIN G |-> G[x]] /\ DOMAIN G = DOMAIN H \cup DOMAIN E
        /\ \A x \in DOMAIN H : G[x] = H[x]
        /\ \A x \in DOMAIN E \ DOMAIN H : G[x] = E[x]
    BY <2>1 DEF With
  <2>5. QED
    BY <2>2, <2>3, <2>4
<1> HIDE DEF G
<1>5. /\ f = [x \in DOMAIN f |-> f[x]] /\ "crc" \in DOMAIN f /\ f.crc = Crc(G)
      /\ f.req = id /\ f.layer = 1 /\ f.exec = r /\ f.tok = 0 /\ f.rows = n
      /\ f.hid = ret.rows
  BY <1>2, <1>4
<1>6. [f EXCEPT !.crc = <<>>] = [G EXCEPT !.crc = <<>>]
  BY <1>4
<1>7. Crc(f) = Crc(G)
  BY <1>6 DEF Crc
<1> HIDE DEF f
<1>8. \A i \in 1..n : f.hid[i].data = Partial(id, 1, i - 1, r)
  BY <1>2, <1>5
<1>9. Stamped(f, r)
  BY <1>5, <1>7, <1>8 DEF Stamped, n
<1>10. QED
  BY <1>3, <1>9
-----------------------------------------------------------------------------
(* The sum of a request. *)

Rows(id) == 0..(RowsOf(id) - 1)

\* The sum of request id when the partials of the ranks F[t] have been added to row t.
SumAt(id, F) ==
  [rows |-> RowsOf(id),
   seen |-> {k \in {id} \X {1} \X Rows(id) \X Ranks : k[4] \in F[k[3]]},
   buf |-> [r \in Ranks |-> [t \in Rows(id) |-> IF r \in F[t] THEN <<Partial(id, 1, t, r)>> ELSE <<>>]],
   acc |-> [t \in Rows(id) |-> IF F[t] = Ranks THEN [i \in 1..Sparks |-> Partial(id, 1, t, i - 1)] ELSE <<>>]]

\* Which ranks' partials each row has.
Added(id) == [Rows(id) -> SUBSET Ranks]

(* The ranks.                                                              *)
LEMMA RanksFinite ==
  IsFiniteSet(Ranks) /\ Cardinality(Ranks) = Sparks /\ Ranks # {}
<1>1. Sparks \in Nat \ {0} /\ 0 \in Int /\ Sparks - 1 \in Int
  BY LadderAssumption
<1>2. IsFiniteSet(0..(Sparks - 1)) /\ Cardinality(0..(Sparks - 1)) = IF 0 > Sparks - 1 THEN 0 ELSE (Sparks - 1) - 0 + 1
  BY <1>1, FS_Interval, Zenon
<1>3. 0 \in 0..(Sparks - 1)
  BY <1>1
<1>4. IsFiniteSet(0..(Sparks - 1)) /\ Cardinality(0..(Sparks - 1)) = Sparks
  <2> DEFINE n == Cardinality(0..(Sparks - 1))
  <2>1. n = IF 0 > Sparks - 1 THEN 0 ELSE (Sparks - 1) - 0 + 1
    BY <1>2, Zenon
  <2> HIDE DEF n
  <2>2. n = Sparks
    BY <1>1, <2>1
  <2>3. QED
    BY <1>2, <2>2, Zenon DEF n
<1>5. QED
  BY <1>3, <1>4, Zenon DEF Ranks

(* A sum nothing was added to.                                             *)
LEMMA NewIsSum ==
  ASSUME NEW id \in Nat
  PROVE  /\ [t \in Rows(id) |-> {}] \in Added(id)
         /\ NewSum(RowsOf(id)) = SumAt(id, [t \in Rows(id) |-> {}])
<1> DEFINE F == [t \in Rows(id) |-> {}]
<1>1. F \in Added(id)
  BY DEF Added
<1>2. {k \in {id} \X {1} \X Rows(id) \X Ranks : k[4] \in F[k[3]]} = {}
  OBVIOUS
<1>3. \A t \in Rows(id) : F[t] # Ranks
  BY RanksFinite
<1>4. [t \in Rows(id) |-> IF F[t] = Ranks THEN [i \in 1..Sparks |-> Partial(id, 1, t, i - 1)] ELSE <<>>]
        = [t \in Rows(id) |-> <<>>]
  BY <1>3
<1>5. [r \in Ranks |-> [t \in Rows(id) |-> IF r \in F[t] THEN <<Partial(id, 1, t, r)>> ELSE <<>>]]
        = [r \in Ranks |-> [t \in Rows(id) |-> <<>>]]
  OBVIOUS
<1> HIDE DEF F
<1>6. NewSum(RowsOf(id)) = SumAt(id, F)
  BY <1>2, <1>4, <1>5 DEF NewSum, SumAt, Rows
<1>7. QED
  BY <1>1, <1>6 DEF F

(* The ranks a row has, by its keys.                                       *)
LEMMA KeysOfRow ==
  ASSUME NEW id \in Nat, NEW F \in Added(id), NEW t \in Rows(id)
  PROVE  (Cardinality({k \in SumAt(id, F).seen : k[3] = t}) = Sparks) <=> (F[t] = Ranks)
<1> DEFINE K == {k \in SumAt(id, F).seen : k[3] = t}
           g == [q \in F[t] |-> <<id, 1, t, q>>]
<1>1. F[t] \subseteq Ranks
  BY DEF Added
<1>2. K = {k \in {id} \X {1} \X Rows(id) \X Ranks : k[4] \in F[k[3]] /\ k[3] = t}
  BY DEF SumAt
<1>3. \A q \in F[t] : <<id, 1, t, q>> \in K
  BY <1>1, <1>2
<1>4. \A k \in K : k[4] \in F[t] /\ k = <<id, 1, t, k[4]>>
  BY <1>2
<1> HIDE DEF K
<1>5. g \in Bijection(F[t], K)
  <2>1. g \in [F[t] -> K]
    BY <1>3
  <2>2. \A a, b \in F[t] : g[a] = g[b] => a = b
    OBVIOUS
  <2>3. \A k \in K : \E q \in F[t] : g[q] = k
    BY <1>4
  <2> HIDE DEF g
  <2>4. QED
    BY <2>1, <2>2, <2>3 DEF Bijection, Injection, Surjection, IsInjective
<1>6. IsFiniteSet(F[t]) /\ (Cardinality(F[t]) = Sparks => F[t] = Ranks)
  BY <1>1, RanksFinite, FS_Subset
<1>7. Cardinality(K) = Cardinality(F[t])
  <2>1. ExistsBijection(F[t], K)
    BY <1>5 DEF ExistsBijection
  <2>2. QED
    BY <1>6, <2>1, FS_Bijection
<1>8. F[t] = Ranks => Cardinality(F[t]) = Sparks
  BY RanksFinite
<1>9. QED
  BY <1>6, <1>7, <1>8 DEF K

\* The sums of row t over the first ranks, as AddRow forms them.
Chain(buf, t, g) == g = [r \in 0..Sparks |-> IF r = 0 THEN <<>> ELSE g[r - 1] \o buf[r - 1][t]]

(* The terms of a row, one rank after the other.                           *)
LEMMA TermsInOrder ==
  ASSUME NEW id \in Nat, NEW t, NEW buf,
         \A r \in Ranks : buf[r][t] = <<Partial(id, 1, t, r)>>
  PROVE  /\ \E g : Chain(buf, t, g)
         /\ \A g : Chain(buf, t, g) => g[Sparks] = [i \in 1..Sparks |-> Partial(id, 1, t, i - 1)]
<1> DEFINE terms(k) == [i \in 1..k |-> Partial(id, 1, t, i - 1)]
           h == [r \in 0..Sparks |-> terms(r)]
<1>1. Sparks \in Nat \ {0}
  BY LadderAssumption
<1>2. ASSUME NEW k \in 1..Sparks
      PROVE  /\ k - 1 \in 0..Sparks /\ k - 1 \in Ranks
             /\ terms(k) = terms(k - 1) \o buf[k - 1][t]
  <2>1. k \in Nat /\ k - 1 \in Nat /\ k - 1 \in 0..Sparks /\ k - 1 \in Ranks
    BY <1>1 DEF Ranks
  <2>2. buf[k - 1][t] = <<Partial(id, 1, t, k - 1)>>
    BY <2>1
  <2> DEFINE S == {Partial(id, 1, t, q) : q \in Ranks}
             m == k - 1
  <2>3. terms(m) \in Seq(S) /\ Len(terms(m)) = m /\ m \in Nat /\ k = m + 1
    <3>1. \A i \in 1..m : i - 1 \in Ranks
      BY <1>1, <2>1 DEF Ranks
    <3>2. terms(m) \in [1..m -> S] /\ m \in Nat /\ k = m + 1
      BY <2>1, <3>1
    <3>3. QED
      BY <3>2, SeqDef, LenProperties
  <2>4. <<Partial(id, 1, t, m)>> \in Seq(S) /\ Len(<<Partial(id, 1, t, m)>>) = 1
    BY <2>1
  <2>5. /\ terms(m) \o <<Partial(id, 1, t, m)>> \in Seq(S)
        /\ Len(terms(m) \o <<Partial(id, 1, t, m)>>) = m + 1
        /\ \A i \in 1..(m + 1) : (terms(m) \o <<Partial(id, 1, t, m)>>)[i]
              = IF i <= m THEN terms(m)[i] ELSE <<Partial(id, 1, t, m)>>[i - m]
    BY <2>3, <2>4, ConcatProperties
  <2> DEFINE c == terms(m) \o <<Partial(id, 1, t, m)>>
  <2>6. ASSUME NEW i \in 1..(m + 1) PROVE c[i] = Partial(id, 1, t, i - 1)
    <3>1. CASE i <= m
      <4>1. c[i] = terms(m)[i] /\ i \in 1..m
        BY <2>3, <2>5, <3>1
      <4>2. QED
        BY <4>1
    <3>2. CASE ~(i <= m)
      <4>1. i = m + 1 /\ i - m = 1 /\ i - 1 = m
        BY <2>3, <3>2
      <4>2. c[i] = <<Partial(id, 1, t, m)>>[1]
        BY <2>5, <3>2, <4>1
      <4>3. QED
        BY <4>1, <4>2
    <3>3. QED
      BY <3>1, <3>2
  <2>7. c = [i \in 1..(m + 1) |-> c[i]]
    <3>1. c \in Seq(S) /\ Len(c) = m + 1
      BY <2>5
    <3> HIDE DEF c
    <3>2. QED
      BY <3>1
  <2> HIDE DEF c
  <2>8. c = [i \in 1..(m + 1) |-> Partial(id, 1, t, i - 1)]
    BY <2>6, <2>7
  <2>9. QED
    BY <2>1, <2>2, <2>3, <2>8 DEF c
<1>3. terms(0) = <<>>
  OBVIOUS
<1> HIDE DEF terms
<1>4. Chain(buf, t, h)
  <2>1. ASSUME NEW r \in 0..Sparks PROVE h[r] = IF r = 0 THEN <<>> ELSE h[r - 1] \o buf[r - 1][t]
    <3>1. CASE r = 0
      BY <1>1, <1>3, <3>1
    <3>2. CASE r # 0
      <4>1. r \in 1..Sparks
        BY <1>1, <3>2
      <4>2. h[r] = terms(r) /\ h[r - 1] = terms(r - 1)
        BY <1>2, <4>1
      <4>3. QED
        BY <1>2, <3>2, <4>1, <4>2
    <3>3. QED
      BY <3>1, <3>2
  <2>2. h = [r \in 0..Sparks |-> h[r]]
    OBVIOUS
  <2> HIDE DEF h
  <2>3. QED
    BY <2>1, <2>2 DEF Chain
<1> HIDE DEF h
<1>5. SUFFICES ASSUME NEW sum, Chain(buf, t, sum) PROVE sum[Sparks] = terms(Sparks)
  BY <1>4 DEF terms
<1>6. \A r \in 0..Sparks : sum[r] = IF r = 0 THEN <<>> ELSE sum[r - 1] \o buf[r - 1][t]
  BY <1>5 DEF Chain
<1> DEFINE B == {r \in 0..Sparks : sum[r] # terms(r)}
<1>7. B = {}
  <2> SUFFICES ASSUME B # {} PROVE FALSE
    OBVIOUS
  <2>1. B \subseteq Nat
    <3>1. B \subseteq 0..Sparks
      BY Zenon
    <3> HIDE DEF B
    <3>2. QED
      BY <3>1
  <2>2. PICK m \in B : \A n \in B : m <= n
    BY <2>1, LeastNat
  <2>3. m # 0
    BY <1>1, <1>3, <1>6
  <2>4. m \in 1..Sparks /\ m - 1 \in 0..Sparks
    BY <1>1, <2>2, <2>3
  <2>5. sum[m - 1] = terms(m - 1)
    <3>1. m - 1 \notin B
      <4>1. m \in Nat /\ ~(m <= m - 1)
        BY <1>1, <2>4
      <4>2. QED
        BY <2>2, <4>1
    <3>2. QED
      BY <2>4, <3>1
  <2>6. sum[m] = terms(m)
    BY <1>2, <1>6, <2>3, <2>4, <2>5
  <2>7. QED
    BY <2>2, <2>6
<1>8. Sparks \in 0..Sparks
  BY <1>1
<1>9. QED
  BY <1>7, <1>8
\* A sum with new parts.
Put(s, x, y, z) == [s EXCEPT !.seen = x, !.buf = y, !.acc = z]

(* A sum with new parts has them.                                          *)
LEMMA PutHas ==
  ASSUME NEW s, NEW x, NEW y, NEW z, DOMAIN s = {"rows", "seen", "buf", "acc"}
  PROVE  /\ Put(s, x, y, z) = [i \in {"rows", "seen", "buf", "acc"} |-> Put(s, x, y, z)[i]]
         /\ Put(s, x, y, z).rows = s.rows /\ Put(s, x, y, z).seen = x
         /\ Put(s, x, y, z).buf = y /\ Put(s, x, y, z).acc = z
  BY DEF Put

(* One row of a frame added: its rank joins the row's.                     *)
LEMMA RowAdded ==
  ASSUME NEW id \in Nat, NEW F \in Added(id), NEW r \in Ranks, NEW f, Stamped(f, r), f.req = id,
         NEW t \in Rows(id), r \notin F[t]
  PROVE  /\ [F EXCEPT ![t] = @ \cup {r}] \in Added(id)
         /\ AddRow(SumAt(id, F), f, t) = SumAt(id, [F EXCEPT ![t] = @ \cup {r}])
<1> DEFINE s == SumAt(id, F)
           H == [F EXCEPT ![t] = @ \cup {r}]
           key == <<id, 1, t, r>>
           seen == s.seen \cup {Key(f, t)}
           term == f.hid[t - f.tok + 1].data
           buf == [s.buf EXCEPT ![f.exec][t] = Append(@, term)]
           full == Cardinality({k \in seen : k[3] = t}) = Sparks
           sum == CHOOSE g : g = [q \in 0..Sparks |-> IF q = 0 THEN <<>> ELSE g[q - 1] \o buf[q - 1][t]]
<1>1. H \in Added(id) /\ H[t] = F[t] \cup {r} /\ \A u \in Rows(id) : u # t => H[u] = F[u]
  BY DEF Added
<1>2. f.layer = 1 /\ f.exec = r /\ f.tok = 0 /\ f.rows = RowsOf(id) /\ f.req = id
  BY DEF Stamped
<1>3. term = Partial(id, 1, t, r)
  <2>1. t + 1 \in 1..RowsOf(id) /\ t - 0 + 1 = t + 1 /\ (t + 1) - 1 = t
    BY RowsOfNat DEF Rows
  <2>2. \A i \in 1..RowsOf(id) : f.hid[i].data = Partial(id, 1, i - 1, r)
    BY <1>2 DEF Stamped
  <2>3. QED
    BY <1>2, <2>1, <2>2
<1>4. Key(f, t) = key
  BY <1>2 DEF Key
<1>5. seen = SumAt(id, H).seen
  <2>1. key \in {id} \X {1} \X Rows(id) \X Ranks
    OBVIOUS
  <2>2. \A k \in {id} \X {1} \X Rows(id) \X Ranks : k[4] \in H[k[3]] <=> (k[4] \in F[k[3]] \/ k = key)
    <3> TAKE k \in {id} \X {1} \X Rows(id) \X Ranks
    <3>1. k[1] = id /\ k[2] = 1 /\ k[3] \in Rows(id) /\ k[4] \in Ranks /\ k = <<id, 1, k[3], k[4]>>
      OBVIOUS
    <3>2. CASE k[3] = t
      BY <1>1, <3>1, <3>2
    <3>3. CASE k[3] # t
      BY <1>1, <3>1, <3>3
    <3>4. QED
      BY <3>2, <3>3
  <2>3. /\ s.seen = {k \in {id} \X {1} \X Rows(id) \X Ranks : k[4] \in F[k[3]]}
        /\ SumAt(id, H).seen = {k \in {id} \X {1} \X Rows(id) \X Ranks : k[4] \in H[k[3]]}
    BY DEF SumAt
  <2> HIDE DEF H, s, key
  <2>4. QED
    BY <1>4, <2>1, <2>2, <2>3
<1> DEFINE old == [q \in Ranks |-> [u \in Rows(id) |-> IF q \in F[u] THEN <<Partial(id, 1, u, q)>> ELSE <<>>]]
           new == [q \in Ranks |-> [u \in Rows(id) |-> IF q \in H[u] THEN <<Partial(id, 1, u, q)>> ELSE <<>>]]
<1>6. s.buf = old /\ SumAt(id, H).buf = new
  BY DEF SumAt
<1>7. buf = new
  <2>1. buf = [old EXCEPT ![r] = [old[r] EXCEPT ![t] = Append(old[r][t], Partial(id, 1, t, r))]]
    BY <1>2, <1>3, <1>6
  <2>2. Append(old[r][t], Partial(id, 1, t, r)) = <<Partial(id, 1, t, r)>>
    OBVIOUS
  <2>3. new[r] = [old[r] EXCEPT ![t] = <<Partial(id, 1, t, r)>>]
    <3>1. \A u \in Rows(id) : (r \in H[u]) <=> (r \in F[u] \/ u = t)
      BY <1>1
    <3> HIDE DEF H
    <3>2. QED
      BY <3>1
  <2>4. \A q \in Ranks : q # r => new[q] = old[q]
    <3>1. \A q \in Ranks, u \in Rows(id) : q # r => ((q \in H[u]) <=> (q \in F[u]))
      BY <1>1
    <3> HIDE DEF H
    <3>2. QED
      BY <3>1
  <2>5. old = [q \in Ranks |-> old[q]] /\ new = [q \in Ranks |-> new[q]]
    OBVIOUS
  <2> HIDE DEF old, new, buf
  <2>6. QED
    BY <2>1, <2>2, <2>3, <2>4, <2>5
<1>8. full <=> H[t] = Ranks
  <2>1. PICK G \in Added(id) : G = H
    BY <1>1
  <2>2. (Cardinality({k \in SumAt(id, G).seen : k[3] = t}) = Sparks) <=> (G[t] = Ranks)
    BY <2>1, KeysOfRow
  <2> HIDE DEF H, seen
  <2>3. QED
    BY <1>5, <2>1, <2>2
<1>9. ASSUME H[t] = Ranks PROVE sum[Sparks] = [i \in 1..Sparks |-> Partial(id, 1, t, i - 1)]
  <2>1. \A q \in Ranks : buf[q][t] = <<Partial(id, 1, t, q)>>
    <3>1. \A q \in Ranks : q \in H[t]
      BY <1>9
    <3> HIDE DEF H, buf
    <3>2. \A q \in Ranks : new[q][t] = <<Partial(id, 1, t, q)>>
      BY <3>1
    <3> HIDE DEF new
    <3>3. QED
      BY <1>7, <3>2
  <2> HIDE DEF buf
  <2>2. /\ \E g : Chain(buf, t, g)
        /\ \A g : Chain(buf, t, g) => g[Sparks] = [i \in 1..Sparks |-> Partial(id, 1, t, i - 1)]
    <3>1. PICK b : b = buf
      OBVIOUS
    <3>2. \A q \in Ranks : b[q][t] = <<Partial(id, 1, t, q)>>
      BY <2>1, <3>1
    <3>3. /\ \E g : Chain(b, t, g)
          /\ \A g : Chain(b, t, g) => g[Sparks] = [i \in 1..Sparks |-> Partial(id, 1, t, i - 1)]
      BY <3>2, TermsInOrder
    <3>4. QED
      BY <3>1, <3>3
  <2>3. sum = CHOOSE g : Chain(buf, t, g)
    BY DEF Chain
  <2> HIDE DEF sum
  <2>4. Chain(buf, t, sum)
    BY <2>2, <2>3, Zenon
  <2>5. QED
    BY <2>2, <2>4
<1>10. AddRow(s, f, t) = [s EXCEPT !.seen = seen, !.buf = buf, !.acc[t] = IF full THEN sum[Sparks] ELSE @]
  BY DEF AddRow
<1> DEFINE accOf(E) == [u \in Rows(id) |-> IF E[u] = Ranks THEN [i \in 1..Sparks |-> Partial(id, 1, u, i - 1)] ELSE <<>>]
<1>11. s.acc = accOf(F) /\ SumAt(id, H).acc = accOf(H)
  BY DEF SumAt
<1>12. [s.acc EXCEPT ![t] = IF full THEN sum[Sparks] ELSE @] = accOf(H)
  <2>1. F[t] # Ranks
    OBVIOUS
  <2>2. s.acc[t] = <<>> /\ accOf(H)[t] = IF H[t] = Ranks THEN [i \in 1..Sparks |-> Partial(id, 1, t, i - 1)] ELSE <<>>
    BY <1>11, <2>1
  <2>3. \A u \in Rows(id) : u # t => accOf(H)[u] = s.acc[u]
    <3>1. \A u \in Rows(id) : u # t => H[u] = F[u]
      BY <1>1
    <3> HIDE DEF H, s
    <3>2. QED
      BY <1>11, <3>1
  <2>4. s.acc = [u \in Rows(id) |-> s.acc[u]] /\ accOf(H) = [u \in Rows(id) |-> accOf(H)[u]]
    BY <1>11
  <2> DEFINE x == IF full THEN sum[Sparks] ELSE s.acc[t]
  <2>5. x = accOf(H)[t]
    BY <1>8, <1>9, <2>2
  <2> HIDE DEF x, accOf, s
  <2>6. [s.acc EXCEPT ![t] = x] = accOf(H)
    BY <2>3, <2>4, <2>5
  <2>7. QED
    BY <2>6 DEF x
<1>13. AddRow(s, f, t) = SumAt(id, H)
  <2> DEFINE acc == [s.acc EXCEPT ![t] = IF full THEN sum[Sparks] ELSE @]
  <2>0. DOMAIN s = {"rows", "seen", "buf", "acc"}
    BY DEF SumAt
  <2>1. AddRow(s, f, t) = Put(s, seen, buf, acc)
    <3> HIDE DEF s, seen, buf, full, sum
    <3>1. QED
      BY <1>10 DEF Put
  <2>2. s = [rows |-> RowsOf(id), seen |-> s.seen, buf |-> s.buf, acc |-> s.acc]
    BY DEF SumAt
  <2>3. SumAt(id, H) = [rows |-> RowsOf(id), seen |-> SumAt(id, H).seen, buf |-> SumAt(id, H).buf, acc |-> SumAt(id, H).acc]
    BY DEF SumAt
  <2>4. acc = SumAt(id, H).acc /\ seen = SumAt(id, H).seen /\ buf = SumAt(id, H).buf
    BY <1>5, <1>6, <1>7, <1>11, <1>12
  <2> HIDE DEF s, acc, seen, buf, H, key, term, full, sum, old, new, accOf
  <2>5. Put(s, seen, buf, acc) = [rows |-> RowsOf(id), seen |-> seen, buf |-> buf, acc |-> acc]
    <3> DEFINE P == Put(s, seen, buf, acc)
               w == [rows |-> RowsOf(id), seen |-> seen, buf |-> buf, acc |-> acc]
    <3>1. /\ P = [i \in {"rows", "seen", "buf", "acc"} |-> P[i]]
          /\ P.rows = RowsOf(id) /\ P.seen = seen /\ P.buf = buf /\ P.acc = acc
      <4>1. s.rows = RowsOf(id)
        BY <2>2
      <4> HIDE DEF w
      <4>2. QED
        BY <2>0, <4>1, PutHas
    <3>2. /\ w = [i \in {"rows", "seen", "buf", "acc"} |-> w[i]]
          /\ w.rows = RowsOf(id) /\ w.seen = seen /\ w.buf = buf /\ w.acc = acc
      OBVIOUS
    <3> HIDE DEF P, w
    <3>3. P = w
      BY <3>1, <3>2
    <3>4. QED
      BY <3>3 DEF P, w
  <2>6. AddRow(s, f, t) = SumAt(id, H)
    BY <2>1, <2>3, <2>4, <2>5, Zenon
  <2>7. QED
    BY <2>6, Zenon
<1>14. QED
  BY <1>1, <1>13

\* The sums before and after each row of frame f, as accumulate goes on from s.
Loop(s, f, n, g) == g = [t \in 0..n |-> IF t = 0 THEN s ELSE AddRow(g[t - 1], f, t - 1)]

(* The loop over a frame's rows has a state before each of them.           *)
LEMMA RowsLoop ==
  ASSUME NEW s, NEW f, NEW n \in Nat
  PROVE  \E g : Loop(s, f, n, g)
<1> DEFINE B == {k \in Nat : ~ \E g : Loop(s, f, k, g)}
<1>1. B = {}
  <2> SUFFICES ASSUME B # {} PROVE FALSE
    OBVIOUS
  <2>1. PICK k \in B : \A m \in B : k <= m
    BY LeastNat
  <2>2. CASE k = 0
    <3> DEFINE h == [t \in 0..0 |-> s]
    <3>1. Loop(s, f, 0, h)
      <4>1. \A t \in 0..0 : t = 0
        OBVIOUS
      <4>2. QED
        BY <4>1 DEF Loop
    <3>2. QED
      BY <2>1, <2>2, <3>1
  <2>3. CASE k # 0
    <3>1. k \in Nat /\ k - 1 \in Nat /\ ~(k <= k - 1)
      BY <2>3
    <3>2. PICK g : Loop(s, f, k - 1, g)
      BY <2>1, <3>1
    <3> DEFINE h == [t \in 0..k |-> IF t = k THEN AddRow(g[k - 1], f, k - 1) ELSE g[t]]
    <3>3. ASSUME NEW t \in 0..k PROVE h[t] = IF t = 0 THEN s ELSE AddRow(h[t - 1], f, t - 1)
      <4>1. CASE t = 0
        <5>1. h[t] = g[t] /\ t \in 0..(k - 1)
          BY <2>3, <3>1, <4>1
        <5>2. QED
          BY <3>2, <4>1, <5>1 DEF Loop
      <4>2. CASE t = k
        <5>1. h[t] = AddRow(g[k - 1], f, k - 1) /\ k - 1 \in 0..k /\ k - 1 # k
          BY <3>1, <4>2
        <5>2. h[k - 1] = g[k - 1]
          BY <5>1
        <5>3. QED
          BY <2>3, <4>2, <5>1, <5>2
      <4>3. CASE t # 0 /\ t # k
        <5>1. t \in 0..(k - 1) /\ t - 1 \in 0..k /\ t - 1 # k
          BY <3>1, <4>3
        <5>2. h[t] = g[t] /\ h[t - 1] = g[t - 1]
          BY <4>3, <5>1
        <5>3. g[t] = AddRow(g[t - 1], f, t - 1)
          BY <3>2, <4>3, <5>1 DEF Loop
        <5>4. QED
          BY <4>3, <5>2, <5>3
      <4>4. QED
        BY <4>1, <4>2, <4>3
    <3>4. h = [t \in 0..k |-> h[t]]
      OBVIOUS
    <3> HIDE DEF h
    <3>5. Loop(s, f, k, h)
      BY <3>3, <3>4 DEF Loop
    <3>6. QED
      BY <2>1, <3>5
  <2>4. QED
    BY <2>2, <2>3
<1>2. QED
  BY <1>1

(* A frame's loop over unseen rows adds its rank to each.                  *)
LEMMA LoopAdds ==
  ASSUME NEW id \in Nat, NEW F \in Added(id), NEW r \in Ranks, NEW f, Stamped(f, r), f.req = id,
         NEW stop \in 0..RowsOf(id), \A t \in 0..(stop - 1) : r \notin F[t],
         NEW add, Loop(SumAt(id, F), f, RowsOf(id), add)
  PROVE  \E G \in Added(id) : add[stop] = SumAt(id, G)
<1> DEFINE n == RowsOf(id)
           G(k) == [t \in Rows(id) |-> IF t < k THEN F[t] \cup {r} ELSE F[t]]
           B == {k \in 0..stop : add[k] # SumAt(id, G(k))}
<1>1. n \in Nat \ {0} /\ stop \in Nat /\ stop <= n
  BY RowsOfNat
<1>2. \A k \in 0..n : add[k] = IF k = 0 THEN SumAt(id, F) ELSE AddRow(add[k - 1], f, k - 1)
  BY DEF Loop
<1> HIDE DEF n
<1>3. \A k : G(k) \in Added(id)
  BY DEF Added
<1>4. G(0) = F
  <2>1. \A t \in Rows(id) : t \in Nat /\ ~(t < 0)
    BY DEF Rows
  <2>2. F = [t \in Rows(id) |-> F[t]]
    BY DEF Added
  <2>3. QED
    BY <2>1, <2>2
<1>5. ASSUME NEW k \in 1..stop, add[k - 1] = SumAt(id, G(k - 1)) PROVE add[k] = SumAt(id, G(k))
  <2>1. k \in 0..n /\ k # 0 /\ k - 1 \in Rows(id) /\ k - 1 \in 0..(stop - 1)
    BY <1>1 DEF n, Rows
  <2>2. G(k - 1)[k - 1] = F[k - 1] /\ r \notin F[k - 1]
    BY <2>1 DEF Rows
  <2>3. [G(k - 1) EXCEPT ![k - 1] = @ \cup {r}] = G(k)
    <3>1. ASSUME NEW t \in Rows(id) PROVE (t < k) <=> (t < k - 1 \/ t = k - 1)
      BY <1>1, <2>1 DEF Rows
    <3>2. G(k) = [t \in Rows(id) |-> IF t = k - 1 THEN F[t] \cup {r} ELSE G(k - 1)[t]]
      BY <1>1, <3>1 DEF Rows
    <3>3. QED
      BY <2>2, <3>2
  <2>4. PICK H \in Added(id) : H = G(k - 1)
    BY <1>3
  <2>5. PICK j \in Rows(id) : j = k - 1
    BY <2>1
  <2>6. AddRow(SumAt(id, H), f, j) = SumAt(id, [H EXCEPT ![j] = @ \cup {r}])
    BY <2>2, <2>4, <2>5, RowAdded
  <2>7. add[k] = AddRow(add[k - 1], f, k - 1)
    BY <1>2, <2>1
  <2> HIDE DEF G
  <2>8. QED
    BY <1>5, <2>3, <2>4, <2>5, <2>6, <2>7
<1> HIDE DEF G
<1>6. add[0] = SumAt(id, G(0))
  <2>1. 0 \in 0..n
    BY <1>1
  <2>2. add[0] = SumAt(id, F)
    BY <1>2, <2>1
  <2>3. QED
    BY <1>4, <2>2, Zenon
<1>7. B = {}
  <2> SUFFICES ASSUME B # {} PROVE FALSE
    OBVIOUS
  <2>1. B \subseteq Nat
    <3>1. B \subseteq 0..stop
      BY Zenon
    <3> HIDE DEF B
    <3>2. QED
      BY <3>1
  <2>2. PICK m \in B : \A j \in B : m <= j
    BY <2>1, LeastNat
  <2>3. m \in 0..stop /\ m # 0
    BY <1>6, <2>2
  <2>4. m \in 1..stop /\ m - 1 \in 0..stop /\ ~(m <= m - 1)
    BY <1>1, <2>3
  <2>5. add[m - 1] = SumAt(id, G(m - 1))
    BY <2>2, <2>4
  <2>6. QED
    BY <1>5, <2>2, <2>4, <2>5
<1>8. stop \in 0..stop
  BY <1>1
<1>9. add[stop] = SumAt(id, G(stop))
  BY <1>7, <1>8
<1>10. QED
  BY <1>3, <1>9

(* accumulate adds the frame's rank to some of the rows.                   *)
LEMMA Accumulated ==
  ASSUME NEW id \in Nat, NEW F \in Added(id), NEW r \in Ranks, NEW f, Stamped(f, r), f.req = id
  PROVE  \E G \in Added(id) : Accumulate(SumAt(id, F), f).sum = SumAt(id, G)
<1> DEFINE s == SumAt(id, F)
           n == RowsOf(id)
           final == f.tok + f.rows - 1
           bad == {t \in f.tok..final : t >= s.rows \/ Key(f, t) \in s.seen}
           stop == IF bad = {} THEN final + 1 ELSE CHOOSE t \in bad : \A u \in bad : t <= u
           add == CHOOSE g : g = [t \in f.tok..final + 1 |-> IF t = f.tok THEN s ELSE AddRow(g[t - 1], f, t - 1)]
<1>1. n \in Nat \ {0}
  BY RowsOfNat
<1>2. f.layer = 1 /\ f.exec = r /\ f.tok = 0 /\ f.rows = n /\ f.req = id
  BY DEF Stamped
<1> HIDE DEF n
<1>3. final = n - 1 /\ final + 1 = n /\ f.tok..final = Rows(id)
  BY <1>1, <1>2 DEF n, Rows
<1>4. bad = {t \in Rows(id) : r \in F[t]}
  <2>1. \A t \in Rows(id) : ~(t >= s.rows)
    BY <1>1 DEF SumAt, Rows, n
  <2>2. \A t \in Rows(id) : Key(f, t) \in s.seen <=> r \in F[t]
    BY <1>2 DEF Key, SumAt
  <2> HIDE DEF s
  <2>3. QED
    BY <1>3, <2>1, <2>2
<1> HIDE DEF final, bad
<1>5. stop \in 0..n /\ \A t \in 0..(stop - 1) : r \notin F[t]
  <2>1. CASE bad = {}
    <3>1. stop = n
      BY <1>3, <2>1
    <3>2. \A t \in 0..(n - 1) : r \notin F[t]
      BY <1>4, <2>1 DEF Rows, n
    <3> HIDE DEF stop
    <3>3. QED
      BY <1>1, <3>1, <3>2
  <2>2. CASE bad # {}
    <3>1. bad \subseteq 0..(n - 1) /\ bad \subseteq Nat
      BY <1>1, <1>4 DEF Rows, n
    <3>2. \E t \in bad : \A u \in bad : t <= u
      BY <2>2, <3>1, LeastNat
    <3>3. stop \in bad /\ \A u \in bad : stop <= u
      BY <2>2, <3>2
    <3> HIDE DEF stop
    <3>4. ASSUME NEW t \in 0..(stop - 1) PROVE r \notin F[t]
      <4>1. t \in 0..(n - 1) /\ ~(stop <= t)
        BY <1>1, <3>1, <3>3
      <4>2. t \notin bad
        BY <3>3, <4>1
      <4>3. QED
        BY <1>4, <4>1, <4>2 DEF Rows, n
    <3>5. QED
      BY <1>1, <3>1, <3>3, <3>4
  <2>3. QED
    BY <2>1, <2>2
<1>6. Loop(s, f, n, add)
  <2>1. add = CHOOSE g : Loop(s, f, n, g)
    BY <1>2, <1>3, Zenon DEF Loop
  <2>2. \E g : Loop(s, f, n, g)
    BY <1>1, RowsLoop
  <2> HIDE DEF add, s
  <2>3. QED
    BY <2>1, <2>2, Zenon
<1>7. \E G \in Added(id) : add[stop] = SumAt(id, G)
  <2> HIDE DEF add, stop
  <2>0. PICK g : g = add
    OBVIOUS
  <2>1. PICK k : k = stop
    OBVIOUS
  <2>2. k \in 0..n /\ \A t \in 0..(k - 1) : r \notin F[t]
    BY <1>5, <2>1, Zenon
  <2>3. Loop(s, f, n, g)
    BY <1>6, <2>0, Zenon
  <2>4. \E G \in Added(id) : g[k] = SumAt(id, G)
    BY <2>2, <2>3, LoopAdds DEF n
  <2>5. QED
    BY <2>0, <2>1, <2>4
<1>8. Accumulate(s, f).sum = s \/ Accumulate(s, f).sum = add[stop]
  <2> DEFINE err == IF bad = {} THEN "ok" ELSE IF stop >= s.rows THEN "DimMismatch" ELSE "SlotFilled"
  <2>1. Accumulate(s, f) = IF f.status # "Ok" THEN [sum |-> s, err |-> "SparkReportedError"]
                           ELSE IF f.exec >= Sparks THEN [sum |-> s, err |-> "DimMismatch"]
                           ELSE [sum |-> add[stop], err |-> err]
    BY Zenon DEF Accumulate, final, bad
  <2> HIDE DEF s, add, stop, err
  <2>2. QED
    BY <2>1
<1> HIDE DEF add, stop
<1>9. QED
  BY <1>7, <1>8
(* A sum that counts every key has every rank in every row.                *)
LEMMA CompleteHasAll ==
  ASSUME NEW id \in Nat, NEW F \in Added(id), IsComplete(SumAt(id, F))
  PROVE  \A t \in Rows(id) : F[t] = Ranks
<1> DEFINE n == RowsOf(id)
           K == {id} \X {1} \X Rows(id) \X Ranks
           P == Rows(id) \X Ranks
           seen == {k \in K : k[4] \in F[k[3]]}
           g == [p \in P |-> <<id, 1, p[1], p[2]>>]
<1>1. n \in Nat \ {0}
  BY RowsOfNat
<1>2. Cardinality(seen) = n * Sparks
  BY DEF IsComplete, SumAt
<1> HIDE DEF n
<1>3. IsFiniteSet(Rows(id)) /\ Cardinality(Rows(id)) = n
  <2> DEFINE c == Cardinality(0..(n - 1))
  <2>1. 0 \in Int /\ n - 1 \in Int
    BY <1>1
  <2>2. IsFiniteSet(0..(n - 1)) /\ c = IF 0 > n - 1 THEN 0 ELSE (n - 1) - 0 + 1
    BY <2>1, FS_Interval, Zenon
  <2> HIDE DEF c
  <2>3. c = n
    BY <1>1, <2>2
  <2>4. QED
    BY <2>2, <2>3, Zenon DEF c, Rows, n
<1>4. IsFiniteSet(P) /\ Cardinality(P) = n * Sparks
  BY <1>3, RanksFinite, FS_Product
<1>5. g \in Bijection(P, K)
  <2>1. g \in [P -> K]
    OBVIOUS
  <2>2. \A a, b \in P : g[a] = g[b] => a = b
    OBVIOUS
  <2>3. \A k \in K : \E p \in P : g[p] = k
    <3> TAKE k \in K
    <3>1. <<k[3], k[4]>> \in P /\ g[<<k[3], k[4]>>] = k
      OBVIOUS
    <3>2. QED
      BY <3>1
  <2> HIDE DEF g, P, K
  <2>4. QED
    BY <2>1, <2>2, <2>3 DEF Bijection, Injection, Surjection, IsInjective
<1> HIDE DEF g
<1>6. IsFiniteSet(K) /\ Cardinality(K) = n * Sparks
  <2>1. ExistsBijection(P, K)
    BY <1>5 DEF ExistsBijection
  <2> HIDE DEF P, K
  <2>2. QED
    BY <1>4, <2>1, FS_Bijection
<1>7. seen = K
  <2>1. seen \in SUBSET K
    OBVIOUS
  <2> HIDE DEF seen, K, P
  <2>2. QED
    BY <1>2, <1>6, <2>1, FS_Subset
<1>8. ASSUME NEW t \in Rows(id), NEW r \in Ranks PROVE r \in F[t]
  <2>1. <<id, 1, t, r>> \in K
    OBVIOUS
  <2>2. <<id, 1, t, r>> \in seen
    BY <1>7, <2>1
  <2>3. QED
    BY <2>2
<1>9. \A t \in Rows(id) : F[t] \subseteq Ranks
  BY DEF Added
<1>10. QED
  BY <1>8, <1>9

-----------------------------------------------------------------------------
(* The inductive invariant. *)

\* What a Spark is asked for.
Ask == {[req |-> id, layer |-> 1, rows |-> RowsOf(id)] : id \in Nat}

Asked == asked = [r \in Ranks |-> asked[r]] /\ \A r \in Ranks : asked[r] \in Seq(Ask)

\* Every frame a rank has sent was stamped by it.
Log(s, r) == \E S : s \in Seq(S) /\ \A f \in S : Stamped(f, r)
Sent == txlog = [r \in Ranks |-> txlog[r]] /\ \A r \in Ranks : Log(txlog[r], r)

\* Damage reaches no frame that the receiver accepts.
OnTheWay == net = [r \in Ranks |-> net[r]] /\ \A r \in Ranks : \A g \in net[r] : UnderWay(g, r)
Accepted == \E S : inbox \in Seq(S) /\ \A f \in S : \E r \in Ranks : Stamped(f, r)

\* Every sum that is being collected has whole terms, each once.
Summing(id, p) == \E F \in Added(id) : p = [layer |-> 1, sum |-> SumAt(id, F)]
Collecting ==
  /\ DOMAIN pending \subseteq Nat /\ \A id \in DOMAIN pending : Summing(id, pending[id])
  /\ busy # 0 => busy \in DOMAIN pending

LadderInv == nextId \in Nat /\ expected \in [Ranks -> Nat] /\ Asked /\ Sent /\ OnTheWay /\ Accepted /\ Collecting /\ SumExact

(* A sequence is one of a larger set, and takes one more element.          *)
LEMMA SeqGrows ==
  ASSUME NEW S, NEW s \in Seq(S), NEW x
  PROVE  Append(s, x) \in Seq(S \cup {x})
<1>1. s \in Seq(S \cup {x})
  <2>1. Len(s) \in Nat /\ s \in [1..Len(s) -> S \cup {x}]
    OBVIOUS
  <2>2. QED
    BY <2>1, SeqDef
<1>2. QED
  BY <1>1, AppendProperties

(* It holds at the start.                                                  *)
LEMMA LadderInit == Init => LadderInv
<1> SUFFICES ASSUME Init PROVE LadderInv
  OBVIOUS
<1>1. Asked
  BY DEF Init, Asked
<1>2. Sent
  <2>2. \A r \in Ranks : Log(<<>>, r)
    <3> TAKE r \in Ranks
    <3>1. PICK S : S = {}
      OBVIOUS
    <3>2. <<>> \in Seq(S) /\ \A f \in S : Stamped(f, r)
      BY <3>1
    <3>3. QED
      BY <3>2 DEF Log
  <2>3. QED
    BY <2>2 DEF Init, Sent
<1>3. OnTheWay
  BY DEF Init, OnTheWay
<1>4. Accepted
  <2>1. inbox \in Seq({}) /\ \A f \in {} : FALSE
    BY DEF Init
  <2>2. QED
    BY <2>1 DEF Accepted
<1>5. Collecting
  BY DEF Init, Collecting
<1>6. nextId \in Nat /\ expected \in [Ranks -> Nat] /\ SumExact
  BY DEF Init, SumExact
<1>7. QED
  BY <1>1, <1>2, <1>3, <1>4, <1>5, <1>6 DEF LadderInv

(* submit leaves every sum and every frame as it was.                      *)
LEMMA SubmitKeeps ==
  ASSUME LadderInv, NEW k \in 1..Sparks, Submit(RowsOf(nextId), k) PROVE LadderInv'
<1>0. nextId \in Nat /\ expected \in [Ranks -> Nat] /\ Asked /\ Sent /\ OnTheWay /\ Accepted /\ Collecting /\ SumExact
  BY DEF LadderInv
<1>1. /\ UNCHANGED <<expected, txlog, net, inbox, busy, results>> /\ nextId' = nextId + 1 /\ busy = 0
      /\ asked' = [r \in Ranks |-> IF r < k THEN Append(asked[r], [req |-> nextId, layer |-> 1, rows |-> RowsOf(nextId)]) ELSE asked[r]]
      /\ pending' = IF k = Sparks
                    THEN [i \in DOMAIN pending \cup {nextId} |->
                            IF i = nextId THEN [layer |-> 1, sum |-> NewSum(RowsOf(nextId))] ELSE pending[i]]
                    ELSE pending
  BY DEF Submit, stream
<1>2. Asked'
  <2>1. [req |-> nextId, layer |-> 1, rows |-> RowsOf(nextId)] \in Ask
    BY <1>0 DEF Ask
  <2>2. \A r \in Ranks : asked'[r] \in Seq(Ask)
    BY <1>0, <1>1, <2>1, AppendProperties DEF Asked
  <2>3. QED
    BY <1>1, <2>2 DEF Asked
<1>3. Collecting'
  <2>1. \A id \in DOMAIN pending : Summing(id, pending[id]) /\ id \in Nat
    BY <1>0 DEF Collecting
  <2>2. Summing(nextId, [layer |-> 1, sum |-> NewSum(RowsOf(nextId))])
    <3>1. PICK id \in Nat : id = nextId
      BY <1>0
    <3>2. [t \in Rows(id) |-> {}] \in Added(id) /\ NewSum(RowsOf(id)) = SumAt(id, [t \in Rows(id) |-> {}])
      BY NewIsSum
    <3>3. QED
      BY <3>1, <3>2 DEF Summing
  <2>3. DOMAIN pending' \subseteq Nat /\ \A id \in DOMAIN pending' : Summing(id, pending'[id])
    BY <1>0, <1>1, <2>1, <2>2
  <2>4. QED
    BY <1>1, <2>3 DEF Collecting
<1>4. (nextId \in Nat)' /\ (expected \in [Ranks -> Nat])' /\ Sent' /\ OnTheWay' /\ Accepted' /\ SumExact'
  BY <1>0, <1>1 DEF Sent, OnTheWay, Accepted, SumExact
<1>5. QED
  BY <1>2, <1>3, <1>4 DEF LadderInv

(* A turn of collect adds whole terms to one sum.                          *)
LEMMA CollectKeeps ==
  ASSUME LadderInv, CollectFrame PROVE LadderInv'
<1>0. nextId \in Nat /\ expected \in [Ranks -> Nat] /\ Asked /\ Sent /\ OnTheWay /\ Accepted /\ Collecting /\ SumExact
  BY DEF LadderInv
<1> DEFINE f == Head(inbox)
           known == f.req \in DOMAIN pending /\ pending[f.req].layer = f.layer
           got == Accumulate(pending[f.req].sum, f)
<1>1. /\ UNCHANGED <<expected, txlog, net, asked, nextId, results>> /\ busy # 0 /\ inbox # <<>>
      /\ inbox' = Tail(inbox)
      /\ pending' = IF known THEN [pending EXCEPT ![f.req].sum = got.sum] ELSE pending
      /\ busy' = busy \/ busy' = 0
  BY DEF CollectFrame, stream
<1>2. PICK S : inbox \in Seq(S) /\ \A h \in S : \E r \in Ranks : Stamped(h, r)
  BY <1>0 DEF Accepted
<1>3. f \in S /\ Tail(inbox) \in Seq(S)
  BY <1>1, <1>2, HeadTailProperties
<1>4. Accepted'
  BY <1>1, <1>2, <1>3 DEF Accepted
<1>5. Collecting'
  <2>1. \A id \in DOMAIN pending : Summing(id, pending[id]) /\ id \in Nat
    BY <1>0 DEF Collecting
  <2>2. DOMAIN pending' = DOMAIN pending
    BY <1>1
  <2>3. ASSUME NEW id \in DOMAIN pending PROVE Summing(id, pending'[id])
    <3>1. CASE known /\ id = f.req
      <4>1. PICK r \in Ranks : Stamped(f, r)
        BY <1>2, <1>3
      <4>2. PICK F \in Added(id) : pending[id] = [layer |-> 1, sum |-> SumAt(id, F)]
        BY <2>1 DEF Summing
      <4>3. \E G \in Added(id) : Accumulate(SumAt(id, F), f).sum = SumAt(id, G)
        <5>1. PICK e : e = f
          OBVIOUS
        <5>2. Stamped(e, r) /\ e.req = id /\ id \in Nat
          BY <2>1, <3>1, <4>1, <5>1
        <5>3. \E G \in Added(id) : Accumulate(SumAt(id, F), e).sum = SumAt(id, G)
          BY <5>2, Accumulated
        <5>4. QED
          BY <5>1, <5>3
      <4>4. got = Accumulate(SumAt(id, F), f)
        BY <3>1, <4>2
      <4>5. pending'[id] = [layer |-> 1, sum |-> got.sum]
        <5> HIDE DEF f, got
        <5>1. pending' = [pending EXCEPT ![id].sum = got.sum]
          BY <1>1, <3>1
        <5>2. QED
          BY <4>2, <5>1
      <4> HIDE DEF f, got
      <4>6. QED
        BY <4>3, <4>4, <4>5 DEF Summing
    <3>2. CASE ~(known /\ id = f.req)
      <4> HIDE DEF f, got
      <4>1. pending'[id] = pending[id]
        BY <1>1, <3>2
      <4>2. QED
        BY <2>1, <4>1
    <3>3. QED
      BY <3>1, <3>2
  <2> HIDE DEF f, got
  <2>4. QED
    BY <1>0, <1>1, <2>1, <2>2, <2>3 DEF Collecting
<1>6. (nextId \in Nat)' /\ (expected \in [Ranks -> Nat])' /\ Asked' /\ Sent' /\ OnTheWay' /\ SumExact'
  BY <1>0, <1>1 DEF Asked, Sent, OnTheWay, SumExact
<1>7. QED
  BY <1>4, <1>5, <1>6 DEF LadderInv

(* The sum that is handed out has every term.                              *)
LEMMA CollectEndKeeps ==
  ASSUME LadderInv, CollectEnd PROVE LadderInv'
<1>0. nextId \in Nat /\ expected \in [Ranks -> Nat] /\ Asked /\ Sent /\ OnTheWay /\ Accepted /\ Collecting /\ SumExact
  BY DEF LadderInv
<1> DEFINE s == pending[busy].sum
           x == [id |-> busy, rows |-> s.rows, acc |-> s.acc]
<1>1. /\ UNCHANGED <<expected, txlog, net, asked, nextId, inbox, pending>> /\ busy # 0 /\ busy' = 0
      /\ results' = IF IsComplete(s) THEN results \cup {x} ELSE results
  BY DEF CollectEnd, stream
<1>2. ASSUME IsComplete(s)
      PROVE  \A t \in 0..x.rows - 1 : x.acc[t] = [i \in 1..Sparks |-> Partial(x.id, 1, t, i - 1)]
  <2>1. PICK id \in Nat : id = busy /\ Summing(id, pending[id])
    BY <1>0, <1>1 DEF Collecting
  <2>2. PICK F \in Added(id) : s = SumAt(id, F)
    BY <2>1 DEF Summing
  <2>3. \A t \in Rows(id) : F[t] = Ranks
    BY <1>2, <2>2, CompleteHasAll
  <2>4. s.rows = RowsOf(id) /\ \A t \in Rows(id) : s.acc[t] = [i \in 1..Sparks |-> Partial(id, 1, t, i - 1)]
    BY <2>2, <2>3 DEF SumAt
  <2> HIDE DEF s
  <2>5. QED
    BY <2>1, <2>4 DEF Rows
<1>3. SumExact'
  <2> HIDE DEF x, s
  <2>1. ASSUME NEW y \in results', NEW t \in 0..y.rows - 1
        PROVE  y.acc[t] = [i \in 1..Sparks |-> Partial(y.id, 1, t, i - 1)]
    <3>1. CASE y \in results
      BY <1>0, <2>1, <3>1 DEF SumExact
    <3>2. CASE y \notin results
      <4>1. y = x /\ IsComplete(s)
        BY <1>1, <2>1, <3>2
      <4>2. QED
        BY <1>2, <2>1, <4>1
    <3>3. QED
      BY <3>1, <3>2
  <2>2. QED
    BY <2>1 DEF SumExact
<1>4. (nextId \in Nat)' /\ (expected \in [Ranks -> Nat])' /\ Asked' /\ Sent' /\ OnTheWay' /\ Accepted' /\ Collecting'
  BY <1>0, <1>1 DEF Asked, Sent, OnTheWay, Accepted, Collecting
<1>5. QED
  BY <1>3, <1>4 DEF LadderInv

(* An answer is stamped.                                                   *)
LEMMA AnswerKeeps ==
  ASSUME LadderInv, NEW r \in Ranks, NEW status \in Statuses, Answer(r, status) PROVE LadderInv'
<1>0. nextId \in Nat /\ expected \in [Ranks -> Nat] /\ Asked /\ Sent /\ OnTheWay /\ Accepted /\ Collecting /\ SumExact
  BY DEF LadderInv
<1> DEFINE a == Head(asked[r])
           flags == IF status = "Ok" THEN ReturnRequired ELSE {}
           ret == [req |-> a.req, layer |-> a.layer, exec |-> r, routes |-> TopK, status |-> status,
                   flags |-> flags,
                   rows |-> [i \in 1..a.rows |-> [size |-> ReturnRow, data |-> Partial(a.req, a.layer, i - 1, r)]]]
           f == EncodeReturn(ret, Len(txlog[r]), FALSE)
<1>1. /\ asked[r] # <<>> /\ UNCHANGED <<expected, nextId, pending, busy, results, inbox>>
      /\ txlog' = [txlog EXCEPT ![r] = Append(@, f)]
      /\ net' = [net EXCEPT ![r] = @ \cup {f}]
      /\ asked' = [asked EXCEPT ![r] = Tail(@)]
  BY DEF Answer, client
<1>2. a \in Ask /\ Tail(asked[r]) \in Seq(Ask)
  BY <1>0, <1>1, HeadTailProperties DEF Asked
<1>3. Stamped(f, r)
  <2>1. PICK id \in Nat : a = [req |-> id, layer |-> 1, rows |-> RowsOf(id)]
    BY <1>2 DEF Ask
  <2>2. PICK q, fl : fl = flags /\ q = [req |-> id, layer |-> 1, exec |-> r, routes |-> TopK, status |-> status, flags |-> fl,
                 rows |-> [i \in 1..RowsOf(id) |-> [size |-> ReturnRow, data |-> Partial(id, 1, i - 1, r)]]]
    OBVIOUS
  <2>3. a.req = id /\ a.layer = 1 /\ a.rows = RowsOf(id)
    BY <2>1
  <2> HIDE DEF a
  <2>4. ret = q
    BY <2>2, <2>3, Zenon
  <2>5. PICK n : n = Len(txlog[r])
    OBVIOUS
  <2>6. Stamped(EncodeReturn(q, n, FALSE), r)
    BY <2>2, AnswerStamped, Zenon
  <2>7. QED
    BY <2>4, <2>5, <2>6, Zenon
<1> HIDE DEF f, a
<1>4. Sent'
  <2>1. PICK S : txlog[r] \in Seq(S) /\ \A h \in S : Stamped(h, r)
    BY <1>0 DEF Sent, Log
  <2>2. Append(txlog[r], f) \in Seq(S \cup {f}) /\ \A h \in S \cup {f} : Stamped(h, r)
    BY <1>3, <2>1, SeqGrows
  <2>3. Log(Append(txlog[r], f), r)
    BY <2>2 DEF Log
  <2>4. QED
    BY <1>0, <1>1, <2>3 DEF Sent
<1>5. OnTheWay'
  BY <1>0, <1>1, <1>3, StampedWay DEF OnTheWay
<1>6. Asked'
  BY <1>0, <1>1, <1>2 DEF Asked
<1>7. (nextId \in Nat)' /\ (expected \in [Ranks -> Nat])' /\ Accepted' /\ Collecting' /\ SumExact'
  BY <1>0, <1>1 DEF Accepted, Collecting, SumExact
<1>8. QED
  BY <1>4, <1>5, <1>6, <1>7 DEF LadderInv

(* What is lost, repeated or damaged on the way stays a stamped frame, or  *)
(* one whose checksum no longer fits.                                      *)
LEMMA FaultKeeps ==
  ASSUME LadderInv, NEW r \in Ranks, Lose(r) \/ Twice(r) \/ Harm(r) PROVE LadderInv'
<1>0. nextId \in Nat /\ expected \in [Ranks -> Nat] /\ Asked /\ Sent /\ OnTheWay /\ Accepted /\ Collecting /\ SumExact
  BY DEF LadderInv
<1>1. UNCHANGED <<expected, nextId, pending, busy, results, asked, txlog, inbox>>
  BY DEF Lose, Twice, Harm, Faulty, client
<1>2. OnTheWay'
  <2>1. CASE Lose(r)
    BY <1>0, <2>1 DEF Lose, OnTheWay
  <2>2. CASE Twice(r)
    <3>1. PICK s \in 1..Len(txlog[r]) : net' = [net EXCEPT ![r] = @ \cup {txlog[r][s]}]
      BY <2>2 DEF Twice
    <3>2. PICK S : txlog[r] \in Seq(S) /\ \A h \in S : Stamped(h, r)
      BY <1>0 DEF Sent, Log
    <3>3. Stamped(txlog[r][s], r)
      BY <3>2, ElementOfSeq
    <3>4. PICK f : f = txlog[r][s]
      OBVIOUS
    <3>5. UnderWay(f, r)
      BY <3>3, <3>4, StampedWay
    <3>6. QED
      BY <1>0, <3>1, <3>4, <3>5 DEF OnTheWay
  <2>3. CASE Harm(r)
    <3>1. PICK f \in net[r] : \E g \in Damage(f) : net' = [net EXCEPT ![r] = (@ \ {f}) \cup {g}]
      BY <2>3 DEF Harm
    <3>2. PICK g \in Damage(f) : net' = [net EXCEPT ![r] = (@ \ {f}) \cup {g}]
      BY <3>1
    <3>3. UnderWay(f, r)
      BY <1>0 DEF OnTheWay
    <3>4. UnderWay(g, r)
      BY <3>3, DamageWay
    <3>5. QED
      BY <1>0, <3>2, <3>4 DEF OnTheWay
  <2>4. QED
    BY <2>1, <2>2, <2>3
<1>3. (nextId \in Nat)' /\ (expected \in [Ranks -> Nat])' /\ Asked' /\ Sent' /\ Accepted' /\ Collecting' /\ SumExact'
  BY <1>0, <1>1 DEF Asked, Sent, Accepted, Collecting, SumExact
<1>4. QED
  BY <1>2, <1>3 DEF LadderInv

(* The receiver accepts a stamped frame or none.                           *)
LEMMA ReceiveKeeps ==
  ASSUME LadderInv, NEW r \in Ranks, Receive(r) PROVE LadderInv'
<1>0. nextId \in Nat /\ expected \in [Ranks -> Nat] /\ Asked /\ Sent /\ OnTheWay /\ Accepted /\ Collecting /\ SumExact
  BY DEF LadderInv
<1>1. PICK f \in net[r] :
        LET v == Verdict(f, expected[r])
            d == Disposition(v)
            again == d = "Retry" /\ tries[r] + 1 < MaxAttempts
            resent == IF again /\ expected[r] < Len(txlog[r]) THEN {txlog[r][expected[r] + 1]} ELSE {}
        IN  /\ net' = [net EXCEPT ![r] = (@ \ {f}) \cup resent]
            /\ inbox' = IF v = "ok" THEN Append(inbox, f) ELSE inbox
            /\ expected' = IF v = "ok" THEN [expected EXCEPT ![r] = @ + 1] ELSE expected
  BY Zenon DEF Receive
<1>2. UNCHANGED <<nextId, pending, busy, results, asked, txlog>>
  BY DEF Receive, client
<1> DEFINE v == Verdict(f, expected[r])
           next == txlog[r][expected[r] + 1]
           resent == IF Disposition(v) = "Retry" /\ tries[r] + 1 < MaxAttempts /\ expected[r] < Len(txlog[r])
                     THEN {next} ELSE {}
<1>3. /\ net' = [net EXCEPT ![r] = (@ \ {f}) \cup resent]
      /\ inbox' = IF v = "ok" THEN Append(inbox, f) ELSE inbox
      /\ expected' = IF v = "ok" THEN [expected EXCEPT ![r] = @ + 1] ELSE expected
  BY <1>1
<1>4. UnderWay(f, r)
  BY <1>0 DEF OnTheWay
<1>5. v = "ok" => Stamped(f, r)
  <2>1. PICK want : want = expected[r]
    OBVIOUS
  <2>2. Verdict(f, want) = "ok" => VerifyCrc(f, FALSE) = "ok"
    BY VerdictOk
  <2>3. VerifyCrc(f, FALSE) = "ok" => Stamped(f, r)
    BY <1>4, CrcBinds
  <2>4. QED
    BY <2>1, <2>2, <2>3
<1>6. \A g \in resent : UnderWay(g, r)
  <2>1. SUFFICES ASSUME expected[r] < Len(txlog[r]) PROVE UnderWay(next, r)
    OBVIOUS
  <2>2. PICK S : txlog[r] \in Seq(S) /\ \A h \in S : Stamped(h, r)
    BY <1>0 DEF Sent, Log
  <2>3. expected[r] + 1 \in 1..Len(txlog[r])
    <3>1. Len(txlog[r]) \in Nat /\ expected[r] \in Nat
      BY <1>0, <2>2, LenProperties
    <3>2. QED
      BY <2>1, <3>1
  <2>4. Stamped(next, r)
    BY <2>2, <2>3, ElementOfSeq
  <2>5. PICK g : g = next
    OBVIOUS
  <2>6. QED
    BY <2>4, <2>5, StampedWay
<1> HIDE DEF v, next, resent
<1>7. OnTheWay'
  BY <1>0, <1>3, <1>6 DEF OnTheWay
<1>8. Accepted'
  <2>1. PICK S : inbox \in Seq(S) /\ \A h \in S : \E q \in Ranks : Stamped(h, q)
    BY <1>0 DEF Accepted
  <2>2. CASE v = "ok"
    <3>1. inbox' \in Seq(S \cup {f}) /\ \A h \in S \cup {f} : \E q \in Ranks : Stamped(h, q)
      BY <1>3, <1>5, <2>1, <2>2, SeqGrows
    <3>2. QED
      BY <3>1 DEF Accepted
  <2>3. CASE v # "ok"
    BY <1>3, <2>1, <2>3 DEF Accepted
  <2>4. QED
    BY <2>2, <2>3
<1>9. (nextId \in Nat)' /\ (expected \in [Ranks -> Nat])' /\ Asked' /\ Sent' /\ Collecting' /\ SumExact'
  BY <1>0, <1>2, <1>3 DEF Asked, Sent, Collecting, SumExact
<1>10. QED
  BY <1>7, <1>8, <1>9 DEF LadderInv

(* Every step keeps it.                                                    *)
LEMMA LadderNext == LadderInv /\ [Next]_vars => LadderInv'
<1> SUFFICES ASSUME LadderInv, [Next]_vars PROVE LadderInv'
  OBVIOUS
<1>0. nextId \in Nat /\ expected \in [Ranks -> Nat] /\ Asked /\ Sent /\ OnTheWay /\ Accepted /\ Collecting /\ SumExact
  BY DEF LadderInv
<1>1. ASSUME UNCHANGED <<expected, nextId, pending, busy, results, asked, txlog, net, inbox>> PROVE LadderInv'
  BY <1>0, <1>1 DEF LadderInv, Asked, Sent, OnTheWay, Accepted, Collecting, SumExact
<1>2. CASE UNCHANGED vars
  BY <1>1, <1>2 DEF vars
<1>3. CASE Probe
  BY <1>1, <1>3 DEF Probe, stream
<1>4. ASSUME NEW k \in 1..Sparks, Submit(1 + (nextId % MaxRows), k) PROVE LadderInv'
  BY <1>4, SubmitKeeps DEF RowsOf
<1>5. ASSUME NEW id \in 1..MaxTickets, CollectStart(id) PROVE LadderInv'
  <2>1. UNCHANGED <<expected, nextId, pending, results, asked, txlog, net, inbox>> /\ busy' \in DOMAIN pending
    BY <1>5 DEF CollectStart, stream
  <2>2. QED
    BY <1>0, <2>1 DEF LadderInv, Asked, Sent, OnTheWay, Accepted, Collecting, SumExact
<1>6. ASSUME NEW id \in 1..MaxTickets, Retire(id) PROVE LadderInv'
  <2>1. /\ UNCHANGED <<expected, nextId, busy, results, asked, txlog, net, inbox>> /\ busy = 0
        /\ pending' = [i \in DOMAIN pending \ {id} |-> pending[i]]
    BY <1>6 DEF Retire, stream
  <2>2. QED
    BY <1>0, <2>1 DEF LadderInv, Asked, Sent, OnTheWay, Accepted, Collecting, SumExact
<1>7. ASSUME NEW r \in Ranks, \/ \E s \in Statuses : Answer(r, s)
                              \/ Lose(r) \/ Twice(r) \/ Harm(r) \/ Receive(r)
      PROVE  LadderInv'
  BY <1>7, AnswerKeeps, FaultKeeps, ReceiveKeeps
<1>8. CASE CollectFrame \/ CollectEnd
  BY <1>8, CollectKeeps, CollectEndKeeps
<1>9. QED
  BY <1>2, <1>3, <1>4, <1>5, <1>6, <1>7, <1>8 DEF Next

-----------------------------------------------------------------------------
(* The TCP fallback. *)

\* A frame of rank r's connection: the id of an exchange follows from its sequence.
FramesOf(r) == {f \in [id : Nat, n : 1..MaxRows, exec : {r}, seq : Nat, status : {"Ok", "Error"}] : f.id = f.seq + 1}
PiecesOf(r) == [head : BOOLEAN, f : FramesOf(r)]

Settings ==
  /\ mode \in {"raw", "sum"} /\ held \in {Tcp!Ranks, {}} /\ txId \in Nat \ {0} /\ broken \in Nat
  /\ shut \subseteq Tcp!Ranks /\ skew \subseteq Tcp!Ranks
  /\ txSeq \in [Tcp!Ranks -> Nat] /\ rxSeq \in [Tcp!Ranks -> Nat]
  /\ held = Tcp!Ranks => \A r \in Tcp!Ranks : txSeq[r] = txId - 1
  /\ (mode = "sum" => inflight = <<>>) /\ failed \in BOOLEAN
  /\ inflight \in Seq(Nat \X (1..MaxRows))

Streams ==
  /\ up = [r \in Tcp!Ranks |-> up[r]] /\ \A r \in Tcp!Ranks : up[r] \in Seq(PiecesOf(r))
  /\ back = [r \in Tcp!Ranks |-> back[r]] /\ \A r \in Tcp!Ranks : back[r] \in Seq(PiecesOf(r))

\* An open daemon answers in the sequence it receives.
Open(d) == /\ DOMAIN d = {"at", "got", "rx", "tx", "loaded", "todo", "end"}
           /\ d.got \in Nat /\ d.rx \in Nat /\ d.tx \in Nat
DaemonOK(d, r) ==
  \/ d.at = "closed"
  \/ /\ Open(d)
     /\ \/ d.at = "recv" /\ d.todo = <<>> /\ d.tx = d.rx
        \/ d.at = "serve" /\ d.tx + 1 = d.rx /\ d.todo = <<d.todo[1]>> /\ d.todo[1] \in FramesOf(r) /\ d.todo[1].seq = d.tx
        \/ d.at = "send" /\ d.tx = d.rx /\ d.todo \in Seq(PiecesOf(r)) /\ d.todo # <<>>
Daemons == daemon = [r \in Tcp!Ranks |-> daemon[r]] /\ \A r \in Tcp!Ranks : DaemonOK(daemon[r], r)

Writing ==
  /\ op.at = "write" /\ DOMAIN op = {"at", "id", "n", "todo"}
  /\ op.id \in Nat /\ op.id = txId - 1 /\ op.n \in 1..MaxRows
  /\ op.todo = [r \in Tcp!Ranks |-> op.todo[r]] /\ \A r \in Tcp!Ranks : op.todo[r] \in Seq(PiecesOf(r))
  /\ mode = "sum" /\ failed = FALSE => \A r \in Tcp!Ranks : rxSeq[r] = op.id - 1

\* In a read, what a rank has handed in is the answer to the exchange; to an earlier one, at worst, for a sum
\* after an exchange that failed.
Answers(r) == /\ op.frame[r] \in FramesOf(r)
              /\ mode = "raw" \/ failed = FALSE => op.frame[r].id = op.id
              /\ mode = "raw" => op.frame[r].n = op.n
ReadingOK ==
  /\ op.at = "read" /\ DOMAIN op = {"at", "id", "n", "done", "err", "part", "frame"}
  /\ mode = "raw" => held = Tcp!Ranks
  /\ op.id \in Nat /\ op.n \in 1..MaxRows /\ op.done \subseteq Tcp!Ranks /\ op.err \subseteq Tcp!Ranks
  /\ op.part \in [Tcp!Ranks -> Nat] /\ op.frame = [r \in Tcp!Ranks |-> op.frame[r]]
  /\ \A r \in Tcp!Ranks : op.part[r] > 0 => op.frame[r] \in FramesOf(r) /\ r \notin op.done
  /\ \A r \in op.done : Answers(r)
  /\ mode = "raw" => \A r \in Tcp!Ranks : op.part[r] > 0 => Answers(r)
  /\ mode = "sum" /\ failed = FALSE =>
                     /\ op.id = txId - 1
                     /\ \A r \in Tcp!Ranks \ op.err : rxSeq[r] = IF r \in op.done THEN op.id ELSE op.id - 1

Calls ==
  \/ op = Tcp!Idle /\ (mode = "sum" /\ failed = FALSE => \A r \in Tcp!Ranks : rxSeq[r] = txId - 1)
  \/ op.at = "dead"
  \/ Writing
  \/ ReadingOK

TcpInv == Settings /\ Streams /\ Daemons /\ Calls /\ Tcp!TcpExact

-----------------------------------------------------------------------------
(* As long as nothing has failed, a request and its answer move piece by piece. *)

\* The frame rank r gets, or answers with, in the exchange whose id is c.
Frame(c, r, n) == [id |-> c, n |-> n, exec |-> r, seq |-> c - 1, status |-> "Ok"]

\* The k-th piece of frame f.
Piece(f, k) == IF k = 1 THEN [head |-> TRUE, f |-> f] ELSE [head |-> FALSE, f |-> f]

\* s holds pieces of f, from the one after the first a.
Run(s, f, a) == \A i \in 1..Len(s) : s[i] = Piece(f, a + i)

Todo(r) == IF op.at = "write" THEN op.todo[r] ELSE <<>>

At(r, at, got, rx, tx) ==
  daemon[r].at = at /\ daemon[r].got = got /\ daemon[r].rx = rx /\ daemon[r].tx = tx /\ ~daemon[r].end

\* The client has read nothing of the answer, or its first g pieces.
Partly(c, r, n, g) ==
  /\ rxSeq[r] = c - 1
  /\ g > 0 => op.at = "read" /\ op.frame[r] = Frame(c, r, n)
  /\ op.at = "read" => r \notin op.done /\ op.part[r] = IF g = 0 THEN 0 ELSE n + 1 - g

\* The daemon has read the first g pieces of the request, the others are under way or still to be written.
Asking(c, r, n) ==
  \E g \in 0..n :
     /\ At(r, "recv", g, c - 1, c - 1) /\ Partly(c, r, n, 0) /\ back[r] = <<>>
     /\ Run(up[r], Frame(c, r, n), g) /\ Run(Todo(r), Frame(c, r, n), g + Len(up[r]))
     /\ g + Len(up[r]) + Len(Todo(r)) = n + 1

Served(c, r, n) ==
  /\ At(r, "serve", 0, c, c - 1) /\ daemon[r].todo = <<Frame(c, r, n)>>
  /\ Partly(c, r, n, 0) /\ up[r] = <<>> /\ Todo(r) = <<>> /\ back[r] = <<>>

\* The client has read the first g pieces of the answer, the others are under way or still to be written.
Sending(c, r, n) ==
  \E g \in 0..n :
     /\ At(r, "send", 0, c, c) \/ At(r, "recv", 0, c, c)
     /\ Partly(c, r, n, g) /\ up[r] = <<>> /\ Todo(r) = <<>>
     /\ Run(back[r], Frame(c, r, n), g) /\ Run(daemon[r].todo, Frame(c, r, n), g + Len(back[r]))
     /\ g + Len(back[r]) + Len(daemon[r].todo) = n + 1

\* Nothing is under way.
Rest(c, r) == /\ At(r, "recv", 0, c, c) /\ rxSeq[r] = c
              /\ up[r] = <<>> /\ Todo(r) = <<>> /\ back[r] = <<>>

Answered(c, r) == op.at = "read" /\ r \in op.done /\ Rest(c, r)

Phase(c, r, n) == Asking(c, r, n) \/ Served(c, r, n) \/ Sending(c, r, n) \/ Answered(c, r)

OneExchange(c, n) ==
  /\ \/ op.at = "write" /\ inflight = <<>>
     \/ op = Tcp!Idle /\ inflight = <<<<c, n>>>> /\ mode = "raw"
     \/ op.at = "read" /\ op.id = c /\ op.err = {} /\ inflight = <<>>
  /\ op # Tcp!Idle => op.n = n
  /\ \A r \in Tcp!Ranks : Phase(c, r, n)

Resting(c) == op = Tcp!Idle /\ inflight = <<>> /\ \A r \in Tcp!Ranks : Rest(c, r)

Calm == /\ held = Tcp!Ranks /\ shut = {} /\ skew = {}
        /\ \E c \in {txId - 1} : Resting(c) \/ \E n \in 1..MaxRows : OneExchange(c, n)
Calmly == broken = 0 => Calm

-----------------------------------------------------------------------------
(* A frame by its fields.                                                  *)
LEMMA FrameHas ==
  ASSUME NEW r, NEW f
  PROVE  (f \in FramesOf(r)) <=>
           /\ DOMAIN f = {"id", "n", "exec", "seq", "status"} /\ f = [x \in DOMAIN f |-> f[x]]
           /\ f.id \in Nat /\ f.n \in 1..MaxRows /\ f.exec = r /\ f.seq \in Nat /\ f.status \in {"Ok", "Error"}
           /\ f.id = f.seq + 1
  BY DEF FramesOf

(* A frame's pieces are its header and its rows.                           *)
LEMMA PiecesAre ==
  ASSUME NEW r, NEW f \in FramesOf(r)
  PROVE  /\ Tcp!Pieces(f) \in Seq(PiecesOf(r)) /\ Len(Tcp!Pieces(f)) = f.n + 1 /\ Tcp!Pieces(f) # <<>>
         /\ Run(Tcp!Pieces(f), f, 0)
<1> DEFINE yes == [head |-> TRUE, f |-> f]
           no == [head |-> FALSE, f |-> f]
           h == <<yes>>
           b == [i \in 1..f.n |-> no]
           s == h \o b
<1>1. f.n \in Nat
  BY FrameHas
<1>2. PICK P : P = PiecesOf(r)
  OBVIOUS
<1>3. yes \in P /\ no \in P
  BY <1>2 DEF PiecesOf
<1>4. \A k : Piece(f, k) = IF k = 1 THEN yes ELSE no
  BY DEF Piece
<1>5. Tcp!Pieces(f) = s
  BY DEF Tcp!Pieces
<1>6. PICK n \in Nat : n = f.n
  BY <1>1
<1> HIDE DEF yes, no
<1>7. h \in Seq(P) /\ Len(h) = 1 /\ h[1] = yes
  BY <1>3
<1>8. b \in Seq(P) /\ Len(b) = n /\ \A i \in 1..n : b[i] = no
  <2>1. b \in [1..n -> P] /\ \A i \in 1..n : b[i] = no
    BY <1>3, <1>6
  <2> HIDE DEF b
  <2>2. QED
    BY <2>1, SeqDef, LenProperties
<1> HIDE DEF h, b
<1>9. /\ s \in Seq(P) /\ Len(s) = 1 + n
      /\ \A i \in 1..(1 + n) : s[i] = IF i <= 1 THEN h[i] ELSE b[i - 1]
  <2>1. /\ s \in Seq(P) /\ Len(s) = Len(h) + Len(b)
        /\ \A i \in 1..(Len(h) + Len(b)) : s[i] = IF i <= Len(h) THEN h[i] ELSE b[i - Len(h)]
    BY <1>7, <1>8, ConcatProperties
  <2> HIDE DEF s
  <2>2. QED
    BY <1>7, <1>8, <2>1
<1> HIDE DEF s
<1>10. ASSUME NEW i \in 1..Len(s) PROVE s[i] = Piece(f, 0 + i)
  <2>1. CASE i = 1
    BY <1>4, <1>7, <1>9, <2>1
  <2>2. CASE i # 1
    <3>1. i \in 1..(1 + n) /\ ~(i <= 1) /\ i - 1 \in 1..n /\ 0 + i # 1
      BY <1>9, <2>2
    <3>2. s[i] = no
      BY <1>8, <1>9, <3>1
    <3>3. Piece(f, 0 + i) = no
      BY <1>4, <3>1, Zenon
    <3>4. QED
      BY <3>2, <3>3
  <2>3. QED
    BY <2>1, <2>2
<1>11. s # <<>> /\ Len(s) = n + 1
  BY <1>9
<1>12. QED
  BY <1>2, <1>5, <1>6, <1>9, <1>10, <1>11 DEF Run

(* A piece more at the end of a stream, and one less at its head.          *)
LEMMA StreamGrows ==
  ASSUME NEW r, NEW s \in Seq(PiecesOf(r)), NEW x \in PiecesOf(r)
  PROVE  Append(s, x) \in Seq(PiecesOf(r))
  BY AppendProperties

(* The piece at the head of a stream, and what is left.                    *)
LEMMA StreamShrinks ==
  ASSUME NEW r, NEW s \in Seq(PiecesOf(r)), s # <<>>
  PROVE  /\ Head(s) \in PiecesOf(r) /\ Head(s).f \in FramesOf(r) /\ Tail(s) \in Seq(PiecesOf(r))
<1>1. Head(s) \in PiecesOf(r) /\ Tail(s) \in Seq(PiecesOf(r))
  BY HeadTailProperties
<1>2. \A p \in PiecesOf(r) : p.f \in FramesOf(r)
  BY DEF PiecesOf
<1>3. QED
  BY <1>1, <1>2

(* What the invariant says of a call under way.                            *)
LEMMA InWrite == ASSUME TcpInv, op.at = "write" PROVE Writing
  BY DEF TcpInv, Calls, Tcp!Idle, ReadingOK

(* The same of a read.                                                     *)
LEMMA InRead == ASSUME TcpInv, op.at = "read" PROVE ReadingOK
  BY DEF TcpInv, Calls, Tcp!Idle, Writing

(* A daemon that closes its connection empties what is on the way to it.   *)
LEMMA Closes ==
  ASSUME NEW r \in Tcp!Ranks, Streams, Daemons, Tcp!Close(r)
  PROVE  Daemons' /\ up' = [q \in Tcp!Ranks |-> up'[q]] /\ \A q \in Tcp!Ranks : up'[q] \in Seq(PiecesOf(q))
<1>1. daemon' = [daemon EXCEPT ![r] = Tcp!Closed] /\ up' = [up EXCEPT ![r] = <<>>]
  BY DEF Tcp!Close, Tcp!Set
<1>2. Tcp!Closed.at = "closed"
  BY DEF Tcp!Closed
<1> HIDE DEF Tcp!Closed
<1>3. DaemonOK(Tcp!Closed, r)
  BY <1>2 DEF DaemonOK
<1>4. Daemons'
  BY <1>1, <1>3 DEF Daemons
<1>5. up' = [q \in Tcp!Ranks |-> up'[q]] /\ \A q \in Tcp!Ranks : up'[q] \in Seq(PiecesOf(q))
  BY <1>1 DEF Streams
<1>6. QED
  BY <1>4, <1>5

(* The start.                                                              *)
LEMMA TcpInit == Tcp!Init => TcpInv
<1> SUFFICES ASSUME Tcp!Init PROVE TcpInv
  OBVIOUS
<1>1. Settings
  <2>1. /\ mode \in {"raw", "sum"} /\ held = Tcp!Ranks /\ shut = {} /\ txId = 1 /\ skew = {}
        /\ txSeq = [r \in Tcp!Ranks |-> 0] /\ rxSeq = [r \in Tcp!Ranks |-> 0] /\ inflight = <<>> /\ broken = 0
    BY DEF Tcp!Init, Tcp!All
  <2>2. failed \in BOOLEAN
    BY DEF Tcp!Init
  <2>3. QED
    BY <2>1, <2>2 DEF Settings
<1>2. Streams
  BY DEF Tcp!Init, Streams, Tcp!All
<1>3. Daemons
  BY DEF Tcp!Init, Daemons, Tcp!All, DaemonOK, Open
<1>4. Calls /\ Tcp!TcpExact
  BY DEF Tcp!Init, Calls, Tcp!All, Tcp!TcpExact
<1>5. QED
  BY <1>1, <1>2, <1>3, <1>4 DEF TcpInv

(* A send stamps every connection's frame with the sequence its id has.    *)
LEMMA SendKeeps == ASSUME TcpInv, NEW n \in 1..MaxRows, Tcp!Send(n) PROVE TcpInv'
<1>0. Settings /\ Streams /\ Daemons /\ Calls /\ Tcp!TcpExact
  BY DEF TcpInv
<1> DEFINE F(r) == [id |-> txId, n |-> n, exec |-> r, seq |-> txSeq[r], status |-> "Ok"]
<1>1. /\ op = Tcp!Idle /\ txId' = txId + 1
      /\ txSeq' = [r \in Tcp!Ranks |-> txSeq[r] + IF r \in held THEN 1 ELSE 0]
      /\ op' = [at |-> "write", id |-> txId, n |-> n,
                todo |-> [r \in Tcp!Ranks |-> IF r \in held THEN Tcp!Pieces(F(r)) ELSE <<>>]]
      /\ UNCHANGED <<mode, held, shut, rxSeq, skew, inflight, up, back, daemon, last, failed, broken>>
  BY DEF Tcp!Send
<1>2. txId \in Nat \ {0} /\ held \in {Tcp!Ranks, {}} /\ txSeq \in [Tcp!Ranks -> Nat]
      /\ (held = Tcp!Ranks => \A r \in Tcp!Ranks : txSeq[r] = txId - 1)
      /\ (mode = "sum" /\ failed = FALSE => \A r \in Tcp!Ranks : rxSeq[r] = txId - 1)
  <2>1. mode = "sum" /\ failed = FALSE => \A r \in Tcp!Ranks : rxSeq[r] = txId - 1
    BY <1>0, <1>1 DEF Calls, Tcp!Idle, Writing, ReadingOK
  <2>2. QED
    BY <1>0, <2>1 DEF Settings
<1>3. \A r \in Tcp!Ranks : op'.todo[r] \in Seq(PiecesOf(r))
  <2> TAKE r \in Tcp!Ranks
  <2>1. CASE r \in held
    <3>1. txSeq[r] = txId - 1 /\ txSeq[r] \in Nat
      BY <1>2, <2>1
    <3>2. F(r) \in FramesOf(r)
      BY <1>2, <3>1 DEF FramesOf
    <3>3. PICK f \in FramesOf(r) : f = F(r)
      BY <3>2
    <3>4. Tcp!Pieces(f) \in Seq(PiecesOf(r))
      BY PiecesAre
    <3> HIDE DEF F
    <3>5. QED
      BY <1>1, <2>1, <3>3, <3>4
  <2>2. CASE r \notin held
    BY <1>1, <2>2
  <2>3. QED
    BY <2>1, <2>2
<1>4. Writing'
  <2>1. op'.id = txId /\ op'.n = n /\ op'.at = "write" /\ DOMAIN op' = {"at", "id", "n", "todo"}
        /\ op'.todo = [r \in Tcp!Ranks |-> op'.todo[r]]
    BY <1>1
  <2>2. txId' - 1 = txId
    BY <1>1, <1>2
  <2>3. QED
    BY <1>1, <1>2, <1>3, <2>1, <2>2 DEF Writing
<1>5. Settings'
  <2>1. \A r \in Tcp!Ranks : txSeq'[r] = txSeq[r] + (IF r \in held THEN 1 ELSE 0)
    BY <1>1
  <2>2. txSeq' \in [Tcp!Ranks -> Nat] /\ txId' \in Nat \ {0}
    BY <1>1, <1>2
  <2>3. held' = Tcp!Ranks => \A r \in Tcp!Ranks : txSeq'[r] = txId' - 1
    BY <1>1, <1>2, <2>1
  <2>4. (mode' = "sum" => inflight' = <<>>) /\ failed' \in BOOLEAN
    BY <1>0, <1>1 DEF Settings, Tcp!Idle
  <2>5. QED
    BY <1>0, <1>1, <2>2, <2>3, <2>4 DEF Settings
<1>6. Streams' /\ Daemons' /\ Tcp!TcpExact'
  BY <1>0, <1>1 DEF Streams, Daemons, Tcp!TcpExact
<1>7. QED
  BY <1>4, <1>5, <1>6 DEF TcpInv, Calls

(* A piece written.                                                        *)
LEMMA WriteKeeps == ASSUME TcpInv, NEW r \in Tcp!Ranks, Tcp!WritePiece(r) PROVE TcpInv'
<1>0. Settings /\ Streams /\ Daemons /\ Calls /\ Tcp!TcpExact
  BY DEF TcpInv
<1>1. /\ op.at = "write" /\ op.todo[r] # <<>>
      /\ up' = IF daemon[r].at = "closed" THEN up ELSE [up EXCEPT ![r] = Append(@, Head(op.todo[r]))]
      /\ op' = [op EXCEPT !.todo[r] = Tail(@)]
      /\ UNCHANGED <<held, shut, txId, txSeq, rxSeq, skew, inflight, last, failed, mode, back, daemon, broken>>
  BY DEF Tcp!WritePiece, Tcp!Written, Tcp!client
<1>2. Writing
  BY <1>1, InWrite
<1>3. Head(op.todo[r]) \in PiecesOf(r) /\ Tail(op.todo[r]) \in Seq(PiecesOf(r))
  BY <1>1, <1>2, StreamShrinks DEF Writing
<1>4. Streams'
  <2>1. Append(up[r], Head(op.todo[r])) \in Seq(PiecesOf(r))
    BY <1>0, <1>3, StreamGrows DEF Streams
  <2>2. QED
    BY <1>0, <1>1, <2>1 DEF Streams
<1>5. Writing'
  <2>1. op'.id = op.id /\ op'.n = op.n /\ op'.at = "write" /\ DOMAIN op' = {"at", "id", "n", "todo"}
        /\ op'.todo = [op.todo EXCEPT ![r] = Tail(@)]
    BY <1>1, <1>2 DEF Writing
  <2>2. QED
    BY <1>1, <1>2, <1>3, <2>1 DEF Writing
<1>6. Settings'
  BY <1>0, <1>1, <1>2, <1>5 DEF Settings, Writing
<1>7. Daemons' /\ Tcp!TcpExact'
  BY <1>0, <1>1 DEF Daemons, Tcp!TcpExact
<1>8. QED
  BY <1>4, <1>5, <1>6, <1>7 DEF TcpInv, Calls

(* A write that fails ends the exchange; in threads it takes the           *)
(* connections with it.                                                    *)
LEMMA WriteFailsKeeps == ASSUME TcpInv, NEW r \in Tcp!Ranks, Tcp!WriteFails(r) PROVE TcpInv'
<1>0. Settings /\ Streams /\ Daemons /\ Calls /\ Tcp!TcpExact
  BY DEF TcpInv
<1>1. /\ op' = Tcp!Idle /\ failed' = TRUE
      /\ UNCHANGED <<mode, txId, txSeq, rxSeq, skew, inflight, up, back, daemon, last, broken>>
      /\ \/ held' = {} /\ shut' = Tcp!Ranks
         \/ UNCHANGED <<held, shut>>
  BY DEF Tcp!WriteFails, Tcp!Failed
<1>2. Settings'
  <2>1. Tcp!Ranks # {}
    BY LadderAssumption DEF Tcp!Ranks
  <2>2. held' \in {Tcp!Ranks, {}} /\ shut' \subseteq Tcp!Ranks /\ (held' = Tcp!Ranks => held = Tcp!Ranks)
    BY <1>0, <1>1, <2>1 DEF Settings
  <2>3. QED
    BY <1>0, <1>1, <2>2 DEF Settings
<1>3. Streams' /\ Daemons' /\ Tcp!TcpExact'
  BY <1>0, <1>1 DEF Streams, Daemons, Tcp!TcpExact
<1>4. Calls'
  BY <1>1 DEF Calls
<1>5. QED
  BY <1>2, <1>3, <1>4 DEF TcpInv
\* A read that begins.
LEMMA ReadBegins ==
  ASSUME NEW id \in Nat, NEW n \in 1..MaxRows, op' = Tcp!Reading(id, n), mode' = "raw" => held' = Tcp!Ranks,
         mode' = "sum" /\ failed' = FALSE => id = txId' - 1 /\ \A r \in Tcp!Ranks : rxSeq'[r] = id - 1
  PROVE  ReadingOK'
<1>1. /\ op'.at = "read" /\ DOMAIN op' = {"at", "id", "n", "done", "err", "part", "frame"}
      /\ op'.id = id /\ op'.n = n /\ op'.done = {} /\ op'.err = {}
      /\ op'.part = [r \in Tcp!Ranks |-> 0] /\ op'.frame = [r \in Tcp!Ranks |-> <<>>]
  BY DEF Tcp!Reading, Tcp!All
<1>2. op'.part \in [Tcp!Ranks -> Nat] /\ \A r \in Tcp!Ranks : ~(op'.part[r] > 0)
  BY <1>1
<1>3. op'.frame = [r \in Tcp!Ranks |-> op'.frame[r]]
  BY <1>1
<1> HIDE DEF Tcp!Reading
<1>4. QED
  BY <1>1, <1>2, <1>3 DEF ReadingOK

(* All is written.                                                         *)
LEMMA SendDoneKeeps == ASSUME TcpInv, Tcp!SendDone PROVE TcpInv'
<1>0. Settings /\ Streams /\ Daemons /\ Calls /\ Tcp!TcpExact
  BY DEF TcpInv
<1>1. /\ op.at = "write"
      /\ IF mode = "raw" THEN inflight' = Append(inflight, <<op.id, op.n>>) /\ op' = Tcp!Idle
                         ELSE op' = Tcp!Reading(op.id, op.n) /\ UNCHANGED inflight
      /\ UNCHANGED <<mode, held, shut, txId, txSeq, rxSeq, skew, up, back, daemon, last, failed, broken>>
  BY DEF Tcp!SendDone
<1>2. Writing
  BY <1>1, InWrite
<1>3. Streams' /\ Daemons' /\ Tcp!TcpExact'
  BY <1>0, <1>1 DEF Streams, Daemons, Tcp!TcpExact
<1>4. CASE mode = "raw"
  <2>1. inflight' \in Seq(Nat \X (1..MaxRows))
    <3>1. <<op.id, op.n>> \in Nat \X (1..MaxRows) /\ inflight \in Seq(Nat \X (1..MaxRows))
      BY <1>0, <1>2 DEF Writing, Settings
    <3>2. PICK S : S = Nat \X (1..MaxRows)
      OBVIOUS
    <3>3. PICK x \in S : x = <<op.id, op.n>>
      BY <3>1, <3>2
    <3>4. inflight \in Seq(S)
      BY <3>1, <3>2
    <3>5. Append(inflight, x) \in Seq(S)
      BY <3>4, AppendProperties
    <3>6. QED
      BY <1>1, <1>4, <3>2, <3>3, <3>5
  <2>2. Settings'
    BY <1>0, <1>1, <1>4, <2>1 DEF Settings
  <2>3. Calls'
    BY <1>1, <1>4 DEF Calls
  <2>4. QED
    BY <1>3, <2>2, <2>3 DEF TcpInv
<1>5. CASE mode # "raw"
  <2>1. mode = "sum"
    BY <1>0, <1>1, <1>5 DEF Settings
  <2>2. PICK id \in Nat : id = op.id
    BY <1>2 DEF Writing
  <2>3. PICK n \in 1..MaxRows : n = op.n
    BY <1>2 DEF Writing
  <2>4. op' = Tcp!Reading(id, n) /\ UNCHANGED inflight /\ mode' # "raw"
    BY <1>1, <1>5, <2>1, <2>2, <2>3
  <2>5. failed' = FALSE => id = txId' - 1 /\ \A r \in Tcp!Ranks : rxSeq'[r] = id - 1
    BY <1>1, <1>2, <2>1, <2>2 DEF Writing
  <2>6. ReadingOK'
    BY <2>4, <2>5, ReadBegins
  <2>7. Settings'
    BY <1>0, <1>1, <2>1, <2>4 DEF Settings
  <2>8. QED
    BY <1>3, <2>6, <2>7 DEF TcpInv, Calls
<1>6. QED
  BY <1>4, <1>5

(* The oldest exchange is read.                                            *)
LEMMA RecvKeeps == ASSUME TcpInv, Tcp!Recv PROVE TcpInv'
<1>0. Settings /\ Streams /\ Daemons /\ Calls /\ Tcp!TcpExact
  BY DEF TcpInv
<1>1. /\ op = Tcp!Idle /\ mode = "raw" /\ inflight # <<>>
      /\ inflight' = Tail(inflight)
      /\ op' = IF held = {} THEN [at |-> "dead"] ELSE Tcp!Reading(Head(inflight)[1], Head(inflight)[2])
      /\ UNCHANGED <<mode, held, shut, txId, txSeq, rxSeq, skew, up, back, daemon, last, failed, broken>>
  BY DEF Tcp!Recv
<1>2. Head(inflight) \in Nat \X (1..MaxRows) /\ Tail(inflight) \in Seq(Nat \X (1..MaxRows))
  BY <1>0, <1>1, HeadTailProperties DEF Settings
<1>3. Streams' /\ Daemons' /\ Tcp!TcpExact'
  BY <1>0, <1>1 DEF Streams, Daemons, Tcp!TcpExact
<1>4. Settings'
  BY <1>0, <1>1, <1>2 DEF Settings
<1>5. Calls'
  <2>1. CASE held = {}
    BY <1>1, <2>1 DEF Calls
  <2>2. CASE held # {}
    <3>1. PICK id \in Nat : id = Head(inflight)[1]
      BY <1>2
    <3>2. PICK n \in 1..MaxRows : n = Head(inflight)[2]
      BY <1>2
    <3>3. op' = Tcp!Reading(id, n) /\ held' = Tcp!Ranks /\ mode' # "sum"
      BY <1>0, <1>1, <2>2, <3>1, <3>2 DEF Settings
    <3>4. ReadingOK'
      BY <3>3, ReadBegins
    <3>5. QED
      BY <3>4 DEF Calls
  <2>3. QED
    BY <2>1, <2>2
<1>6. QED
  BY <1>3, <1>4, <1>5 DEF TcpInv

\* A rank more that failed.
LEMMA ErrKeeps ==
  ASSUME ReadingOK, NEW r \in Tcp!Ranks, UNCHANGED <<held, txId, rxSeq, mode, failed>>,
         op'.at = "read", DOMAIN op' = {"at", "id", "n", "done", "err", "part", "frame"},
         op'.id = op.id, op'.n = op.n, op'.done = op.done, op'.err = op.err \cup {r},
         op'.part = op.part, op'.frame = op.frame
  PROVE  ReadingOK'
<1>1. \A q \in op.done : Answers(q)'
  BY DEF ReadingOK, Answers
<1>2. \A q \in Tcp!Ranks : op'.part[q] > 0 => op'.frame[q] \in FramesOf(q) /\ q \notin op'.done
  BY DEF ReadingOK
<1>3. mode' = "raw" => \A q \in Tcp!Ranks : op'.part[q] > 0 => Answers(q)'
  BY DEF ReadingOK, Answers
<1>4. mode' = "sum" /\ failed' = FALSE => op'.id = txId' - 1 /\ \A q \in Tcp!Ranks \ op'.err : rxSeq'[q] = IF q \in op'.done THEN op'.id ELSE op'.id - 1
  BY DEF ReadingOK
<1>5. QED
  BY <1>1, <1>2, <1>3, <1>4 DEF ReadingOK

(* A header read.                                                          *)
LEMMA ReadHeadKeeps == ASSUME TcpInv, NEW r \in Tcp!Ranks, Tcp!ReadHead(r) PROVE TcpInv'
<1>0. Settings /\ Streams /\ Daemons /\ Calls /\ Tcp!TcpExact
  BY DEF TcpInv
<1> DEFINE p == Head(back[r])
           ok == p.head /\ r \notin skew /\ (mode = "raw" => Tcp!Matches(p.f, r))
<1>1. /\ op.at = "read" /\ r \notin op.done \cup op.err /\ op.part[r] = 0 /\ back[r] # <<>>
      /\ back' = [back EXCEPT ![r] = Tail(@)]
      /\ op' = IF ok THEN [op EXCEPT !.part[r] = p.f.n, !.frame[r] = p.f] ELSE [op EXCEPT !.err = @ \cup {r}]
      /\ UNCHANGED <<held, shut, txId, txSeq, rxSeq, skew, inflight, last, failed, mode, up, daemon, broken>>
  BY DEF Tcp!ReadHead, Tcp!Live, Tcp!client
<1>2. ReadingOK
  BY <1>1, InRead
<1>3. p.f \in FramesOf(r) /\ Tail(back[r]) \in Seq(PiecesOf(r))
  BY <1>0, <1>1, StreamShrinks DEF Streams
<1>4. ok /\ mode = "raw" => p.f.id = op.id /\ p.f.n = op.n
  BY DEF Tcp!Matches
<1> HIDE DEF ok
<1>5. PICK f \in FramesOf(r) : f = p.f
  BY <1>3
<1>6. f.n \in Nat
  BY FrameHas
<1>7. Streams'
  BY <1>0, <1>1, <1>3 DEF Streams
<1>8. Settings' /\ Daemons' /\ Tcp!TcpExact'
  BY <1>0, <1>1, <1>2 DEF Settings, Daemons, Tcp!TcpExact, ReadingOK
<1>9. ReadingOK'
  <2>1. CASE ok
    <3> DEFINE e == op'
    <3>1. /\ e.at = "read" /\ DOMAIN e = {"at", "id", "n", "done", "err", "part", "frame"}
          /\ e.id = op.id /\ e.n = op.n /\ e.done = op.done /\ e.err = op.err
          /\ e.part = [op.part EXCEPT ![r] = f.n] /\ e.frame = [op.frame EXCEPT ![r] = f]
      BY <1>1, <1>2, <1>5, <2>1 DEF ReadingOK
    <3>2. (f.id = op.id /\ f.n = op.n) \/ mode # "raw"
      BY <1>4, <1>5, <2>1
    <3>3. /\ mode = "raw" => held = Tcp!Ranks
          /\ op.id \in Nat /\ op.n \in 1..MaxRows /\ op.done \subseteq Tcp!Ranks /\ op.err \subseteq Tcp!Ranks
          /\ op.part \in [Tcp!Ranks -> Nat] /\ op.frame = [q \in Tcp!Ranks |-> op.frame[q]]
      BY <1>2 DEF ReadingOK
    <3>4. e.part \in [Tcp!Ranks -> Nat] /\ e.frame = [q \in Tcp!Ranks |-> e.frame[q]]
      BY <1>6, <3>1, <3>3
    <3>5. \A q \in Tcp!Ranks : e.part[q] > 0 => e.frame[q] \in FramesOf(q) /\ q \notin e.done
      <4> TAKE q \in Tcp!Ranks
      <4>1. CASE q = r
        BY <1>1, <1>5, <3>1, <3>3, <4>1
      <4>2. CASE q # r
        BY <1>2, <3>1, <3>3, <4>2 DEF ReadingOK
      <4>3. QED
        BY <4>1, <4>2
    <3>6. \A q \in e.done : /\ e.frame[q] \in FramesOf(q)
                            /\ mode = "raw" \/ failed = FALSE => e.frame[q].id = e.id
                            /\ mode = "raw" => e.frame[q].n = e.n
      <4> TAKE q \in e.done
      <4>1. q # r /\ q \in op.done /\ q \in Tcp!Ranks
        BY <1>1, <3>1, <3>3
      <4>2. e.frame[q] = op.frame[q]
        BY <3>1, <3>3, <4>1
      <4>3. QED
        BY <1>2, <3>1, <4>1, <4>2 DEF ReadingOK, Answers
    <3>7. mode = "raw" => \A q \in Tcp!Ranks : e.part[q] > 0 => e.frame[q] \in FramesOf(q) /\ e.frame[q].id = e.id /\ e.frame[q].n = e.n
      <4> HAVE mode = "raw"
      <4> TAKE q \in Tcp!Ranks
      <4>1. CASE q = r
        BY <1>5, <3>1, <3>2, <3>3, <4>1
      <4>2. CASE q # r
        BY <1>2, <3>1, <3>3, <4>2 DEF ReadingOK, Answers
      <4>3. QED
        BY <4>1, <4>2
    <3>8. mode = "sum" /\ failed = FALSE => e.id = txId - 1 /\ \A q \in Tcp!Ranks \ e.err : rxSeq[q] = IF q \in e.done THEN e.id ELSE e.id - 1
      BY <1>2, <3>1 DEF ReadingOK
    <3> HIDE DEF e
    <3>9. QED
      BY <1>1, <3>1, <3>3, <3>4, <3>5, <3>6, <3>7, <3>8 DEF ReadingOK, Answers, e
  <2>2. CASE ~ok
    <3>1. /\ op'.at = "read" /\ DOMAIN op' = {"at", "id", "n", "done", "err", "part", "frame"}
          /\ op'.id = op.id /\ op'.n = op.n /\ op'.done = op.done /\ op'.err = op.err \cup {r}
          /\ op'.part = op.part /\ op'.frame = op.frame
      BY <1>1, <1>2, <2>2 DEF ReadingOK
    <3>2. QED
      BY <1>1, <1>2, <3>1, ErrKeeps
  <2>3. QED
    BY <2>1, <2>2
<1>10. QED
  BY <1>7, <1>8, <1>9 DEF TcpInv, Calls

(* A rank's read times out, or its stream ends.                            *)
LEMMA ReadFailsKeeps == ASSUME TcpInv, NEW r \in Tcp!Ranks, Tcp!ReadFails(r) PROVE TcpInv'
<1>0. Settings /\ Streams /\ Daemons /\ Calls /\ Tcp!TcpExact
  BY DEF TcpInv
<1>1. /\ op.at = "read"
      /\ broken' = broken \/ broken' = broken + 1
      /\ skew' = skew \/ skew' = skew \cup {r}
      /\ op' = [op EXCEPT !.err = @ \cup {r}]
      /\ UNCHANGED <<mode, held, shut, txId, txSeq, rxSeq, inflight, up, back, daemon, last, failed>>
  BY DEF Tcp!ReadFails, Tcp!Live, Tcp!Fault
<1>2. ReadingOK
  BY <1>1, InRead
<1>3. /\ op'.at = "read" /\ DOMAIN op' = {"at", "id", "n", "done", "err", "part", "frame"}
      /\ op'.id = op.id /\ op'.n = op.n /\ op'.done = op.done /\ op'.err = op.err \cup {r}
      /\ op'.part = op.part /\ op'.frame = op.frame
  BY <1>1, <1>2 DEF ReadingOK
<1>4. ReadingOK'
  BY <1>1, <1>2, <1>3, ErrKeeps
<1>5. Settings'
  <2>1. skew' \subseteq Tcp!Ranks /\ broken' \in Nat
    BY <1>0, <1>1 DEF Settings
  <2>2. QED
    BY <1>0, <1>1, <2>1 DEF Settings
<1>6. Streams' /\ Daemons' /\ Tcp!TcpExact'
  BY <1>0, <1>1 DEF Streams, Daemons, Tcp!TcpExact
<1>7. QED
  BY <1>4, <1>5, <1>6 DEF TcpInv, Calls
(* A row read, and with the last one the frame accepted.                   *)
LEMMA ReadRowKeeps == ASSUME TcpInv, NEW r \in Tcp!Ranks, Tcp!ReadRow(r) PROVE TcpInv'
<1>0. Settings /\ Streams /\ Daemons /\ Calls /\ Tcp!TcpExact
  BY DEF TcpInv
<1> DEFINE fits == op.frame[r].seq = rxSeq[r]
           good == fits /\ op.frame[r].status = "Ok" /\ op.frame[r].n <= op.n
<1>1. /\ op.at = "read" /\ r \notin op.done \cup op.err /\ op.part[r] > 0 /\ back[r] # <<>>
      /\ back' = [back EXCEPT ![r] = Tail(@)]
      /\ IF op.part[r] > 1 THEN op' = [op EXCEPT !.part[r] = @ - 1] /\ UNCHANGED rxSeq
         ELSE /\ rxSeq' = IF fits THEN [rxSeq EXCEPT ![r] = @ + 1] ELSE rxSeq
              /\ op' = IF good THEN [op EXCEPT !.part[r] = 0, !.done = @ \cup {r}]
                               ELSE [op EXCEPT !.part[r] = 0, !.err = @ \cup {r}]
      /\ UNCHANGED <<mode, held, shut, txId, txSeq, skew, inflight, up, daemon, last, failed, broken>>
  BY DEF Tcp!ReadRow, Tcp!Live
<1>2. ReadingOK
  BY <1>1, InRead
<1>3. /\ mode = "raw" => held = Tcp!Ranks
      /\ op.id \in Nat /\ op.n \in 1..MaxRows /\ op.done \subseteq Tcp!Ranks /\ op.err \subseteq Tcp!Ranks
      /\ op.part \in [Tcp!Ranks -> Nat] /\ op.frame = [q \in Tcp!Ranks |-> op.frame[q]]
      /\ DOMAIN op = {"at", "id", "n", "done", "err", "part", "frame"}
  BY <1>2 DEF ReadingOK
<1>4. PICK f \in FramesOf(r) : f = op.frame[r]
  BY <1>1, <1>2 DEF ReadingOK
<1>5. f.id \in Nat /\ f.seq \in Nat /\ f.id = f.seq + 1
  BY FrameHas
<1>6. rxSeq \in [Tcp!Ranks -> Nat]
  BY <1>0 DEF Settings
<1>7. Streams'
  <2>1. Tail(back[r]) \in Seq(PiecesOf(r))
    BY <1>0, <1>1, StreamShrinks DEF Streams
  <2>2. QED
    BY <1>0, <1>1, <2>1 DEF Streams
<1>8. rxSeq' \in [Tcp!Ranks -> Nat] /\ \A q \in Tcp!Ranks \ {r} : rxSeq'[q] = rxSeq[q]
  <2>1. CASE op.part[r] > 1
    BY <1>1, <1>6, <2>1
  <2>2. CASE ~(op.part[r] > 1)
    BY <1>1, <1>6, <2>2
  <2>3. QED
    BY <2>1, <2>2
<1> HIDE DEF fits, good
<1>9. op'.at = "read" /\ mode' = mode /\ (mode = "raw" => held' = Tcp!Ranks)
  BY <1>1, <1>3
<1>10. Settings' /\ Daemons' /\ Tcp!TcpExact'
  BY <1>0, <1>1, <1>8, <1>9 DEF Settings, Daemons, Tcp!TcpExact
<1>11. ReadingOK'
  <2>1. CASE op.part[r] > 1
    <3>1. /\ op'.at = "read" /\ DOMAIN op' = {"at", "id", "n", "done", "err", "part", "frame"}
          /\ op'.id = op.id /\ op'.n = op.n /\ op'.done = op.done /\ op'.err = op.err
          /\ op'.part = [op.part EXCEPT ![r] = @ - 1] /\ op'.frame = op.frame
      BY <1>1, <1>3, <2>1
    <3>2. op'.part \in [Tcp!Ranks -> Nat]
          /\ \A q \in Tcp!Ranks : op'.part[q] > 0 => op.part[q] > 0
      BY <1>1, <1>3, <2>1, <3>1
    <3>3. \A q \in op'.done : Answers(q)'
      BY <1>1, <1>2, <3>1 DEF ReadingOK, Answers
    <3>4. mode' = "raw" => \A q \in Tcp!Ranks : op'.part[q] > 0 => Answers(q)'
      BY <1>1, <1>2, <3>1, <3>2 DEF ReadingOK, Answers
    <3>5. \A q \in Tcp!Ranks : op'.part[q] > 0 => op'.frame[q] \in FramesOf(q) /\ q \notin op'.done
      BY <1>2, <3>1, <3>2 DEF ReadingOK
    <3>6. mode' = "sum" /\ failed' = FALSE => op'.id = txId' - 1 /\ \A q \in Tcp!Ranks \ op'.err : rxSeq'[q] = IF q \in op'.done THEN op'.id ELSE op'.id - 1
      BY <1>1, <1>2, <2>1, <3>1 DEF ReadingOK
    <3>7. QED
      BY <1>3, <1>9, <3>1, <3>2, <3>3, <3>4, <3>5, <3>6 DEF ReadingOK
  <2>2. CASE ~(op.part[r] > 1) /\ good
    <3>1. /\ op'.at = "read" /\ DOMAIN op' = {"at", "id", "n", "done", "err", "part", "frame"}
          /\ op'.id = op.id /\ op'.n = op.n /\ op'.done = op.done \cup {r} /\ op'.err = op.err
          /\ op'.part = [op.part EXCEPT ![r] = 0] /\ op'.frame = op.frame
      BY <1>1, <1>3, <2>2
    <3>2. f.seq = rxSeq[r] /\ rxSeq' = [rxSeq EXCEPT ![r] = @ + 1]
      BY <1>1, <1>4, <2>2 DEF good, fits
    <3>3. mode = "raw" \/ failed = FALSE => f.id = op.id
      <4> HAVE mode = "raw" \/ failed = FALSE
      <4>1. CASE mode = "raw"
        BY <1>1, <1>2, <1>4, <4>1 DEF ReadingOK, Answers
      <4>2. CASE mode = "sum" /\ failed = FALSE
        <5>1. rxSeq[r] = op.id - 1
          BY <1>1, <1>2, <4>2 DEF ReadingOK
        <5>2. QED
          BY <1>3, <1>5, <3>2, <5>1
      <4>3. QED
        BY <1>0, <4>1, <4>2 DEF Settings
    <3>4. op'.part \in [Tcp!Ranks -> Nat] /\ ~(op'.part[r] > 0)
          /\ \A q \in Tcp!Ranks : op'.part[q] > 0 => q # r /\ op.part[q] > 0
      BY <1>3, <3>1
    <3>5. \A q \in op'.done : Answers(q)'
      <4> TAKE q \in op'.done
      <4>1. CASE q = r
        BY <1>1, <1>2, <1>4, <3>1, <3>3, <4>1 DEF ReadingOK, Answers
      <4>2. CASE q # r
        BY <1>1, <1>2, <3>1, <4>2 DEF ReadingOK, Answers
      <4>3. QED
        BY <4>1, <4>2
    <3>6. mode' = "raw" => \A q \in Tcp!Ranks : op'.part[q] > 0 => Answers(q)'
      BY <1>1, <1>2, <3>1, <3>4 DEF ReadingOK, Answers
    <3>7. \A q \in Tcp!Ranks : op'.part[q] > 0 => op'.frame[q] \in FramesOf(q) /\ q \notin op'.done
      BY <1>2, <3>1, <3>4 DEF ReadingOK
    <3>8. mode' = "sum" /\ failed' = FALSE => op'.id = txId' - 1 /\ \A q \in Tcp!Ranks \ op'.err : rxSeq'[q] = IF q \in op'.done THEN op'.id ELSE op'.id - 1
      <4> HAVE mode' = "sum" /\ failed' = FALSE
      <4>1. op'.id = txId' - 1 /\ \A q \in Tcp!Ranks \ op.err : rxSeq[q] = IF q \in op.done THEN op.id ELSE op.id - 1
        BY <1>1, <1>2, <3>1 DEF ReadingOK
      <4>2. ASSUME NEW q \in Tcp!Ranks \ op'.err PROVE rxSeq'[q] = IF q \in op'.done THEN op'.id ELSE op'.id - 1
        <5>1. f.id = op.id
          <6>1. failed = FALSE
            BY <1>1
          <6>2. QED
            BY <3>3, <6>1
        <5>2. CASE q = r
          BY <1>3, <1>5, <1>6, <3>1, <3>2, <5>1, <5>2
        <5>3. CASE q # r
          BY <1>8, <3>1, <4>1, <5>3
        <5>4. QED
          BY <5>2, <5>3
      <4>3. QED
        BY <4>1, <4>2
    <3>9. QED
      BY <1>3, <1>9, <3>1, <3>4, <3>5, <3>6, <3>7, <3>8 DEF ReadingOK
  <2>3. CASE ~(op.part[r] > 1) /\ ~good
    <3>1. /\ op'.at = "read" /\ DOMAIN op' = {"at", "id", "n", "done", "err", "part", "frame"}
          /\ op'.id = op.id /\ op'.n = op.n /\ op'.done = op.done /\ op'.err = op.err \cup {r}
          /\ op'.part = [op.part EXCEPT ![r] = 0] /\ op'.frame = op.frame
      BY <1>1, <1>3, <2>3
    <3>2. op'.part \in [Tcp!Ranks -> Nat]
          /\ \A q \in Tcp!Ranks : op'.part[q] > 0 => op.part[q] > 0
      BY <1>3, <3>1
    <3>3. \A q \in op'.done : Answers(q)'
      BY <1>1, <1>2, <3>1 DEF ReadingOK, Answers
    <3>4. mode' = "raw" => \A q \in Tcp!Ranks : op'.part[q] > 0 => Answers(q)'
      BY <1>1, <1>2, <3>1, <3>2 DEF ReadingOK, Answers
    <3>5. \A q \in Tcp!Ranks : op'.part[q] > 0 => op'.frame[q] \in FramesOf(q) /\ q \notin op'.done
      BY <1>2, <3>1, <3>2 DEF ReadingOK
    <3>6. mode' = "sum" /\ failed' = FALSE => op'.id = txId' - 1 /\ \A q \in Tcp!Ranks \ op'.err : rxSeq'[q] = IF q \in op'.done THEN op'.id ELSE op'.id - 1
      BY <1>1, <1>2, <1>8, <3>1 DEF ReadingOK
    <3>7. QED
      BY <1>3, <1>9, <3>1, <3>2, <3>3, <3>4, <3>5, <3>6 DEF ReadingOK
  <2>4. QED
    BY <2>1, <2>2, <2>3
<1>12. QED
  BY <1>7, <1>10, <1>11 DEF TcpInv, Calls

(* An exchange that fails leaves everything else as it was.                *)
LEMMA FailKeeps ==
  ASSUME TcpInv, Tcp!Failed, held' \in {Tcp!Ranks, {}}, shut' \subseteq Tcp!Ranks, held' = Tcp!Ranks => held = Tcp!Ranks,
         UNCHANGED <<mode, txId, txSeq, rxSeq, skew, inflight, up, back, daemon, last, broken>>
  PROVE  TcpInv'
<1>1. op' = Tcp!Idle /\ failed' = TRUE
  BY DEF Tcp!Failed
<1>2. Settings'
  BY <1>1 DEF TcpInv, Settings
<1>3. Streams' /\ Daemons' /\ Tcp!TcpExact'
  BY DEF TcpInv, Streams, Daemons, Tcp!TcpExact
<1>4. Calls'
  BY <1>1 DEF Calls
<1>5. QED
  BY <1>2, <1>3, <1>4 DEF TcpInv

(* What is handed out is every rank's answer.                              *)
LEMMA RecvDoneKeeps == ASSUME TcpInv, Tcp!RecvDone PROVE TcpInv'
<1>0. Settings /\ Streams /\ Daemons /\ Calls /\ Tcp!TcpExact
  BY DEF TcpInv
<1>1. /\ op.at = "read" /\ op.done = held /\ op.err = {}
      /\ UNCHANGED <<mode, held, shut, txId, txSeq, rxSeq, skew, inflight, up, back, daemon, broken>>
  BY DEF Tcp!RecvDone
<1>2. ReadingOK
  BY <1>1, InRead
<1>3. CASE Tcp!Complete
  <2>1. op' = Tcp!Idle /\ last' = Tcp!HandOut /\ failed' = failed
    BY <1>3 DEF Tcp!RecvDone
  <2>2. last'.id = op.id /\ last'.n = op.n /\ last'.clean = ~failed /\ last'.frames = op.frame
    BY <2>1 DEF Tcp!HandOut
  <2>3. held = Tcp!Ranks /\ (mode = "sum" => \A r \in Tcp!Ranks : op.frame[r].n = op.n)
    BY <1>0, <1>2, <1>3 DEF Tcp!Complete, ReadingOK, Settings
  <2>4. failed \in BOOLEAN /\ mode \in {"raw", "sum"}
    BY <1>0 DEF Settings
  <2>5. ASSUME NEW r \in Tcp!Ranks
        PROVE  /\ op.frame[r] # <<>> /\ op.frame[r].exec = r /\ op.frame[r].n = op.n
               /\ mode = "raw" \/ last'.clean => op.frame[r].id = op.id
    <3>1. Answers(r)
      BY <1>1, <1>2, <2>3 DEF ReadingOK
    <3>2. PICK f \in FramesOf(r) : f = op.frame[r]
      BY <3>1 DEF Answers
    <3>3. DOMAIN f = {"id", "n", "exec", "seq", "status"} /\ f.exec = r
      BY FrameHas
    <3>4. f # <<>>
      BY <3>3
    <3>5. f.n = op.n
      BY <2>3, <2>4, <3>1, <3>2 DEF Answers
    <3>6. mode = "raw" \/ last'.clean => f.id = op.id
      BY <2>2, <2>4, <3>1, <3>2 DEF Answers
    <3>7. QED
      BY <3>2, <3>3, <3>4, <3>5, <3>6
  <2>6. Tcp!TcpExact'
    BY <1>1, <2>2, <2>5 DEF Tcp!TcpExact
  <2>7. Settings' /\ Streams' /\ Daemons'
    BY <1>0, <1>1, <2>1 DEF Settings, Streams, Daemons
  <2>8. Calls'
    <3>1. mode = "sum" /\ failed = FALSE => \A r \in Tcp!Ranks : rxSeq[r] = txId - 1
      BY <1>1, <1>2, <2>3 DEF ReadingOK
    <3>2. QED
      BY <1>1, <2>1, <3>1 DEF Calls
  <2>9. QED
    BY <2>6, <2>7, <2>8 DEF TcpInv
<1>4. CASE ~Tcp!Complete
  <2>1. Tcp!Failed /\ UNCHANGED last
    BY <1>4 DEF Tcp!RecvDone
  <2>2. QED
    BY <1>0, <1>1, <2>1, FailKeeps DEF Settings
<1>5. QED
  BY <1>3, <1>4

(* A read with an error ends the exchange, and in threads the host sum     *)
(* loses its connections.                                                  *)
LEMMA RecvFailsKeeps == ASSUME TcpInv, Tcp!RecvFails PROVE TcpInv'
<1>1. /\ Tcp!Failed /\ UNCHANGED <<mode, txId, txSeq, rxSeq, skew, inflight, up, back, daemon, last, broken>>
      /\ UNCHANGED <<held, shut>> \/ (held' = {} /\ shut' = Tcp!Ranks)
  BY DEF Tcp!RecvFails
<1>2. Tcp!Ranks # {}
  BY LadderAssumption DEF Tcp!Ranks
<1>3. held' \in {Tcp!Ranks, {}} /\ shut' \subseteq Tcp!Ranks /\ (held' = Tcp!Ranks => held = Tcp!Ranks)
  BY <1>1, <1>2 DEF TcpInv, Settings
<1>4. QED
  BY <1>1, <1>3, FailKeeps

\* What a daemon's step leaves alone.
LEMMA DaemonStep ==
  ASSUME TcpInv, UNCHANGED <<Tcp!client, mode, op>>, broken' \in Nat
  PROVE  Settings' /\ Calls' /\ Tcp!TcpExact'
<1>1. Settings'
  BY DEF TcpInv, Settings, Tcp!client
<1>2. Calls' /\ Tcp!TcpExact'
  BY DEF TcpInv, Calls, Writing, ReadingOK, Answers, Tcp!TcpExact, Tcp!client
<1>3. QED
  BY <1>1, <1>2

(* The count of failures stays a number.                                   *)
LEMMA FaultCounts == ASSUME Settings PROVE (Tcp!Fault => broken' \in Nat) /\ (UNCHANGED broken => broken' \in Nat)
  BY DEF Settings, Tcp!Fault

\* An open daemon.
LEMMA OpenIs ==
  ASSUME Daemons, NEW r \in Tcp!Ranks, daemon[r].at # "closed"
  PROVE  /\ Open(daemon[r]) /\ daemon = [q \in Tcp!Ranks |-> daemon[q]]
         /\ daemon[r].at = "recv" => daemon[r].todo = <<>> /\ daemon[r].tx = daemon[r].rx
         /\ daemon[r].at = "serve" => /\ daemon[r].tx + 1 = daemon[r].rx /\ daemon[r].todo = <<daemon[r].todo[1]>>
                                      /\ daemon[r].todo[1] \in FramesOf(r) /\ daemon[r].todo[1].seq = daemon[r].tx
         /\ daemon[r].at = "send" => /\ daemon[r].tx = daemon[r].rx /\ daemon[r].todo \in Seq(PiecesOf(r))
                                     /\ daemon[r].todo # <<>>
  BY DEF Daemons, DaemonOK

\* A daemon set to a good state.
LEMMA SetKeeps ==
  ASSUME Daemons, NEW r \in Tcp!Ranks, NEW s, DaemonOK(s, r), Tcp!Set(r, s)
  PROVE  Daemons'
  BY DEF Daemons, Tcp!Set

(* A piece the daemon reads.                                               *)
LEMMA RecvPieceKeeps == ASSUME TcpInv, NEW r \in Tcp!Ranks, Tcp!RecvPiece(r) PROVE TcpInv'
<1>0. Settings /\ Streams /\ Daemons /\ Calls /\ Tcp!TcpExact
  BY DEF TcpInv
<1> DEFINE d == daemon[r]
           f == Head(up[r]).f
           got == d.got + 1
<1>1. /\ d.at = "recv" /\ up[r] # <<>>
      /\ IF got <= f.n THEN Tcp!Set(r, [d EXCEPT !.got = got]) /\ up' = [up EXCEPT ![r] = Tail(@)]
         ELSE IF f.seq # d.rx THEN Tcp!Close(r)
         ELSE /\ Tcp!Set(r, [d EXCEPT !.at = "serve", !.got = 0, !.rx = @ + 1, !.todo = <<f>>])
              /\ up' = [up EXCEPT ![r] = Tail(@)]
      /\ UNCHANGED <<Tcp!client, mode, op, back, broken>>
  BY DEF Tcp!RecvPiece
<1>2. Settings' /\ Calls' /\ Tcp!TcpExact'
  BY <1>0, <1>1, DaemonStep, FaultCounts
<1>3. f \in FramesOf(r) /\ Tail(up[r]) \in Seq(PiecesOf(r))
  BY <1>0, <1>1, StreamShrinks DEF Streams
<1>4. Open(d) /\ d.todo = <<>> /\ d.tx = d.rx
  BY <1>0, <1>1, OpenIs
<1>5. f.seq \in Nat
  BY <1>3, FrameHas
<1> HIDE DEF f
<1>6. CASE got <= f.n
  <2>1. DaemonOK([d EXCEPT !.got = got], r)
    BY <1>1, <1>4 DEF DaemonOK, Open
  <2>2. Daemons'
    BY <1>0, <1>1, <1>6, <2>1, SetKeeps
  <2>3. Streams'
    BY <1>0, <1>1, <1>3, <1>6 DEF Streams
  <2>4. QED
    BY <1>2, <2>2, <2>3 DEF TcpInv
<1>7. CASE ~(got <= f.n) /\ f.seq # d.rx
  <2>1. Tcp!Close(r) /\ back' = back
    BY <1>1, <1>7
  <2>2. Daemons' /\ up' = [q \in Tcp!Ranks |-> up'[q]] /\ \A q \in Tcp!Ranks : up'[q] \in Seq(PiecesOf(q))
    BY <1>0, <2>1, Closes
  <2>3. Streams'
    BY <1>0, <2>1, <2>2 DEF Streams
  <2>4. QED
    BY <1>2, <2>2, <2>3 DEF TcpInv
<1>8. CASE ~(got <= f.n) /\ f.seq = d.rx
  <2> DEFINE e == [d EXCEPT !.at = "serve", !.got = 0, !.rx = @ + 1, !.todo = <<f>>]
  <2>1. DaemonOK(e, r)
    <3>1. /\ DOMAIN e = {"at", "got", "rx", "tx", "loaded", "todo", "end"}
          /\ e.at = "serve" /\ e.got = 0 /\ e.rx = d.rx + 1 /\ e.tx = d.tx /\ e.todo = <<f>>
      BY <1>4 DEF Open
    <3>2. e.todo[1] = f
      BY <3>1
    <3> HIDE DEF e
    <3>3. QED
      BY <1>3, <1>4, <1>8, <3>1, <3>2 DEF DaemonOK, Open
  <2>2. Daemons'
    BY <1>0, <1>1, <1>8, <2>1, SetKeeps
  <2>3. Streams'
    BY <1>0, <1>1, <1>3, <1>8 DEF Streams
  <2>4. QED
    BY <1>2, <2>2, <2>3 DEF TcpInv
<1>9. QED
  BY <1>6, <1>7, <1>8

\* A connection that ends.
LEMMA CloseKeeps ==
  ASSUME TcpInv, NEW r \in Tcp!Ranks, Tcp!Close(r), UNCHANGED <<Tcp!client, mode, op, back>>, Tcp!Fault \/ UNCHANGED broken
  PROVE  TcpInv'
<1>0. Settings /\ Streams /\ Daemons
  BY DEF TcpInv
<1>1. Settings' /\ Calls' /\ Tcp!TcpExact'
  BY <1>0, DaemonStep, FaultCounts
<1>2. Daemons' /\ up' = [q \in Tcp!Ranks |-> up'[q]] /\ \A q \in Tcp!Ranks : up'[q] \in Seq(PiecesOf(q))
  BY <1>0, Closes
<1>3. Streams'
  BY <1>0, <1>2 DEF Streams
<1>4. QED
  BY <1>1, <1>2, <1>3 DEF TcpInv

\* The answer to the frame served has its id, and the sequence that goes with it.
LEMMA AnswerIs ==
  ASSUME TcpInv, NEW r \in Tcp!Ranks, daemon[r].at = "serve", NEW status \in {"Ok", "Error"}
  PROVE  DaemonOK(Tcp!Answering(r, status), r)
<1>0. Daemons
  BY DEF TcpInv
<1> DEFINE d == daemon[r]
           e == Tcp!Answering(r, status)
<1>1. /\ Open(d) /\ d.tx + 1 = d.rx /\ d.todo[1] \in FramesOf(r) /\ d.todo[1].seq = d.tx
  BY <1>0, OpenIs
<1>2. PICK f \in FramesOf(r) : f = d.todo[1]
  BY <1>1
<1> DEFINE h == [id |-> f.id, n |-> f.n, exec |-> f.exec, seq |-> d.tx, status |-> status]
<1>3. h \in FramesOf(r)
  <2>1. f.id \in Nat /\ f.n \in 1..MaxRows /\ f.exec = r /\ f.id = f.seq + 1 /\ f.seq = d.tx /\ d.tx \in Nat
    BY <1>1, <1>2, FrameHas DEF Open
  <2>2. QED
    BY <2>1 DEF FramesOf
<1>4. Tcp!Return(r, status) = Tcp!Pieces(h)
  BY <1>2 DEF Tcp!Return
<1>5. PICK k \in FramesOf(r) : k = h
  BY <1>3
<1>6. Tcp!Pieces(k) \in Seq(PiecesOf(r)) /\ Tcp!Pieces(k) # <<>>
  BY PiecesAre
<1>7. /\ DOMAIN e = {"at", "got", "rx", "tx", "loaded", "todo", "end"}
      /\ e.at = "send" /\ e.got = d.got /\ e.rx = d.rx /\ e.tx = d.tx + 1 /\ e.todo = Tcp!Return(r, status)
  BY <1>1 DEF Tcp!Answering, Open
<1> HIDE DEF e, h
<1>8. e.todo = Tcp!Pieces(k)
  BY <1>4, <1>5, <1>7
<1>9. DaemonOK(e, r)
  BY <1>1, <1>6, <1>7, <1>8 DEF DaemonOK, Open
<1>10. QED
  BY <1>9 DEF e

(* The frame is served, or its serve fails.                                *)
LEMMA ServeKeeps ==
  ASSUME TcpInv, NEW r \in Tcp!Ranks, daemon[r].at = "serve", NEW status \in {"Ok", "Error"}, Tcp!Set(r, Tcp!Answering(r, status)),
         UNCHANGED <<Tcp!client, mode, op, up, back>>, Tcp!Fault \/ UNCHANGED broken
  PROVE  TcpInv'
<1>0. Settings /\ Streams /\ Daemons
  BY DEF TcpInv
<1>1. Settings' /\ Calls' /\ Tcp!TcpExact'
  BY <1>0, DaemonStep, FaultCounts
<1>2. PICK s : s = Tcp!Answering(r, status)
  OBVIOUS
<1>3. DaemonOK(s, r) /\ Tcp!Set(r, s)
  BY <1>2, AnswerIs
<1>4. Daemons'
  BY <1>0, <1>3, SetKeeps
<1>5. Streams'
  BY <1>0 DEF Streams
<1>6. QED
  BY <1>1, <1>4, <1>5 DEF TcpInv

(* A piece of the return written.                                          *)
LEMMA SendPieceKeeps == ASSUME TcpInv, NEW r \in Tcp!Ranks, Tcp!SendPiece(r) PROVE TcpInv'
<1>0. Settings /\ Streams /\ Daemons
  BY DEF TcpInv
<1> DEFINE d == daemon[r]
           rest == Tail(d.todo)
<1>1. /\ d.at = "send"
      /\ IF r \in shut THEN Tcp!Close(r) /\ UNCHANGED back
         ELSE /\ back' = [back EXCEPT ![r] = Append(@, Head(d.todo))]
              /\ IF rest # <<>> THEN Tcp!Set(r, [d EXCEPT !.todo = rest]) /\ UNCHANGED up
                 ELSE IF d.end THEN Tcp!Close(r)
                 ELSE Tcp!Set(r, [d EXCEPT !.at = "recv", !.todo = <<>>]) /\ UNCHANGED up
      /\ UNCHANGED <<Tcp!client, mode, op, broken>>
  BY DEF Tcp!SendPiece
<1>2. Settings' /\ Calls' /\ Tcp!TcpExact'
  BY <1>0, <1>1, DaemonStep, FaultCounts
<1>3. Open(d) /\ d.tx = d.rx /\ d.todo \in Seq(PiecesOf(r)) /\ d.todo # <<>>
  BY <1>0, <1>1, OpenIs
<1>4. Head(d.todo) \in PiecesOf(r) /\ rest \in Seq(PiecesOf(r))
  BY <1>3, StreamShrinks
<1> HIDE DEF rest
<1>5. ASSUME back' = [back EXCEPT ![r] = Append(@, Head(d.todo))]
      PROVE  back' = [q \in Tcp!Ranks |-> back'[q]] /\ \A q \in Tcp!Ranks : back'[q] \in Seq(PiecesOf(q))
  <2>1. Append(back[r], Head(d.todo)) \in Seq(PiecesOf(r))
    BY <1>0, <1>4, StreamGrows DEF Streams
  <2>2. QED
    BY <1>0, <1>5, <2>1 DEF Streams
<1>6. CASE r \in shut
  BY <1>1, <1>6, CloseKeeps
<1>7. CASE r \notin shut /\ rest # <<>>
  <2>1. DaemonOK([d EXCEPT !.todo = rest], r)
    BY <1>1, <1>3, <1>4, <1>7 DEF DaemonOK, Open
  <2>2. Daemons'
    BY <1>0, <1>1, <1>7, <2>1, SetKeeps
  <2>3. Streams'
    BY <1>0, <1>1, <1>5, <1>7 DEF Streams
  <2>4. QED
    BY <1>2, <2>2, <2>3 DEF TcpInv
<1>8. CASE r \notin shut /\ rest = <<>> /\ d.end
  <2>1. Daemons' /\ up' = [q \in Tcp!Ranks |-> up'[q]] /\ \A q \in Tcp!Ranks : up'[q] \in Seq(PiecesOf(q))
    BY <1>0, <1>1, <1>8, Closes
  <2>2. Streams'
    BY <1>1, <1>5, <1>8, <2>1 DEF Streams
  <2>3. QED
    BY <1>2, <2>1, <2>2 DEF TcpInv
<1>9. CASE r \notin shut /\ rest = <<>> /\ ~d.end
  <2>1. DaemonOK([d EXCEPT !.at = "recv", !.todo = <<>>], r)
    BY <1>1, <1>3 DEF DaemonOK, Open
  <2>2. Daemons'
    BY <1>0, <1>1, <1>9, <2>1, SetKeeps
  <2>3. Streams'
    BY <1>0, <1>1, <1>5, <1>9 DEF Streams
  <2>4. QED
    BY <1>2, <2>2, <2>3 DEF TcpInv
<1>10. QED
  BY <1>6, <1>7, <1>8, <1>9

\* Every step keeps the invariant.
LEMMA TcpNext == ASSUME TcpInv, Tcp!Next \/ UNCHANGED tcp PROVE TcpInv'
<1>1. CASE \E n \in 1..MaxRows : Tcp!Send(n)
  BY <1>1, SendKeeps
<1>2. CASE Tcp!SendDone
  BY <1>2, SendDoneKeeps
<1>3. CASE Tcp!Recv
  BY <1>3, RecvKeeps
<1>4. CASE Tcp!RecvDone
  BY <1>4, RecvDoneKeeps
<1>5. CASE Tcp!RecvFails
  BY <1>5, RecvFailsKeeps
<1>6. ASSUME NEW r \in Tcp!Ranks,
             \/ Tcp!WritePiece(r) \/ Tcp!WriteFails(r) \/ Tcp!ReadHead(r) \/ Tcp!ReadRow(r) \/ Tcp!ReadFails(r)
             \/ Tcp!RecvPiece(r) \/ Tcp!PeerClosed(r) \/ Tcp!Serve(r) \/ Tcp!ServeFails(r) \/ Tcp!LoadFails(r)
             \/ Tcp!SendPiece(r) \/ Tcp!Dies(r)
      PROVE  TcpInv'
  <2>1. CASE Tcp!WritePiece(r)
    BY <2>1, WriteKeeps
  <2>2. CASE Tcp!WriteFails(r)
    BY <2>2, WriteFailsKeeps
  <2>3. CASE Tcp!ReadHead(r)
    BY <2>3, ReadHeadKeeps
  <2>4. CASE Tcp!ReadRow(r)
    BY <2>4, ReadRowKeeps
  <2>5. CASE Tcp!ReadFails(r)
    BY <2>5, ReadFailsKeeps
  <2>6. CASE Tcp!RecvPiece(r)
    BY <2>6, RecvPieceKeeps
  <2>7. CASE Tcp!PeerClosed(r)
    <3>1. Tcp!Close(r) /\ UNCHANGED <<Tcp!client, mode, op, back>> /\ UNCHANGED broken
      BY <2>7 DEF Tcp!PeerClosed
    <3>2. QED
      BY <3>1, CloseKeeps
  <2>8. CASE Tcp!Serve(r)
    <3>1. daemon[r].at = "serve" /\ Tcp!Set(r, Tcp!Answering(r, "Ok")) /\ UNCHANGED <<Tcp!client, mode, op, up, back>> /\ UNCHANGED broken
      BY <2>8 DEF Tcp!Serve
    <3>2. QED
      BY <3>1, ServeKeeps
  <2>9. CASE Tcp!ServeFails(r)
    <3>1. daemon[r].at = "serve" /\ Tcp!Set(r, Tcp!Answering(r, "Error")) /\ UNCHANGED <<Tcp!client, mode, op, up, back>> /\ Tcp!Fault
      BY <2>9 DEF Tcp!ServeFails
    <3>2. QED
      BY <3>1, ServeKeeps
  <2>10. CASE Tcp!LoadFails(r)
    <3>1. Tcp!Close(r) /\ UNCHANGED <<Tcp!client, mode, op, back>> /\ Tcp!Fault
      BY <2>10 DEF Tcp!LoadFails
    <3>2. QED
      BY <3>1, CloseKeeps
  <2>11. CASE Tcp!SendPiece(r)
    BY <2>11, SendPieceKeeps
  <2>12. CASE Tcp!Dies(r)
    <3>1. Tcp!Close(r) /\ UNCHANGED <<Tcp!client, mode, op, back>> /\ Tcp!Fault
      BY <2>12 DEF Tcp!Dies
    <3>2. QED
      BY <3>1, CloseKeeps
  <2>13. QED
    BY <1>6, <2>1, <2>2, <2>3, <2>4, <2>5, <2>6, <2>7, <2>8, <2>9, <2>10, <2>11, <2>12
<1>7. CASE UNCHANGED tcp
  <2>1. UNCHANGED <<mode, held, shut, txId, txSeq, rxSeq, skew, inflight, op, up, back, daemon, last, failed, broken>>
    BY <1>7 DEF tcp
  <2>2. QED
    BY <2>1 DEF TcpInv, Settings, Streams, Daemons, Calls, Writing, ReadingOK, Answers, Tcp!TcpExact
<1>8. QED
  BY <1>1, <1>2, <1>3, <1>4, <1>5, <1>6, <1>7 DEF Tcp!Next

-----------------------------------------------------------------------------
(* A stream that is a run of a frame's pieces keeps being one as pieces move. *)
LEMMA RunMoves ==
  ASSUME NEW P, NEW f, NEW a \in Nat, NEW s \in Seq(P), NEW t \in Seq(P), t # <<>>,
         Run(s, f, a), Run(t, f, a + Len(s))
  PROVE  /\ Append(s, Head(t)) \in Seq(P) /\ Run(Append(s, Head(t)), f, a) /\ Len(Append(s, Head(t))) = Len(s) + 1
         /\ Tail(t) \in Seq(P) /\ Run(Tail(t), f, a + (Len(s) + 1)) /\ Len(Tail(t)) = Len(t) - 1
<1>1. /\ Head(t) \in P /\ Head(t) = t[1] /\ 1 \in 1..Len(t)
      /\ Tail(t) \in Seq(P) /\ Len(t) \in Nat \ {0} /\ Len(Tail(t)) = Len(t) - 1
      /\ \A i \in 1..Len(Tail(t)) : i + 1 \in 1..Len(t) /\ Tail(t)[i] = t[i + 1]
  BY TailAt
<1>2. PICK x \in P : x = Head(t)
  BY <1>1
<1>3. /\ Append(s, x) \in Seq(P) /\ Len(s) \in Nat /\ Len(Append(s, x)) = Len(s) + 1
      /\ \A i \in 1..Len(Append(s, x)) : \/ i \in 1..Len(s) /\ Append(s, x)[i] = s[i]
                                         \/ i = Len(s) + 1 /\ Append(s, x)[i] = x
  BY AppendAt
<1>4. PICK n \in Nat : n = Len(s)
  BY <1>3
<1>5. x = Piece(f, a + (n + 1))
  <2>1. t[1] = Piece(f, (a + n) + 1)
    BY <1>1, <1>4 DEF Run
  <2>2. (a + n) + 1 = a + (n + 1)
    OBVIOUS
  <2>3. QED
    BY <1>1, <1>2, <2>1, <2>2
<1>6. Run(Append(s, x), f, a)
  BY <1>3, <1>4, <1>5 DEF Run
<1>7. Run(Tail(t), f, a + (n + 1))
  <2>1. ASSUME NEW i \in 1..Len(Tail(t)) PROVE Tail(t)[i] = Piece(f, (a + (n + 1)) + i)
    <3>1. Tail(t)[i] = Piece(f, (a + n) + (i + 1))
      BY <1>1, <1>4 DEF Run
    <3>2. (a + n) + (i + 1) = (a + (n + 1)) + i
      OBVIOUS
    <3>3. QED
      BY <3>1, <3>2
  <2>2. QED
    BY <2>1 DEF Run
<1>8. QED
  BY <1>1, <1>2, <1>3, <1>4, <1>6, <1>7

(* No pieces are a run.                                                    *)
LEMMA RunEmpty == ASSUME NEW f, NEW a PROVE Run(<<>>, f, a)
  BY DEF Run

\* The head of a run.
LEMMA RunHead ==
  ASSUME NEW P, NEW f, NEW a \in Nat, NEW s \in Seq(P), s # <<>>, Run(s, f, a)
  PROVE  /\ Head(s) = Piece(f, a + 1)
         /\ Tail(s) \in Seq(P) /\ Run(Tail(s), f, a + 1) /\ Len(Tail(s)) = Len(s) - 1 /\ Len(s) \in Nat
<1>1. /\ Head(s) = s[1] /\ 1 \in 1..Len(s)
      /\ Tail(s) \in Seq(P) /\ Len(s) \in Nat \ {0} /\ Len(Tail(s)) = Len(s) - 1
      /\ \A i \in 1..Len(Tail(s)) : i + 1 \in 1..Len(s) /\ Tail(s)[i] = s[i + 1]
  BY TailAt
<1>2. Head(s) = Piece(f, a + 1)
  BY <1>1 DEF Run
<1>3. Run(Tail(s), f, a + 1)
  <2>1. ASSUME NEW i \in 1..Len(Tail(s)) PROVE Tail(s)[i] = Piece(f, (a + 1) + i)
    <3>1. Tail(s)[i] = Piece(f, a + (i + 1))
      BY <1>1 DEF Run
    <3>2. a + (i + 1) = (a + 1) + i
      BY <1>1
    <3>3. QED
      BY <3>1, <3>2
  <2>2. QED
    BY <2>1 DEF Run
<1>4. QED
  BY <1>1, <1>2, <1>3

\* A rank that a step leaves alone stays in its phase.
Same(r) == /\ daemon'[r] = daemon[r] /\ rxSeq'[r] = rxSeq[r] /\ up'[r] = up[r] /\ back'[r] = back[r]
           /\ Todo(r)' = Todo(r)
SameRead(r) == /\ (op'.at = "read") = (op.at = "read")
               /\ op.at = "read" => /\ (r \in op'.done) = (r \in op.done)
                                    /\ op'.part[r] = op.part[r] /\ op'.frame[r] = op.frame[r]

(* Its phase is the same.                                                  *)
LEMMA PhaseSame ==
  ASSUME NEW c, NEW r, NEW n, Same(r), SameRead(r), Phase(c, r, n)
  PROVE  Phase(c, r, n)'
<1>1. ASSUME Asking(c, r, n) PROVE Asking(c, r, n)'
  BY <1>1 DEF Asking, At, Partly, Same, SameRead
<1>2. ASSUME Served(c, r, n) PROVE Served(c, r, n)'
  BY <1>2 DEF Served, At, Partly, Same, SameRead
<1>3. ASSUME Sending(c, r, n) PROVE Sending(c, r, n)'
  BY <1>3 DEF Sending, At, Partly, Same, SameRead
<1>4. ASSUME Answered(c, r) PROVE Answered(c, r)'
  BY <1>4 DEF Answered, Rest, At, Same, SameRead
<1>5. QED
  BY <1>1, <1>2, <1>3, <1>4 DEF Phase

\* So does a rank whose answer the client starts to read.
LEMMA PhaseRead ==
  ASSUME NEW c, NEW r \in Tcp!Ranks, NEW n, Same(r), op.at # "read",
         op'.at = "read" => r \notin op'.done /\ op'.part[r] = 0,
         Phase(c, r, n)
  PROVE  Phase(c, r, n)'
<1>0. Partly(c, r, n, 0) => Partly(c, r, n, 0)'
  BY DEF Partly, Same
<1>1. ASSUME Asking(c, r, n) PROVE Asking(c, r, n)'
  BY <1>0, <1>1 DEF Asking, At, Same
<1>2. ASSUME Served(c, r, n) PROVE Served(c, r, n)'
  BY <1>0, <1>2 DEF Served, At, Same
<1>3. ASSUME Sending(c, r, n) PROVE Sending(c, r, n)'
  <2>1. PICK g \in 0..n :
          /\ At(r, "send", 0, c, c) \/ At(r, "recv", 0, c, c)
          /\ Partly(c, r, n, g) /\ up[r] = <<>> /\ Todo(r) = <<>>
          /\ Run(back[r], Frame(c, r, n), g) /\ Run(daemon[r].todo, Frame(c, r, n), g + Len(back[r]))
          /\ g + Len(back[r]) + Len(daemon[r].todo) = n + 1
    BY <1>3 DEF Sending
  <2>2. g = 0
    BY <2>1 DEF Partly
  <2>3. Partly(c, r, n, 0)'
    BY <1>0, <2>1, <2>2
  <2>4. 0 \in 0..n
    BY <2>2
  <2>5. (At(r, "send", 0, c, c) \/ At(r, "recv", 0, c, c))'
    BY <2>1 DEF At, Same
  <2>6. QED
    BY <2>1, <2>2, <2>3, <2>4, <2>5 DEF Sending, Same
<1>4. ~Answered(c, r)
  BY DEF Answered
<1>5. QED
  BY <1>1, <1>2, <1>3, <1>4 DEF Phase

\* A daemon is open in every phase.
LEMMA PhaseOpen ==
  ASSUME NEW c, NEW r, NEW n, Phase(c, r, n) \/ Rest(c, r)
  PROVE  daemon[r].at \in {"recv", "serve", "send"}
  BY DEF Phase, Asking, Served, Sending, Answered, Rest, At

\* The state while nothing has failed.
LEMMA CalmHas ==
  ASSUME TcpInv, Calm
  PROVE  /\ held = Tcp!Ranks /\ shut = {} /\ skew = {}
         /\ \E c \in Nat : c = txId - 1 /\ (Resting(c) \/ \E n \in 1..MaxRows : OneExchange(c, n))
<1>1. txId - 1 \in Nat
  BY DEF TcpInv, Settings
<1>2. QED
  BY <1>1 DEF Calm

\* A step to an exchange whose ranks are all in a phase.
LEMMA CalmStep ==
  ASSUME NEW c, NEW n \in 1..MaxRows, c = txId' - 1, held' = Tcp!Ranks, shut' = {}, skew' = {},
         \/ op'.at = "write" /\ inflight' = <<>>
         \/ op' = Tcp!Idle /\ inflight' = <<<<c, n>>>> /\ mode' = "raw"
         \/ op'.at = "read" /\ op'.id = c /\ op'.err = {} /\ inflight' = <<>>,
         op' = Tcp!Idle \/ op'.n = n,
         \A r \in Tcp!Ranks : Phase(c, r, n)'
  PROVE  Calm'
<1>1. OneExchange(c, n)'
  BY DEF OneExchange
<1>2. QED
  BY <1>1 DEF Calm

\* A request is sent.
LEMMA SendCalm ==
  ASSUME TcpInv, Calm, NEW n \in 1..MaxRows, Tcp!Send(n)
  PROVE  Calm'
<1>1. /\ op = Tcp!Idle /\ txId' = txId + 1
      /\ IF mode = "raw" THEN Len(inflight) < 1 ELSE inflight = <<>>
      /\ op' = [at |-> "write", id |-> txId, n |-> n,
                todo |-> [r \in Tcp!Ranks |-> IF r \in held
                           THEN Tcp!Pieces([id |-> txId, n |-> n, exec |-> r, seq |-> txSeq[r], status |-> "Ok"]) ELSE <<>>]]
      /\ UNCHANGED <<held, shut, rxSeq, skew, inflight, up, back, daemon>>
  BY DEF Tcp!Send, Tcp!Limit, Tcp!SumReady
<1>2. held = Tcp!Ranks /\ shut = {} /\ skew = {}
  BY CalmHas
<1>3. PICK d \in Nat : d = txId - 1 /\ (Resting(d) \/ \E k \in 1..MaxRows : OneExchange(d, k))
  BY CalmHas
<1>4. txId \in Nat \ {0} /\ inflight \in Seq(Nat \X (1..MaxRows)) /\ \A r \in Tcp!Ranks : txSeq[r] = txId - 1
  BY <1>2 DEF TcpInv, Settings
<1>5. inflight = <<>>
  BY <1>1, <1>4
<1>6. \A x : <<>> # <<x>>
  OBVIOUS
<1>7. Resting(d)
  BY <1>1, <1>3, <1>5, <1>6 DEF OneExchange, Tcp!Idle
<1>8. PICK c \in Nat : c = txId
  BY <1>4
<1>9. c = txId' - 1 /\ d = c - 1
  BY <1>1, <1>3, <1>4, <1>8
<1>10. ASSUME NEW r \in Tcp!Ranks PROVE Phase(c, r, n)'
  <2>1. At(r, "recv", 0, d, d) /\ rxSeq[r] = d /\ up[r] = <<>> /\ back[r] = <<>>
    BY <1>7 DEF Resting, Rest
  <2>2. PICK f \in FramesOf(r) : f = Frame(c, r, n)
    <3>1. Frame(c, r, n) \in FramesOf(r)
      BY <1>4, <1>8 DEF FramesOf, Frame
    <3>2. QED
      BY <3>1
  <2>3. txSeq[r] = c - 1
    BY <1>4, <1>8
  <2>4. Todo(r)' = Tcp!Pieces(f)
    BY <1>1, <1>2, <1>8, <2>2, <2>3 DEF Todo, Frame
  <2>5. Len(Tcp!Pieces(f)) = n + 1 /\ Run(Tcp!Pieces(f), f, 0)
    <3>1. f.n = n
      BY <2>2 DEF Frame
    <3>2. QED
      BY <3>1, PiecesAre
  <2>6. Run(<<>>, f, 0) /\ Len(<<>>) = 0 /\ 0 + 0 = 0 /\ 0 + 0 + (n + 1) = n + 1 /\ 0 \in 0..n
    BY RunEmpty
  <2>7. Run(up'[r], f, 0) /\ Len(up'[r]) = 0 /\ back'[r] = <<>>
    BY <1>1, <2>1, <2>6
  <2>8. Run(Todo(r)', f, 0 + Len(up'[r])) /\ 0 + Len(up'[r]) + Len(Todo(r)') = n + 1
    BY <2>4, <2>5, <2>6, <2>7
  <2>9. At(r, "recv", 0, c - 1, c - 1)'
    BY <1>1, <1>9, <2>1 DEF At
  <2>10. Partly(c, r, n, 0)'
    BY <1>1, <1>9, <2>1 DEF Partly
  <2>11. Asking(c, r, n)'
    BY <2>2, <2>6, <2>7, <2>8, <2>9, <2>10 DEF Asking
  <2>12. QED
    BY <2>11 DEF Phase
<1>11. QED
  <2>1. op'.at = "write" /\ inflight' = <<>> /\ op'.n = n /\ held' = Tcp!Ranks /\ shut' = {} /\ skew' = {}
    BY <1>1, <1>2, <1>5
  <2>2. QED
    BY <1>9, <1>10, <2>1, CalmStep

\* A write under way, and a read.
LEMMA CalmWrite ==
  ASSUME NEW c \in Nat, Resting(c) \/ \E n \in 1..MaxRows : OneExchange(c, n), op.at = "write"
  PROVE  \E n \in 1..MaxRows : op.n = n /\ inflight = <<>> /\ \A r \in Tcp!Ranks : Phase(c, r, n)
  BY DEF OneExchange, Resting, Tcp!Idle

\* The same of a read under way.
LEMMA CalmRead ==
  ASSUME NEW c \in Nat, Resting(c) \/ \E n \in 1..MaxRows : OneExchange(c, n), op.at = "read"
  PROVE  \E n \in 1..MaxRows : /\ op.n = n /\ op.id = c /\ op.err = {} /\ inflight = <<>>
                               /\ \A r \in Tcp!Ranks : Phase(c, r, n)
  BY DEF OneExchange, Resting, Tcp!Idle

\* A piece is written.
LEMMA WriteCalm ==
  ASSUME TcpInv, Calm, NEW r \in Tcp!Ranks, Tcp!WritePiece(r)
  PROVE  Calm'
<1>1. /\ op.at = "write" /\ op.todo[r] # <<>>
      /\ up' = IF daemon[r].at = "closed" THEN up ELSE [up EXCEPT ![r] = Append(@, Head(op.todo[r]))]
      /\ op' = [op EXCEPT !.todo[r] = Tail(@)]
      /\ UNCHANGED <<held, shut, txId, rxSeq, skew, inflight, mode, back, daemon>>
  BY DEF Tcp!WritePiece, Tcp!Written, Tcp!client
<1>2. held = Tcp!Ranks /\ shut = {} /\ skew = {}
  BY CalmHas
<1>3. PICK c \in Nat : c = txId - 1 /\ (Resting(c) \/ \E k \in 1..MaxRows : OneExchange(c, k))
  BY CalmHas
<1>4. PICK n \in 1..MaxRows : op.n = n /\ inflight = <<>> /\ \A q \in Tcp!Ranks : Phase(c, q, n)
  BY <1>1, <1>3, CalmWrite
<1>5. Writing
  BY <1>1, InWrite
<1>6. op'.at = "write" /\ op'.n = n /\ op'.todo = [op.todo EXCEPT ![r] = Tail(@)]
  BY <1>1, <1>4, <1>5 DEF Writing
<1>7. Todo(r) = op.todo[r] /\ Todo(r)' = Tail(op.todo[r]) /\ \A q \in Tcp!Ranks \ {r} : Todo(q)' = Todo(q)
  BY <1>1, <1>5, <1>6 DEF Todo, Writing
<1>8. Asking(c, r, n)
  BY <1>1, <1>4, <1>7 DEF Phase, Served, Sending, Answered
<1> DEFINE f == Frame(c, r, n)
<1>9. PICK g \in 0..n :
        /\ At(r, "recv", g, c - 1, c - 1) /\ Partly(c, r, n, 0) /\ back[r] = <<>>
        /\ Run(up[r], f, g) /\ Run(Todo(r), f, g + Len(up[r]))
        /\ g + Len(up[r]) + Len(Todo(r)) = n + 1
  BY <1>8 DEF Asking
<1> HIDE DEF f
<1>10. daemon[r].at = "recv"
  BY <1>9 DEF At
<1>11. up'[r] = Append(up[r], Head(Todo(r))) /\ \A q \in Tcp!Ranks \ {r} : up'[q] = up[q]
  BY <1>1, <1>7, <1>10 DEF TcpInv, Streams
<1>12. up[r] \in Seq(PiecesOf(r)) /\ Todo(r) \in Seq(PiecesOf(r)) /\ Todo(r) # <<>>
  BY <1>1, <1>5, <1>7 DEF TcpInv, Streams, Writing
<1>13. PICK s \in Seq(PiecesOf(r)) : s = up[r]
  BY <1>12
<1>14. PICK t \in Seq(PiecesOf(r)) : t = Todo(r)
  BY <1>12
<1>15. g \in Nat /\ t # <<>> /\ Run(s, f, g) /\ Run(t, f, g + Len(s)) /\ g + Len(s) + Len(t) = n + 1
  BY <1>9, <1>12, <1>13, <1>14
<1>16. /\ Run(Append(s, Head(t)), f, g) /\ Len(Append(s, Head(t))) = Len(s) + 1
       /\ Run(Tail(t), f, g + (Len(s) + 1)) /\ Len(Tail(t)) = Len(t) - 1
  BY <1>15, RunMoves
<1>17. up'[r] = Append(s, Head(t)) /\ Todo(r)' = Tail(t)
  BY <1>7, <1>11, <1>13, <1>14
<1>18. g + (Len(s) + 1) + (Len(t) - 1) = n + 1
  <2>1. Len(s) \in Nat /\ Len(t) \in Nat
    OBVIOUS
  <2>2. QED
    BY <1>15, <2>1
<1>19. Run(up'[r], f, g) /\ Run(Todo(r)', f, g + Len(up'[r])) /\ g + Len(up'[r]) + Len(Todo(r)') = n + 1
  BY <1>16, <1>17, <1>18
<1>20. At(r, "recv", g, c - 1, c - 1)' /\ Partly(c, r, n, 0)' /\ back'[r] = <<>>
  BY <1>1, <1>6, <1>9 DEF At, Partly
<1>21. Phase(c, r, n)'
  BY <1>19, <1>20 DEF Phase, Asking, f
<1>22. ASSUME NEW q \in Tcp!Ranks, q # r PROVE Phase(c, q, n)'
  <2>1. Same(q) /\ SameRead(q)
    BY <1>1, <1>6, <1>7, <1>11, <1>22 DEF Same, SameRead
  <2>2. QED
    BY <1>4, <2>1, PhaseSame
<1>23. \A q \in Tcp!Ranks : Phase(c, q, n)'
  BY <1>21, <1>22
<1>24. c = txId' - 1 /\ held' = Tcp!Ranks /\ shut' = {} /\ skew' = {} /\ inflight' = <<>>
  BY <1>1, <1>2, <1>3, <1>4
<1>25. QED
  BY <1>6, <1>23, <1>24, CalmStep
\* A read begins.
LEMMA ReadCalm ==
  ASSUME TcpInv, NEW c \in Nat, c = txId - 1, NEW n \in 1..MaxRows, held = Tcp!Ranks, shut = {}, skew = {},
         \A r \in Tcp!Ranks : Phase(c, r, n) /\ Todo(r) = <<>>,
         op.at # "read", inflight' = <<>>, op' = Tcp!Reading(c, n),
         UNCHANGED <<held, shut, txId, rxSeq, skew, up, back, daemon>>
  PROVE  Calm'
<1>1. /\ op'.at = "read" /\ op'.id = c /\ op'.n = n /\ op'.err = {} /\ op'.done = {}
      /\ \A r \in Tcp!Ranks : op'.part[r] = 0
  BY DEF Tcp!Reading, Tcp!All
<1>2. ASSUME NEW r \in Tcp!Ranks PROVE Phase(c, r, n)'
  <2>1. Todo(r)' = <<>>
    BY <1>1 DEF Todo
  <2>2. Same(r)
    BY <2>1 DEF Same
  <2>3. op'.at = "read" => r \notin op'.done /\ op'.part[r] = 0
    BY <1>1
  <2>4. QED
    BY <2>2, <2>3, PhaseRead
<1>3. c = txId' - 1 /\ held' = Tcp!Ranks /\ shut' = {} /\ skew' = {}
  OBVIOUS
<1>4. QED
  BY <1>1, <1>2, <1>3, CalmStep

\* All is written.
LEMMA SendDoneCalm ==
  ASSUME TcpInv, Calm, Tcp!SendDone
  PROVE  Calm'
<1>1. /\ op.at = "write" /\ \A r \in held : op.todo[r] = <<>>
      /\ IF mode = "raw" THEN inflight' = Append(inflight, <<op.id, op.n>>) /\ op' = Tcp!Idle
                         ELSE op' = Tcp!Reading(op.id, op.n) /\ UNCHANGED inflight
      /\ UNCHANGED <<mode, held, shut, txId, rxSeq, skew, up, back, daemon>>
  BY DEF Tcp!SendDone, Tcp!Written
<1>2. held = Tcp!Ranks /\ shut = {} /\ skew = {}
  BY CalmHas
<1>3. PICK c \in Nat : c = txId - 1 /\ (Resting(c) \/ \E k \in 1..MaxRows : OneExchange(c, k))
  BY CalmHas
<1>4. PICK n \in 1..MaxRows : op.n = n /\ inflight = <<>> /\ \A q \in Tcp!Ranks : Phase(c, q, n)
  BY <1>1, <1>3, CalmWrite
<1>5. op.id = c
  BY <1>1, <1>3, InWrite DEF Writing
<1>6. \A r \in Tcp!Ranks : Todo(r) = <<>>
  BY <1>1, <1>2 DEF Todo
<1>7. CASE mode = "raw"
  <2>1. op' = Tcp!Idle /\ inflight' = <<<<c, n>>>>
    <3>1. \A x : Append(<<>>, x) = <<x>>
      OBVIOUS
    <3>2. QED
      BY <1>1, <1>4, <1>5, <1>7, <3>1
  <2>2. op'.at # "read" /\ op'.at # "write"
    BY <2>1 DEF Tcp!Idle
  <2>3. ASSUME NEW r \in Tcp!Ranks PROVE Phase(c, r, n)'
    <3>1. Todo(r)' = <<>>
      BY <2>2 DEF Todo
    <3>2. Same(r)
      BY <1>1, <1>6, <3>1 DEF Same
    <3>3. op.at # "read"
      BY <1>1
    <3>4. QED
      BY <1>4, <2>2, <3>2, <3>3, PhaseRead
  <2>4. c = txId' - 1 /\ held' = Tcp!Ranks /\ shut' = {} /\ skew' = {} /\ mode' = "raw"
    BY <1>1, <1>2, <1>3, <1>7
  <2>5. QED
    BY <2>1, <2>3, <2>4, CalmStep
<1>8. CASE mode # "raw"
  <2>1. op' = Tcp!Reading(c, n) /\ inflight' = <<>> /\ op.at # "read"
    BY <1>1, <1>4, <1>5, <1>8
  <2>2. QED
    BY <1>1, <1>2, <1>3, <1>4, <1>6, <2>1, ReadCalm
<1>9. QED
  BY <1>7, <1>8

\* The oldest exchange is read.
LEMMA RecvCalm ==
  ASSUME TcpInv, Calm, Tcp!Recv
  PROVE  Calm'
<1>1. /\ op = Tcp!Idle /\ mode = "raw" /\ inflight # <<>>
      /\ inflight' = Tail(inflight)
      /\ op' = IF held = {} THEN [at |-> "dead"] ELSE Tcp!Reading(Head(inflight)[1], Head(inflight)[2])
      /\ UNCHANGED <<mode, held, shut, txId, rxSeq, skew, up, back, daemon>>
  BY DEF Tcp!Recv
<1>2. held = Tcp!Ranks /\ shut = {} /\ skew = {} /\ Tcp!Ranks # {}
  BY CalmHas, LadderAssumption DEF Tcp!Ranks
<1>3. PICK c \in Nat : c = txId - 1 /\ (Resting(c) \/ \E k \in 1..MaxRows : OneExchange(c, k))
  BY CalmHas
<1>4. op.at # "read" /\ op.at # "write"
  BY <1>1 DEF Tcp!Idle
<1>5. PICK n \in 1..MaxRows : inflight = <<<<c, n>>>> /\ \A q \in Tcp!Ranks : Phase(c, q, n)
  BY <1>1, <1>3, <1>4 DEF OneExchange, Resting
<1>6. Tail(inflight) = <<>> /\ Head(inflight) = <<c, n>>
  BY <1>5
<1>7. op' = Tcp!Reading(c, n) /\ inflight' = <<>>
  BY <1>1, <1>2, <1>6
<1>8. \A r \in Tcp!Ranks : Todo(r) = <<>>
  BY <1>4 DEF Todo
<1>9. QED
  BY <1>1, <1>2, <1>3, <1>4, <1>5, <1>7, <1>8, ReadCalm

\* The exchange ends.
LEMMA RecvDoneCalm ==
  ASSUME TcpInv, Calm, Tcp!RecvDone
  PROVE  Calm'
<1>1. /\ op.at = "read"
      /\ op.done = held /\ op.err = {} /\ op' = Tcp!Idle
      /\ UNCHANGED <<mode, held, shut, txId, rxSeq, skew, inflight, up, back, daemon>>
  BY DEF Tcp!RecvDone, Tcp!Failed
<1>2. held = Tcp!Ranks /\ shut = {} /\ skew = {}
  BY CalmHas
<1>3. PICK c \in Nat : c = txId - 1 /\ (Resting(c) \/ \E k \in 1..MaxRows : OneExchange(c, k))
  BY CalmHas
<1>4. PICK n \in 1..MaxRows : /\ op.n = n /\ op.id = c /\ op.err = {} /\ inflight = <<>>
                              /\ \A q \in Tcp!Ranks : Phase(c, q, n)
  BY <1>1, <1>3, CalmRead
<1>5. op' = Tcp!Idle /\ inflight' = <<>> /\ op.done = Tcp!Ranks
  BY <1>1, <1>2, <1>4
<1>6. ASSUME NEW r \in Tcp!Ranks PROVE Rest(c, r)'
  <2>1. Rest(c, r)
    BY <1>1, <1>4, <1>5 DEF Phase, Asking, Served, Sending, Answered, Partly
  <2>2. Todo(r)' = <<>>
    BY <1>5 DEF Todo, Tcp!Idle
  <2>3. QED
    BY <1>1, <2>1, <2>2 DEF Rest, At
<1>7. Resting(c)'
  BY <1>5, <1>6 DEF Resting
<1>8. c = txId' - 1 /\ held' = Tcp!Ranks /\ shut' = {} /\ skew' = {}
  BY <1>1, <1>2, <1>3
<1>9. QED
  BY <1>7, <1>8 DEF Calm

\* The answer's header is read.
LEMMA ReadHeadCalm ==
  ASSUME TcpInv, Calm, NEW r \in Tcp!Ranks, Tcp!ReadHead(r)
  PROVE  Calm'
<1> DEFINE p == Head(back[r])
           ok == p.head /\ r \notin skew /\ (mode = "raw" => Tcp!Matches(p.f, r))
<1>1. /\ op.at = "read" /\ r \notin op.done /\ op.part[r] = 0 /\ back[r] # <<>>
      /\ back' = [back EXCEPT ![r] = Tail(@)]
      /\ op' = IF ok THEN [op EXCEPT !.part[r] = p.f.n, !.frame[r] = p.f] ELSE [op EXCEPT !.err = @ \cup {r}]
      /\ UNCHANGED <<held, shut, txId, rxSeq, skew, inflight, mode, up, daemon>>
  BY DEF Tcp!ReadHead, Tcp!Live, Tcp!client
<1>2. held = Tcp!Ranks /\ shut = {} /\ skew = {}
  BY CalmHas
<1>3. PICK c \in Nat : c = txId - 1 /\ (Resting(c) \/ \E k \in 1..MaxRows : OneExchange(c, k))
  BY CalmHas
<1>4. PICK n \in 1..MaxRows : /\ op.n = n /\ op.id = c /\ op.err = {} /\ inflight = <<>>
                              /\ \A q \in Tcp!Ranks : Phase(c, q, n)
  BY <1>1, <1>3, CalmRead
<1>5. ReadingOK
  BY <1>1, InRead
<1>6. PICK f : f = Frame(c, r, n)
  OBVIOUS
<1>7. Sending(c, r, n)
  BY <1>1, <1>4 DEF Phase, Asking, Served, Answered
<1>8. PICK g \in 0..n :
        /\ At(r, "send", 0, c, c) \/ At(r, "recv", 0, c, c)
        /\ Partly(c, r, n, g) /\ up[r] = <<>> /\ Todo(r) = <<>>
        /\ Run(back[r], f, g) /\ Run(daemon[r].todo, f, g + Len(back[r]))
        /\ g + Len(back[r]) + Len(daemon[r].todo) = n + 1
  BY <1>6, <1>7 DEF Sending
<1>9. g = 0
  BY <1>1, <1>8 DEF Partly
<1>10. PICK s \in Seq(PiecesOf(r)) : s = back[r]
  BY DEF TcpInv, Streams
<1>11. s # <<>> /\ Run(s, f, 0) /\ Len(s) \in Nat
  BY <1>1, <1>8, <1>9, <1>10
<1>12. Head(s).f = f /\ Head(s).head /\ Run(Tail(s), f, 1) /\ Len(Tail(s)) = Len(s) - 1
  <2>1. PICK z \in Nat : z = 0
    OBVIOUS
  <2>2. Run(s, f, z)
    BY <1>11, <2>1
  <2>3. Head(s) = Piece(f, z + 1) /\ Run(Tail(s), f, z + 1) /\ Len(Tail(s)) = Len(s) - 1
    BY <1>11, <2>2, RunHead
  <2>4. z + 1 = 1
    BY <2>1
  <2>5. Piece(f, 1).f = f /\ Piece(f, 1).head
    BY DEF Piece
  <2>6. QED
    BY <2>3, <2>4, <2>5
<1>13. f.status = "Ok" /\ f.id = op.id /\ f.n = op.n /\ f.exec = r /\ f.n = n
  BY <1>4, <1>6 DEF Frame
<1>14. ok
  BY <1>2, <1>10, <1>12, <1>13 DEF Tcp!Matches
<1>15. op' = [op EXCEPT !.part[r] = n, !.frame[r] = f]
  BY <1>1, <1>10, <1>12, <1>13, <1>14
<1>16. /\ op'.at = "read" /\ op'.id = c /\ op'.n = n /\ op'.done = op.done /\ op'.err = {}
       /\ op'.part = [op.part EXCEPT ![r] = n] /\ op'.frame = [op.frame EXCEPT ![r] = f]
  BY <1>1, <1>4, <1>5, <1>15 DEF ReadingOK
<1>17. /\ op'.part[r] = n /\ op'.frame[r] = f
       /\ \A q \in Tcp!Ranks \ {r} : op'.part[q] = op.part[q] /\ op'.frame[q] = op.frame[q]
  BY <1>5, <1>16 DEF ReadingOK
<1>18. back'[r] = Tail(s) /\ \A q \in Tcp!Ranks \ {r} : back'[q] = back[q]
  BY <1>1, <1>10 DEF TcpInv, Streams
<1>19. \A q \in Tcp!Ranks : Todo(q) = <<>> /\ Todo(q)' = <<>>
  BY <1>1, <1>16 DEF Todo
<1>20. Phase(c, r, n)'
  <2>1. 1 \in 0..n /\ n = n + 1 - 1
    OBVIOUS
  <2>2. Partly(c, r, n, 1)'
    BY <1>1, <1>6, <1>8, <1>16, <1>17, <2>1 DEF Partly
  <2>3. (At(r, "send", 0, c, c) \/ At(r, "recv", 0, c, c))'
    BY <1>1, <1>8 DEF At
  <2>4. PICK b \in Nat : b = Len(s)
    BY <1>11
  <2>5. Len(back'[r]) = b - 1
    BY <1>12, <1>18, <2>4
  <2>6. Run(daemon[r].todo, f, 0 + b) /\ 0 + b + Len(daemon[r].todo) = n + 1
    BY <1>8, <1>9, <1>10, <2>4
  <2>7. 1 + Len(back'[r]) = 0 + b
    BY <2>5
  <2>8. Run(back'[r], f, 1)
    BY <1>12, <1>18
  <2>9. Run(daemon'[r].todo, f, 1 + Len(back'[r])) /\ 1 + Len(back'[r]) + Len(daemon'[r].todo) = n + 1
    BY <1>1, <2>6, <2>7
  <2>10. up'[r] = <<>> /\ Todo(r)' = <<>>
    BY <1>1, <1>8, <1>19
  <2>11. Sending(c, r, n)'
    BY <1>6, <2>1, <2>2, <2>3, <2>8, <2>9, <2>10 DEF Sending
  <2>12. QED
    BY <2>11 DEF Phase
<1>21. ASSUME NEW q \in Tcp!Ranks, q # r PROVE Phase(c, q, n)'
  <2>1. Same(q) /\ SameRead(q)
    BY <1>1, <1>16, <1>17, <1>18, <1>19, <1>21 DEF Same, SameRead
  <2>2. QED
    BY <1>4, <2>1, PhaseSame
<1>22. \A q \in Tcp!Ranks : Phase(c, q, n)'
  BY <1>20, <1>21
<1>23. c = txId' - 1 /\ held' = Tcp!Ranks /\ shut' = {} /\ skew' = {} /\ inflight' = <<>>
  BY <1>1, <1>2, <1>3, <1>4
<1>24. QED
  BY <1>16, <1>22, <1>23, CalmStep
\* The frame that is read is the answer, and the sequence is the one expected.
LEMMA ReadRowCalm ==
  ASSUME TcpInv, Calm, NEW r \in Tcp!Ranks, Tcp!ReadRow(r)
  PROVE  Calm'
<1> DEFINE fits == op.frame[r].seq = rxSeq[r]
           good == fits /\ op.frame[r].status = "Ok" /\ op.frame[r].n <= op.n
<1>1. /\ op.at = "read" /\ r \notin op.done /\ op.part[r] > 0 /\ back[r] # <<>>
      /\ back' = [back EXCEPT ![r] = Tail(@)]
      /\ IF op.part[r] > 1 THEN op' = [op EXCEPT !.part[r] = @ - 1] /\ UNCHANGED rxSeq
         ELSE /\ rxSeq' = IF fits THEN [rxSeq EXCEPT ![r] = @ + 1] ELSE rxSeq
              /\ op' = IF good THEN [op EXCEPT !.part[r] = 0, !.done = @ \cup {r}]
                               ELSE [op EXCEPT !.part[r] = 0, !.err = @ \cup {r}]
      /\ UNCHANGED <<mode, held, shut, txId, skew, inflight, up, daemon>>
  BY DEF Tcp!ReadRow, Tcp!Live
<1>2. held = Tcp!Ranks /\ shut = {} /\ skew = {}
  BY CalmHas
<1>3. PICK c \in Nat : c = txId - 1 /\ (Resting(c) \/ \E k \in 1..MaxRows : OneExchange(c, k))
  BY CalmHas
<1>4. PICK n \in 1..MaxRows : /\ op.n = n /\ op.id = c /\ op.err = {} /\ inflight = <<>>
                              /\ \A q \in Tcp!Ranks : Phase(c, q, n)
  BY <1>1, <1>3, CalmRead
<1>5. ReadingOK
  BY <1>1, InRead
<1>6. PICK f : f = Frame(c, r, n)
  OBVIOUS
<1>7. Sending(c, r, n)
  BY <1>1, <1>4 DEF Phase, Asking, Served, Answered, Partly
<1>8. PICK g \in 0..n :
        /\ At(r, "send", 0, c, c) \/ At(r, "recv", 0, c, c)
        /\ Partly(c, r, n, g) /\ up[r] = <<>> /\ Todo(r) = <<>>
        /\ Run(back[r], f, g) /\ Run(daemon[r].todo, f, g + Len(back[r]))
        /\ g + Len(back[r]) + Len(daemon[r].todo) = n + 1
  BY <1>6, <1>7 DEF Sending
<1>9. g > 0 /\ op.part[r] = n + 1 - g /\ op.frame[r] = f /\ rxSeq[r] = c - 1
  BY <1>1, <1>6, <1>8 DEF Partly
<1>10. PICK s \in Seq(PiecesOf(r)) : s = back[r]
  BY DEF TcpInv, Streams
<1>11. s # <<>> /\ Run(s, f, g) /\ Len(s) \in Nat /\ g \in Nat
  BY <1>1, <1>8, <1>10
<1>12. Run(Tail(s), f, g + 1) /\ Len(Tail(s)) = Len(s) - 1
  BY <1>11, RunHead
<1>13. back'[r] = Tail(s) /\ \A q \in Tcp!Ranks \ {r} : back'[q] = back[q]
  BY <1>1, <1>10 DEF TcpInv, Streams
<1>14. f.status = "Ok" /\ f.seq = rxSeq[r] /\ f.n = n /\ n <= n
  BY <1>6, <1>9 DEF Frame
<1>15. good
  BY <1>4, <1>9, <1>14
<1>16. rxSeq \in [Tcp!Ranks -> Nat]
  BY DEF TcpInv, Settings
<1>17. PICK b \in Nat : b = Len(s)
  BY <1>11
<1>18. CASE op.part[r] > 1
  <2>1. /\ op'.at = "read" /\ op'.id = c /\ op'.n = n /\ op'.done = op.done /\ op'.err = {}
        /\ op'.part = [op.part EXCEPT ![r] = @ - 1] /\ op'.frame = op.frame /\ rxSeq' = rxSeq
    BY <1>1, <1>4, <1>5, <1>18 DEF ReadingOK
  <2>2. /\ op'.part[r] = op.part[r] - 1 /\ \A q \in Tcp!Ranks \ {r} : op'.part[q] = op.part[q]
    BY <1>5, <2>1 DEF ReadingOK
  <2>3. \A q \in Tcp!Ranks : Todo(q) = <<>> /\ Todo(q)' = <<>>
    BY <1>1, <2>1 DEF Todo
  <2>4. Phase(c, r, n)'
    <3>1. g + 1 \in 0..n /\ g + 1 # 0 /\ g + 1 > 0 /\ op'.part[r] = n + 1 - (g + 1)
      BY <1>9, <1>18, <2>2
    <3>2. Partly(c, r, n, g + 1)'
      <4>1. op'.frame[r] = Frame(c, r, n) /\ rxSeq'[r] = c - 1 /\ r \notin op'.done
        BY <1>1, <1>6, <1>9, <2>1
      <4>2. QED
        BY <2>1, <3>1, <4>1 DEF Partly
    <3>3. (At(r, "send", 0, c, c) \/ At(r, "recv", 0, c, c))'
      BY <1>1, <1>8 DEF At
    <3>4. Len(back'[r]) = b - 1 /\ Run(back'[r], f, g + 1)
      BY <1>12, <1>13, <1>17
    <3>5. Run(daemon[r].todo, f, g + b) /\ g + b + Len(daemon[r].todo) = n + 1
      BY <1>8, <1>10, <1>17
    <3>6. (g + 1) + Len(back'[r]) = g + b
      BY <3>4
    <3>7. Run(daemon'[r].todo, f, (g + 1) + Len(back'[r])) /\ (g + 1) + Len(back'[r]) + Len(daemon'[r].todo) = n + 1
      BY <1>1, <3>5, <3>6
    <3>8. up'[r] = <<>> /\ Todo(r)' = <<>>
      BY <1>1, <1>8, <2>3
    <3>9. Sending(c, r, n)'
      BY <1>6, <3>1, <3>2, <3>3, <3>4, <3>7, <3>8 DEF Sending
    <3>10. QED
      BY <3>9 DEF Phase
  <2>5. ASSUME NEW q \in Tcp!Ranks, q # r PROVE Phase(c, q, n)'
    <3>1. Same(q) /\ SameRead(q)
      BY <1>1, <1>13, <2>1, <2>2, <2>3, <2>5 DEF Same, SameRead
    <3>2. QED
      BY <1>4, <3>1, PhaseSame
  <2>6. \A q \in Tcp!Ranks : Phase(c, q, n)'
    BY <2>4, <2>5
  <2>7. c = txId' - 1 /\ held' = Tcp!Ranks /\ shut' = {} /\ skew' = {} /\ inflight' = <<>>
    BY <1>1, <1>2, <1>3, <1>4
  <2>8. QED
    BY <2>1, <2>6, <2>7, CalmStep
<1>19. CASE ~(op.part[r] > 1)
  <2>1. /\ op'.at = "read" /\ op'.id = c /\ op'.n = n /\ op'.done = op.done \cup {r} /\ op'.err = {}
        /\ op'.part = [op.part EXCEPT ![r] = 0] /\ op'.frame = op.frame /\ rxSeq' = [rxSeq EXCEPT ![r] = @ + 1]
    BY <1>1, <1>4, <1>5, <1>15, <1>19 DEF ReadingOK
  <2>2. \A q \in Tcp!Ranks \ {r} : op'.part[q] = op.part[q]
    BY <1>5, <2>1 DEF ReadingOK
  <2>3. \A q \in Tcp!Ranks : Todo(q) = <<>> /\ Todo(q)' = <<>>
    BY <1>1, <2>1 DEF Todo
  <2>4. rxSeq'[r] = c /\ \A q \in Tcp!Ranks \ {r} : rxSeq'[q] = rxSeq[q]
    BY <1>9, <1>16, <2>1
  <2>5. Phase(c, r, n)'
    <3>1. g = n
      BY <1>9, <1>19
    <3>2. g + b + Len(daemon[r].todo) = n + 1 /\ b # 0
      <4>1. b # 0
        BY <1>11, <1>17
      <4>2. QED
        BY <1>8, <1>10, <1>17, <4>1, Zenon
    <3>3. daemon[r].at = "recv" => daemon[r].todo = <<>>
      BY PhaseOpen, <1>4, OpenIs DEF TcpInv
    <3>4. daemon[r].at = "send" => Len(daemon[r].todo) \in Nat \ {0}
      <4>1. daemon[r].at = "send" => daemon[r].todo \in Seq(PiecesOf(r)) /\ daemon[r].todo # <<>>
        BY OpenIs DEF TcpInv
      <4>2. QED
        BY <4>1
    <3>5. daemon[r].at = "send" \/ daemon[r].at = "recv"
      BY <1>8 DEF At
    <3>6. daemon[r].at = "recv" /\ b = 1
      <4>1. CASE daemon[r].at = "send"
        <5>1. PICK k \in Nat \ {0} : k = Len(daemon[r].todo)
          BY <3>4, <4>1
        <5>2. n + b + k = n + 1 /\ b # 0
          BY <3>1, <3>2, <5>1, Zenon
        <5>3. QED
          BY <5>2
      <4>2. CASE daemon[r].at = "recv"
        <5>1. Len(daemon[r].todo) = 0
          BY <3>3, <4>2
        <5>2. n + b + 0 = n + 1
          BY <3>1, <3>2, <5>1, Zenon
        <5>3. QED
          BY <4>2, <5>2
      <4>3. QED
        BY <3>5, <4>1, <4>2
    <3>7. At(r, "recv", 0, c, c)'
      BY <1>1, <1>8, <3>6 DEF At
    <3>8. back'[r] = <<>>
      <4>1. Tail(s) \in Seq(PiecesOf(r)) /\ Len(Tail(s)) = 0
        BY <1>11, <1>12, <1>17, <3>6, RunHead
      <4>2. QED
        BY <1>13, <4>1
    <3>9. up'[r] = <<>> /\ Todo(r)' = <<>> /\ r \in op'.done
      BY <1>1, <1>8, <2>1, <2>3
    <3>10. Answered(c, r)'
      BY <2>1, <2>4, <3>7, <3>8, <3>9 DEF Answered, Rest
    <3>11. QED
      BY <3>10 DEF Phase
  <2>6. ASSUME NEW q \in Tcp!Ranks, q # r PROVE Phase(c, q, n)'
    <3>1. (q \in op'.done) = (q \in op.done)
      BY <2>1, <2>6
    <3>2. Same(q) /\ SameRead(q)
      BY <1>1, <1>13, <2>1, <2>2, <2>3, <2>4, <2>6, <3>1 DEF Same, SameRead
    <3>3. QED
      BY <1>4, <3>2, PhaseSame
  <2>7. \A q \in Tcp!Ranks : Phase(c, q, n)'
    BY <2>5, <2>6
  <2>8. c = txId' - 1 /\ held' = Tcp!Ranks /\ shut' = {} /\ skew' = {} /\ inflight' = <<>>
    BY <1>1, <1>2, <1>3, <1>4
  <2>9. QED
    BY <2>1, <2>7, <2>8, CalmStep
<1>20. QED
  BY <1>18, <1>19

\* A daemon's step in an exchange leaves the client and the other ranks alone.
LEMMA DaemonCalm ==
  ASSUME TcpInv, NEW c \in Nat, c = txId - 1, NEW n \in 1..MaxRows, OneExchange(c, n),
         held = Tcp!Ranks, shut = {}, skew = {}, UNCHANGED <<Tcp!client, mode, op>>,
         NEW r \in Tcp!Ranks, Phase(c, r, n)',
         \A q \in Tcp!Ranks \ {r} : daemon'[q] = daemon[q] /\ up'[q] = up[q] /\ back'[q] = back[q]
  PROVE  Calm'
<1>1. \A q \in Tcp!Ranks : Todo(q)' = Todo(q)
  BY DEF Todo
<1>2. ASSUME NEW q \in Tcp!Ranks, q # r PROVE Phase(c, q, n)'
  <2>1. Same(q) /\ SameRead(q)
    BY <1>1, <1>2 DEF Same, SameRead, Tcp!client
  <2>2. QED
    BY <2>1, PhaseSame DEF OneExchange
<1>3. \A q \in Tcp!Ranks : Phase(c, q, n)'
  BY <1>2
<1>4. OneExchange(c, n)'
  BY <1>3 DEF OneExchange, Tcp!client
<1>5. QED
  BY <1>4 DEF Calm, Tcp!client

\* Set and Close change one rank.
LEMMA SetIs ==
  ASSUME TcpInv, NEW r \in Tcp!Ranks, NEW s, Tcp!Set(r, s)
  PROVE  daemon'[r] = s /\ \A q \in Tcp!Ranks \ {r} : daemon'[q] = daemon[q]
  BY DEF TcpInv, Daemons, Tcp!Set

\* A rank that is asked is in an exchange.
LEMMA InExchange ==
  ASSUME NEW c, NEW r \in Tcp!Ranks, Resting(c) \/ \E n \in 1..MaxRows : OneExchange(c, n), ~Rest(c, r)
  PROVE  \E n \in 1..MaxRows : OneExchange(c, n) /\ (Asking(c, r, n) \/ Served(c, r, n) \/ Sending(c, r, n))
  BY DEF Resting, OneExchange, Phase, Answered
\* The daemon reads a piece of the request, the last one included.
LEMMA RecvPieceCalm ==
  ASSUME TcpInv, Calm, NEW r \in Tcp!Ranks, Tcp!RecvPiece(r)
  PROVE  Calm'
<1> DEFINE d == daemon[r]
           h == Head(up[r]).f
           got == d.got + 1
<1>1. /\ d.at = "recv" /\ up[r] # <<>>
      /\ IF got <= h.n THEN Tcp!Set(r, [d EXCEPT !.got = got]) /\ up' = [up EXCEPT ![r] = Tail(@)]
         ELSE IF h.seq # d.rx THEN Tcp!Close(r)
         ELSE /\ Tcp!Set(r, [d EXCEPT !.at = "serve", !.got = 0, !.rx = @ + 1, !.todo = <<h>>])
              /\ up' = [up EXCEPT ![r] = Tail(@)]
      /\ UNCHANGED <<Tcp!client, mode, op, back>>
  BY DEF Tcp!RecvPiece
<1>2. held = Tcp!Ranks /\ shut = {} /\ skew = {}
  BY CalmHas
<1>3. PICK c \in Nat : c = txId - 1 /\ (Resting(c) \/ \E k \in 1..MaxRows : OneExchange(c, k))
  BY CalmHas
<1>4. ~Rest(c, r)
  BY <1>1 DEF Rest
<1>5. PICK n \in 1..MaxRows : OneExchange(c, n) /\ (Asking(c, r, n) \/ Served(c, r, n) \/ Sending(c, r, n))
  BY <1>3, <1>4, InExchange
<1>6. Asking(c, r, n)
  BY <1>1, <1>5 DEF Served, Sending
<1>7. PICK f : f = Frame(c, r, n)
  OBVIOUS
<1>8. PICK g \in 0..n :
        /\ At(r, "recv", g, c - 1, c - 1) /\ Partly(c, r, n, 0) /\ back[r] = <<>>
        /\ Run(up[r], f, g) /\ Run(Todo(r), f, g + Len(up[r]))
        /\ g + Len(up[r]) + Len(Todo(r)) = n + 1
  BY <1>6, <1>7 DEF Asking
<1>9. PICK s \in Seq(PiecesOf(r)) : s = up[r]
  BY DEF TcpInv, Streams
<1>10. s # <<>> /\ Run(s, f, g) /\ Len(s) \in Nat /\ g \in Nat
  BY <1>1, <1>8, <1>9
<1>11. Head(s) = Piece(f, g + 1) /\ Tail(s) \in Seq(PiecesOf(r)) /\ Run(Tail(s), f, g + 1) /\ Len(Tail(s)) = Len(s) - 1
  BY <1>10, RunHead
<1>12. h = f /\ f.n = n /\ f.seq = c - 1
  <2>1. \A k : Piece(f, k).f = f
    BY DEF Piece
  <2>2. QED
    BY <1>7, <1>9, <1>11, <2>1 DEF Frame
<1> HIDE DEF h
<1>13. /\ DOMAIN d = {"at", "got", "rx", "tx", "loaded", "todo", "end"}
       /\ d.got = g /\ d.rx = c - 1 /\ d.tx = c - 1 /\ ~d.end
  BY <1>1, <1>8, OpenIs DEF TcpInv, At, Open
<1>14. PICK b \in Nat : b = Len(s)
  BY <1>10
<1>15. CASE g + 1 <= n
  <2> DEFINE e == [d EXCEPT !.got = got]
  <2>1. Tcp!Set(r, e) /\ up' = [up EXCEPT ![r] = Tail(@)]
    BY <1>1, <1>12, <1>13, <1>15
  <2>2. e.at = "recv" /\ e.got = g + 1 /\ e.rx = c - 1 /\ e.tx = c - 1 /\ ~e.end
    BY <1>1, <1>13
  <2> HIDE DEF e
  <2>3. daemon'[r] = e /\ \A q \in Tcp!Ranks \ {r} : daemon'[q] = daemon[q]
    BY <2>1, SetIs
  <2>4. up'[r] = Tail(s) /\ \A q \in Tcp!Ranks \ {r} : up'[q] = up[q] /\ back'[q] = back[q]
    BY <1>1, <1>9, <2>1 DEF TcpInv, Streams
  <2>5. At(r, "recv", g + 1, c - 1, c - 1)'
    BY <2>2, <2>3 DEF At
  <2>6. Partly(c, r, n, 0)' /\ back'[r] = <<>> /\ Todo(r)' = Todo(r)
    BY <1>1, <1>8 DEF Partly, Tcp!client, Todo
  <2>7. g + 1 \in 0..n
    BY <1>15
  <2>8. Len(up'[r]) = b - 1 /\ Run(up'[r], f, g + 1)
    BY <1>11, <1>14, <2>4
  <2>9. Run(Todo(r), f, g + b) /\ g + b + Len(Todo(r)) = n + 1
    BY <1>8, <1>9, <1>14
  <2>10. (g + 1) + Len(up'[r]) = g + b
    BY <2>8
  <2>11. Run(Todo(r)', f, (g + 1) + Len(up'[r])) /\ (g + 1) + Len(up'[r]) + Len(Todo(r)') = n + 1
    BY <2>6, <2>9, <2>10
  <2>12. Phase(c, r, n)'
    BY <1>7, <2>5, <2>6, <2>7, <2>8, <2>11 DEF Phase, Asking
  <2>13. QED
    BY <1>1, <1>2, <1>3, <1>5, <2>3, <2>4, <2>12, DaemonCalm
<1>16. CASE ~(g + 1 <= n)
  <2> DEFINE e == [d EXCEPT !.at = "serve", !.got = 0, !.rx = @ + 1, !.todo = <<f>>]
  <2>1. Tcp!Set(r, e) /\ up' = [up EXCEPT ![r] = Tail(@)]
    BY <1>1, <1>12, <1>13, <1>16
  <2>2. e.at = "serve" /\ e.got = 0 /\ e.rx = c /\ e.tx = c - 1 /\ ~e.end /\ e.todo = <<f>>
    BY <1>1, <1>13
  <2> HIDE DEF e
  <2>3. daemon'[r] = e /\ \A q \in Tcp!Ranks \ {r} : daemon'[q] = daemon[q]
    BY <2>1, SetIs
  <2>4. up'[r] = Tail(s) /\ \A q \in Tcp!Ranks \ {r} : up'[q] = up[q] /\ back'[q] = back[q]
    BY <1>1, <1>9, <2>1 DEF TcpInv, Streams
  <2>5. At(r, "serve", 0, c, c - 1)'
    BY <2>2, <2>3 DEF At
  <2>6. Partly(c, r, n, 0)' /\ back'[r] = <<>> /\ Todo(r)' = Todo(r)
    BY <1>1, <1>8 DEF Partly, Tcp!client, Todo
  <2>7. g + b + Len(Todo(r)) = n + 1 /\ b # 0 /\ g = n
    <3>1. b # 0 /\ g = n
      BY <1>10, <1>14, <1>16
    <3>2. QED
      BY <1>8, <1>9, <1>14, <3>1, Zenon
  <2>8. Todo(r) \in Seq(PiecesOf(r))
    <3>1. op.at = "write" => op.todo[r] \in Seq(PiecesOf(r))
      BY InWrite DEF Writing
    <3>2. QED
      BY <3>1 DEF Todo
  <2>9. b = 1 /\ Len(Todo(r)) = 0
    <3>1. Len(Todo(r)) \in Nat
      BY <2>8
    <3>2. QED
      BY <2>7, <3>1
  <2>10. Todo(r) = <<>> /\ up'[r] = <<>>
    BY <1>11, <1>14, <2>4, <2>8, <2>9
  <2>11. Served(c, r, n)'
    BY <1>7, <2>2, <2>3, <2>5, <2>6, <2>10 DEF Served
  <2>12. Phase(c, r, n)'
    BY <2>11 DEF Phase
  <2>13. QED
    BY <1>1, <1>2, <1>3, <1>5, <2>3, <2>4, <2>12, DaemonCalm
<1>17. QED
  BY <1>15, <1>16

\* The frame is served.
LEMMA ServeCalm ==
  ASSUME TcpInv, Calm, NEW r \in Tcp!Ranks, Tcp!Serve(r)
  PROVE  Calm'
<1> DEFINE d == daemon[r]
           e == Tcp!Answering(r, "Ok")
<1>1. d.at = "serve" /\ Tcp!Set(r, e) /\ UNCHANGED <<Tcp!client, mode, op, up, back>>
  BY DEF Tcp!Serve
<1>2. held = Tcp!Ranks /\ shut = {} /\ skew = {}
  BY CalmHas
<1>3. PICK c \in Nat : c = txId - 1 /\ (Resting(c) \/ \E k \in 1..MaxRows : OneExchange(c, k))
  BY CalmHas
<1>4. ~Rest(c, r)
  BY <1>1 DEF Rest, At
<1>5. PICK n \in 1..MaxRows : OneExchange(c, n) /\ (Asking(c, r, n) \/ Served(c, r, n) \/ Sending(c, r, n))
  BY <1>3, <1>4, InExchange
<1>6. Served(c, r, n)
  BY <1>1, <1>5 DEF Asking, Sending, At
<1>7. /\ DOMAIN d = {"at", "got", "rx", "tx", "loaded", "todo", "end"}
      /\ d.got = 0 /\ d.rx = c /\ d.tx = c - 1 /\ ~d.end
      /\ d.todo[1] \in FramesOf(r) /\ d.todo = <<Frame(c, r, n)>>
  BY <1>1, <1>6, OpenIs DEF TcpInv, Served, At, Open
<1>8. PICK f \in FramesOf(r) : f = Frame(c, r, n)
  BY <1>7
<1>9. d.todo[1] = f /\ f = [id |-> f.id, n |-> f.n, exec |-> f.exec, seq |-> d.tx, status |-> "Ok"]
  BY <1>7, <1>8 DEF Frame
<1>10. Tcp!Return(r, "Ok") = Tcp!Pieces(f)
  BY <1>9 DEF Tcp!Return
<1>11. Len(Tcp!Pieces(f)) = n + 1 /\ Run(Tcp!Pieces(f), f, 0) /\ Tcp!Pieces(f) # <<>>
  <2>1. f.n = n
    BY <1>8 DEF Frame
  <2>2. QED
    BY <2>1, PiecesAre
<1>12. e.at = "send" /\ e.got = 0 /\ e.rx = c /\ e.tx = c /\ ~e.end /\ e.todo = Tcp!Pieces(f)
  <2>1. PICK p : p = Tcp!Pieces(f)
    OBVIOUS
  <2>2. ("Ok" # "Ok") = FALSE
    OBVIOUS
  <2>3. e = [d EXCEPT !.at = "send", !.tx = @ + 1, !.loaded = TRUE, !.todo = p, !.end = FALSE]
    BY <1>10, <2>1, <2>2, Zenon DEF Tcp!Answering
  <2>4. e.at = "send" /\ e.got = 0 /\ e.rx = c /\ e.tx = c - 1 + 1 /\ e.end = FALSE /\ e.todo = p
    <3> HIDE DEF e
    <3>1. QED
      BY <1>7, <2>3
  <2>5. c - 1 + 1 = c
    OBVIOUS
  <2> HIDE DEF e
  <2>6. QED
    BY <2>1, <2>4, <2>5
<1> HIDE DEF e
<1>13. daemon'[r] = e /\ \A q \in Tcp!Ranks \ {r} : daemon'[q] = daemon[q]
  BY <1>1, SetIs
<1>14. \A q \in Tcp!Ranks \ {r} : up'[q] = up[q] /\ back'[q] = back[q]
  BY <1>1
<1>15. At(r, "send", 0, c, c)'
  BY <1>12, <1>13 DEF At
<1>16. Partly(c, r, n, 0)' /\ up'[r] = <<>> /\ Todo(r)' = <<>> /\ back'[r] = <<>>
  BY <1>1, <1>6 DEF Served, Partly, Tcp!client, Todo
<1>17. 0 \in 0..n /\ Len(back'[r]) = 0 /\ Run(back'[r], f, 0)
  BY <1>16, RunEmpty
<1>18. Run(daemon'[r].todo, f, 0 + Len(back'[r])) /\ 0 + Len(back'[r]) + Len(daemon'[r].todo) = n + 1
  BY <1>11, <1>12, <1>13, <1>17
<1>19. Phase(c, r, n)'
  BY <1>8, <1>15, <1>16, <1>17, <1>18 DEF Phase, Sending
<1>20. QED
  BY <1>1, <1>2, <1>3, <1>5, <1>13, <1>14, <1>19, DaemonCalm

\* A piece of the answer is written.
LEMMA SendPieceCalm ==
  ASSUME TcpInv, Calm, NEW r \in Tcp!Ranks, Tcp!SendPiece(r)
  PROVE  Calm'
<1> DEFINE d == daemon[r]
           rest == Tail(d.todo)
<1>1. /\ d.at = "send"
      /\ IF r \in shut THEN Tcp!Close(r) /\ UNCHANGED back
         ELSE /\ back' = [back EXCEPT ![r] = Append(@, Head(d.todo))]
              /\ IF rest # <<>> THEN Tcp!Set(r, [d EXCEPT !.todo = rest]) /\ UNCHANGED up
                 ELSE IF d.end THEN Tcp!Close(r)
                 ELSE Tcp!Set(r, [d EXCEPT !.at = "recv", !.todo = <<>>]) /\ UNCHANGED up
      /\ UNCHANGED <<Tcp!client, mode, op>>
  BY DEF Tcp!SendPiece
<1>2. held = Tcp!Ranks /\ shut = {} /\ skew = {}
  BY CalmHas
<1>3. PICK c \in Nat : c = txId - 1 /\ (Resting(c) \/ \E k \in 1..MaxRows : OneExchange(c, k))
  BY CalmHas
<1>4. ~Rest(c, r)
  BY <1>1 DEF Rest, At
<1>5. PICK n \in 1..MaxRows : OneExchange(c, n) /\ (Asking(c, r, n) \/ Served(c, r, n) \/ Sending(c, r, n))
  BY <1>3, <1>4, InExchange
<1>6. Sending(c, r, n)
  BY <1>1, <1>5 DEF Asking, Served, At
<1>7. PICK f : f = Frame(c, r, n)
  OBVIOUS
<1>8. PICK g \in 0..n :
        /\ At(r, "send", 0, c, c) \/ At(r, "recv", 0, c, c)
        /\ Partly(c, r, n, g) /\ up[r] = <<>> /\ Todo(r) = <<>>
        /\ Run(back[r], f, g) /\ Run(daemon[r].todo, f, g + Len(back[r]))
        /\ g + Len(back[r]) + Len(daemon[r].todo) = n + 1
  BY <1>6, <1>7 DEF Sending
<1>9. /\ DOMAIN d = {"at", "got", "rx", "tx", "loaded", "todo", "end"}
      /\ d.got = 0 /\ d.rx = c /\ d.tx = c /\ ~d.end
      /\ d.todo \in Seq(PiecesOf(r)) /\ d.todo # <<>>
  BY <1>1, <1>8, OpenIs DEF TcpInv, At, Open
<1>10. PICK s \in Seq(PiecesOf(r)) : s = back[r]
  BY DEF TcpInv, Streams
<1>11. PICK t \in Seq(PiecesOf(r)) : t = d.todo
  BY <1>9
<1>12. g \in Nat /\ t # <<>> /\ Run(s, f, g) /\ Run(t, f, g + Len(s)) /\ g + Len(s) + Len(t) = n + 1
  <2>1. g \in Nat /\ t # <<>>
    BY <1>9, <1>11
  <2>2. Run(s, f, g) /\ Run(t, f, g + Len(s)) /\ g + Len(s) + Len(t) = n + 1
    BY <1>8, <1>10, <1>11, Zenon
  <2>3. QED
    BY <2>1, <2>2
<1>13. /\ Run(Append(s, Head(t)), f, g) /\ Len(Append(s, Head(t))) = Len(s) + 1
       /\ Run(Tail(t), f, g + (Len(s) + 1)) /\ Len(Tail(t)) = Len(t) - 1
  BY <1>12, RunMoves
<1>14. PICK a \in Nat : a = Len(s)
  OBVIOUS
<1>15. g + (a + 1) + Len(Tail(t)) = n + 1
  <2>1. Len(t) \in Nat
    OBVIOUS
  <2>2. QED
    BY <1>12, <1>13, <1>14, <2>1
<1>16. back' = [back EXCEPT ![r] = Append(@, Head(t))] /\ rest = Tail(t)
  BY <1>1, <1>2, <1>11
<1>17. back'[r] = Append(s, Head(t)) /\ \A q \in Tcp!Ranks \ {r} : back'[q] = back[q]
  BY <1>10, <1>16 DEF TcpInv, Streams
<1> HIDE DEF rest
<1>18. Len(back'[r]) = a + 1 /\ Run(back'[r], f, g)
  BY <1>13, <1>14, <1>17
<1>19. Partly(c, r, n, g)' /\ Todo(r)' = <<>>
  BY <1>1, <1>8 DEF Partly, Tcp!client, Todo
<1>20. CASE rest # <<>>
  <2> DEFINE e == [d EXCEPT !.todo = rest]
  <2>1. Tcp!Set(r, e) /\ UNCHANGED up
    BY <1>1, <1>2, <1>20
  <2>2. e.at = "send" /\ e.got = 0 /\ e.rx = c /\ e.tx = c /\ ~e.end /\ e.todo = Tail(t)
    BY <1>1, <1>9, <1>16
  <2> HIDE DEF e
  <2>3. daemon'[r] = e /\ \A q \in Tcp!Ranks \ {r} : daemon'[q] = daemon[q]
    BY <2>1, SetIs
  <2>4. At(r, "send", 0, c, c)'
    BY <2>2, <2>3 DEF At
  <2>5. Run(daemon'[r].todo, f, g + Len(back'[r])) /\ g + Len(back'[r]) + Len(daemon'[r].todo) = n + 1
    BY <1>13, <1>14, <1>15, <1>18, <2>2, <2>3
  <2>6. up'[r] = <<>>
    BY <1>8, <2>1
  <2>7. Phase(c, r, n)'
    BY <1>7, <1>18, <1>19, <2>4, <2>5, <2>6 DEF Phase, Sending
  <2>8. \A q \in Tcp!Ranks \ {r} : daemon'[q] = daemon[q] /\ up'[q] = up[q] /\ back'[q] = back[q]
    BY <1>17, <2>1, <2>3
  <2>9. QED
    BY <1>1, <1>2, <1>3, <1>5, <2>7, <2>8, DaemonCalm
<1>21. CASE rest = <<>>
  <2> DEFINE e == [d EXCEPT !.at = "recv", !.todo = <<>>]
  <2>1. Tcp!Set(r, e) /\ UNCHANGED up
    BY <1>1, <1>2, <1>9, <1>21
  <2>2. e.at = "recv" /\ e.got = 0 /\ e.rx = c /\ e.tx = c /\ ~e.end /\ e.todo = Tail(t)
    BY <1>1, <1>9, <1>16, <1>21
  <2> HIDE DEF e
  <2>3. daemon'[r] = e /\ \A q \in Tcp!Ranks \ {r} : daemon'[q] = daemon[q]
    BY <2>1, SetIs
  <2>4. At(r, "recv", 0, c, c)'
    BY <2>2, <2>3 DEF At
  <2>5. Run(daemon'[r].todo, f, g + Len(back'[r])) /\ g + Len(back'[r]) + Len(daemon'[r].todo) = n + 1
    BY <1>13, <1>14, <1>15, <1>18, <2>2, <2>3
  <2>6. up'[r] = <<>>
    BY <1>8, <2>1
  <2>7. Phase(c, r, n)'
    BY <1>7, <1>18, <1>19, <2>4, <2>5, <2>6 DEF Phase, Sending
  <2>8. \A q \in Tcp!Ranks \ {r} : daemon'[q] = daemon[q] /\ up'[q] = up[q] /\ back'[q] = back[q]
    BY <1>17, <2>1, <2>3
  <2>9. QED
    BY <1>1, <1>2, <1>3, <1>5, <2>7, <2>8, DaemonCalm
<1>22. QED
  BY <1>20, <1>21

\* The steps that fail count as broken, or cannot come before one.
LEMMA FaultSteps ==
  ASSUME TcpInv, Calm, broken' = 0, NEW r \in Tcp!Ranks
  PROVE  /\ ~Tcp!WriteFails(r) /\ ~Tcp!ReadFails(r) /\ ~Tcp!PeerClosed(r) /\ ~Tcp!ServeFails(r) /\ ~Tcp!LoadFails(r) /\ ~Tcp!Dies(r)
<1>1. ~Tcp!Fault
  BY DEF Tcp!Fault, TcpInv, Settings
<1>2. PICK c \in Nat : Resting(c) \/ \E k \in 1..MaxRows : OneExchange(c, k)
  BY CalmHas
<1>3. daemon[r].at # "closed"
  BY <1>2, PhaseOpen DEF Resting, OneExchange
<1>4. shut = {}
  BY CalmHas
<1>5. QED
  BY <1>1, <1>3, <1>4 DEF Tcp!WriteFails, Tcp!ReadFails, Tcp!PeerClosed, Tcp!ServeFails, Tcp!LoadFails, Tcp!Dies

\* No rank has failed to answer.
LEMMA NoErrors == ASSUME TcpInv, Calm PROVE ~Tcp!RecvFails
<1> SUFFICES ASSUME Tcp!RecvFails PROVE FALSE
  OBVIOUS
<1>1. op.at = "read" /\ op.err # {}
  BY DEF Tcp!RecvFails
<1>2. PICK c \in Nat : Resting(c) \/ \E k \in 1..MaxRows : OneExchange(c, k)
  BY CalmHas
<1>3. QED
  BY <1>1, <1>2, CalmRead

\* Every step that does not fail keeps the calm.
LEMMA CalmNext == ASSUME TcpInv, Calmly, Tcp!Next \/ UNCHANGED tcp PROVE Calmly'
<1> SUFFICES ASSUME broken' = 0 PROVE Calm'
  BY DEF Calmly
<1>0. CASE UNCHANGED tcp
  <2>1. UNCHANGED <<mode, held, shut, txId, rxSeq, skew, inflight, op, up, back, daemon, broken>>
    BY <1>0 DEF tcp
  <2>2. Calm
    BY <2>1 DEF Calmly
  <2>3. PICK c \in Nat : c = txId - 1 /\ (Resting(c) \/ \E k \in 1..MaxRows : OneExchange(c, k))
    BY <2>2, CalmHas
  <2>4. \A r : Same(r) /\ SameRead(r) /\ Todo(r)' = Todo(r)
    BY <2>1 DEF Same, SameRead, Todo
  <2>5. held' = Tcp!Ranks /\ shut' = {} /\ skew' = {} /\ c = txId' - 1
    BY <2>1, <2>2, <2>3, CalmHas
  <2>6. CASE Resting(c)
    <3>1. Resting(c)'
      BY <2>1, <2>4, <2>6 DEF Resting, Rest, At
    <3>2. QED
      BY <2>5, <3>1 DEF Calm
  <2>7. ASSUME NEW k \in 1..MaxRows, OneExchange(c, k) PROVE Calm'
    <3>1. \A r \in Tcp!Ranks : Phase(c, r, k)'
      BY <2>4, <2>7, PhaseSame DEF OneExchange
    <3>2. OneExchange(c, k)'
      BY <2>1, <2>7, <3>1 DEF OneExchange
    <3>3. QED
      BY <2>5, <3>2 DEF Calm
  <2>8. QED
    BY <2>3, <2>6, <2>7
<1>1. CASE Tcp!Next
  <2>1. broken = 0
    <3>1. Tcp!Fault \/ UNCHANGED broken
      BY <1>1 DEF Tcp!Next, Tcp!Send, Tcp!SendDone, Tcp!Recv, Tcp!RecvDone, Tcp!RecvFails, Tcp!WritePiece, Tcp!WriteFails, Tcp!ReadHead, Tcp!ReadRow, Tcp!ReadFails,
                  Tcp!RecvPiece, Tcp!PeerClosed, Tcp!Serve, Tcp!ServeFails, Tcp!LoadFails, Tcp!SendPiece, Tcp!Dies
    <3>2. QED
      BY <3>1 DEF Tcp!Fault, TcpInv, Settings
  <2>2. Calm
    BY <2>1 DEF Calmly
  <2>3. ASSUME NEW n \in 1..MaxRows, Tcp!Send(n) PROVE Calm'
    BY <2>2, <2>3, SendCalm
  <2>4. CASE Tcp!SendDone \/ Tcp!Recv \/ Tcp!RecvDone
    BY <2>2, <2>4, SendDoneCalm, RecvCalm, RecvDoneCalm
  <2>5. ASSUME NEW r \in Tcp!Ranks, Tcp!WritePiece(r) \/ Tcp!ReadHead(r) \/ Tcp!ReadRow(r) PROVE Calm'
    BY <2>2, <2>5, WriteCalm, ReadHeadCalm, ReadRowCalm
  <2>6. ASSUME NEW r \in Tcp!Ranks, Tcp!RecvPiece(r) \/ Tcp!Serve(r) \/ Tcp!SendPiece(r) PROVE Calm'
    BY <2>2, <2>6, RecvPieceCalm, ServeCalm, SendPieceCalm
  <2>7. ASSUME NEW r \in Tcp!Ranks PROVE ~(Tcp!WriteFails(r) \/ Tcp!ReadFails(r) \/ Tcp!PeerClosed(r) \/ Tcp!ServeFails(r) \/ Tcp!LoadFails(r) \/ Tcp!Dies(r))
    BY <2>2, FaultSteps
  <2>8. ~Tcp!RecvFails
    BY <2>2, NoErrors
  <2>9. \/ \E n \in 1..MaxRows : Tcp!Send(n)
        \/ Tcp!SendDone \/ Tcp!Recv \/ Tcp!RecvDone
        \/ \E r \in Tcp!Ranks : \/ Tcp!WritePiece(r) \/ Tcp!ReadHead(r) \/ Tcp!ReadRow(r)
                            \/ Tcp!RecvPiece(r) \/ Tcp!Serve(r) \/ Tcp!SendPiece(r)
    BY <1>1, <2>7, <2>8, Zenon DEF Tcp!Next
  <2>10. QED
    BY <2>3, <2>4, <2>5, <2>6, <2>9, Zenon
<1>2. QED
  BY <1>0, <1>1

\* It holds at the start.
LEMMA CalmInit == Tcp!Init => Calmly
<1> SUFFICES ASSUME Tcp!Init PROVE Calm
  BY DEF Calmly
<1>1. held = Tcp!Ranks /\ shut = {} /\ skew = {} /\ txId = 1 /\ op = Tcp!Idle /\ inflight = <<>>
  BY DEF Tcp!Init
<1>2. \A r \in Tcp!Ranks : Rest(0, r)
  BY DEF Tcp!Init, Rest, At, Tcp!All, Todo, Tcp!Idle
<1>3. Resting(0) /\ 0 = txId - 1
  BY <1>1, <1>2 DEF Resting
<1>4. QED
  BY <1>1, <1>3 DEF Calm

\* A write that waits belongs to a rank whose daemon is still reading.
LEMMA CalmNoCycle == ASSUME Calmly, TcpInv PROVE Tcp!NoWriteCycle
<1> SUFFICES ASSUME broken = 0, NEW r \in Tcp!Ranks, op.at = "write", ~Tcp!Written(r), daemon[r].at = "send" PROVE FALSE
  BY DEF Tcp!NoWriteCycle
<1>1. Calm
  BY DEF Calmly
<1>2. PICK c \in Nat : Resting(c) \/ \E k \in 1..MaxRows : OneExchange(c, k)
  BY <1>1, CalmHas
<1>3. PICK n \in 1..MaxRows : \A q \in Tcp!Ranks : Phase(c, q, n)
  BY <1>2, CalmWrite
<1>4. Phase(c, r, n) /\ Todo(r) # <<>>
  BY <1>3 DEF Tcp!Written, Todo
<1>5. QED
  BY <1>4 DEF Phase, Asking, Served, Sending, Answered, At

-----------------------------------------------------------------------------
(* The codec. *)

(* The first check that fails names the error, so "ok" means that none does. *)
LEMMA FirstOk ==
  ASSUME NEW checks, NEW n \in Nat, DOMAIN checks = 1..n,
         \A i \in 1..n : checks[i][1] => checks[i][2] # "ok"
  PROVE  First(checks) = "ok" <=> \A i \in 1..n : ~checks[i][1]
<1> DEFINE bad == {i \in DOMAIN checks : checks[i][1]}
<1>1. CASE bad = {}
  BY <1>1 DEF First
<1>2. CASE bad # {}
  <2>1. bad \subseteq Nat
    OBVIOUS
  <2>2. PICK i \in bad : \A j \in bad : i <= j
    BY <1>2, <2>1, LeastNat
  <2> DEFINE i0 == CHOOSE k \in bad : \A j \in bad : k <= j
  <2>3. i0 \in bad
    BY <2>2
  <2>4. First(checks) = checks[i0][2]
    BY <1>2 DEF First
  <2> HIDE DEF i0
  <2>5. i0 \in 1..n /\ checks[i0][1]
    BY <2>3
  <2>6. QED
    BY <2>4, <2>5
<1>3. QED
  BY <1>1, <1>2

(* The geometry passes when the header's numbers agree.                    *)
LEMMA GeometryOk ==
  ASSUME NEW f
  PROVE  First(Geometry(f)) = "ok" <=>
           /\ f.rows # 0 /\ f.descBytes = f.rows * DescLen /\ f.routeBytes = f.routes * RouteLen /\ f.dim = Hidden
           /\ f.dtype \in {"Ue8m0K32", "RowScaled"} /\ ~(f.stride < Hidden)
           /\ f.payload = f.rows * f.stride
           /\ f.len - HeaderLen = f.rows * DescLen + f.routes * RouteLen + f.rows * f.stride
<1> DEFINE a == f.rows * DescLen
           b == f.routes * RouteLen
           c == f.rows * f.stride
<1> HIDE DEF a, b, c
<1> DEFINE checks == << <<f.rows = 0, "DimMismatch">>, <<f.descBytes # a, "DimMismatch">>,
         <<f.routeBytes # b, "DimMismatch">>, <<f.dim # Hidden, "DimMismatch">>,
         <<f.dtype \notin {"Ue8m0K32", "RowScaled"}, "DimMismatch">>, <<f.stride < Hidden, "DimMismatch">>,
         <<f.payload # c, "DimMismatch">>, <<f.len - HeaderLen # a + b + c, "DimMismatch">> >>
<1>1. DOMAIN checks = 1..8 /\ \A i \in 1..8 : checks[i][2] # "ok"
  OBVIOUS
<1>2. (\A i \in 1..8 : ~checks[i][1]) <=>
           /\ ~checks[1][1] /\ ~checks[2][1] /\ ~checks[3][1] /\ ~checks[4][1] /\ ~checks[5][1]
           /\ ~checks[6][1] /\ ~checks[7][1] /\ ~checks[8][1]
  <2> HIDE DEF checks
  <2>1. QED
    OBVIOUS
<1>3. /\ checks[1][1] = (f.rows = 0) /\ checks[2][1] = (f.descBytes # a) /\ checks[3][1] = (f.routeBytes # b)
      /\ checks[4][1] = (f.dim # Hidden) /\ checks[5][1] = (f.dtype \notin {"Ue8m0K32", "RowScaled"})
      /\ checks[6][1] = (f.stride < Hidden) /\ checks[7][1] = (f.payload # c)
      /\ checks[8][1] = (f.len - HeaderLen # a + b + c)
  OBVIOUS
<1>4. Geometry(f) = checks
  BY Zenon DEF Geometry, a, b, c
<1> HIDE DEF checks
<1>5. First(checks) = "ok" <=>
           /\ f.rows # 0 /\ f.descBytes = a /\ f.routeBytes = b /\ f.dim = Hidden
           /\ f.dtype \in {"Ue8m0K32", "RowScaled"} /\ ~(f.stride < Hidden)
           /\ f.payload = c /\ f.len - HeaderLen = a + b + c
  BY <1>1, <1>2, <1>3, FirstOk
<1>6. QED
  BY <1>4, <1>5, Zenon DEF a, b, c

(* The copying decoder's tables pass when no range and no row is outside.  *)
LEMMA RowsRoutesOk ==
  ASSUME NEW rows, NEW routes
  PROVE  RowsRoutes(rows, routes) = "ok" <=>
           /\ \A i \in DOMAIN rows : ~(rows[i].off + rows[i].cnt > Len(routes))
           /\ \A j \in DOMAIN routes : ~(routes[j].row >= Len(rows))
<1> DEFINE p == \E i \in DOMAIN rows : rows[i].off + rows[i].cnt > Len(routes)
           q == \E j \in DOMAIN routes : routes[j].row >= Len(rows)
           checks == << <<p, "RouteRangeBad">>, <<q, "RouteRowMismatch">> >>
<1>1. DOMAIN checks = 1..2 /\ \A i \in 1..2 : checks[i][2] # "ok"
  <2> HIDE DEF p, q
  <2>1. QED
    OBVIOUS
<1>2. checks[1][1] = p /\ checks[2][1] = q
  <2> HIDE DEF p, q
  <2>1. QED
    OBVIOUS
<1>3. RowsRoutes(rows, routes) = First(checks)
  BY Zenon DEF RowsRoutes
<1> HIDE DEF checks
<1>8. (\A i \in 1..2 : ~checks[i][1]) <=> ~checks[1][1] /\ ~checks[2][1]
  OBVIOUS
<1>4. First(checks) = "ok" <=> ~checks[1][1] /\ ~checks[2][1]
  BY <1>1, <1>8, FirstOk
<1>5. p \in BOOLEAN /\ q \in BOOLEAN
  OBVIOUS
<1>6. RowsRoutes(rows, routes) = "ok" <=> ~p /\ ~q
  <2> HIDE DEF p, q
  <2>1. QED
    BY <1>2, <1>3, <1>4, <1>5
<1>7. QED
  BY <1>6, Zenon

\* A list of n.
Listing(s, n) == s = [i \in 1..n |-> s[i]]

\* The header's counts are those of the body, or the geometry is refused.
Fits(f, n, m) == \/ f.rows = n /\ f.routes = m
                 \/ f.rows = 0 \/ f.descBytes # f.rows * DescLen \/ f.routeBytes # f.routes * RouteLen

\* The tables of f have n descriptors, m entries and n rows, or its geometry is refused.
Bodied(f, n, m) ==
  /\ Listing(f.descs, n) /\ Listing(f.entries, m) /\ Listing(f.hid, n)
  /\ \A i \in 1..n : f.descs[i].off \in Nat /\ f.descs[i].cnt \in Nat
  /\ \A j \in 1..m : f.entries[j].row \in Nat
  /\ f.rows \in Nat /\ f.routes \in Nat /\ f.stride \in Nat /\ f.len \in Nat
  /\ Fits(f, n, m)

(* The view's tables pass when no kind is unknown and no range and no row  *)
(* is outside what the header says.                                        *)
LEMMA ViewOk ==
  ASSUME NEW f, NEW n \in Nat, NEW m \in Nat, Bodied(f, n, m)
  PROVE  RowsRoutesView(f) = "ok" <=>
           /\ \A i \in 1..n : f.descs[i].sk \in SourceKinds /\ ~(f.descs[i].off + f.descs[i].cnt > f.routes)
           /\ \A j \in 1..m : ~(f.entries[j].row >= f.rows)
<1> DEFINE R == [i \in 1..n |-> <<ViewRow(f, i) # "ok", ViewRow(f, i)>>]
           T == [j \in 1..m |-> <<f.entries[j].row >= f.rows, "RouteRowMismatch">>]
           checks == R \o T
<1>1. DOMAIN f.descs = 1..n /\ DOMAIN f.entries = 1..m
  BY DEF Bodied, Listing
<1>2. RowsRoutesView(f) = First(checks)
  BY <1>1, Zenon DEF RowsRoutesView
<1>3. PICK C : R \in Seq(C) /\ T \in Seq(C) /\ Len(R) = n /\ Len(T) = m
  <2> DEFINE Both == {R[i] : i \in 1..n} \cup {T[j] : j \in 1..m}
  <2>1. R \in [1..n -> Both] /\ T \in [1..m -> Both]
    <3>1. (\A i \in 1..n : R[i] \in Both) /\ \A j \in 1..m : T[j] \in Both
      <4> HIDE DEF R, T
      <4>1. QED
        OBVIOUS
    <3> HIDE DEF Both
    <3>2. QED
      BY <3>1
  <2> HIDE DEF R, T, Both
  <2>2. R \in Seq(Both) /\ T \in Seq(Both)
    BY <2>1, SeqDef
  <2>3. Len(R) = n /\ Len(T) = m
    BY <2>1, <2>2, LenProperties
  <2>4. QED
    BY <2>2, <2>3
<1>4. /\ \A i \in 1..n : R[i] = <<ViewRow(f, i) # "ok", ViewRow(f, i)>>
      /\ \A j \in 1..m : T[j] = <<f.entries[j].row >= f.rows, "RouteRowMismatch">>
  OBVIOUS
<1> HIDE DEF R, T
<1>5. /\ DOMAIN checks = 1..n + m
      /\ \A i \in 1..n : checks[i] = R[i]
      /\ \A j \in 1..m : checks[n + j] = T[j]
      /\ \A i \in 1..n + m : i \in 1..n \/ (i - n) \in 1..m
  <2>1. /\ R \o T \in Seq(C) /\ Len(R \o T) = n + m
        /\ \A i \in 1..n + m : (R \o T)[i] = IF i <= n THEN R[i] ELSE T[i - n]
    BY <1>3, ConcatProperties
  <2>2. DOMAIN (R \o T) = 1..n + m
    BY <2>1, LenProperties
  <2>3. (\A i \in 1..n : i \in 1..n + m /\ i <= n) /\ (\A i \in 1..n + m : i \in 1..n \/ (i - n) \in 1..m)
    OBVIOUS
  <2>4. \A j \in 1..m : n + j \in 1..n + m /\ ~(n + j <= n) /\ (n + j) - n = j
    OBVIOUS
  <2>5. QED
    BY <2>1, <2>2, <2>3, <2>4
<1> HIDE DEF checks
<1>6. \A i \in 1..n : (checks[i][1] = (ViewRow(f, i) # "ok")) /\ checks[i][2] = ViewRow(f, i)
  BY <1>4, <1>5
<1>7. \A j \in 1..m : (checks[n + j][1] = (f.entries[j].row >= f.rows)) /\ checks[n + j][2] = "RouteRowMismatch"
  BY <1>4, <1>5
<1>8. \A i \in 1..n + m : checks[i][1] => checks[i][2] # "ok"
  <2> TAKE i \in 1..n + m
  <2>1. CASE i \in 1..n
    BY <2>1, <1>6
  <2>2. CASE (i - n) \in 1..m
    <3>1. PICK j \in 1..m : j = i - n
      BY <2>2
    <3>2. n + j = i
      BY <3>1
    <3>3. QED
      BY <3>2, <1>7
  <2>3. QED
    BY <2>1, <2>2, <1>5
<1>9. First(checks) = "ok" <=> \A i \in 1..n + m : ~checks[i][1]
  <2>1. n + m \in Nat
    OBVIOUS
  <2>2. QED
    BY <2>1, <1>5, <1>8, FirstOk
<1>10. (\A i \in 1..n + m : ~checks[i][1]) <=>
         (\A i \in 1..n : ViewRow(f, i) = "ok") /\ (\A j \in 1..m : ~(f.entries[j].row >= f.rows))
  <2>1. ASSUME \A i \in 1..n + m : ~checks[i][1]
        PROVE  (\A i \in 1..n : ViewRow(f, i) = "ok") /\ (\A j \in 1..m : ~(f.entries[j].row >= f.rows))
    <3>1. \A i \in 1..n : i \in 1..n + m
      OBVIOUS
    <3>2. \A j \in 1..m : n + j \in 1..n + m
      OBVIOUS
    <3>3. QED
      BY <2>1, <3>1, <3>2, <1>6, <1>7
  <2>2. ASSUME (\A i \in 1..n : ViewRow(f, i) = "ok") /\ (\A j \in 1..m : ~(f.entries[j].row >= f.rows)),
               NEW i \in 1..n + m
        PROVE  ~checks[i][1]
    <3>1. CASE i \in 1..n
      BY <3>1, <2>2, <1>6
    <3>2. CASE (i - n) \in 1..m
      <4>1. PICK j \in 1..m : j = i - n
        BY <3>2
      <4>2. n + j = i
        BY <4>1
      <4>3. QED
        BY <4>2, <2>2, <1>7
    <3>3. QED
      BY <3>1, <3>2, <1>5
  <2>3. QED
    BY <2>1, <2>2
<1>11. \A i \in 1..n : ViewRow(f, i) = "ok" <=> f.descs[i].sk \in SourceKinds /\ ~(f.descs[i].off + f.descs[i].cnt > f.routes)
  BY DEF ViewRow, Outside
<1>12. QED
  BY <1>2, <1>9, <1>10, <1>11

(* The copying decoder and the view give such a frame the same answer, and *)
(* what they accept adds up to its length and names nothing outside it.    *)
LEMMA Twins ==
  ASSUME NEW f, NEW n \in Nat, NEW m \in Nat, Bodied(f, n, m), NEW off \in BOOLEAN
  PROVE  /\ (ParseView(f, off) = "ok") = (f.kind = "request" /\ DecodeFrame(f, off) = "ok")
         /\ ParseView(f, off) = "ok" =>
             /\ HeaderLen + Len(f.descs) * DescLen + Len(f.entries) * RouteLen + Len(f.hid) * f.stride = f.len
             /\ \A i \in DOMAIN f.descs : f.descs[i].off + f.descs[i].cnt <= Len(f.entries)
             /\ \A j \in DOMAIN f.entries : f.entries[j].row < Len(f.descs)
<1>1. /\ DOMAIN f.descs = 1..n /\ DOMAIN f.entries = 1..m
      /\ Len(f.descs) = n /\ Len(f.entries) = m /\ Len(f.hid) = n
  <2>1. PICK a, b, c : /\ f.descs = [i \in 1..n |-> a[i]] /\ f.entries = [j \in 1..m |-> b[j]]
                       /\ f.hid = [i \in 1..n |-> c[i]]
    BY DEF Bodied, Listing
  <2>2. QED
    BY <2>1
<1>2. First(Geometry(f)) = "ok" => f.rows = n /\ f.routes = m
  BY GeometryOk DEF Bodied, Fits
<1>3. ParseView(f, off) = "ok" <=>
        /\ ParseHeader(f) = "ok" /\ VerifyCrc(f, off) = "ok" /\ f.kind = "request" /\ First(Geometry(f)) = "ok"
        /\ RowsRoutesView(f) = "ok"
  BY Zenon DEF ParseView
<1>4. f.kind = "request" /\ DecodeFrame(f, off) = "ok" <=>
        /\ ParseHeader(f) = "ok" /\ VerifyCrc(f, off) = "ok" /\ f.kind = "request" /\ DecodeRequest(f) = "ok"
  BY Zenon DEF DecodeFrame
<1>5. DecodeRequest(f) = "ok" <=>
        /\ First(Geometry(f)) = "ok" /\ (\A i \in DOMAIN f.descs : f.descs[i].sk \in SourceKinds)
        /\ RowsRoutes(f.descs, f.entries) = "ok"
  BY Zenon DEF DecodeRequest
<1>6. First(Geometry(f)) = "ok" =>
        (RowsRoutesView(f) = "ok" <=> /\ \A i \in DOMAIN f.descs : f.descs[i].sk \in SourceKinds
                                      /\ RowsRoutes(f.descs, f.entries) = "ok")
  BY <1>1, <1>2, ViewOk, RowsRoutesOk
<1>7. (ParseView(f, off) = "ok") = (f.kind = "request" /\ DecodeFrame(f, off) = "ok")
  BY <1>3, <1>4, <1>5, <1>6
<1>8. ASSUME ParseView(f, off) = "ok"
      PROVE  /\ HeaderLen + Len(f.descs) * DescLen + Len(f.entries) * RouteLen + Len(f.hid) * f.stride = f.len
             /\ \A i \in DOMAIN f.descs : f.descs[i].off + f.descs[i].cnt <= Len(f.entries)
             /\ \A j \in DOMAIN f.entries : f.entries[j].row < Len(f.descs)
  <2>1. f.rows = n /\ f.routes = m /\ First(Geometry(f)) = "ok" /\ RowsRoutesView(f) = "ok"
    BY <1>2, <1>3, <1>8
  <2>2. f.len - HeaderLen = f.rows * DescLen + f.routes * RouteLen + f.rows * f.stride
    BY <2>1, GeometryOk
  <2>3. HeaderLen + n * DescLen + m * RouteLen + n * f.stride = f.len
    <3>1. PICK x \in Nat, y \in Nat, z \in Nat : x = n * DescLen /\ y = m * RouteLen /\ z = n * f.stride
      <4>1. n * DescLen \in Nat /\ m * RouteLen \in Nat /\ n * f.stride \in Nat
        <5>1. DescLen \in Nat /\ RouteLen \in Nat /\ f.stride \in Nat
          BY FrameAssumption DEF Bodied
        <5>2. QED
          BY <5>1
      <4>2. QED
        BY <4>1
    <3>2. f.len - HeaderLen = x + y + z /\ f.len \in Nat /\ HeaderLen \in Nat
      BY <3>1, <2>1, <2>2, FrameAssumption DEF Bodied
    <3>3. HeaderLen + x + y + z = f.len
      BY <3>2
    <3>4. QED
      BY <3>1, <3>3
  <2>4. /\ \A i \in 1..n : ~(f.descs[i].off + f.descs[i].cnt > m)
        /\ \A j \in 1..m : ~(f.entries[j].row >= n)
    BY <2>1, ViewOk
  <2>5. QED
    BY <1>1, <2>3, <2>4 DEF Bodied
<1>9. QED
  BY <1>7, <1>8

(* Products grow with their factors.                                       *)
LEMMA MulGrows ==
  ASSUME NEW a \in Nat, NEW b \in Nat, NEW c \in Nat, b <= c
  PROVE  a * b \in Nat /\ a * c \in Nat /\ a * b <= a * c
  OBVIOUS

(* Division by a size.                                                     *)
LEMMA DivIs ==
  ASSUME NEW i \in Nat, NEW k \in Nat \ {0}
  PROVE  /\ i \div k \in Nat /\ i % k \in Nat /\ i % k < k
         /\ k * (i \div k) \in Nat /\ i = k * (i \div k) + (i % k)
  OBVIOUS

LEMMA Places ==
  ASSUME NEW n \in Nat, NEW k \in Nat \ {0}
  PROVE  /\ n * k \in Nat /\ (n * k) \div k = n /\ (n * k) % k = 0
         /\ \A j \in 1..n * k : (j - 1) \div k \in 0..(n - 1)
         /\ \A t \in 1..n : (t - 1) * k \in Nat /\ (t - 1) * k + k <= n * k
<1>1. n * k \in Nat
  OBVIOUS
<1>2. (n * k) \div k = n /\ (n * k) % k = 0
  <2>1. PICK N \in Nat : N = n * k
    BY <1>1
  <2>2. PICK q \in Nat, r \in Nat : q = N \div k /\ r = N % k /\ r < k /\ N = k * q + r
    BY DivIs
  <2>3. q = n
    <3>1. CASE q < n
      <4>1. k * (q + 1) <= k * n
        BY <3>1, MulGrows
      <4>2. QED
        BY <2>1, <2>2, <4>1
    <3>2. CASE n < q
      <4>1. k * (n + 1) <= k * q
        BY <3>2, MulGrows
      <4>2. QED
        BY <2>1, <2>2, <4>1
    <3>3. QED
      BY <3>1, <3>2
  <2>4. r = 0
    BY <2>1, <2>2, <2>3
  <2>5. QED
    BY <2>1, <2>2, <2>3, <2>4
<1>3. ASSUME NEW j \in 1..n * k PROVE (j - 1) \div k \in 0..(n - 1)
  <2>1. j - 1 \in Nat /\ j - 1 < n * k
    BY <1>1
  <2>2. PICK i \in Nat : i = j - 1 /\ i < n * k
    BY <2>1
  <2>3. PICK q \in Nat, r \in Nat : q = i \div k /\ r = i % k /\ r < k /\ i = k * q + r
    BY DivIs
  <2>4. ~(n <= q)
    <3>1. ASSUME n <= q PROVE FALSE
      <4>1. k * n <= k * q
        BY <3>1, MulGrows
      <4>2. QED
        BY <2>2, <2>3, <4>1
    <3>2. QED
      BY <3>1
  <2>5. QED
    BY <2>2, <2>3, <2>4
<1>4. ASSUME NEW t \in 1..n PROVE (t - 1) * k \in Nat /\ (t - 1) * k + k <= n * k
  <2>1. k * t <= k * n /\ t - 1 \in Nat /\ t \in Nat
    BY MulGrows
  <2>2. (t - 1) * k + k = k * t
    BY <2>1
  <2>3. QED
    BY <2>1, <2>2
<1>5. QED
  BY <1>1, <1>2, <1>3, <1>4

\* The parts of a sample.
Rows_n(n, k) == [t \in 1..n |-> DecodeRow(1, t, k)]
Entries_n(n, k) == [j \in 1..n * k |-> [row |-> (j - 1) \div k, expert |-> j % 2]]
Hidden_n(n) == [t \in 1..n |-> [size |-> HiddenRow, data |-> Partial(1, 1, t - 1, 0)]]
SampleFrame(n, k) == Request(1, 1, 0, 0, "Decode", Rows_n(n, k), Entries_n(n, k), Hidden_n(n))

(* Its tables.                                                             *)
LEMMA SampleTables ==
  ASSUME NEW n \in Nat \ {0}, NEW k \in Nat \ {0}
  PROVE  /\ DOMAIN Rows_n(n, k) = 1..n /\ DOMAIN Entries_n(n, k) = 1..n * k /\ DOMAIN Hidden_n(n) = 1..n
         /\ Len(Rows_n(n, k)) = n /\ Len(Entries_n(n, k)) = n * k /\ Len(Hidden_n(n)) = n
         /\ \A t \in 1..n : /\ Rows_n(n, k)[t].off \in Nat /\ Rows_n(n, k)[t].cnt \in Nat
                            /\ Rows_n(n, k)[t].off + Rows_n(n, k)[t].cnt <= n * k
         /\ \A j \in 1..n * k : Entries_n(n, k)[j].row \in 0..(n - 1)
         /\ \A t \in 1..n : Hidden_n(n)[t].size = HiddenRow
         /\ RowsRoutes(Rows_n(n, k), Entries_n(n, k)) = "ok"
<1>1. PICK m \in Nat : m = n * k
  BY Places
<1>2. /\ DOMAIN Rows_n(n, k) = 1..n /\ DOMAIN Entries_n(n, k) = 1..m /\ DOMAIN Hidden_n(n) = 1..n
      /\ Len(Rows_n(n, k)) = n /\ Len(Entries_n(n, k)) = m /\ Len(Hidden_n(n)) = n
  BY <1>1 DEF Rows_n, Entries_n, Hidden_n
<1>3. \A t \in 1..n : /\ Rows_n(n, k)[t].off = (t - 1) * k /\ Rows_n(n, k)[t].cnt = k
  BY DEF Rows_n, DecodeRow
<1>4. \A j \in 1..m : Entries_n(n, k)[j].row = (j - 1) \div k
  BY <1>1 DEF Entries_n
<1>5. /\ \A t \in 1..n : /\ Rows_n(n, k)[t].off \in Nat /\ Rows_n(n, k)[t].cnt \in Nat
                         /\ Rows_n(n, k)[t].off + Rows_n(n, k)[t].cnt <= m
      /\ \A j \in 1..m : Entries_n(n, k)[j].row \in 0..(n - 1)
  <2>1. ASSUME NEW t \in 1..n
        PROVE  /\ Rows_n(n, k)[t].off \in Nat /\ Rows_n(n, k)[t].cnt \in Nat
               /\ Rows_n(n, k)[t].off + Rows_n(n, k)[t].cnt <= m
    <3>1. (t - 1) * k \in Nat /\ (t - 1) * k + k <= n * k
      BY Places
    <3>2. QED
      BY <1>1, <1>3, <3>1
  <2>2. \A j \in 1..m : (j - 1) \div k \in 0..(n - 1)
    BY <1>1, Places
  <2>3. QED
    BY <1>4, <2>1, <2>2
<1>6. \A t \in 1..n : Hidden_n(n)[t].size = HiddenRow
  BY DEF Hidden_n
<1>7. RowsRoutes(Rows_n(n, k), Entries_n(n, k)) = "ok"
  <2>1. \A i \in 1..n : ~(Rows_n(n, k)[i].off + Rows_n(n, k)[i].cnt > m)
    <3> TAKE i \in 1..n
    <3>1. PICK a \in Nat, b \in Nat : a = Rows_n(n, k)[i].off /\ b = Rows_n(n, k)[i].cnt /\ a + b <= m
      BY <1>5
    <3>2. ~(a + b > m)
      BY <3>1
    <3>3. QED
      BY <3>1, <3>2
  <2>2. \A j \in 1..m : ~(Entries_n(n, k)[j].row >= n)
    BY <1>5
  <2>3. QED
    BY <1>2, <2>1, <2>2, RowsRoutesOk
<1>8. QED
  BY <1>1, <1>2, <1>5, <1>6, <1>7

(* What an encoder's checks come to when none fails.                       *)
LEMMA TwoClear ==
  ASSUME NEW a, NEW b, ~a, ~b
  PROVE  First(<< <<a, "DimMismatch">>, <<b, "TooShort">> >>) = "ok"
<1> DEFINE checks == << <<a, "DimMismatch">>, <<b, "TooShort">> >>
<1>1. DOMAIN checks = 1..2 /\ \A i \in 1..2 : checks[i][2] # "ok" /\ ~checks[i][1]
  OBVIOUS
<1> HIDE DEF checks
<1>2. First(checks) = "ok"
  BY <1>1, FirstOk
<1>3. QED
  BY <1>2 DEF checks

(* The same with the check of the tables at the third place.               *)
LEMMA ThreeClear ==
  ASSUME NEW a, NEW b, NEW e, ~a, ~b, e = "ok"
  PROVE  First(<< <<a, "DimMismatch">>, <<b, "TooShort">>, <<e # "ok", e>> >>) = "ok"
<1> DEFINE checks == << <<a, "DimMismatch">>, <<b, "TooShort">>, <<e # "ok", e>> >>
<1>1. DOMAIN checks = 1..3
  OBVIOUS
<1>2. checks[1][1] = a /\ checks[2][1] = b /\ checks[3][1] = (e # "ok")
  OBVIOUS
<1> HIDE DEF checks
<1>3. ~checks[1][1] /\ ~checks[2][1] /\ ~checks[3][1]
  BY <1>2
<1>4. \A i \in 1..3 : ~checks[i][1]
  BY <1>3
<1>5. First(checks) = "ok"
  BY <1>1, <1>4, FirstOk
<1>6. QED
  BY <1>5 DEF checks

(* The same among four.                                                    *)
LEMMA FourClear ==
  ASSUME NEW a, NEW b, NEW e, NEW c, ~a, ~b, e = "ok", ~c
  PROVE  First(<< <<a, "DimMismatch">>, <<b, "DimMismatch">>, <<e # "ok", e>>, <<c, "DimMismatch">> >>) = "ok"
<1> DEFINE checks == << <<a, "DimMismatch">>, <<b, "DimMismatch">>, <<e # "ok", e>>, <<c, "DimMismatch">> >>
<1>1. DOMAIN checks = 1..4
  OBVIOUS
<1>2. checks[1][1] = a /\ checks[2][1] = b /\ checks[3][1] = (e # "ok") /\ checks[4][1] = c
  OBVIOUS
<1> HIDE DEF checks
<1>3. ~checks[1][1] /\ ~checks[2][1] /\ ~checks[3][1] /\ ~checks[4][1]
  BY <1>2
<1>4. \A i \in 1..4 : ~checks[i][1]
  BY <1>3
<1>5. First(checks) = "ok"
  BY <1>1, <1>4, FirstOk
<1>6. QED
  BY <1>5 DEF checks

(* The buffer has room for every sample.                                   *)
LEMMA RoomEnough ==
  ASSUME NEW n \in 1..MaxRows, NEW k \in 1..TopK
  PROVE  ~(Buffer < DescLen * n + RouteLen * (n * k) + HiddenRow * n)
<1>1. DescLen \in Nat /\ RouteLen \in Nat /\ HiddenRow \in Nat /\ TopK \in Nat /\ MaxRows \in Nat
  <2>1. Hidden \in Nat /\ K32 \in Nat \ {0}
    BY FrameAssumption
  <2>2. Hidden \div K32 \in Nat
    BY <2>1, DivIs
  <2>3. QED
    BY <2>1, <2>2, FrameAssumption, LadderAssumption DEF HiddenRow
<1> DEFINE R == TopK * RouteLen
<1>2. R \in Nat /\ Buffer = (DescLen + HiddenRow + R) * MaxRows
  BY <1>1 DEF Buffer, RequestRow
<1>3. DescLen * n <= DescLen * MaxRows /\ HiddenRow * n <= HiddenRow * MaxRows
  BY <1>1, MulGrows
<1>4. RouteLen * (n * k) <= R * MaxRows
  <2>1. n * k \in Nat /\ n * k <= n * TopK /\ n * TopK \in Nat
    BY <1>1, MulGrows
  <2>2. RouteLen * (n * k) <= RouteLen * (n * TopK)
    BY <1>1, <2>1, MulGrows
  <2>3. RouteLen * (n * TopK) = R * n
    BY <1>1
  <2>4. R * n <= R * MaxRows
    BY <1>1, <1>2, MulGrows
  <2>5. RouteLen * (n * k) \in Nat
    BY <1>1, <2>1
  <2>6. R * n \in Nat /\ R * MaxRows \in Nat
    BY <1>1, <1>2
  <2>7. QED
    BY <2>2, <2>3, <2>4, <2>5, <2>6
<1>5. PICK a \in Nat, b \in Nat, c \in Nat, A \in Nat, B \in Nat, C \in Nat :
        /\ a = DescLen * n /\ b = RouteLen * (n * k) /\ c = HiddenRow * n
        /\ A = DescLen * MaxRows /\ B = R * MaxRows /\ C = HiddenRow * MaxRows
  <2>1. n * k \in Nat
    BY <1>1
  <2>2. /\ DescLen * n \in Nat /\ RouteLen * (n * k) \in Nat /\ HiddenRow * n \in Nat
        /\ DescLen * MaxRows \in Nat /\ R * MaxRows \in Nat /\ HiddenRow * MaxRows \in Nat
    <3> HIDE DEF R
    <3>1. QED
      BY <1>1, <1>2, <2>1
  <2>3. QED
    BY <2>2
<1> HIDE DEF R
<1>6. Buffer = A + C + B
  BY <1>1, <1>2, <1>5
<1>7. a <= A /\ b <= B /\ c <= C
  BY <1>3, <1>4, <1>5
<1>8. ~(A + C + B < a + b + c)
  BY <1>7
<1>9. QED
  BY <1>5, <1>6, <1>8

(* What the encoder in place writes.                                       *)
LEMMA SampleIs ==
  ASSUME NEW n \in 1..MaxRows, NEW k \in 1..TopK
  PROVE  Sample(n, k) = SampleFrame(n, k)
<1>0. n \in Nat \ {0} /\ k \in Nat \ {0}
  BY LadderAssumption
<1>1. PICK m \in Nat : m = n * k /\ m \div k = n /\ m % k = 0
  BY <1>0, Places
<1> DEFINE experts == [j \in 1..m |-> j % 2]
           hid == [t \in 1..n |-> [size |-> HiddenRow, data |-> Partial(1, 1, t - 1, 0)]]
<1>2. Sample(n, k) = EncodeMeta(Buffer, 1, 1, 0, 0, experts, k, hid)
  BY <1>1, Zenon DEF Sample
<1>3. hid = Hidden_n(n)
  BY DEF Hidden_n
<1>4. Len(experts) = m /\ \A j \in 1..m : experts[j] = j % 2
  OBVIOUS
<1> HIDE DEF experts, hid
<1>5. m > 0
  BY <1>0, <1>1
<1>6. experts # <<>>
  BY <1>4, <1>5
<1> DEFINE n1 == IF k = 0 THEN 0 ELSE Len(experts) \div k
           descs == [t \in 1..n1 |-> DecodeRow(1, t, k)]
           entries == [j \in 1..Len(experts) |-> [row |-> IF k = 0 THEN 0 ELSE (j - 1) \div k, expert |-> experts[j]]]
<1>7. n1 = n
  BY <1>0, <1>1, <1>4
<1>8. descs = Rows_n(n, k)
  BY <1>7 DEF Rows_n
<1>9. entries = Entries_n(n, k)
  <2>1. entries = [j \in 1..m |-> [row |-> (j - 1) \div k, expert |-> j % 2]]
    BY <1>0, <1>4
  <2>2. QED
    BY <1>1, <2>1 DEF Entries_n
<1> DEFINE a == k = 0 \/ experts = <<>> \/ Len(experts) % k # 0
           b == Buffer < DescLen * n1 + RouteLen * Len(experts) + HiddenRow * n1
           e == RowsRoutes(descs, entries)
           err == First(<< <<a, "DimMismatch">>, <<b, "TooShort">>, <<e # "ok", e>> >>)
<1>10. EncodeMeta(Buffer, 1, 1, 0, 0, experts, k, hid)
         = IF err # "ok" THEN [err |-> err] ELSE Request(1, 1, 0, 0, "Decode", descs, entries, hid)
  BY Zenon DEF EncodeMeta
<1>11. ~a
  BY <1>0, <1>1, <1>4, <1>6
<1>12. ~b
  BY <1>1, <1>4, <1>7, RoomEnough
<1>13. e = "ok"
  BY <1>0, <1>8, <1>9, SampleTables
<1> HIDE DEF a, b, e, n1, descs, entries
<1>14. err = "ok"
  BY <1>11, <1>12, <1>13, ThreeClear
<1> HIDE DEF err
<1>15. QED
  BY <1>2, <1>3, <1>8, <1>9, <1>10, <1>14 DEF SampleFrame

\* What a request's header says.
RequestHas(f, descs, entries, hid) ==
  /\ f = [x \in DOMAIN f |-> f[x]]
  /\ {"req", "layer", "exec", "tok", "rows", "seq", "magic", "version", "kind", "hlen", "dim", "crc", "dtype", "sk",
      "routes", "descBytes", "routeBytes", "payload", "wire", "len", "flags", "stride", "status",
      "descs", "entries", "hid"} \subseteq DOMAIN f
  /\ f.req = 1 /\ f.layer = 1 /\ f.exec = 0 /\ f.sk = "Decode"
  /\ f.rows = Len(descs) /\ f.routes = Len(entries) /\ f.descBytes = DescLen * Len(descs)
  /\ f.routeBytes = RouteLen * Len(entries) /\ f.stride = HiddenRow
  /\ f.len = HeaderLen + (DescLen * Len(descs) + RouteLen * Len(entries) + HiddenRow * Len(descs))
  /\ f.descs = descs /\ f.entries = entries /\ f.hid = hid

(* The fields of a request.                                                *)
LEMMA RequestFields ==
  ASSUME NEW descs, NEW entries, NEW hid
  PROVE  RequestHas(Request(1, 1, 0, 0, "Decode", descs, entries, hid), descs, entries, hid)
<1> DEFINE n == Len(descs)
           m == Len(entries)
           body == DescLen * n + RouteLen * m + HiddenRow * n
           H == Header("request", 1, 1, 0, 0, n)
           E == [dtype |-> "Ue8m0K32", sk |-> "Decode", routes |-> m, descBytes |-> DescLen * n, routeBytes |-> RouteLen * m,
       payload |-> HiddenRow * n, logical |-> RequestRow * n, wire |-> HeaderLen + body,
       len |-> HeaderLen + body, flags |-> {}, stride |-> HiddenRow, status |-> "Ok",
       descs |-> descs, entries |-> entries, hid |-> hid]
           G == Request(1, 1, 0, 0, "Decode", descs, entries, hid)
<1>1. G = With(H, E)
  BY Zenon DEF Request
<1> HIDE DEF n, m, body
<1>2. /\ H.req = 1 /\ H.layer = 1 /\ H.exec = 0 /\ H.rows = n
      /\ DOMAIN H = {"magic", "version", "kind", "hlen", "req", "layer", "exec", "seq", "rows", "dim", "tok", "crc"}
  BY DEF Header
<1>3. /\ E.sk = "Decode" /\ E.routes = m /\ E.descBytes = DescLen * n /\ E.routeBytes = RouteLen * m
      /\ E.stride = HiddenRow /\ E.len = HeaderLen + body /\ E.descs = descs /\ E.entries = entries /\ E.hid = hid
      /\ DOMAIN E = {"dtype", "sk", "routes", "descBytes", "routeBytes", "payload", "logical", "wire", "len", "flags",
                     "stride", "status", "descs", "entries", "hid"}
  OBVIOUS
<1> HIDE DEF H, E, G
<1>4. /\ G = [x \in DOMAIN G |-> G[x]] /\ DOMAIN G = DOMAIN H \cup DOMAIN E
      /\ \A x \in DOMAIN H : G[x] = H[x]
      /\ \A x \in DOMAIN E \ DOMAIN H : G[x] = E[x]
  BY <1>1 DEF With
<1>5. /\ G.req = 1 /\ G.layer = 1 /\ G.exec = 0 /\ G.rows = n
      /\ G.sk = "Decode" /\ G.routes = m /\ G.descBytes = DescLen * n /\ G.routeBytes = RouteLen * m
      /\ G.stride = HiddenRow /\ G.len = HeaderLen + body /\ G.descs = descs /\ G.entries = entries /\ G.hid = hid
  BY <1>2, <1>3, <1>4
<1>6. RequestHas(G, descs, entries, hid)
  BY <1>2, <1>3, <1>4, <1>5 DEF RequestHas, n, m, body
<1>7. QED
  BY <1>6 DEF G

(* The other two encoders write the same frame for the same rows.          *)
LEMMA EncodersAgree ==
  ASSUME NEW n \in 1..MaxRows, NEW k \in 1..TopK
  PROVE  LET whole == Sample(n, k)
             fr == [req |-> 1, layer |-> 1, exec |-> 0, sk |-> "Decode", rows |-> whole.descs, routes |-> whole.entries,
                    hidden |-> whole.hid]
         IN  /\ EncodeRequest(fr, 0, TRUE) = whole
             /\ EncodeDesc(Buffer, 1, 1, 0, 0, n, k, whole.entries, whole.hid) = whole
<1>0. n \in Nat \ {0} /\ k \in Nat \ {0}
  BY LadderAssumption
<1> DEFINE D == Rows_n(n, k)
           T == Entries_n(n, k)
           X == Hidden_n(n)
           whole == Sample(n, k)
           fr == [req |-> 1, layer |-> 1, exec |-> 0, sk |-> "Decode", rows |-> whole.descs, routes |-> whole.entries,
                    hidden |-> whole.hid]
<1>1. whole = Request(1, 1, 0, 0, "Decode", D, T, X)
  BY SampleIs DEF SampleFrame
<1>2. RequestHas(Request(1, 1, 0, 0, "Decode", D, T, X), D, T, X)
  BY RequestFields
<1>3. whole.descs = D /\ whole.entries = T /\ whole.hid = X
  BY <1>1, <1>2 DEF RequestHas
<1>4. /\ DOMAIN D = 1..n /\ DOMAIN X = 1..n /\ Len(D) = n /\ Len(T) = n * k /\ Len(X) = n
      /\ \A t \in 1..n : X[t].size = HiddenRow
      /\ RowsRoutes(D, T) = "ok"
  BY <1>0, SampleTables
<1> HIDE DEF whole
<1>5. /\ fr.req = 1 /\ fr.layer = 1 /\ fr.exec = 0 /\ fr.sk = "Decode" /\ fr.rows = D /\ fr.routes = T /\ fr.hidden = X
  BY <1>3
<1> HIDE DEF D, T, X, fr
<1>6. EncodeRequest(fr, 0, TRUE) = whole
  <2> DEFINE a == fr.rows = <<>>
             b == Len(fr.hidden) # Len(fr.rows)
             e == RowsRoutes(fr.rows, fr.routes)
             c == \E i \in DOMAIN fr.hidden : fr.hidden[i].size # HiddenRow
             err == First(<< <<a, "DimMismatch">>, <<b, "DimMismatch">>, <<e # "ok", e>>, <<c, "DimMismatch">> >>)
  <2>1. EncodeRequest(fr, 0, TRUE) =
          IF err # "ok" THEN [err |-> err]
          ELSE Seal(Request(fr.req, fr.layer, fr.exec, 0, fr.sk, fr.rows, fr.routes, fr.hidden), TRUE)
    BY Zenon DEF EncodeRequest
  <2>2. ~a
    BY <1>0, <1>4, <1>5
  <2>3. ~b
    BY <1>4, <1>5
  <2>4. e = "ok"
    BY <1>4, <1>5
  <2>5. ~c
    BY <1>4, <1>5
  <2> HIDE DEF a, b, c, e
  <2>6. err = "ok"
    BY <2>2, <2>3, <2>4, <2>5, FourClear
  <2> HIDE DEF err
  <2>7. Request(fr.req, fr.layer, fr.exec, 0, fr.sk, fr.rows, fr.routes, fr.hidden) = whole
    BY <1>1, <1>5
  <2>8. QED
    BY <2>1, <2>6, <2>7 DEF Seal
<1>7. EncodeDesc(Buffer, 1, 1, 0, 0, n, k, whole.entries, whole.hid) = whole
  <2> DEFINE a == n = 0 \/ k = 0 \/ k > TopK
             b == Buffer < DescLen * n + RouteLen * n * k + HiddenRow * n
             err == First(<< <<a, "DimMismatch">>, <<b, "TooShort">> >>)
  <2>1. EncodeDesc(Buffer, 1, 1, 0, 0, n, k, whole.entries, whole.hid) =
          IF err # "ok" THEN [err |-> err]
          ELSE Request(1, 1, 0, 0, "Decode", [t \in 1..n |-> DecodeRow(1, t, k)], whole.entries, whole.hid)
    BY Zenon DEF EncodeDesc
  <2>2. ~a
    BY <1>0, LadderAssumption
  <2>3. ~b
    <3>1. RouteLen * n * k = RouteLen * (n * k)
      <4>1. RouteLen \in Nat
        BY FrameAssumption
      <4>2. QED
        BY <1>0, <4>1
    <3>2. QED
      BY <3>1, RoomEnough
  <2> HIDE DEF a, b
  <2>4. err = "ok"
    BY <2>2, <2>3, TwoClear
  <2> HIDE DEF err
  <2>5. [t \in 1..n |-> DecodeRow(1, t, k)] = D
    BY DEF D, Rows_n
  <2>6. QED
    BY <1>1, <1>3, <2>1, <2>4, <2>5
<1>8. QED
  BY <1>6, <1>7, Zenon DEF whole, fr

\* A record that differs from S at x at most.
Changed(f, S, x) == /\ f = [y \in DOMAIN f |-> f[y]] /\ DOMAIN f = DOMAIN S
                    /\ \A y \in DOMAIN S : y # x => f[y] = S[y]

\* A record with a checksum and such a body.
Framed(f, n) ==
  \E m \in Nat : /\ Bodied(f, n, m) /\ f = [x \in DOMAIN f |-> f[x]]
                 /\ {"crc", "descs", "entries", "hid", "rows", "routes", "stride", "len", "descBytes", "routeBytes"}
                      \subseteq DOMAIN f

(* The sample, and whatever damage makes of it, has such a body.           *)
LEMMA WrongBodied ==
  ASSUME NEW n \in 1..MaxRows, NEW k \in 1..TopK, NEW f \in Wrong(Sample(n, k)) \cup {Sample(n, k)}
  PROVE  Framed(f, n)
<1>0. n \in Nat \ {0} /\ k \in Nat \ {0}
  BY LadderAssumption
<1>1. PICK m \in Nat : m = n * k /\ m >= 1
  <2>1. n * k \in Nat /\ n * k >= 1
    BY <1>0
  <2>2. QED
    BY <2>1
<1> DEFINE D == Rows_n(n, k)
           T == Entries_n(n, k)
           X == Hidden_n(n)
           S == Sample(n, k)
<1>2. RequestHas(S, D, T, X)
  BY SampleIs, RequestFields DEF SampleFrame
<1>3. Listing(D, n) /\ Listing(T, m) /\ Listing(X, n)
  BY <1>1 DEF Listing, D, T, X, Rows_n, Entries_n, Hidden_n
<1>4. /\ DOMAIN D = 1..n /\ DOMAIN X = 1..n /\ DOMAIN T = 1..m /\ Len(D) = n /\ Len(T) = m /\ Len(X) = n
      /\ \A i \in 1..n : D[i].off \in Nat /\ D[i].cnt \in Nat
      /\ \A j \in 1..m : T[j].row \in Nat
  <2>1. \A j \in 1..m : T[j].row \in 0..(n - 1)
    BY <1>0, <1>1, SampleTables
  <2>2. 0..(n - 1) \subseteq Nat
    BY <1>0
  <2>3. QED
    BY <1>0, <1>1, <2>1, <2>2, SampleTables
<1>5. D[1].off + 1 \in Nat /\ D[1].cnt + 1 \in Nat /\ T[1].row + 2 \in Nat /\ 1 \in 1..n /\ 1 \in 1..m
  <2>1. 1 \in 1..n /\ 1 \in 1..m
    BY <1>0, <1>1
  <2>2. QED
    BY <2>1, <1>4
<1>6. /\ \A i \in 1..n : {"off", "cnt", "sk"} \subseteq DOMAIN D[i]
      /\ \A j \in 1..m : "row" \in DOMAIN T[j]
  BY <1>1 DEF D, T, Rows_n, Entries_n, DecodeRow
<1>7. PICK dl \in Nat \ {0}, rl \in Nat \ {0}, hr \in Nat, hl \in Nat \ {0}, len \in Nat :
        /\ dl = DescLen /\ rl = RouteLen /\ hr = HiddenRow /\ hl = HeaderLen
        /\ len = HeaderLen + (DescLen * n + RouteLen * m + HiddenRow * n) /\ len >= 1
  <2>1. DescLen \in Nat \ {0} /\ RouteLen \in Nat \ {0} /\ HeaderLen \in Nat \ {0} /\ Hidden \in Nat /\ K32 \in Nat \ {0}
    BY FrameAssumption
  <2>2. Hidden \div K32 \in Nat
    BY <2>1, DivIs
  <2>3. HiddenRow \in Nat
    BY <2>1, <2>2 DEF HiddenRow
  <2>4. DescLen * n \in Nat /\ RouteLen * m \in Nat /\ HiddenRow * n \in Nat
    BY <2>1, <2>3, <1>0
  <2>5. QED
    BY <2>1, <2>3, <2>4
<1> HIDE DEF S, D, T, X
<1> DEFINE Names == {"req", "layer", "exec", "tok", "rows", "seq", "magic", "version", "kind", "hlen", "dim", "crc", "dtype", "sk",
      "routes", "descBytes", "routeBytes", "payload", "wire", "len", "flags", "stride", "status",
      "descs", "entries", "hid"}
<1>8. /\ S = [x \in DOMAIN S |-> S[x]] /\ Names \subseteq DOMAIN S
      /\ S.rows = n /\ S.routes = m /\ S.descBytes = dl * n /\ S.routeBytes = rl * m /\ S.stride = hr /\ S.len = len
      /\ S.descs = D /\ S.entries = T /\ S.hid = X
  BY <1>2, <1>4, <1>7 DEF RequestHas
<1>9. ASSUME /\ f = [x \in DOMAIN f |-> f[x]] /\ DOMAIN f = DOMAIN S
             /\ Listing(f.descs, n) /\ Listing(f.entries, m) /\ Listing(f.hid, n)
             /\ \A i \in 1..n : f.descs[i].off \in Nat /\ f.descs[i].cnt \in Nat
             /\ \A j \in 1..m : f.entries[j].row \in Nat
             /\ f.rows \in Nat /\ f.routes \in Nat /\ f.stride \in Nat /\ f.len \in Nat
             /\ Fits(f, n, m)
      PROVE  Framed(f, n)
  <2>1. Bodied(f, n, m)
    BY <1>7, <1>9 DEF Bodied
  <2>2. QED
    BY <1>1, <1>8, <1>9, <2>1 DEF Framed
<1>10. ASSUME NEW x \in Names, Changed(f, S, x),
              \/ x \notin {"rows", "routes", "stride", "len", "descs", "entries", "hid"}
              \/ x = "stride" /\ f.stride \in Nat
              \/ x = "len" /\ f.len \in Nat
              \/ x = "rows" /\ f.rows = 0
       PROVE  Framed(f, n)
  <2>1. /\ f = [y \in DOMAIN f |-> f[y]] /\ DOMAIN f = DOMAIN S
        /\ \A y \in DOMAIN S : y # x => f[y] = S[y]
    BY <1>10 DEF Changed
  <2>2. f.descs = D /\ f.entries = T /\ f.hid = X
    BY <1>8, <1>10, <2>1
  <2>3. f.rows \in Nat /\ f.routes \in Nat /\ f.stride \in Nat /\ f.len \in Nat
    BY <1>0, <1>1, <1>7, <1>8, <1>10, <2>1
  <2>4. (f.rows = n /\ f.routes = m) \/ f.rows = 0
    BY <1>8, <1>10, <2>1
  <2>5. Fits(f, n, m)
    BY <2>4 DEF Fits
  <2>6. QED
    BY <1>3, <1>4, <1>9, <2>1, <2>2, <2>3, <2>5
<1>11. ASSUME f = S
       PROVE  Framed(f, n)
  BY <1>0, <1>1, <1>3, <1>4, <1>7, <1>8, <1>9, <1>11 DEF Fits
<1>12. ASSUME f = [S EXCEPT !.rows = @ + 1]
       PROVE  Framed(f, n)
  <2>1. dl * n # (n + 1) * dl
    BY <1>0, <1>7
  <2>2. /\ f = [y \in DOMAIN f |-> f[y]] /\ DOMAIN f = DOMAIN S
        /\ \A y \in DOMAIN S : f[y] = IF y = "rows" THEN n + 1 ELSE S[y]
    BY <1>8, <1>12
  <2>3. f.descs = D /\ f.entries = T /\ f.hid = X /\ f.rows = n + 1 /\ f.routes = m /\ f.stride = hr /\ f.len = len /\ f.descBytes = dl * n
    BY <1>8, <2>2
  <2>4. f.descBytes # f.rows * dl
    BY <2>1, <2>3
  <2>5. Fits(f, n, m)
    BY <1>7, <2>4 DEF Fits
  <2>6. n + 1 \in Nat /\ m + 1 \in Nat /\ n \in Nat
    BY <1>0, <1>1
  <2>7. QED
    BY <2>6, <1>1, <1>3, <1>4, <1>7, <1>9, <2>2, <2>3, <2>5
<1>13. ASSUME f = [S EXCEPT !.routes = @ + 1]
       PROVE  Framed(f, n)
  <2>1. rl * m # (m + 1) * rl
    BY <1>1, <1>7
  <2>2. /\ f = [y \in DOMAIN f |-> f[y]] /\ DOMAIN f = DOMAIN S
        /\ \A y \in DOMAIN S : f[y] = IF y = "routes" THEN m + 1 ELSE S[y]
    BY <1>8, <1>13
  <2>3. f.descs = D /\ f.entries = T /\ f.hid = X /\ f.rows = n /\ f.routes = m + 1 /\ f.stride = hr /\ f.len = len /\ f.routeBytes = rl * m
    BY <1>8, <2>2
  <2>4. f.routeBytes # f.routes * rl
    BY <2>1, <2>3
  <2>5. Fits(f, n, m)
    BY <1>7, <2>4 DEF Fits
  <2>6. n + 1 \in Nat /\ m + 1 \in Nat /\ n \in Nat
    BY <1>0, <1>1
  <2>7. QED
    BY <2>6, <1>1, <1>3, <1>4, <1>7, <1>9, <2>2, <2>3, <2>5
<1>14. ASSUME NEW d, f = [S EXCEPT !.descs = d],
              Listing(d, n), \A i \in 1..n : d[i].off \in Nat /\ d[i].cnt \in Nat
       PROVE  Framed(f, n)
  <2>1. /\ f = [y \in DOMAIN f |-> f[y]] /\ DOMAIN f = DOMAIN S
        /\ \A y \in DOMAIN S : f[y] = IF y = "descs" THEN d ELSE S[y]
    BY <1>8, <1>14
  <2>2. f.descs = d /\ f.entries = T /\ f.hid = X /\ f.rows = n /\ f.routes = m /\ f.stride = hr /\ f.len = len
    BY <1>8, <2>1
  <2>3. QED
    BY <1>0, <1>1, <1>3, <1>4, <1>7, <1>9, <1>14, <2>1, <2>2 DEF Fits
<1>15. ASSUME NEW e, f = [S EXCEPT !.entries = e],
              Listing(e, m), \A j \in 1..m : e[j].row \in Nat
       PROVE  Framed(f, n)
  <2>1. /\ f = [y \in DOMAIN f |-> f[y]] /\ DOMAIN f = DOMAIN S
        /\ \A y \in DOMAIN S : f[y] = IF y = "entries" THEN e ELSE S[y]
    BY <1>8, <1>15
  <2>2. f.descs = D /\ f.entries = e /\ f.hid = X /\ f.rows = n /\ f.routes = m /\ f.stride = hr /\ f.len = len
    BY <1>8, <2>1
  <2>3. QED
    BY <1>0, <1>1, <1>3, <1>4, <1>7, <1>9, <1>15, <2>1, <2>2 DEF Fits
<1>16. ASSUME NEW h, f = [S EXCEPT !.hid = h], Listing(h, n)
       PROVE  Framed(f, n)
  <2>1. /\ f = [y \in DOMAIN f |-> f[y]] /\ DOMAIN f = DOMAIN S
        /\ \A y \in DOMAIN S : f[y] = IF y = "hid" THEN h ELSE S[y]
    BY <1>8, <1>16
  <2>2. f.descs = D /\ f.entries = T /\ f.hid = h /\ f.rows = n /\ f.routes = m /\ f.stride = hr /\ f.len = len
    BY <1>8, <2>1
  <2>3. QED
    BY <1>0, <1>1, <1>3, <1>4, <1>7, <1>9, <1>16, <2>1, <2>2 DEF Fits
<1>17. CASE f \in Damage(S)
  <2>2. CASE f = [S EXCEPT !.rows = @ + 1]
    BY <2>2, <1>12
  <2>3. CASE f = [S EXCEPT !.hid[1].data.req = 0]
    <3> DEFINE h == [X EXCEPT ![1].data.req = 0]
    <3>1. Listing(h, n)
      BY <1>3 DEF Listing
    <3>2. f = [S EXCEPT !.hid = h]
      BY <2>3, <1>8
    <3> HIDE DEF h
    <3>3. QED
      BY <3>1, <3>2, <1>16
  <2>5. HeaderLen - 1 \in Nat /\ S.len - 1 \in Nat /\ S.len + 1 \in Nat
    BY <1>7, <1>8
  <2>6. CASE f \in {[S EXCEPT !.len = HeaderLen - 1], [S EXCEPT !.len = @ - 1], [S EXCEPT !.len = @ + 1]}
    <3>1. Changed(f, S, "len") /\ f.len \in Nat
      BY <1>7, <1>8, <2>5, <2>6 DEF Changed
    <3>2. QED
      BY <3>1, <1>10
  <2>7. CASE f \in {[S EXCEPT !.magic = "?"], [S EXCEPT !.kind = "?"], [S EXCEPT !.seq = @ + 1],
              [S EXCEPT !.exec = (@ + 1) % Sparks], [S EXCEPT !.tok = @ + 1],
              [S EXCEPT !.req = @ + 1], [S EXCEPT !.status = "Error"], [S EXCEPT !.flags = {}]}
    <3>1. \E x \in {"magic", "kind", "seq", "exec", "tok", "req", "status", "flags"} : Changed(f, S, x)
      BY <1>8, <2>7 DEF Changed
    <3>2. QED
      BY <3>1, <1>10
  <2>8. QED
    BY <1>17, <2>2, <2>3, <2>6, <2>7 DEF Damage
<1>18. CASE f \in Wrong(S) \ Damage(S)
  <2>1. CASE f \in {[S EXCEPT !.version = 2], [S EXCEPT !.hlen = @ + 1], [S EXCEPT !.kind = "return"], [S EXCEPT !.dim = @ + 1],
   [S EXCEPT !.dtype = "Bf16"], [S EXCEPT !.dtype = "?"], [S EXCEPT !.sk = "?"], [S EXCEPT !.status = "?"],
   [S EXCEPT !.descBytes = @ + 1], [S EXCEPT !.routeBytes = @ + 1],
   [S EXCEPT !.payload = @ + 1], [S EXCEPT !.wire = @ + 1]}
    <3>1. \E x \in {"version", "hlen", "kind", "dim", "dtype", "sk", "status", "descBytes", "routeBytes", "payload", "wire"} : Changed(f, S, x)
      BY <1>8, <2>1 DEF Changed
    <3>2. QED
      BY <3>1, <1>10
  <2>2. CASE f \in {[S EXCEPT !.stride = 0], [S EXCEPT !.stride = @ + 1]}
    <3>1. Changed(f, S, "stride") /\ f.stride \in Nat
      BY <2>2, <1>7, <1>8 DEF Changed
    <3>2. QED
      BY <3>1, <1>10
  <2>3. CASE f = [S EXCEPT !.rows = 0]
    <3>1. Changed(f, S, "rows") /\ f.rows = 0
      BY <2>3, <1>8 DEF Changed
    <3>2. QED
      BY <3>1, <1>10
  <2>4. CASE f = [S EXCEPT !.routes = @ + 1]
    BY <2>4, <1>13
  <2>5. CASE f \in {[S EXCEPT !.descs[1].cnt = @ + 1], [S EXCEPT !.descs[1].off = @ + 1], [S EXCEPT !.descs[1].sk = "?"]}
    <3> DEFINE Rows1 == {[D[1] EXCEPT !.cnt = @ + 1], [D[1] EXCEPT !.off = @ + 1], [D[1] EXCEPT !.sk = "?"]}
    <3>1. PICK r, d : r \in Rows1 /\ f = [S EXCEPT !.descs = d] /\ d = [D EXCEPT ![1] = r]
      BY <2>5, <1>8
    <3>2. r.off \in Nat /\ r.cnt \in Nat
      <4>1. /\ {"off", "cnt", "sk"} \subseteq DOMAIN D[1]
            /\ D[1].off \in Nat /\ D[1].cnt \in Nat /\ D[1].off + 1 \in Nat /\ D[1].cnt + 1 \in Nat
        BY <1>4, <1>5, <1>6
      <4>2. CASE r = [D[1] EXCEPT !.cnt = @ + 1]
        BY <4>1, <4>2
      <4>3. CASE r = [D[1] EXCEPT !.off = @ + 1]
        BY <4>1, <4>3
      <4>4. CASE r = [D[1] EXCEPT !.sk = "?"]
        BY <4>1, <4>4
      <4>5. QED
        BY <3>1, <4>2, <4>3, <4>4
    <3> HIDE DEF Rows1
    <3>3. d = [i \in 1..n |-> IF i = 1 THEN r ELSE D[i]]
      BY <3>1, <1>4
    <3>4. /\ DOMAIN d = 1..n /\ d = [i \in DOMAIN d |-> d[i]]
          /\ \A i \in 1..n : d[i] = IF i = 1 THEN r ELSE D[i]
      BY <3>3
    <3>5. Listing(d, n)
      BY <3>4 DEF Listing
    <3>6. \A i \in 1..n : d[i].off \in Nat /\ d[i].cnt \in Nat
      <4> TAKE i \in 1..n
      <4>1. CASE i = 1
        BY <4>1, <3>2, <3>4
      <4>2. CASE i # 1
        <5>1. d[i] = D[i]
          BY <4>2, <3>4
        <5>2. QED
          BY <5>1, <1>4
      <4>3. QED
        BY <4>1, <4>2
    <3>7. QED
      BY <3>1, <3>5, <3>6, <1>14
  <2>6. CASE f = [S EXCEPT !.entries[1].row = @ + 2]
    <3>1. PICK e : /\ f = [S EXCEPT !.entries = e] /\ e = [T EXCEPT ![1].row = @ + 2]
      BY <2>6, <1>8
    <3>2. Listing(e, m) /\ \A j \in 1..m : e[j].row \in Nat
      BY <3>1, <1>3, <1>4, <1>5, <1>6 DEF Listing
    <3>3. QED
      BY <3>1, <3>2, <1>15
  <2>7. QED
    BY <1>18, <2>1, <2>2, <2>3, <2>4, <2>5, <2>6 DEF Wrong
<1>19. QED
  BY <1>11, <1>17, <1>18 DEF S

(* The checksum is no part of such a body.                                 *)
LEMMA SealBodied ==
  ASSUME NEW f, NEW n \in Nat, Framed(f, n), NEW off \in BOOLEAN
  PROVE  Framed(Seal(f, off), n)
<1>1. CASE off
  BY <1>1 DEF Seal
<1>2. CASE ~off
  <2> DEFINE g == Seal(f, off)
             Names == {"crc", "descs", "entries", "hid", "rows", "routes", "stride", "len", "descBytes", "routeBytes"}
  <2>1. PICK m \in Nat : Bodied(f, n, m) /\ f = [x \in DOMAIN f |-> f[x]] /\ Names \subseteq DOMAIN f
    BY Zenon DEF Framed
  <2>2. PICK c : g = [f EXCEPT !.crc = c]
    BY <1>2, Zenon DEF Seal
  <2> HIDE DEF g
  <2>3. g = [x \in DOMAIN g |-> g[x]] /\ DOMAIN g = DOMAIN f /\ \A x \in DOMAIN f : x # "crc" => g[x] = f[x]
    BY <2>1, <2>2
  <2>4. /\ g.descs = f.descs /\ g.entries = f.entries /\ g.hid = f.hid /\ g.rows = f.rows /\ g.routes = f.routes
        /\ g.stride = f.stride /\ g.len = f.len /\ g.descBytes = f.descBytes /\ g.routeBytes = f.routeBytes
    BY <2>1, <2>3
  <2>5. Bodied(g, n, m)
    BY <2>1, <2>4 DEF Bodied, Fits
  <2>6. Framed(g, n)
    BY <2>1, <2>3, <2>5 DEF Framed
  <2>7. QED
    BY <2>6 DEF g
<1>3. QED
  BY <1>1, <1>2

\* What the codec is given: a sample or a damaged one, its checksum made right or left, for one of the settings.
ProbeInv ==
  probe = <<>> \/ \E n \in 1..MaxRows, k \in 1..TopK, off \in BOOLEAN :
    \E f \in Wrong(Sample(n, k)) \cup {Sample(n, k)} :
      \E g \in {f, Seal(f, off)} : probe = [f |-> g, off |-> off, n |-> n, topk |-> k]

(* Only a probe sets it.                                                   *)
LEMMA ProbeNext == ASSUME ProbeInv, [Next]_vars PROVE ProbeInv'
<1>1. CASE Probe
  BY <1>1 DEF Probe, ProbeInv
<1>2. CASE UNCHANGED probe
  BY <1>2, Zenon DEF ProbeInv
<1>3. CASE UNCHANGED vars
  BY <1>2, <1>3, Zenon DEF vars
<1>4. ASSUME NEW k \in 1..Sparks, Submit(1 + (nextId % MaxRows), k) PROVE UNCHANGED probe
  BY <1>4, Zenon DEF Submit
<1>5. ASSUME NEW id \in 1..MaxTickets, CollectStart(id) \/ Retire(id) PROVE UNCHANGED probe
  BY <1>5, Zenon DEF CollectStart, Retire
<1>6. ASSUME CollectFrame \/ CollectEnd PROVE UNCHANGED probe
  BY <1>6, Zenon DEF CollectFrame, CollectEnd
<1>7. ASSUME NEW r \in Ranks, (\E s \in Statuses : Answer(r, s)) \/ Lose(r) \/ Twice(r) \/ Harm(r) \/ Receive(r)
      PROVE  UNCHANGED probe
  <2>1. ASSUME NEW s \in Statuses, Answer(r, s) PROVE UNCHANGED probe
    BY <2>1, Zenon DEF Answer
  <2>2. ASSUME Lose(r) \/ Twice(r) \/ Harm(r) PROVE UNCHANGED probe
    BY <2>2, Zenon DEF Lose, Twice, Harm, Faulty
  <2>3. ASSUME Receive(r) PROVE UNCHANGED probe
    BY <2>3, Zenon DEF Receive
  <2>4. QED
    BY <1>7, <2>1, <2>2, <2>3
<1>8. QED
  BY <1>1, <1>2, <1>3, <1>4, <1>5, <1>6, <1>7, Zenon DEF Next

(* Whatever the codec is given, its encoders and decoders agree.           *)
LEMMA ProbeTwins == ASSUME ProbeInv PROVE FrameTwins
<1> SUFFICES ASSUME probe # <<>> PROVE FrameTwins
  BY DEF FrameTwins
<1>1. PICK n \in 1..MaxRows, k \in 1..TopK, off \in BOOLEAN :
        \E f \in Wrong(Sample(n, k)) \cup {Sample(n, k)} :
          \E g \in {f, Seal(f, off)} : probe = [f |-> g, off |-> off, n |-> n, topk |-> k]
  BY Zenon DEF ProbeInv
<1>2. PICK f \in Wrong(Sample(n, k)) \cup {Sample(n, k)} :
        \E g \in {f, Seal(f, off)} : probe = [f |-> g, off |-> off, n |-> n, topk |-> k]
  BY <1>1
<1>3. PICK g \in {f, Seal(f, off)} : probe = [f |-> g, off |-> off, n |-> n, topk |-> k]
  BY <1>2
<1>4. n \in Nat
  BY LadderAssumption
<1>5. Framed(f, n)
  BY WrongBodied
<1>6. Framed(g, n)
  BY <1>3, <1>4, <1>5, SealBodied
<1>7. PICK m \in Nat : Bodied(g, n, m)
  BY <1>6 DEF Framed
<1>8. probe.f = g /\ probe.off = off /\ probe.n = n /\ probe.topk = k
  BY <1>3
<1>9. QED
  BY <1>4, <1>7, <1>8, Twins, EncodersAgree, Zenon DEF FrameTwins

-----------------------------------------------------------------------------
(* The expert side. *)

\* A step of the expert side is one of the ladder's and one of the TCP fallback's, or leaves them alone.
LEMMA BackSteps ==
  ASSUME [BackNext]_<<part, vars, lane, tcp, ffn, slices>>
  PROVE  [Next]_vars /\ (Tcp!Next \/ UNCHANGED tcp)
<1>1. CASE LadderStep
  BY <1>1, Zenon DEF LadderStep
<1>2. CASE LaneStep
  BY <1>2, Zenon DEF LaneStep
<1>3. CASE TcpStep
  BY <1>3, Zenon DEF TcpStep
<1>4. CASE FfnStep
  BY <1>4, Zenon DEF FfnStep
<1>5. CASE SlicesStep
  BY <1>5, Zenon DEF SlicesStep
<1>6. CASE UNCHANGED <<part, vars, lane, tcp, ffn, slices>>
  BY <1>6, Zenon
<1>7. QED
  BY <1>1, <1>2, <1>3, <1>4, <1>5, <1>6, Zenon DEF BackNext

(* Whatever is lost, repeated, reordered or damaged on the way, a sum      *)
(* collect hands out has every Spark's partial of every row of that        *)
(* request once, in rank order.                                            *)
THEOREM SumAlwaysExact == BackSpec => []SumExact
<1>1. BackInit => LadderInv
  BY LadderInit DEF BackInit
<1>2. LadderInv /\ [BackNext]_<<part, vars, lane, tcp, ffn, slices>> => LadderInv'
  BY LadderNext, BackSteps
<1>3. LadderInv => SumExact
  BY DEF LadderInv
<1>4. QED
  BY <1>1, <1>2, <1>3, PTL DEF BackSpec

(* What the three request encoders write for the same rows is the same     *)
(* frame, and the copying decoder and the in-place view give every frame   *)
(* that is one field from it, sealed again or not, the same answer; one    *)
(* they accept names no route and no row outside its body.                 *)
THEOREM FramesAlwaysAgree == BackSpec => []FrameTwins
<1>1. BackInit => ProbeInv
  BY Zenon DEF BackInit, Init, ProbeInv
<1>2. ProbeInv /\ [BackNext]_<<part, vars, lane, tcp, ffn, slices>> => ProbeInv'
  BY ProbeNext, BackSteps
<1>3. ProbeInv => FrameTwins
  BY ProbeTwins
<1>4. QED
  BY <1>1, <1>2, <1>3, PTL DEF BackSpec

(* Whatever timed out, failed or went away before, an exchange the TCP     *)
(* client hands out is made of every rank's answer to that exchange.       *)
THEOREM TcpAlwaysExact == BackSpec => []TcpExact
<1>1. BackInit => TcpInv
  BY TcpInit DEF BackInit
<1>2. TcpInv /\ [BackNext]_<<part, vars, lane, tcp, ffn, slices>> => TcpInv'
  BY TcpNext, BackSteps
<1>3. TcpInv => TcpExact
  BY DEF TcpInv, TcpExact
<1>4. QED
  BY <1>1, <1>2, <1>3, PTL DEF BackSpec

(* As long as nothing has failed, the client of the TCP fallback never     *)
(* waits in a write for a rank that waits in a write for it, whatever the  *)
(* socket buffers hold.                                                    *)
THEOREM NeverWriteCycle == BackSpec => []NoWriteCycle
<1>1. BackInit => TcpInv /\ Calmly
  BY TcpInit, CalmInit DEF BackInit
<1>2. TcpInv /\ Calmly /\ [BackNext]_<<part, vars, lane, tcp, ffn, slices>> => (TcpInv /\ Calmly)'
  BY TcpNext, CalmNext, BackSteps
<1>3. TcpInv /\ Calmly => NoWriteCycle
  BY CalmNoCycle DEF NoWriteCycle
<1>4. QED
  BY <1>1, <1>2, <1>3, PTL DEF BackSpec
===============================================================================
