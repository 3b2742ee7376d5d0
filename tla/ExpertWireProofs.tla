-------------------------- MODULE ExpertWireProofs --------------------------
(***************************************************************************)
(* Proofs about ExpertWire, for any number of ranks, layers, passes and    *)
(* rows, with every failure the model has.                                 *)
(*                                                                         *)
(* The invariant has three parts.  `Always` holds whatever has failed:     *)
(* buffers and slots are accounted for, and the planes of a sum that has   *)
(* not run are slots nobody posts.  `Carried` holds until a pass has been  *)
(* given up between claim and post: what a frame's header says is what its *)
(* rows are.  What FailsClosed needs is that the wire is either `InStep`,  *)
(* every count on both sides agreeing with the exchanges in flight, or     *)
(* `Lost`: some rank's next acceptable return is of an exchange older than *)
(* any the coordinator will ask for, so no sum ever starts again.          *)
(***************************************************************************)
EXTENDS ExpertWire, Integers, Sequences, FiniteSets, Functions, FiniteSetTheorems,
        FunctionTheorems, SequenceTheorems, NaturalsInduction, TLAPS

\* s lists each element of S once, and no other.
Lists(s, S) ==
  /\ s \in Seq(S)
  /\ \A x \in S : \E i \in 1..Len(s) : s[i] = x
  /\ \A i, k \in 1..Len(s) : s[i] = s[k] => i = k

(* A sequence is one of the elements it has.                               *)
LEMMA Retyped ==
  ASSUME NEW S, NEW T, NEW s \in Seq(S), \A i \in 1..Len(s) : s[i] \in T
  PROVE  s \in Seq(T)
<1>1. Len(s) \in Nat /\ s \in [1..Len(s) -> T]
  OBVIOUS
<1>2. QED
  BY <1>1, SeqDef

(* The elements of a sequence with one more at its end.                    *)
LEMMA AppendAt ==
  ASSUME NEW S, NEW s \in Seq(S), NEW x \in S
  PROVE  /\ Append(s, x) \in Seq(S) /\ Len(s) \in Nat /\ Len(Append(s, x)) = Len(s) + 1
         /\ \A i \in 1..Len(s) : i \in 1..Len(Append(s, x)) /\ Append(s, x)[i] = s[i]
         /\ Append(s, x)[Len(s) + 1] = x
         /\ \A i \in 1..Len(Append(s, x)) : \/ i \in 1..Len(s) /\ Append(s, x)[i] = s[i]
                                            \/ i = Len(s) + 1 /\ Append(s, x)[i] = x
<1>1. /\ Append(s, x) \in Seq(S) /\ Len(s) \in Nat /\ Len(Append(s, x)) = Len(s) + 1
      /\ \A i \in 1..Len(s) : Append(s, x)[i] = s[i]
      /\ Append(s, x)[Len(s) + 1] = x
  BY AppendProperties
<1> DEFINE a == Append(s, x)
           n == Len(s)
<1> HIDE DEF a, n
<1>2. /\ \A i \in 1..n : i \in 1..(n + 1)
      /\ \A i \in 1..(n + 1) : i \in 1..n \/ i = n + 1
  BY <1>1 DEF n
<1>3. QED
  BY <1>1, <1>2 DEF n

(* The elements of a sequence without its first.                           *)
LEMMA TailAt ==
  ASSUME NEW S, NEW s \in Seq(S), s # <<>>
  PROVE  /\ Head(s) \in S /\ Head(s) = s[1] /\ 1 \in 1..Len(s)
         /\ Tail(s) \in Seq(S) /\ Len(s) \in Nat \ {0} /\ Len(Tail(s)) = Len(s) - 1
         /\ \A i \in 1..Len(Tail(s)) : i + 1 \in 1..Len(s) /\ Tail(s)[i] = s[i + 1]
<1>1. /\ Tail(s) \in Seq(S) /\ Len(s) \in Nat \ {0} /\ Len(Tail(s)) = Len(s) - 1
      /\ Head(s) = s[1] /\ Head(s) \in S
      /\ \A i \in 1..(Len(s) - 1) : Tail(s)[i] = s[i + 1]
  BY HeadTailProperties
<1> DEFINE n == Len(s)
<1> HIDE DEF n
<1>2. 1 \in 1..n /\ \A i \in 1..(n - 1) : i + 1 \in 1..n
  BY <1>1 DEF n
<1>3. QED
  BY <1>1, <1>2 DEF n

(* What it means to list a set, part by part.                              *)
LEMMA ListsHas ==
  ASSUME NEW s, NEW S, Lists(s, S)
  PROVE  /\ Len(s) \in Nat /\ s \in Seq(S)
         /\ \A k \in 1..Len(s) : s[k] \in S
         /\ \A y \in S : \E k \in 1..Len(s) : s[k] = y
         /\ \A k, m \in 1..Len(s) : s[k] = s[m] => k = m
<1>1. /\ s \in Seq(S)
      /\ \A y \in S : \E k \in 1..Len(s) : s[k] = y
      /\ \A k, m \in 1..Len(s) : s[k] = s[m] => k = m
  BY Zenon DEF Lists
<1>2. Len(s) \in Nat
  BY <1>1, LenProperties
<1>3. \A k \in 1..Len(s) : s[k] \in S
  BY <1>1, ElementOfSeq
<1>4. QED
  BY <1>1, <1>2, <1>3

(* A new element at the end.                                               *)
LEMMA ListsAppend ==
  ASSUME NEW s, NEW S, Lists(s, S), NEW x, x \notin S
  PROVE  Lists(Append(s, x), S \cup {x})
<1> DEFINE b == Append(s, x)
           n == Len(s)
<1>1. s \in Seq(S \cup {x}) /\ n \in Nat
  <2>1. s \in Seq(S) /\ \A i \in 1..Len(s) : s[i] \in S \cup {x}
    BY DEF Lists
  <2>2. QED
    BY <2>1, Retyped
<1>2. /\ b \in Seq(S \cup {x}) /\ Len(b) = n + 1
      /\ \A i \in 1..n : b[i] = s[i]
      /\ b[n + 1] = x
  BY <1>1, AppendProperties
<1>3. 1..(n + 1) = (1..n) \cup {n + 1} /\ n + 1 \notin 1..n
  BY <1>1
<1>4. /\ \A i \in 1..n : s[i] \in S
      /\ \A y \in S : \E i \in 1..n : s[i] = y
      /\ \A i, k \in 1..n : s[i] = s[k] => i = k
  BY ListsHas
<1> HIDE DEF b, n
<1>5. \A i \in 1..Len(b) : b[i] \in S \cup {x}
  BY <1>2, <1>3, <1>4
<1>6. \A y \in S \cup {x} : \E i \in 1..Len(b) : b[i] = y
  BY <1>2, <1>3, <1>4
<1>7. \A i, k \in 1..Len(b) : b[i] = b[k] => i = k
  BY <1>2, <1>3, <1>4
<1>8. Lists(b, S \cup {x})
  BY <1>2, <1>4, <1>5, <1>6, <1>7 DEF Lists
<1>9. QED
  BY <1>8 DEF b

(* The first element taken out.                                            *)
LEMMA ListsTail ==
  ASSUME NEW s, NEW S, Lists(s, S), s # <<>>
  PROVE  Head(s) \in S /\ Lists(Tail(s), S \ {Head(s)})
<1> DEFINE n == Len(s)
           b == Tail(s)
<1>1. /\ n \in Nat /\ s \in Seq(S)
      /\ \A k \in 1..n : s[k] \in S
      /\ \A y \in S : \E k \in 1..n : s[k] = y
      /\ \A k, m \in 1..n : s[k] = s[m] => k = m
  BY ListsHas
<1>2. /\ b \in Seq(S) /\ Len(b) = n - 1 /\ n >= 1 /\ Head(s) = s[1]
      /\ \A k \in 1..(n - 1) : b[k] = s[k + 1]
  BY <1>1, HeadTailProperties
<1> HIDE DEF b, n
<1>3. 1 \in 1..n /\ \A k \in 1..(n - 1) : k + 1 \in 1..n /\ k + 1 # 1
  BY <1>1, <1>2
<1>4. \A k \in 1..(n - 1) : b[k] \in S /\ b[k] # s[1]
  BY <1>1, <1>2, <1>3
<1>5. ASSUME NEW y \in S, y # s[1] PROVE \E k \in 1..(n - 1) : b[k] = y
  <2>1. PICK m \in 1..n : s[m] = y
    BY <1>1, <1>5
  <2>2. m # 1
    BY <1>5, <2>1
  <2>3. PICK i \in 1..(n - 1) : i + 1 = m
    BY <1>1, <2>1, <2>2
  <2>4. b[i] = s[m]
    BY <1>2, <2>3
  <2>5. QED
    BY <2>1, <2>3, <2>4
<1>6. \A k, m \in 1..(n - 1) : b[k] = b[m] => k = m
  BY <1>1, <1>2, <1>3
<1>7. s[1] \in S
  BY <1>1, <1>3
<1>8. Lists(b, S \ {s[1]})
  <2>1. b \in Seq(S \ {s[1]})
    BY <1>2, <1>4, Retyped
  <2>2. QED
    BY <1>2, <1>5, <1>6, <2>1 DEF Lists
<1>9. QED
  BY <1>2, <1>7, <1>8 DEF b

(* One list after the other.                                               *)
LEMMA ListsConcat ==
  ASSUME NEW s, NEW S, Lists(s, S), NEW t, NEW T, Lists(t, T), S \cap T = {}
  PROVE  Lists(s \o t, S \cup T)
<1> DEFINE n == Len(s)
           m == Len(t)
           b == s \o t
<1>1. /\ n \in Nat /\ s \in Seq(S)
      /\ \A k \in 1..n : s[k] \in S
      /\ \A y \in S : \E k \in 1..n : s[k] = y
      /\ \A k, l \in 1..n : s[k] = s[l] => k = l
  BY ListsHas
<1>2. /\ m \in Nat /\ t \in Seq(T)
      /\ \A k \in 1..m : t[k] \in T
      /\ \A y \in T : \E k \in 1..m : t[k] = y
      /\ \A k, l \in 1..m : t[k] = t[l] => k = l
  BY ListsHas
<1>3. /\ b \in Seq(S \cup T) /\ Len(b) = n + m
      /\ \A k \in 1..(n + m) : b[k] = IF k <= n THEN s[k] ELSE t[k - n]
  <2>1. s \in Seq(S \cup T) /\ t \in Seq(S \cup T)
    <3>1. \A k \in 1..Len(s) : s[k] \in S \cup T
      BY <1>1
    <3>2. \A k \in 1..Len(t) : t[k] \in S \cup T
      BY <1>2
    <3>3. QED
      BY <1>1, <1>2, <3>1, <3>2, Retyped
  <2>2. QED
    BY <2>1, ConcatProperties
<1> HIDE DEF b, n, m
<1>4. \A k \in 1..(n + m) : \/ k \in 1..n /\ b[k] = s[k] /\ b[k] \in S
                            \/ k - n \in 1..m /\ b[k] = t[k - n] /\ b[k] \in T
  BY <1>1, <1>2, <1>3
<1>5. \A y \in S : \E k \in 1..(n + m) : b[k] = y
  <2>1. \A k \in 1..n : k \in 1..(n + m) /\ b[k] = s[k]
    BY <1>1, <1>2, <1>3
  <2>2. QED
    BY <1>1, <2>1
<1>6. \A y \in T : \E k \in 1..(n + m) : b[k] = y
  <2>1. \A k \in 1..m : k + n \in 1..(n + m) /\ b[k + n] = t[k]
    <3> TAKE k \in 1..m
    <3>1. k + n \in 1..(n + m) /\ ~(k + n <= n) /\ (k + n) - n = k
      BY <1>1, <1>2
    <3>2. QED
      BY <1>3, <3>1
  <2>2. QED
    BY <1>2, <2>1
<1>7. ASSUME NEW k \in 1..(n + m), NEW l \in 1..(n + m), b[k] = b[l] PROVE k = l
  <2>1. CASE k \in 1..n /\ b[k] = s[k] /\ b[k] \in S
    <3>1. b[l] \notin T
      BY <1>7, <2>1
    <3>2. QED
      BY <1>1, <1>4, <1>7, <2>1, <3>1
  <2>2. CASE k - n \in 1..m /\ b[k] = t[k - n] /\ b[k] \in T
    <3>1. b[l] \notin S
      BY <1>7, <2>2
    <3>2. l - n \in 1..m /\ b[l] = t[l - n]
      BY <1>4, <3>1
    <3>3. k - n = l - n
      BY <1>2, <1>7, <2>2, <3>2
    <3>4. QED
      BY <1>1, <1>2, <3>3
  <2>3. QED
    BY <1>4, <2>1, <2>2
<1>8. Lists(b, S \cup T)
  BY <1>1, <1>2, <1>3, <1>4, <1>5, <1>6, <1>7 DEF Lists
<1>9. QED
  BY <1>8 DEF b

Header == [id : Nat, layer : Nat, rows : Nat, seq : Nat]
Return == [id : Nat, layer : Nat, rows : Nat, seq : Nat, ok : BOOLEAN, data : Nat]
Exchange == [id : Nat, layer : Nat, rows : Nat]
Client == [next : Nat \ {0}, inflight : Seq(Exchange), half : Halves, body : [Halves -> Nat]]
Connection ==
  [out : Seq(Halves), sends : Nat, ring : [Slots -> Return], posted : Seq(Slots),
   arrived : Seq(Slots), consumed : Seq(Slots), last : Slots, rx : Nat, tx : Nat,
   head : [Halves -> Header]]
DaemonAt == {"recv", "serve", "send", "closed"}
DaemonState ==
  [pc : DaemonAt, slots : Nat,
   inbox : Seq([head : Header, data : Nat]), held : Header, data : Nat,
   rx : Nat, tx : Nat, cur : Halves, busy : SUBSET Halves,
   buf : [Halves -> Return], out : Seq(Halves)]
Sum == [id : Nat, own : Nat, planes : [R -> Slots]]

Typed ==
  /\ pc \in {"idle", "turn", "recv", "claim", "fill", "post"}
  /\ rows \in Seq(Nat) /\ Len(rows) <= 2 /\ layer \in Nat /\ lane \in 1..2
  /\ sent \in [1..2 -> Nat] /\ rank \in R /\ want \in Exchange
  /\ kernels \in Seq(Sum)
  /\ wire \in Client /\ conn \in [R -> Connection] /\ spark \in [R -> DaemonState]

\* Where the pass is.
PassAt ==
  /\ pc # "idle" => lane <= Len(rows)
  /\ layer <= Layers + 1
  /\ pc \in {"claim", "fill", "post"} => layer + 1 <= Layers
  /\ pc = "recv" => layer <= Layers
  /\ pc \in {"claim", "fill", "post"} => sent[lane] = 0
  /\ pc = "recv" => sent[lane] # 0

\* What the coordinator may still send and sum.
InFlight ==
  /\ Len(wire.inflight) <= 2
  /\ pc \in {"fill", "post"} => Len(wire.inflight) <= 1
  /\ pc = "post" => kernels = <<>>
  /\ Len(kernels) + (IF sent[1] # 0 THEN 1 ELSE 0) + (IF sent[2] # 0 THEN 1 ELSE 0) <= 2

\* A rank's sends and the slots they are received in; p is where the pass is.
Sends(p, c, s) ==
  /\ c.sends <= 2 /\ Len(c.out) <= c.sends
  /\ p \in {"fill", "post"} => c.sends <= 1
  /\ s.slots + Len(s.inbox) + (IF s.pc = "serve" THEN 1 ELSE 0) <= 2

\* The receive slots: each in one of the three lists.
Ring(c) ==
  \E A, B, C \in SUBSET Slots :
    /\ Lists(c.posted, A) /\ Lists(c.arrived, B) /\ Lists(c.consumed, C)
    /\ A \cup B \cup C = Slots
    /\ A \cap B = {} /\ A \cap C = {} /\ B \cap C = {}

\* Slot t is read and not posted again.
Read(c, t) == \E i \in 1..Len(c.consumed) : c.consumed[i] = t

\* A rank answers in the order it accepts.
Answers(s) ==
  /\ s.pc = "recv" => s.rx = s.tx
  /\ s.pc = "serve" => s.rx = s.tx + 1 /\ s.held.seq = s.tx
  /\ s.pc = "send" => s.rx = s.tx + 1

\* The planes of sums that have not run, and those collected so far.
Planes(r) ==
  /\ \A i \in 1..Len(kernels) : Read(conn[r], kernels[i].planes[r])
  /\ pc = "recv" /\ r < rank =>
       Read(conn[r], conn[r].last) /\ conn[r].ring[conn[r].last].id = want.id

Always ==
  /\ Typed /\ PassAt /\ InFlight
  /\ \A r \in R : /\ Sends(pc, conn[r], spark[r]) /\ Ring(conn[r])
                  /\ Answers(spark[r]) /\ Planes(r)

\* The halves a rank's card has still to read, in turn.
HalvesInTurn(p, half, c) ==
  /\ p \notin {"fill", "post"} =>
       /\ Len(c.out) >= 1 => c.out[Len(c.out)] = 1 - half
       /\ Len(c.out) = 2 => c.out[1] = half
  /\ p \in {"fill", "post"} /\ Len(c.out) >= 1 => c.out[1] = half

\* Header and rows of every frame are of the same exchange.
SameExchange(body, c, s) ==
  /\ \A i \in 1..Len(c.out) : c.head[c.out[i]].id = body[c.out[i]]
  /\ \A i \in 1..Len(s.inbox) : s.inbox[i].head.id = s.inbox[i].data
  /\ s.pc = "serve" => s.held.id = s.data
  /\ \A h \in Halves : s.buf[h].id = s.buf[h].data
  /\ \A t \in Slots : c.ring[t].id = c.ring[t].data

Carried ==
  broken \cap {"fill", "claim"} = {} =>
    /\ pc = "post" => wire.body[Mine] = This
    /\ \A r \in R : /\ HalvesInTurn(pc, wire.half, conn[r])
                    /\ SameExchange(wire.body, conn[r], spark[r])

\* Exchanges posted, and those rank r has still to return.
Posts == IF pc \in {"fill", "post"} THEN wire.next - 2 ELSE wire.next - 1
Owed(r) == Len(wire.inflight) + (IF pc = "recv" /\ rank <= r THEN 1 ELSE 0)

\* Requests and returns under way at a rank.
Sending(s) == IF s.pc = "send" THEN 1 ELSE 0
Flow(c, s) == Len(c.out) + 2 - s.slots + Len(s.out) + Len(c.arrived) + Sending(s)

\* Frame f has sequence number q and is of exchange n.
Is(f, q, n) == f.seq = q /\ f.id = n

\* A frame under way is.
Under(c, s, q, n) ==
  \/ \E i \in 1..Len(c.out) : Is(c.head[c.out[i]], q, n)
  \/ \E i \in 1..Len(s.inbox) : Is(s.inbox[i].head, q, n)
  \/ s.pc = "serve" /\ Is(s.held, q, n)
  \/ s.pc = "send" /\ Is(s.buf[s.cur], q, n)
  \/ \E i \in 1..Len(s.out) : Is(s.buf[s.out[i]], q, n)
  \/ \E i \in 1..Len(c.arrived) : Is(c.ring[c.arrived[i]], q, n)

\* The lanes and their exchanges, oldest first.
LanesInTurn ==
  LET other == 3 - lane
      first == IF pc # "recv" /\ sent[lane] # 0 THEN 1 ELSE 0
  IN  /\ Len(wire.inflight) = first + (IF sent[other] # 0 THEN 1 ELSE 0)
      /\ first = 1 => /\ wire.inflight[1].id = sent[lane]
                      /\ wire.inflight[1].rows = rows[lane]
      /\ sent[other] # 0 => /\ wire.inflight[first + 1].id = sent[other]
                            /\ wire.inflight[first + 1].rows = rows[other]
                            /\ other <= Len(rows)
      /\ pc = "recv" => want.id = sent[lane] /\ want.rows = rows[lane] /\ sent[lane] # 0
      /\ pc = "idle" => sent[1] = 0 /\ sent[2] = 0
      /\ layer > Layers => sent[1] = 0 /\ sent[2] = 0
      /\ layer = Layers /\ lane = 2 => sent[1] = 0
      /\ layer > Layers => lane = 1

InStep ==
  /\ LanesInTurn
  /\ \A i \in 1..Len(wire.inflight) : wire.inflight[i].id = Posts - Len(wire.inflight) + i
  /\ pc = "recv" => want.id = Posts - Len(wire.inflight)
  /\ \A r \in R :
       /\ Flow(conn[r], spark[r]) <= Owed(r)
       /\ Owed(r) + Len(conn[r].consumed) <= 2
       /\ conn[r].tx = Posts /\ conn[r].rx = Posts - Owed(r)
       /\ \A q, n \in Nat : Under(conn[r], spark[r], q, n) => n = q + 1

\* Rank k has lost step: the return it would accept is of exchange b or older.
Behind(k, b) ==
  /\ b <= Posts
  /\ \A i \in 1..Len(wire.inflight) : wire.inflight[i].id > b
  /\ conn[k].tx > conn[k].rx
  /\ \A n \in Nat : Under(conn[k], spark[k], conn[k].rx, n) => n <= b

\* And nobody waits for such a return.
LostAt(k, b) == Behind(k, b) /\ (pc = "recv" => rank <= k /\ want.id > b)

Lost == \E k \in R, b \in Nat : LostAt(k, b)

\* The sums that have not run read what they should.
Sound ==
  \A i \in 1..Len(kernels) : \A r \in R :
    LET d == conn[r].ring[kernels[i].planes[r]].data
    IN  /\ broken \cap {"fill", "claim"} = {} => d = kernels[i].id
        /\ broken \subseteq {"return", "claim"} => d = kernels[i].own

Wired ==
  /\ broken = {} => InStep
  /\ broken # {} /\ broken \subseteq {"return", "claim"} => Lost

IInv == Always /\ Carried /\ Sound /\ Wired
-----------------------------------------------------------------------------
(* The cards and the daemons.  What each of their steps does to the rank   *)
(* it is a step of: slots and sends stay accounted for, what the           *)
(* coordinator has read stays, and no frame comes up that was not under    *)
(* way before.                                                             *)
Moved(p, half, body, c, s, cc, ss) ==
  /\ cc \in Connection /\ ss \in DaemonState
  /\ cc.consumed = c.consumed /\ cc.last = c.last /\ cc.rx = c.rx /\ cc.tx = c.tx
  /\ Sends(p, cc, ss) /\ Ring(cc) /\ Answers(ss)
  /\ \A t \in Slots : Read(c, t) => cc.ring[t] = c.ring[t]
  /\ HalvesInTurn(p, half, c) => HalvesInTurn(p, half, cc)
  /\ SameExchange(body, c, s) => SameExchange(body, cc, ss)
  /\ Flow(cc, ss) <= Flow(c, s)
  /\ \A q, n \in Nat : Under(cc, ss, q, n) => Under(c, s, q, n)

\* The counts that make up the flow.
Parts(c, s, o1, k, o2, v, w) ==
  /\ Len(c.out) = o1 /\ s.slots = k /\ Len(s.out) = o2 /\ Len(c.arrived) = v /\ Sending(s) = w

(* They are numbers.                                                       *)
LEMMA FlowParts ==
  ASSUME NEW c \in Connection, NEW s \in DaemonState
  PROVE  \E o1, k, o2, v, w \in Nat : Parts(c, s, o1, k, o2, v, w)
<1>1. /\ Len(c.out) \in Nat /\ s.slots \in Nat /\ Len(s.out) \in Nat /\ Len(c.arrived) \in Nat
      /\ Sending(s) \in Nat
  BY DEF Connection, DaemonState, Sending
<1>2. QED
  BY <1>1 DEF Parts

(* Their sum.                                                              *)
LEMMA PartsFlow ==
  ASSUME NEW c, NEW s, NEW o1, NEW k, NEW o2, NEW v, NEW w, Parts(c, s, o1, k, o2, v, w)
  PROVE  Flow(c, s) = o1 + 2 - k + o2 + v + w
BY DEF Parts, Flow

(* The flow is a number.                                                   *)
LEMMA FlowInt ==
  ASSUME NEW c \in Connection, NEW s \in DaemonState
  PROVE  Flow(c, s) \in Int
<1>1. PICK o1, k, o2, v, w \in Nat : Parts(c, s, o1, k, o2, v, w)
  BY FlowParts
<1>2. QED
  BY <1>1, PartsFlow

(* So are the exchanges owed.                                              *)
LEMMA OwedInt ==
  ASSUME Typed, NEW r \in R
  PROVE  Owed(r) \in Nat
<1>1. wire.inflight \in Seq(Exchange)
  BY DEF Typed, Client
<1>2. PICK l \in Nat : Len(wire.inflight) = l
  BY <1>1
<1>3. QED
  BY <1>2 DEF Owed

(* The planes of a sum are slots.                                          *)
LEMMA PlaneTypes ==
  ASSUME Typed, NEW i \in 1..Len(kernels), NEW q \in R
  PROVE  kernels[i].planes[q] \in Slots
<1>1. kernels \in Seq(Sum)
  BY DEF Typed
<1>2. kernels[i] \in Sum
  BY <1>1
<1>3. QED
  BY <1>2 DEF Sum

(* A return arrives in the first slot posted.                              *)
LEMMA ReturnArrives ==
  ASSUME NEW p, NEW half, NEW body, NEW c \in Connection, NEW s \in DaemonState,
         Sends(p, c, s), Ring(c), Answers(s), s.out # <<>>, c.posted # <<>>
  PROVE  Moved(p, half, body, c, s,
               [c EXCEPT !.posted = Tail(@), !.arrived = Append(@, Head(c.posted)),
                         !.ring[Head(c.posted)] = s.buf[Head(s.out)]],
               [s EXCEPT !.out = Tail(@)])
<1> DEFINE t == Head(c.posted)
           f == s.buf[Head(s.out)]
           a == Append(c.arrived, t)
           o == Tail(s.out)
           cc == [c EXCEPT !.posted = Tail(@), !.arrived = a, !.ring[t] = f]
           ss == [s EXCEPT !.out = o]
<1>1. /\ c.posted \in Seq(Slots) /\ c.arrived \in Seq(Slots) /\ c.ring \in [Slots -> Return]
      /\ s.out \in Seq(Halves) /\ s.buf \in [Halves -> Return]
      /\ Len(c.out) \in Nat /\ Len(c.arrived) \in Nat /\ Len(s.out) \in Nat /\ s.slots \in Nat
  BY DEF Connection, DaemonState
<1>2. /\ t \in Slots /\ Tail(c.posted) \in Seq(Slots)
      /\ Head(s.out) = s.out[1] /\ 1 \in 1..Len(s.out) /\ Head(s.out) \in Halves
      /\ o \in Seq(Halves) /\ Len(o) = Len(s.out) - 1
  BY <1>1, TailAt
<1>3. \A i \in 1..Len(o) : i + 1 \in 1..Len(s.out) /\ o[i] = s.out[i + 1]
  BY <1>1, TailAt
<1>4. /\ a \in Seq(Slots) /\ Len(a) = Len(c.arrived) + 1
      /\ \A i \in 1..Len(a) : (i \in 1..Len(c.arrived) /\ a[i] = c.arrived[i]) \/ a[i] = t
  BY <1>1, <1>2, AppendAt
<1>5. f \in Return
  BY <1>1, <1>2
<1> HIDE DEF t, f, a, o
<1>6. cc \in Connection /\ ss \in DaemonState
  <2>1. cc \in Connection
    BY <1>1, <1>2, <1>4, <1>5 DEF Connection
  <2>2. ss \in DaemonState
    BY <1>2 DEF DaemonState
  <2>3. QED
    BY <2>1, <2>2
<1>7. /\ cc.posted = Tail(c.posted) /\ cc.arrived = a /\ cc.ring = [c.ring EXCEPT ![t] = f]
      /\ cc.out = c.out /\ cc.sends = c.sends /\ cc.consumed = c.consumed /\ cc.last = c.last
      /\ cc.rx = c.rx /\ cc.tx = c.tx /\ cc.head = c.head
  BY DEF Connection
<1>8. /\ ss.out = o /\ ss.pc = s.pc /\ ss.slots = s.slots /\ ss.inbox = s.inbox /\ ss.held = s.held
      /\ ss.data = s.data /\ ss.rx = s.rx /\ ss.tx = s.tx /\ ss.cur = s.cur /\ ss.busy = s.busy /\ ss.buf = s.buf
  BY DEF DaemonState
<1> HIDE DEF cc, ss
<1>9. \A u \in Slots : cc.ring[u] = IF u = t THEN f ELSE c.ring[u]
  BY <1>1, <1>2, <1>7
<1>10. PICK A, B, C \in SUBSET Slots :
          /\ Lists(c.posted, A) /\ Lists(c.arrived, B) /\ Lists(c.consumed, C)
          /\ A \cup B \cup C = Slots
          /\ A \cap B = {} /\ A \cap C = {} /\ B \cap C = {}
  BY DEF Ring
<1>11. t \in A /\ Lists(Tail(c.posted), A \ {t})
  BY <1>10, ListsTail DEF t
<1>12. Ring(cc)
  <2>1. Lists(a, B \cup {t})
    BY <1>10, <1>11, ListsAppend DEF a
  <2>2. QED
    BY <1>7, <1>10, <1>11, <2>1 DEF Ring
<1>13. \A u \in Slots : Read(c, u) => cc.ring[u] = c.ring[u]
  <2>1. \A i \in 1..Len(c.consumed) : c.consumed[i] \in C
    BY <1>10 DEF Lists
  <2>2. ~Read(c, t)
    BY <1>10, <1>11, <2>1 DEF Read
  <2>3. QED
    BY <1>9, <2>2
<1>14. Sends(p, cc, ss) /\ Answers(ss) /\ (HalvesInTurn(p, half, c) => HalvesInTurn(p, half, cc))
  BY <1>7, <1>8 DEF Sends, Answers, HalvesInTurn
<1>15. SameExchange(body, c, s) => SameExchange(body, cc, ss)
  <2> HAVE SameExchange(body, c, s)
  <2>1. f.id = f.data
    BY <1>2 DEF SameExchange, f
  <2>2. \A u \in Slots : cc.ring[u].id = cc.ring[u].data
    BY <1>9, <2>1 DEF SameExchange
  <2>3. QED
    BY <1>7, <1>8, <2>2 DEF SameExchange
<1>16. Flow(cc, ss) <= Flow(c, s)
  <2>1. /\ Len(cc.arrived) = Len(c.arrived) + 1 /\ Len(ss.out) = Len(s.out) - 1
        /\ Len(cc.out) = Len(c.out) /\ ss.slots = s.slots /\ Sending(ss) = Sending(s)
    BY <1>2, <1>4, <1>7, <1>8 DEF Sending
  <2>2. PICK o1, k, o2, v, w \in Nat : Parts(c, s, o1, k, o2, v, w)
    BY FlowParts
  <2>3. Parts(cc, ss, o1, k, o2 - 1, v + 1, w)
    BY <2>1, <2>2 DEF Parts
  <2>4. QED
    BY <2>2, <2>3, PartsFlow
<1>17. ASSUME NEW q \in Nat, NEW n \in Nat, Under(cc, ss, q, n) PROVE Under(c, s, q, n)
  <2>1. ASSUME NEW i \in 1..Len(a), Is(cc.ring[a[i]], q, n)
        PROVE  Under(c, s, q, n)
    <3>1. CASE a[i] = t
      <4>1. Is(s.buf[s.out[1]], q, n)
        BY <1>2, <1>9, <2>1, <3>1 DEF f
      <4>2. QED
        BY <1>2, <4>1 DEF Under
    <3>2. CASE a[i] # t
      <4>1. i \in 1..Len(c.arrived) /\ a[i] = c.arrived[i] /\ a[i] \in Slots
        BY <1>4, <3>2
      <4>2. Is(c.ring[c.arrived[i]], q, n)
        BY <1>9, <2>1, <3>2, <4>1
      <4>3. QED
        BY <4>1, <4>2 DEF Under
    <3>3. QED
      BY <3>1, <3>2
  <2>2. QED
    BY <1>3, <1>7, <1>8, <1>17, <2>1 DEF Under
<1>18. Moved(p, half, body, c, s, cc, ss)
  BY <1>6, <1>7, <1>12, <1>13, <1>14, <1>15, <1>16, <1>17 DEF Moved
<1>19. QED
  BY <1>18 DEF cc, ss, a, o, t, f

(* A request arrives: header and rows are what the half holds now.         *)
LEMMA RequestArrives ==
  ASSUME NEW p, NEW half, NEW body \in [Halves -> Nat],
         NEW c \in Connection, NEW s \in DaemonState,
         Sends(p, c, s), Ring(c), Answers(s), c.out # <<>>, s.slots > 0
  PROVE  Moved(p, half, body, c, s, [c EXCEPT !.out = Tail(@)],
               [s EXCEPT !.slots = @ - 1,
                         !.inbox = Append(@, [head |-> c.head[Head(c.out)],
                                              data |-> body[Head(c.out)]])])
<1> DEFINE h == Head(c.out)
           g == [head |-> c.head[h], data |-> body[h]]
           a == Append(s.inbox, g)
           o == Tail(c.out)
           cc == [c EXCEPT !.out = o]
           ss == [s EXCEPT !.slots = @ - 1, !.inbox = a]
           F == [head : Header, data : Nat]
<1>1. /\ c.out \in Seq(Halves) /\ c.head \in [Halves -> Header] /\ s.inbox \in Seq(F)
      /\ s.slots \in Nat /\ Len(c.out) \in Nat /\ Len(s.inbox) \in Nat /\ c.sends \in Nat
  <2>1. c.out \in Seq(Halves) /\ c.head \in [Halves -> Header] /\ c.sends \in Nat
    BY DEF Connection
  <2>2. s.inbox \in Seq(F) /\ s.slots \in Nat
    BY DEF DaemonState
  <2> HIDE DEF F
  <2>3. QED
    BY <2>1, <2>2
<1>2. /\ h \in Halves /\ h = c.out[1] /\ 1 \in 1..Len(c.out)
      /\ o \in Seq(Halves) /\ Len(o) = Len(c.out) - 1
  BY <1>1, TailAt
<1>3. \A i \in 1..Len(o) : i + 1 \in 1..Len(c.out) /\ o[i] = c.out[i + 1]
  BY <1>1, TailAt
<1>4. g \in F /\ g.head = c.head[h] /\ g.data = body[h]
  BY <1>1, <1>2
<1> HIDE DEF g, F
<1>5. /\ a \in Seq(F) /\ Len(a) = Len(s.inbox) + 1
      /\ \A i \in 1..Len(a) : (i \in 1..Len(s.inbox) /\ a[i] = s.inbox[i]) \/ a[i] = g
  BY <1>1, <1>4, AppendAt
<1> HIDE DEF h, a, o
<1>6. s.slots - 1 \in Nat
  BY <1>1
<1>7. cc \in Connection /\ ss \in DaemonState
  <2>1. cc \in Connection
    BY <1>2 DEF Connection
  <2>2. ss \in DaemonState
    BY <1>5, <1>6 DEF DaemonState, F
  <2>3. QED
    BY <2>1, <2>2
<1>8. /\ cc.out = o /\ cc.posted = c.posted /\ cc.arrived = c.arrived /\ cc.ring = c.ring
      /\ cc.sends = c.sends /\ cc.consumed = c.consumed /\ cc.last = c.last
      /\ cc.rx = c.rx /\ cc.tx = c.tx /\ cc.head = c.head
  BY DEF Connection
<1>9. /\ ss.slots = s.slots - 1 /\ ss.inbox = a /\ ss.pc = s.pc /\ ss.held = s.held
      /\ ss.data = s.data /\ ss.rx = s.rx /\ ss.tx = s.tx /\ ss.cur = s.cur
      /\ ss.buf = s.buf /\ ss.out = s.out
  BY DEF DaemonState
<1> HIDE DEF cc, ss
<1>10. Ring(cc) /\ Answers(ss)
  BY <1>8, <1>9 DEF Ring, Answers
<1>11. Sends(p, cc, ss)
  <2>1. PICK k, l \in Nat : s.slots = k /\ Len(s.inbox) = l
    BY <1>1
  <2>2. Len(o) <= c.sends
    BY <1>1, <1>2 DEF Sends
  <2>3. QED
    <3>1. ss.slots = k - 1 /\ Len(ss.inbox) = l + 1
      BY <1>5, <1>9, <2>1
    <3>2. QED
      BY <1>8, <1>9, <2>1, <2>2, <3>1 DEF Sends
<1>12. HalvesInTurn(p, half, c) => HalvesInTurn(p, half, cc)
  <2> HAVE HalvesInTurn(p, half, c)
  <2>1. Len(c.out) <= 2 /\ (p \in {"fill", "post"} => Len(c.out) <= 1)
    BY <1>1 DEF Sends
  <2>2. ASSUME Len(o) >= 1 PROVE o[Len(o)] = c.out[Len(c.out)]
    <3>1. PICK l \in Nat : Len(o) = l /\ Len(c.out) = l + 1
      <4>1. PICK m \in Nat : Len(o) = m
        BY <1>2
      <4>2. Len(c.out) \in Nat /\ m = Len(c.out) - 1
        BY <1>1, <1>2, <4>1
      <4>3. QED
        BY <4>1, <4>2
    <3>2. l \in 1..l
      BY <2>2, <3>1
    <3>a. o[l] = c.out[l + 1]
      <4>1. \A i \in 1..l : o[i] = c.out[i + 1]
        BY <1>3, <3>1
      <4>2. QED
        BY <3>2, <4>1
    <3>3. QED
      BY <3>1, <3>a
  <2>3. QED
    <3>a. PICK m \in Nat : Len(c.out) = m
      BY <1>1
    <3>b. PICK l \in Nat : Len(o) = l
      BY <1>2
    <3>1. Len(c.out) = m /\ Len(o) = l /\ m = l + 1 /\ m <= 2
      BY <1>2, <2>1, <3>a, <3>b
    <3>2. CASE p \notin {"fill", "post"}
      <4>1. l >= 1 => m = 2 /\ m >= 1
        BY <3>1
      <4>2. l >= 1 => o[l] = 1 - half
        BY <2>2, <3>1, <3>2, <4>1 DEF HalvesInTurn
      <4>3. l # 2
        BY <3>1
      <4>4. QED
        BY <1>8, <3>1, <3>2, <4>2, <4>3 DEF HalvesInTurn
    <3>3. CASE p \in {"fill", "post"}
      <4>1. m <= 1
        BY <2>1, <3>1, <3>3
      <4>2. l = 0
        BY <3>1, <4>1
      <4>3. QED
        BY <1>8, <3>1, <3>3, <4>2 DEF HalvesInTurn
    <3>4. QED
      BY <3>2, <3>3
<1>13. SameExchange(body, c, s) => SameExchange(body, cc, ss)
  <2> HAVE SameExchange(body, c, s)
  <2>1. g.head.id = g.data
    BY <1>2, <1>4 DEF SameExchange
  <2>2. \A i \in 1..Len(a) : a[i].head.id = a[i].data
    BY <1>5, <2>1 DEF SameExchange
  <2>3. \A i \in 1..Len(o) : c.head[o[i]].id = body[o[i]]
    BY <1>3 DEF SameExchange
  <2>4. QED
    BY <1>8, <1>9, <2>2, <2>3 DEF SameExchange
<1>14. Flow(cc, ss) <= Flow(c, s)
  <2>1. /\ Len(cc.out) = Len(c.out) - 1 /\ ss.slots = s.slots - 1
        /\ cc.arrived = c.arrived /\ ss.out = s.out /\ Sending(ss) = Sending(s)
    BY <1>2, <1>8, <1>9 DEF Sending
  <2>2. PICK o1, k, o2, v, w \in Nat : Parts(c, s, o1, k, o2, v, w)
    BY FlowParts
  <2>3. Parts(cc, ss, o1 - 1, k - 1, o2, v, w)
    BY <2>1, <2>2 DEF Parts
  <2>4. QED
    BY <2>2, <2>3, PartsFlow
<1>15. ASSUME NEW q \in Nat, NEW n \in Nat, Under(cc, ss, q, n) PROVE Under(c, s, q, n)
  <2>1. ASSUME NEW i \in 1..Len(a), Is(a[i].head, q, n)
        PROVE  Under(c, s, q, n)
    <3>1. CASE a[i] = g
      BY <1>2, <1>4, <2>1, <3>1 DEF Under
    <3>2. CASE a[i] # g
      BY <1>5, <2>1, <3>2 DEF Under
    <3>3. QED
      BY <3>1, <3>2
  <2>2. QED
    BY <1>3, <1>8, <1>9, <1>15, <2>1 DEF Under
<1>16. Moved(p, half, body, c, s, cc, ss)
  BY <1>7, <1>8, <1>10, <1>11, <1>12, <1>13, <1>14, <1>15 DEF Moved
<1>17. QED
  BY <1>16 DEF cc, ss, a, o, g, h

(* What is left to show of a daemon's step, which touches no connection.   *)
LEMMA DaemonMoves ==
  ASSUME NEW p, NEW half, NEW body, NEW c \in Connection, NEW s \in DaemonState,
         Sends(p, c, s), Ring(c), NEW ss \in DaemonState, Sends(p, c, ss), Answers(ss),
         SameExchange(body, c, s) => SameExchange(body, c, ss),
         Flow(c, ss) <= Flow(c, s),
         \A q, n \in Nat : Under(c, ss, q, n) => Under(c, s, q, n)
  PROVE  Moved(p, half, body, c, s, c, ss)
BY DEF Moved

(* accept_seq takes a request whose number is the next one.                *)
LEMMA RequestAccepted ==
  ASSUME NEW p, NEW half, NEW body, NEW c \in Connection, NEW s \in DaemonState,
         Sends(p, c, s), Ring(c), Answers(s), s.pc = "recv", s.inbox # <<>>,
         NEW f, f = Head(s.inbox)
  PROVE  Moved(p, half, body, c, s, c,
               [s EXCEPT !.inbox = Tail(@), !.held = f.head, !.data = f.data,
                         !.rx = IF f.head.seq = @ THEN @ + 1 ELSE @,
                         !.pc = IF f.head.seq = s.rx THEN "serve" ELSE "closed"])
<1> DEFINE a == Tail(s.inbox)
           x == IF f.head.seq = s.rx THEN s.rx + 1 ELSE s.rx
           z == IF f.head.seq = s.rx THEN "serve" ELSE "closed"
           ss == [s EXCEPT !.inbox = a, !.held = f.head, !.data = f.data, !.rx = x, !.pc = z]
           F == [head : Header, data : Nat]
<1>1. /\ s.inbox \in Seq(F) /\ s.rx \in Nat /\ s.slots \in Nat /\ Len(s.inbox) \in Nat
      /\ s.buf \in [Halves -> Return] /\ s.out \in Seq(Halves) /\ s.cur \in Halves
  BY DEF DaemonState
<1> HIDE DEF F
<1>2. /\ f \in F /\ f = s.inbox[1] /\ 1 \in 1..Len(s.inbox)
      /\ a \in Seq(F) /\ Len(a) = Len(s.inbox) - 1
      /\ \A i \in 1..Len(a) : i + 1 \in 1..Len(s.inbox) /\ a[i] = s.inbox[i + 1]
  BY <1>1, TailAt
<1>3. f.head \in Header /\ f.data \in Nat /\ x \in Nat /\ z \in DaemonAt
  <2>1. f.head \in Header /\ f.data \in Nat
    BY <1>2 DEF F
  <2>2. x \in Nat
    BY <1>1
  <2>3. z \in DaemonAt
    BY DEF DaemonAt
  <2>4. QED
    BY <2>1, <2>2, <2>3
<1>4. (z = "serve" => x = s.rx + 1 /\ f.head.seq = s.rx) /\ z \in {"serve", "closed"}
  OBVIOUS
<1> HIDE DEF a, x, z
<1>5. ss \in DaemonState
  BY <1>2, <1>3 DEF DaemonState, F
<1>6. /\ ss.slots = s.slots /\ ss.inbox = a /\ ss.pc = z /\ ss.held = f.head
      /\ ss.data = f.data /\ ss.rx = x /\ ss.tx = s.tx /\ ss.cur = s.cur
      /\ ss.buf = s.buf /\ ss.out = s.out
  BY DEF DaemonState
<1> HIDE DEF ss
<1>7. Answers(ss)
  <2>1. z = "serve" => x = s.tx + 1 /\ f.head.seq = s.tx
    BY <1>4 DEF Answers
  <2>2. QED
    BY <1>4, <1>6, <2>1 DEF Answers
<1>8. Sends(p, c, ss)
  <2>1. s.slots + Len(s.inbox) <= 2
    BY <1>1 DEF Sends
  <2>2. s.slots + Len(a) + (IF z = "serve" THEN 1 ELSE 0) <= 2
    BY <1>1, <1>2, <2>1
  <2>3. QED
    BY <1>6, <2>2 DEF Sends
<1>9. SameExchange(body, c, s) => SameExchange(body, c, ss)
  BY <1>2, <1>6 DEF SameExchange
<1>10. Flow(c, ss) <= Flow(c, s)
  <2>1. ss.slots = s.slots /\ ss.out = s.out /\ Sending(ss) = Sending(s)
    BY <1>4, <1>6 DEF Sending
  <2>2. PICK o1, k, o2, v, w \in Nat : Parts(c, s, o1, k, o2, v, w)
    BY FlowParts
  <2>3. Parts(c, ss, o1, k, o2, v, w)
    BY <2>1, <2>2 DEF Parts
  <2>4. QED
    BY <2>2, <2>3, PartsFlow
<1>11. ASSUME NEW q \in Nat, NEW n \in Nat, Under(c, ss, q, n) PROVE Under(c, s, q, n)
  BY <1>2, <1>4, <1>6, <1>11 DEF Under
<1>12. Moved(p, half, body, c, s, c, ss)
  BY <1>5, <1>7, <1>8, <1>9, <1>10, <1>11, DaemonMoves
<1>13. QED
  BY <1>12 DEF ss, a, x, z

(* The request held is answered into the send half.                        *)
LEMMA RequestServed ==
  ASSUME NEW p, NEW half, NEW body, NEW c \in Connection, NEW s \in DaemonState,
         Sends(p, c, s), Ring(c), Answers(s), s.pc = "serve"
  PROVE  Moved(p, half, body, c, s, c,
               [s EXCEPT !.busy = @ \ {s.cur}, !.buf[s.cur] = Answer(s, TRUE),
                         !.slots = @ + 1, !.pc = "send"])
<1> DEFINE f == Answer(s, TRUE)
           b == s.busy \ {s.cur}
           ss == [s EXCEPT !.busy = b, !.buf[s.cur] = f, !.slots = @ + 1, !.pc = "send"]
<1>1. /\ s.held \in Header /\ s.tx \in Nat /\ s.data \in Nat /\ s.cur \in Halves
      /\ s.buf \in [Halves -> Return] /\ s.out \in Seq(Halves) /\ s.slots \in Nat
      /\ s.busy \in SUBSET Halves /\ Len(s.inbox) \in Nat
  BY DEF DaemonState
<1>2. /\ f \in Return /\ b \in SUBSET Halves
      /\ f.id = s.held.id /\ f.seq = s.tx /\ f.data = s.data
  BY <1>1 DEF Answer, Header, Return
<1> HIDE DEF f, b
<1>3. ss \in DaemonState
  <2>1. s.slots + 1 \in Nat /\ [s.buf EXCEPT ![s.cur] = f] \in [Halves -> Return] /\ "send" \in DaemonAt
    BY <1>1, <1>2 DEF DaemonAt
  <2>2. QED
    BY <1>2, <2>1 DEF DaemonState
<1>4. /\ ss.slots = s.slots + 1 /\ ss.inbox = s.inbox /\ ss.pc = "send" /\ ss.held = s.held
      /\ ss.data = s.data /\ ss.rx = s.rx /\ ss.tx = s.tx /\ ss.cur = s.cur
      /\ ss.buf = [s.buf EXCEPT ![s.cur] = f] /\ ss.out = s.out
  BY DEF DaemonState
<1> HIDE DEF ss
<1>5. \A h \in Halves : ss.buf[h] = IF h = s.cur THEN f ELSE s.buf[h]
  BY <1>1, <1>4
<1>6. Answers(ss)
  BY <1>4 DEF Answers
<1>7. Sends(p, c, ss)
  <2>1. PICK k, l \in Nat : s.slots = k /\ Len(s.inbox) = l
    BY <1>1
  <2>2. QED
    BY <1>4, <2>1 DEF Sends
<1>8. SameExchange(body, c, s) => SameExchange(body, c, ss)
  BY <1>1, <1>2, <1>4, <1>5 DEF SameExchange
<1>9. Flow(c, ss) <= Flow(c, s)
  <2>1. ss.slots = s.slots + 1 /\ ss.out = s.out /\ Sending(ss) = 1 /\ Sending(s) = 0
    BY <1>4 DEF Sending
  <2>2. PICK o1, k, o2, v, w \in Nat : Parts(c, s, o1, k, o2, v, w)
    BY FlowParts
  <2>3. Parts(c, ss, o1, k + 1, o2, v, 1) /\ w = 0
    BY <2>1, <2>2 DEF Parts
  <2>4. QED
    BY <2>2, <2>3, PartsFlow
<1>10. ASSUME NEW q \in Nat, NEW n \in Nat, Under(c, ss, q, n) PROVE Under(c, s, q, n)
  <2>1. Is(f, q, n) => Is(s.held, q, n)
    BY <1>2 DEF Is, Answers
  <2>2. \A i \in 1..Len(s.out) : s.out[i] \in Halves
    BY <1>1
  <2>3. QED
    BY <1>1, <1>4, <1>5, <1>10, <2>1, <2>2 DEF Under
<1>11. Moved(p, half, body, c, s, c, ss)
  BY <1>3, <1>6, <1>7, <1>8, <1>9, <1>10, DaemonMoves
<1>12. QED
  BY <1>11 DEF ss, f, b

(* The answer goes out.                                                    *)
LEMMA AnswerSent ==
  ASSUME NEW p, NEW half, NEW body, NEW c \in Connection, NEW s \in DaemonState,
         Sends(p, c, s), Ring(c), Answers(s), s.pc = "send"
  PROVE  Moved(p, half, body, c, s, c,
               [s EXCEPT !.tx = @ + 1, !.busy = @ \cup {s.cur},
                         !.out = Append(@, s.cur), !.cur = 1 - @, !.pc = "recv"])
<1> DEFINE a == Append(s.out, s.cur)
           b == s.busy \cup {s.cur}
           u == 1 - s.cur
           ss == [s EXCEPT !.tx = @ + 1, !.busy = b, !.out = a, !.cur = u, !.pc = "recv"]
<1>1. /\ s.tx \in Nat /\ s.cur \in Halves /\ s.out \in Seq(Halves) /\ s.slots \in Nat
      /\ s.busy \in SUBSET Halves /\ Len(s.out) \in Nat
  BY DEF DaemonState
<1>2. b \in SUBSET Halves /\ u \in Halves
  BY <1>1 DEF Halves
<1>3. /\ a \in Seq(Halves) /\ Len(a) = Len(s.out) + 1
      /\ \A i \in 1..Len(a) : (i \in 1..Len(s.out) /\ a[i] = s.out[i]) \/ a[i] = s.cur
  BY <1>1, AppendAt
<1> HIDE DEF a, b, u
<1>4. ss \in DaemonState
  <2>1. s.tx + 1 \in Nat /\ "recv" \in DaemonAt
    BY <1>1 DEF DaemonAt
  <2>2. QED
    BY <1>2, <1>3, <2>1 DEF DaemonState
<1>5. /\ ss.slots = s.slots /\ ss.inbox = s.inbox /\ ss.pc = "recv" /\ ss.held = s.held
      /\ ss.data = s.data /\ ss.rx = s.rx /\ ss.tx = s.tx + 1
      /\ ss.buf = s.buf /\ ss.out = a
  BY DEF DaemonState
<1> HIDE DEF ss
<1>6. Answers(ss)
  BY <1>5 DEF Answers
<1>7. Sends(p, c, ss)
  BY <1>5 DEF Sends
<1>8. SameExchange(body, c, s) => SameExchange(body, c, ss)
  BY <1>5 DEF SameExchange
<1>9. Flow(c, ss) <= Flow(c, s)
  <2>1. ss.slots = s.slots /\ Len(ss.out) = Len(s.out) + 1 /\ Sending(ss) = 0 /\ Sending(s) = 1
    BY <1>3, <1>5 DEF Sending
  <2>2. PICK o1, k, o2, v, w \in Nat : Parts(c, s, o1, k, o2, v, w)
    BY FlowParts
  <2>3. Parts(c, ss, o1, k, o2 + 1, v, 0) /\ w = 1
    BY <2>1, <2>2 DEF Parts
  <2>4. QED
    BY <2>2, <2>3, PartsFlow
<1>10. ASSUME NEW q \in Nat, NEW n \in Nat, Under(c, ss, q, n) PROVE Under(c, s, q, n)
  BY <1>3, <1>5, <1>10 DEF Under
<1>11. Moved(p, half, body, c, s, c, ss)
  BY <1>4, <1>6, <1>7, <1>8, <1>9, <1>10, DaemonMoves
<1>12. QED
  BY <1>11 DEF ss, a, b, u

(* An error report goes out, and the daemon leaves the connection.         *)
LEMMA ErrorSent ==
  ASSUME NEW p, NEW half, NEW body, NEW c \in Connection, NEW s \in DaemonState,
         Sends(p, c, s), Ring(c), Answers(s), s.pc = "serve"
  PROVE  Moved(p, half, body, c, s, c,
               [s EXCEPT !.tx = @ + 1, !.slots = @ + 1, !.busy = @ \cup {s.cur},
                         !.buf[s.cur] = Answer(s, FALSE),
                         !.out = Append(@, s.cur), !.cur = 1 - @, !.pc = "closed"])
<1> DEFINE f == Answer(s, FALSE)
           a == Append(s.out, s.cur)
           b == s.busy \cup {s.cur}
           u == 1 - s.cur
           ss == [s EXCEPT !.tx = @ + 1, !.slots = @ + 1, !.busy = b, !.buf[s.cur] = f,
                           !.out = a, !.cur = u, !.pc = "closed"]
<1>1. /\ s.held \in Header /\ s.tx \in Nat /\ s.data \in Nat /\ s.cur \in Halves
      /\ s.buf \in [Halves -> Return] /\ s.out \in Seq(Halves) /\ s.slots \in Nat
      /\ s.busy \in SUBSET Halves /\ Len(s.inbox) \in Nat /\ Len(s.out) \in Nat
  BY DEF DaemonState
<1>2. b \in SUBSET Halves /\ u \in Halves
  BY <1>1 DEF Halves
<1>3. /\ a \in Seq(Halves) /\ Len(a) = Len(s.out) + 1
      /\ \A i \in 1..Len(a) : (i \in 1..Len(s.out) /\ a[i] = s.out[i]) \/ a[i] = s.cur
  BY <1>1, AppendAt
<1>4. f \in Return /\ f.id = s.held.id /\ f.seq = s.tx /\ f.data = s.data
  BY <1>1 DEF Answer, Header, Return
<1> HIDE DEF a, b, u, f
<1>5. ss \in DaemonState
  <2>1. /\ s.tx + 1 \in Nat /\ s.slots + 1 \in Nat /\ "closed" \in DaemonAt
        /\ [s.buf EXCEPT ![s.cur] = f] \in [Halves -> Return]
    BY <1>1, <1>4 DEF DaemonAt
  <2>2. QED
    BY <1>2, <1>3, <2>1 DEF DaemonState
<1>6. /\ ss.slots = s.slots + 1 /\ ss.inbox = s.inbox /\ ss.pc = "closed" /\ ss.held = s.held
      /\ ss.data = s.data /\ ss.buf = [s.buf EXCEPT ![s.cur] = f] /\ ss.out = a
  BY DEF DaemonState
<1> HIDE DEF ss
<1>7. \A h \in Halves : ss.buf[h] = IF h = s.cur THEN f ELSE s.buf[h]
  BY <1>1, <1>6
<1>8. Answers(ss)
  BY <1>6 DEF Answers
<1>9. Sends(p, c, ss)
  <2>1. PICK k, l \in Nat : s.slots = k /\ Len(s.inbox) = l
    BY <1>1
  <2>2. QED
    BY <1>6, <2>1 DEF Sends
<1>10. SameExchange(body, c, s) => SameExchange(body, c, ss)
  BY <1>1, <1>4, <1>6, <1>7 DEF SameExchange
<1>11. Flow(c, ss) <= Flow(c, s)
  <2>1. /\ ss.slots = s.slots + 1 /\ Len(ss.out) = Len(s.out) + 1
        /\ Sending(ss) = 0 /\ Sending(s) = 0
    BY <1>3, <1>6 DEF Sending
  <2>2. PICK o1, k, o2, v, w \in Nat : Parts(c, s, o1, k, o2, v, w)
    BY FlowParts
  <2>3. Parts(c, ss, o1, k + 1, o2 + 1, v, 0) /\ w = 0
    BY <2>1, <2>2 DEF Parts
  <2>4. QED
    BY <2>2, <2>3, PartsFlow
<1>12. ASSUME NEW q \in Nat, NEW n \in Nat, Under(c, ss, q, n) PROVE Under(c, s, q, n)
  <2>1. Is(f, q, n) => Is(s.held, q, n)
    BY <1>4 DEF Is, Answers
  <2>2. \A i \in 1..Len(s.out) : s.out[i] \in Halves
    BY <1>1
  <2>3. ASSUME NEW i \in 1..Len(a), Is(ss.buf[a[i]], q, n) PROVE Under(c, s, q, n)
    BY <1>1, <1>3, <1>7, <2>1, <2>2, <2>3 DEF Under
  <2>4. QED
    BY <1>6, <1>12, <2>3 DEF Under
<1>13. Moved(p, half, body, c, s, c, ss)
  BY <1>5, <1>8, <1>9, <1>10, <1>11, <1>12, DaemonMoves
<1>14. QED
  BY <1>13 DEF ss, a, b, u, f

(* The daemon is gone, and what it had not sent.                           *)
LEMMA DaemonGone ==
  ASSUME NEW p, NEW half, NEW body, NEW c \in Connection, NEW s \in DaemonState,
         Sends(p, c, s), Ring(c), Answers(s), s.pc = "serve"
  PROVE  Moved(p, half, body, c, s, c, [s EXCEPT !.pc = "closed", !.out = <<>>])
<1> DEFINE ss == [s EXCEPT !.pc = "closed", !.out = <<>>]
<1>1. s.slots \in Nat /\ Len(s.inbox) \in Nat /\ Len(s.out) \in Nat
  BY DEF DaemonState
<1>2. ss \in DaemonState
  <2>1. "closed" \in DaemonAt /\ <<>> \in Seq(Halves)
    BY DEF DaemonAt
  <2>2. QED
    BY <2>1 DEF DaemonState
<1>3. /\ ss.slots = s.slots /\ ss.inbox = s.inbox /\ ss.pc = "closed"
      /\ ss.buf = s.buf /\ ss.out = <<>> /\ Len(ss.out) = 0
  BY DEF DaemonState
<1> HIDE DEF ss
<1>4. Answers(ss)
  BY <1>3 DEF Answers
<1>5. Sends(p, c, ss)
  <2>1. PICK k, l \in Nat : s.slots = k /\ Len(s.inbox) = l
    BY <1>1
  <2>2. QED
    BY <1>3, <2>1 DEF Sends
<1>6. SameExchange(body, c, s) => SameExchange(body, c, ss)
  BY <1>3 DEF SameExchange
<1>7. Flow(c, ss) <= Flow(c, s)
  <2>1. ss.slots = s.slots /\ Len(ss.out) = 0 /\ Sending(ss) = 0 /\ Sending(s) = 0
    BY <1>3 DEF Sending
  <2>2. PICK o1, k, o2, v, w \in Nat : Parts(c, s, o1, k, o2, v, w)
    BY FlowParts
  <2>3. Parts(c, ss, o1, k, 0, v, 0) /\ w = 0
    BY <2>1, <2>2 DEF Parts
  <2>4. QED
    BY <2>2, <2>3, PartsFlow
<1>8. ASSUME NEW q \in Nat, NEW n \in Nat, Under(c, ss, q, n) PROVE Under(c, s, q, n)
  BY <1>3, <1>8 DEF Under
<1>9. Moved(p, half, body, c, s, c, ss)
  BY <1>2, <1>4, <1>5, <1>6, <1>7, <1>8, DaemonMoves
<1>10. QED
  BY <1>9 DEF ss
-----------------------------------------------------------------------------
\* A step of rank r's card or daemon.
Local(r) ==
  /\ UNCHANGED <<pc, rows, layer, lane, sent, rank, want, kernels, wire, passes, broken>>
  /\ \E cc, ss : /\ conn' = [conn EXCEPT ![r] = cc] /\ spark' = [spark EXCEPT ![r] = ss]
                 /\ Moved(pc, wire.half, wire.body, conn[r], spark[r], cc, ss)

(* The seven kinds of them.                                                *)
LEMMA RankSteps ==
  ASSUME Always, NEW r \in R,
         DeliverRequest(r) \/ DeliverReturn(r) \/ Accept(r) \/ Serve(r) \/ Send(r)
           \/ ServeFails(r) \/ Dies(r)
  PROVE  Local(r)
<1> DEFINE c == conn[r]
           s == spark[r]
           p == pc
           half == wire.half
           body == wire.body
           Kept == UNCHANGED <<pc, rows, layer, lane, sent, rank, want, kernels, wire,
                               passes, broken>>
<1>1. /\ c \in Connection /\ s \in DaemonState /\ body \in [Halves -> Nat]
      /\ Sends(p, c, s) /\ Ring(c) /\ Answers(s)
      /\ conn = [conn EXCEPT ![r] = c] /\ spark \in [R -> DaemonState]
  BY DEF Always, Typed, Client
<1>2. ASSUME DeliverRequest(r) PROVE Local(r)
  <2> DEFINE cc == [c EXCEPT !.out = Tail(@)]
             ss == [s EXCEPT !.slots = @ - 1,
                             !.inbox = Append(@, [head |-> c.head[Head(c.out)],
                                                  data |-> body[Head(c.out)]])]
  <2>1. c.out # <<>> /\ s.slots > 0 /\ Kept
    BY <1>2 DEF DeliverRequest
  <2>2. conn' = [conn EXCEPT ![r] = cc] /\ spark' = [spark EXCEPT ![r] = ss]
    BY <1>2 DEF DeliverRequest
  <2>3. Moved(p, half, body, c, s, cc, ss)
    <3> HIDE DEF c, s, p, half, body
    <3> QED BY <1>1, <2>1, RequestArrives
  <2>4. QED
    <3> HIDE DEF cc, ss
    <3> QED BY <2>1, <2>2, <2>3 DEF Local
<1>3. ASSUME DeliverReturn(r) PROVE Local(r)
  <2> DEFINE cc == [c EXCEPT !.posted = Tail(@), !.arrived = Append(@, Head(c.posted)),
                             !.ring[Head(c.posted)] = s.buf[Head(s.out)]]
             ss == [s EXCEPT !.out = Tail(@)]
  <2>1. s.out # <<>> /\ c.posted # <<>> /\ Kept
    BY <1>3 DEF DeliverReturn
  <2>2. conn' = [conn EXCEPT ![r] = cc] /\ spark' = [spark EXCEPT ![r] = ss]
    BY <1>3 DEF DeliverReturn
  <2>3. Moved(p, half, body, c, s, cc, ss)
    <3> HIDE DEF c, s, p, half, body
    <3> QED BY <1>1, <2>1, ReturnArrives
  <2>4. QED
    <3> HIDE DEF cc, ss
    <3> QED BY <2>1, <2>2, <2>3 DEF Local
<1>4. ASSUME Accept(r) PROVE Local(r)
  <2> DEFINE f == Head(s.inbox)
             ss == [s EXCEPT !.inbox = Tail(@), !.held = f.head, !.data = f.data,
                             !.rx = IF f.head.seq = @ THEN @ + 1 ELSE @,
                             !.pc = IF f.head.seq = s.rx THEN "serve" ELSE "closed"]
  <2>1. s.pc = "recv" /\ s.inbox # <<>> /\ Kept /\ conn' = conn
    BY <1>4 DEF Accept
  <2>2. spark' = [spark EXCEPT ![r] = ss]
    BY <1>4 DEF Accept
  <2>3. Moved(p, half, body, c, s, c, ss)
    <3> HIDE DEF c, s, p, half, body
    <3> QED BY <1>1, <2>1, RequestAccepted
  <2>4. QED
    <3> HIDE DEF ss
    <3> QED BY <1>1, <2>1, <2>2, <2>3 DEF Local
<1>5. ASSUME Serve(r) PROVE Local(r)
  <2> DEFINE ss == [s EXCEPT !.busy = @ \ {s.cur}, !.buf[s.cur] = Answer(s, TRUE),
                             !.slots = @ + 1, !.pc = "send"]
  <2>1. s.pc = "serve" /\ Kept /\ conn' = conn
    BY <1>5 DEF Serve
  <2>2. spark' = [spark EXCEPT ![r] = ss]
    BY <1>5 DEF Serve
  <2>3. Moved(p, half, body, c, s, c, ss)
    <3> HIDE DEF c, s, p, half, body
    <3> QED BY <1>1, <2>1, RequestServed
  <2>4. QED
    <3> HIDE DEF ss
    <3> QED BY <1>1, <2>1, <2>2, <2>3 DEF Local
<1>6. ASSUME Send(r) PROVE Local(r)
  <2> DEFINE ss == [s EXCEPT !.tx = @ + 1, !.busy = @ \cup {s.cur},
                             !.out = Append(@, s.cur), !.cur = 1 - @, !.pc = "recv"]
  <2>1. s.pc = "send" /\ Kept /\ conn' = conn
    BY <1>6 DEF Send
  <2>2. spark' = [spark EXCEPT ![r] = ss]
    BY <1>6 DEF Send
  <2>3. Moved(p, half, body, c, s, c, ss)
    <3> HIDE DEF c, s, p, half, body
    <3> QED BY <1>1, <2>1, AnswerSent
  <2>4. QED
    <3> HIDE DEF ss
    <3> QED BY <1>1, <2>1, <2>2, <2>3 DEF Local
<1>7. ASSUME ServeFails(r) PROVE Local(r)
  <2> DEFINE ss == [s EXCEPT !.tx = @ + 1, !.slots = @ + 1, !.busy = @ \cup {s.cur},
                             !.buf[s.cur] = Answer(s, FALSE),
                             !.out = Append(@, s.cur), !.cur = 1 - @, !.pc = "closed"]
  <2>1. s.pc = "serve" /\ Kept /\ conn' = conn
    BY <1>7 DEF ServeFails
  <2>2. spark' = [spark EXCEPT ![r] = ss]
    BY <1>7 DEF ServeFails
  <2>3. Moved(p, half, body, c, s, c, ss)
    <3> HIDE DEF c, s, p, half, body
    <3> QED BY <1>1, <2>1, ErrorSent
  <2>4. QED
    <3> HIDE DEF ss
    <3> QED BY <1>1, <2>1, <2>2, <2>3 DEF Local
<1>8. ASSUME Dies(r) PROVE Local(r)
  <2> DEFINE ss == [s EXCEPT !.pc = "closed", !.out = <<>>]
  <2>1. s.pc = "serve" /\ Kept /\ conn' = conn
    BY <1>8 DEF Dies
  <2>2. spark' = [spark EXCEPT ![r] = ss]
    BY <1>8 DEF Dies
  <2>3. Moved(p, half, body, c, s, c, ss)
    <3> HIDE DEF c, s, p, half, body
    <3> QED BY <1>1, <2>1, DaemonGone
  <2>4. QED
    <3> HIDE DEF ss
    <3> QED BY <1>1, <2>1, <2>2, <2>3 DEF Local
<1>9. QED
  BY <1>2, <1>3, <1>4, <1>5, <1>6, <1>7, <1>8

(* None of them disturbs the invariant.                                    *)
LEMMA LocalKeeps ==
  ASSUME IInv, NEW r \in R, Local(r)
  PROVE  IInv'
<1> DEFINE Mv(cc, ss) == Moved(pc, wire.half, wire.body, conn[r], spark[r], cc, ss)
<1>1. PICK cc, ss : /\ conn' = [conn EXCEPT ![r] = cc] /\ spark' = [spark EXCEPT ![r] = ss]
                    /\ Mv(cc, ss)
  BY DEF Local
<1>2. /\ pc' = pc /\ rows' = rows /\ layer' = layer /\ lane' = lane /\ sent' = sent
      /\ rank' = rank /\ want' = want /\ kernels' = kernels /\ wire' = wire /\ broken' = broken
  BY DEF Local
<1>3. /\ conn \in [R -> Connection] /\ spark \in [R -> DaemonState]
      /\ cc \in Connection /\ ss \in DaemonState
  BY <1>1 DEF Moved, IInv, Always, Typed
<1>4. /\ conn' \in [R -> Connection] /\ spark' \in [R -> DaemonState]
      /\ conn'[r] = cc /\ spark'[r] = ss
      /\ \A q \in R : q # r => conn'[q] = conn[q] /\ spark'[q] = spark[q]
  BY <1>1, <1>3
<1>5. /\ cc.consumed = conn[r].consumed /\ cc.last = conn[r].last
      /\ cc.rx = conn[r].rx /\ cc.tx = conn[r].tx
      /\ Sends(pc, cc, ss) /\ Ring(cc) /\ Answers(ss)
      /\ \A t \in Slots : Read(conn[r], t) => cc.ring[t] = conn[r].ring[t]
      /\ HalvesInTurn(pc, wire.half, conn[r]) => HalvesInTurn(pc, wire.half, cc)
      /\ SameExchange(wire.body, conn[r], spark[r]) => SameExchange(wire.body, cc, ss)
      /\ Flow(cc, ss) <= Flow(conn[r], spark[r])
      /\ \A q, n \in Nat : Under(cc, ss, q, n) => Under(conn[r], spark[r], q, n)
  BY <1>1 DEF Moved
<1>6. /\ \A q \in R : conn'[q].consumed = conn[q].consumed /\ conn'[q].last = conn[q].last
      /\ \A q \in R : conn'[q].rx = conn[q].rx /\ conn'[q].tx = conn[q].tx
      /\ \A q \in R, t \in Slots : Read(conn[q], t) => conn'[q].ring[t] = conn[q].ring[t]
  BY <1>4, <1>5
<1>7. \A q \in R, t \in Slots : Read(conn[q], t) <=> Read(conn'[q], t)
  BY <1>6 DEF Read
<1>8. Always'
  <2>1. Typed' /\ PassAt' /\ InFlight'
    BY <1>2, <1>4 DEF IInv, Always, Typed, PassAt, InFlight
  <2>2. ASSUME NEW q \in R PROVE Sends(pc', conn'[q], spark'[q]) /\ Ring(conn'[q]) /\ Answers(spark'[q])
    BY <1>2, <1>4, <1>5 DEF IInv, Always
  <2>3. ASSUME NEW q \in R PROVE Planes(q)'
    <3>1. Planes(q) /\ conn[q].last \in Slots /\ \A i \in 1..Len(kernels) : kernels[i].planes[q] \in Slots
      BY <1>3, PlaneTypes DEF IInv, Always, Connection
    <3>2. QED
      BY <1>2, <1>6, <1>7, <3>1 DEF Planes
  <2>4. QED
    BY <2>1, <2>2, <2>3 DEF Always
<1>9. Carried'
  BY <1>2, <1>4, <1>5 DEF IInv, Carried, Mine, This
<1>10. Sound'
  <2>1. \A i \in 1..Len(kernels), q \in R :
          conn'[q].ring[kernels[i].planes[q]] = conn[q].ring[kernels[i].planes[q]]
    <3>1. \A i \in 1..Len(kernels), q \in R : /\ kernels[i].planes[q] \in Slots
                                              /\ Read(conn[q], kernels[i].planes[q])
      BY PlaneTypes DEF IInv, Always, Planes
    <3>2. QED
      BY <1>6, <3>1
  <2>2. QED
    <3>1. Sound
      BY DEF IInv
    <3>2. QED
      BY <1>2, <2>1, <3>1 DEF Sound
<1>11. Wired'
  <2>1. Posts' = Posts /\ \A q \in R : Owed(q)' = Owed(q)
    BY <1>2 DEF Posts, Owed
  <2>2. ASSUME InStep PROVE InStep'
    <3>1. LanesInTurn'
      BY <1>2, <2>2 DEF InStep, LanesInTurn
    <3>2. ASSUME NEW q \in R PROVE Flow(conn'[q], spark'[q]) <= Owed(q)
      <4>1. CASE q # r
        BY <1>4, <2>2, <4>1 DEF InStep
      <4>2. CASE q = r
        <5>1. PICK x, y \in Int : Flow(cc, ss) = x /\ Flow(conn[r], spark[r]) = y
          BY <1>3, FlowInt
        <5>2. PICK z \in Int : Owed(r) = z
          BY OwedInt DEF IInv, Always
        <5>3. x <= y /\ y <= z
          BY <1>5, <2>2, <5>1, <5>2 DEF InStep
        <5>4. QED
          BY <1>4, <4>2, <5>1, <5>2, <5>3
      <4>3. QED
        BY <4>1, <4>2
    <3>3. ASSUME NEW q \in R, NEW a \in Nat, NEW n \in Nat, Under(conn'[q], spark'[q], a, n)
          PROVE  n = a + 1
      BY <1>4, <1>5, <2>2, <3>3 DEF InStep
    <3>4. QED
      BY <1>2, <1>6, <2>1, <2>2, <3>1, <3>2, <3>3 DEF InStep
  <2>3. ASSUME Lost PROVE Lost'
    <3>1. PICK k \in R, b \in Nat : LostAt(k, b)
      BY <2>3 DEF Lost
    <3>2. conn'[k].rx \in Nat
      BY <1>4 DEF Connection
    <3>3. ASSUME NEW n \in Nat, Under(conn'[k], spark'[k], conn'[k].rx, n) PROVE n <= b
      BY <1>4, <1>5, <1>6, <3>1, <3>2, <3>3 DEF LostAt, Behind
    <3>4. LostAt(k, b)'
      BY <1>2, <1>6, <2>1, <3>1, <3>3 DEF LostAt, Behind
    <3>5. QED
      BY <3>4 DEF Lost
  <2>4. QED
    BY <1>2, <2>2, <2>3 DEF IInv, Wired
<1>12. QED
  BY <1>8, <1>9, <1>10, <1>11 DEF IInv
-----------------------------------------------------------------------------
(* The steps of the pass that leave client, connections and sums alone.    *)
LEMMA QuietKeeps ==
  ASSUME IInv, UNCHANGED <<kernels, wire, conn, spark>>, Typed', PassAt',
         pc \notin {"fill", "post"}, pc' \notin {"fill", "post", "recv"},
         sent' = sent \/ sent' = <<0, 0>>, broken \subseteq broken', Wired'
  PROVE  IInv'
<1>1. kernels' = kernels /\ wire' = wire /\ conn' = conn /\ spark' = spark
  OBVIOUS
<1>2. InFlight'
  <2>1. PICK n \in Nat : n = Len(kernels)
    BY DEF IInv, Always, Typed
  <2>2. n + (IF sent[1] # 0 THEN 1 ELSE 0) + (IF sent[2] # 0 THEN 1 ELSE 0) <= 2
    BY <2>1 DEF IInv, Always, InFlight
  <2>3. n + (IF sent'[1] # 0 THEN 1 ELSE 0) + (IF sent'[2] # 0 THEN 1 ELSE 0) <= 2
    BY <2>2
  <2>4. QED
    BY <1>1, <2>1, <2>3 DEF IInv, Always, InFlight
<1>3. ASSUME NEW r \in R
      PROVE  Sends(pc', conn'[r], spark'[r]) /\ Ring(conn'[r]) /\ Answers(spark'[r]) /\ Planes(r)'
  <2>1. Sends(pc, conn[r], spark[r]) /\ Ring(conn[r]) /\ Answers(spark[r]) /\ Planes(r)
    BY DEF IInv, Always
  <2>2. Sends(pc', conn'[r], spark'[r])
    BY <1>1, <2>1 DEF Sends
  <2>3. Planes(r)'
    BY <1>1, <2>1 DEF Planes
  <2>4. QED
    BY <1>1, <2>1, <2>2, <2>3
<1>4. Always'
  BY <1>2, <1>3 DEF Always
<1>5. Carried'
  BY <1>1 DEF IInv, Carried, HalvesInTurn
<1>6. Sound'
  BY <1>1 DEF IInv, Sound
<1>7. QED
  BY <1>4, <1>5, <1>6 DEF IInv

(* A rank that has lost step stays so while the pass does nothing at it.   *)
LEMMA LostKeeps ==
  ASSUME NEW k \in R, NEW b \in Nat, Behind(k, b), b <= Posts', pc' # "recv",
         wire'.inflight = wire.inflight,
         conn'[k].rx = conn[k].rx, conn'[k].tx = conn[k].tx,
         \A n \in Nat : Under(conn'[k], spark'[k], conn[k].rx, n)
                          => Under(conn[k], spark[k], conn[k].rx, n)
  PROVE  Lost'
<1>1. LostAt(k, b)'
  BY DEF LostAt, Behind
<1>2. QED
  BY <1>1 DEF Lost

(* A pass in step that gives up waiting for a rank has lost step with it:  *)
(* the next return the rank would be believed is the one given up.         *)
LEMMA StepLost ==
  ASSUME Always, InStep, pc = "recv", NEW k \in R, k = rank, NEW b \in Nat, b = want.id
  PROVE  Behind(k, b)
<1>1. PICK l, w \in Nat : Len(wire.inflight) = l /\ wire.next = w
  BY DEF Always, Typed, Client
<1>0. rank <= k
  BY DEF R
<1>2. Posts = w - 1 /\ b = w - 1 - l /\ Owed(k) = l + 1
  <2>1. Posts = w - 1
    BY <1>1 DEF Posts
  <2>2. QED
    BY <1>0, <1>1, <2>1 DEF InStep, Owed
<1>3. conn[k].tx = w - 1 /\ conn[k].rx = w - 1 - (l + 1)
  BY <1>2 DEF InStep
<1>4. \A i \in 1..l : wire.inflight[i].id = w - 1 - l + i
  BY <1>1, <1>2 DEF InStep
<1>5. conn[k].rx \in Nat
  BY DEF Always, Typed, Connection
<1>6. ASSUME NEW n \in Nat, Under(conn[k], spark[k], conn[k].rx, n) PROVE n <= b
  <2>1. n = conn[k].rx + 1
    BY <1>5, <1>6 DEF InStep
  <2>2. QED
    BY <1>2, <1>3, <2>1
<1>7. \A i \in 1..l : wire.inflight[i].id > b
  BY <1>2, <1>4
<1>8. b <= Posts /\ conn[k].tx > conn[k].rx
  BY <1>2, <1>3
<1>9. QED
  BY <1>1, <1>6, <1>7, <1>8 DEF Behind

(* A pass that has not been given up stays in step when only its place     *)
(* changes.                                                                *)
LEMMA StepKeeps ==
  ASSUME InStep, UNCHANGED <<wire, conn, spark>>,
         pc \notin {"fill", "post", "recv"}, pc' \notin {"fill", "post", "recv"}, LanesInTurn'
  PROVE  InStep'
<1>1. Posts' = Posts /\ \A r \in R : Owed(r)' = Owed(r)
  BY DEF Posts, Owed
<1>2. wire' = wire /\ conn' = conn /\ spark' = spark
  OBVIOUS
<1>3. QED
  BY <1>1, <1>2 DEF InStep

(* What Abandon leaves.                                                    *)
LEMMA AbandonDoes ==
  ASSUME NEW cause, Abandon(cause), Typed, UNCHANGED kernels,
         wire' \in Client, conn' \in [R -> Connection], spark' = spark
  PROVE  /\ Typed' /\ PassAt' /\ pc' = "idle" /\ sent' = <<0, 0>>
         /\ broken' = broken \cup {cause}
<1>1. /\ pc' = "idle" /\ rows' = <<>> /\ layer' = 0 /\ lane' = 1 /\ sent' = <<0, 0>>
      /\ rank' = 1 /\ want' = NoExchange /\ broken' = broken \cup {cause}
  BY DEF Abandon
<1>2. <<0, 0>> \in [1..2 -> Nat] /\ NoExchange \in Exchange /\ 1 \in R
  BY WireAssumption DEF NoExchange, Exchange, R
<1>3. /\ <<>> \in Seq(Nat) /\ Len(<<>>) <= 2 /\ 0 \in Nat /\ 1 \in 1..2
      /\ "idle" \in {"idle", "turn", "recv", "claim", "fill", "post"}
  OBVIOUS
<1>4. Typed'
  BY <1>1, <1>2, <1>3 DEF Typed
<1>5. PassAt'
  BY <1>1, WireAssumption DEF PassAt
<1>6. QED
  BY <1>1, <1>4, <1>5

(* A pass begins.                                                          *)
LEMMA StartPassKeeps ==
  ASSUME IInv, NEW b \in Batches, StartPass(b)
  PROVE  IInv'
<1>1. /\ pc = "idle" /\ pc' = "turn" /\ rows' = b /\ layer' = 0 /\ lane' = 1
      /\ sent' = sent /\ rank' = rank /\ want' = want /\ kernels' = kernels
      /\ wire' = wire /\ conn' = conn /\ spark' = spark /\ broken' = broken
  BY DEF StartPass
<1>2. PICK n \in Nat : Len(b) = n /\ n >= 1 /\ n <= 2 /\ b \in Seq(Nat)
  <2>1. b \in Seq(Nat \ {0})
    BY WireAssumption
  <2>2. b \in Seq(Nat)
    BY <2>1, Retyped
  <2>0. Len(b) \in 1..2
    BY WireAssumption
  <2>3. PICK m \in 1..2 : Len(b) = m
    BY <2>0
  <2>4. m \in Nat /\ m >= 1 /\ m <= 2
    OBVIOUS
  <2>5. QED
    BY <2>2, <2>3, <2>4
<1>3. Typed'
  BY <1>1, <1>2 DEF IInv, Always, Typed
<1>4. PassAt'
  BY <1>1, <1>2, WireAssumption DEF PassAt
<1>5. ASSUME InStep PROVE InStep'
  <2>1. LanesInTurn'
    <3>1. sent[1] = 0 /\ sent[2] = 0 /\ lane \in 1..2
      BY <1>1, <1>5 DEF InStep, LanesInTurn, IInv, Always, Typed
    <3>2. sent[lane] = 0 /\ sent[3 - lane] = 0
      BY <3>1
    <3>3. Len(wire.inflight) = 0
      BY <1>1, <1>5, <3>2 DEF InStep, LanesInTurn
    <3>4. QED
      BY <1>1, <3>1, <3>3, WireAssumption DEF LanesInTurn
  <2>2. QED
    BY <1>1, <1>5, <2>1, StepKeeps
<1>6. ASSUME Lost PROVE Lost'
  <2>1. PICK k \in R, a \in Nat : LostAt(k, a)
    BY <1>6 DEF Lost
  <2>2. Posts' = Posts
    BY <1>1 DEF Posts
  <2>3. QED
    BY <1>1, <2>1, <2>2, LostKeeps DEF LostAt, Behind
<1>7. Wired'
  BY <1>1, <1>5, <1>6 DEF IInv, Wired
<1>8. QED
  BY <1>1, <1>3, <1>4, <1>7, QuietKeeps

(* A pass ends.                                                            *)
LEMMA EndPassKeeps ==
  ASSUME IInv, EndPass
  PROVE  IInv'
<1>1. /\ pc = "turn" /\ layer > Layers /\ pc' = "idle" /\ rows' = <<>> /\ layer' = 0 /\ lane' = 1
      /\ sent' = sent /\ rank' = rank /\ want' = want /\ kernels' = kernels
      /\ wire' = wire /\ conn' = conn /\ spark' = spark /\ broken' = broken
  BY DEF EndPass
<1>2. <<>> \in Seq(Nat) /\ Len(<<>>) = 0
  OBVIOUS
<1>3. Typed'
  BY <1>1, <1>2 DEF IInv, Always, Typed
<1>4. PassAt'
  BY <1>1, <1>2, WireAssumption DEF PassAt
<1>5. ASSUME InStep PROVE InStep'
  <2>1. LanesInTurn'
    BY <1>1, <1>5, WireAssumption DEF InStep, LanesInTurn
  <2>2. QED
    BY <1>1, <1>5, <2>1, StepKeeps
<1>6. ASSUME Lost PROVE Lost'
  <2>1. PICK k \in R, a \in Nat : LostAt(k, a)
    BY <1>6 DEF Lost
  <2>2. Posts' = Posts
    BY <1>1 DEF Posts
  <2>3. QED
    BY <1>1, <2>1, <2>2, LostKeeps DEF LostAt, Behind
<1>7. Wired'
  BY <1>1, <1>5, <1>6 DEF IInv, Wired
<1>8. QED
  BY <1>1, <1>3, <1>4, <1>7, QuietKeeps

(* A lane takes its turn.                                                  *)
LEMMA AttendKeeps ==
  ASSUME IInv, Attend
  PROVE  IInv'
<1>1. /\ pc = "turn" /\ sent[lane] = 0 /\ layer <= Layers /\ rows' = rows /\ broken' = broken
      /\ sent' = sent /\ rank' = rank /\ want' = want /\ kernels' = kernels
      /\ wire' = wire /\ conn' = conn /\ spark' = spark
  BY DEF Attend, NextTurn
<1>2. \/ layer \in 1..(Layers - 1) /\ pc' = "claim" /\ layer' = layer /\ lane' = lane
      \/ /\ layer \notin 1..(Layers - 1) /\ pc' = "turn" /\ lane < Len(rows)
         /\ lane' = lane + 1 /\ layer' = layer
      \/ /\ layer \notin 1..(Layers - 1) /\ pc' = "turn" /\ ~(lane < Len(rows))
         /\ lane' = 1 /\ layer' = layer + 1
  BY DEF Attend, NextTurn
<1>3. PICK n \in Nat : Len(rows) = n /\ n <= 2
  BY DEF IInv, Always, Typed
<1>4. layer \in Nat /\ lane \in 1..2 /\ lane <= n /\ Layers \in Nat \ {0}
  BY <1>1, <1>3, WireAssumption DEF IInv, Always, Typed, PassAt
<1>5. Typed'
  <2>1. pc' \in {"idle", "turn", "recv", "claim", "fill", "post"} /\ layer' \in Nat /\ lane' \in 1..2
    BY <1>2, <1>3, <1>4
  <2>2. QED
    BY <1>1, <2>1 DEF IInv, Always, Typed
<1>6. PassAt'
  BY <1>1, <1>2, <1>3, <1>4 DEF PassAt
<1>7. ASSUME InStep PROVE InStep'
  <2>1. LanesInTurn'
    <3> USE <1>7 DEF InStep, LanesInTurn
    <3>1. CASE pc' = "claim"
      BY <1>1, <1>2, <3>1
    <3>2. CASE pc' = "turn" /\ lane' = lane + 1 /\ lane < Len(rows)
      BY <1>1, <1>2, <1>3, <1>4, <3>2
    <3>3. CASE pc' = "turn" /\ lane' = 1 /\ ~(lane < Len(rows))
      BY <1>1, <1>2, <1>3, <1>4, <3>3
    <3>4. QED
      BY <1>2, <3>1, <3>2, <3>3
  <2>2. QED
    BY <1>1, <1>2, <1>7, <2>1, StepKeeps
<1>8. ASSUME Lost PROVE Lost'
  <2>1. PICK k \in R, a \in Nat : LostAt(k, a)
    BY <1>8 DEF Lost
  <2>2. Posts' = Posts
    BY <1>1, <1>2 DEF Posts
  <2>3. QED
    BY <1>1, <1>2, <2>1, <2>2, LostKeeps DEF LostAt, Behind
<1>9. Wired'
  BY <1>1, <1>7, <1>8 DEF IInv, Wired
<1>10. QED
  BY <1>1, <1>2, <1>5, <1>6, <1>9, QuietKeeps

(* The pass is given up before an exchange: such a failure is not one      *)
(* FailsClosed speaks of.                                                  *)
LEMMA LaneGivesUp ==
  ASSUME IInv, LaneFails \/ SendRefused
  PROVE  IInv'
<1>1. /\ pc \in {"turn", "claim"} /\ Abandon("lane") /\ kernels' = kernels
      /\ wire' = wire /\ conn' = conn /\ spark' = spark
  BY DEF LaneFails, SendRefused
<1>2. Typed
  BY DEF IInv, Always
<1>3. wire' \in Client /\ conn' \in [R -> Connection]
  BY <1>1, <1>2 DEF Typed
<1>4. Typed' /\ PassAt' /\ pc' = "idle" /\ sent' = <<0, 0>> /\ broken' = broken \cup {"lane"}
  BY <1>1, <1>2, <1>3, AbandonDoes
<1>5. Wired'
  BY <1>4 DEF Wired
<1>6. QED
  BY <1>1, <1>4, <1>5, QuietKeeps

(* The wait for a return is given up.                                      *)
LEMMA RecvFailsKeeps ==
  ASSUME IInv, RecvFails
  PROVE  IInv'
<1>1. /\ pc = "recv" /\ Abandon("return") /\ kernels' = kernels
      /\ wire' = wire /\ conn' = conn /\ spark' = spark
  BY DEF RecvFails
<1>2. Typed /\ Always
  BY DEF IInv, Always
<1>3. wire' \in Client /\ conn' \in [R -> Connection]
  BY <1>1, <1>2 DEF Typed
<1>4. Typed' /\ PassAt' /\ pc' = "idle" /\ sent' = <<0, 0>> /\ broken' = broken \cup {"return"}
  BY <1>1, <1>2, <1>3, AbandonDoes
<1>5. Posts' = Posts
  BY <1>1, <1>4 DEF Posts
<1>6. ASSUME NEW k \in R, NEW b \in Nat, Behind(k, b) PROVE Lost'
  BY <1>1, <1>4, <1>5, <1>6, LostKeeps DEF Behind
<1>7. ASSUME InStep PROVE Lost'
  <2>1. rank \in R /\ want.id \in Nat
    BY <1>2 DEF Typed, Exchange
  <2>2. PICK k \in R, b \in Nat : k = rank /\ b = want.id
    BY <2>1
  <2>3. Behind(k, b)
    BY <1>1, <1>2, <1>7, <2>2, StepLost
  <2>4. QED
    BY <1>6, <2>3
<1>8. ASSUME Lost PROVE Lost'
  BY <1>6, <1>8 DEF Lost, LostAt
<1>9. Wired'
  BY <1>4, <1>7, <1>8 DEF IInv, Wired
<1>10. QED
  BY <1>1, <1>4, <1>9, QuietKeeps

(* The oldest sum has run.                                                 *)
LEMMA RunSumKeeps ==
  ASSUME IInv, RunSum
  PROVE  IInv'
<1>1. /\ pc' = pc /\ rows' = rows /\ layer' = layer /\ lane' = lane /\ sent' = sent
      /\ rank' = rank /\ want' = want /\ wire' = wire /\ conn' = conn /\ spark' = spark
      /\ broken' = broken /\ kernels # <<>> /\ kernels' = Tail(kernels)
  BY DEF RunSum
<1>2. kernels \in Seq(Sum)
  BY DEF IInv, Always, Typed
<1>3. /\ kernels' \in Seq(Sum) /\ Len(kernels) \in Nat \ {0} /\ Len(kernels') = Len(kernels) - 1
      /\ \A i \in 1..Len(kernels') : i + 1 \in 1..Len(kernels) /\ kernels'[i] = kernels[i + 1]
  BY <1>1, <1>2, TailAt
<1>4. Typed' /\ PassAt'
  BY <1>1, <1>3 DEF IInv, Always, Typed, PassAt
<1>5. InFlight'
  <2>1. PICK n \in Nat : Len(kernels) = n + 1 /\ Len(kernels') = n
    BY <1>3
  <2>2. pc # "post"
    BY <1>1 DEF IInv, Always, InFlight
  <2>3. n + 1 + (IF sent[1] # 0 THEN 1 ELSE 0) + (IF sent[2] # 0 THEN 1 ELSE 0) <= 2
    BY <2>1 DEF IInv, Always, InFlight
  <2>4. n + (IF sent[1] # 0 THEN 1 ELSE 0) + (IF sent[2] # 0 THEN 1 ELSE 0) <= 2
    BY <2>3
  <2>5. QED
    BY <1>1, <2>1, <2>2, <2>4 DEF IInv, Always, InFlight
<1>6. ASSUME NEW r \in R
      PROVE  Sends(pc', conn'[r], spark'[r]) /\ Ring(conn'[r]) /\ Answers(spark'[r]) /\ Planes(r)'
  <2>1. Sends(pc, conn[r], spark[r]) /\ Ring(conn[r]) /\ Answers(spark[r]) /\ Planes(r)
    BY DEF IInv, Always
  <2>2. Planes(r)'
    BY <1>1, <1>3, <2>1 DEF Planes
  <2>3. QED
    BY <1>1, <2>1, <2>2
<1>7. Always'
  BY <1>4, <1>5, <1>6 DEF Always
<1>8. Carried'
  BY <1>1 DEF IInv, Carried, Mine, This
<1>9. Sound'
  BY <1>1, <1>3 DEF IInv, Sound
<1>10. Wired'
  <2>1. InStep => InStep'
    BY <1>1 DEF InStep, LanesInTurn, Posts, Owed
  <2>2. Lost => Lost'
    BY <1>1 DEF Lost, LostAt, Behind, Posts
  <2>3. QED
    BY <1>1, <2>1, <2>2 DEF IInv, Wired
<1>11. QED
  BY <1>7, <1>8, <1>9, <1>10 DEF IInv
-----------------------------------------------------------------------------
(* Returns.                                                                *)

\* What recv_rdma does to a connection: slot t, the first of those arrived, is
\* read and nothing else moves.
ReadOne(c, t, d) ==
  /\ d \in Connection /\ d.out = c.out /\ d.sends = c.sends /\ d.head = c.head
  /\ d.posted = c.posted /\ d.ring = c.ring /\ d.tx = c.tx
  /\ d.arrived = Tail(c.arrived) /\ d.consumed = Append(c.consumed, t)

(* recv_rdma moves the receive sequence exactly when it accepts.           *)
LEMMA TakenDoes ==
  ASSUME NEW c \in Connection, c.arrived # <<>>
  PROVE  /\ ReadOne(c, Head(c.arrived), Taken(c))
         /\ Accepts(c) => /\ Taken(c).rx = c.rx + 1 /\ Taken(c).last = Head(c.arrived)
                          /\ c.ring[Head(c.arrived)].id = want.id
                          /\ c.ring[Head(c.arrived)].seq = c.rx
         /\ ~Accepts(c) => Taken(c).rx = c.rx
<1> DEFINE t == Head(c.arrived)
           f == c.ring[t]
           o == Tail(c.arrived)
           a == Append(c.consumed, t)
           d == [c EXCEPT !.arrived = o, !.consumed = a]
           x == IF f.seq = c.rx THEN c.rx + 1 ELSE c.rx
           e == [d EXCEPT !.last = t, !.rx = x]
<1>1. c.arrived \in Seq(Slots) /\ c.consumed \in Seq(Slots) /\ c.rx \in Nat
  BY DEF Connection
<1>2. t \in Slots /\ o \in Seq(Slots)
  BY <1>1, TailAt
<1>3. a \in Seq(Slots)
  BY <1>1, <1>2, AppendAt
<1>4. (Accepts(c) <=> Valid(f) /\ f.seq = c.rx) /\ (Valid(f) => f.id = want.id)
  BY DEF Accepts, Valid
<1>5. Taken(c) = IF ~Valid(f) THEN d ELSE [d EXCEPT !.last = t, !.rx = IF f.seq = @ THEN @ + 1 ELSE @]
  BY DEF Taken
<1> HIDE DEF t, o, a
<1>6. /\ d \in Connection /\ d.out = c.out /\ d.sends = c.sends /\ d.head = c.head
      /\ d.posted = c.posted /\ d.ring = c.ring /\ d.tx = c.tx /\ d.rx = c.rx /\ d.last = c.last
      /\ d.arrived = o /\ d.consumed = a
  BY <1>2, <1>3 DEF Connection
<1>7. Taken(c) = IF ~Valid(f) THEN d ELSE e
  BY <1>5, <1>6
<1> HIDE DEF d, f
<1>8. x \in Nat /\ (f.seq = c.rx => x = c.rx + 1) /\ (f.seq # c.rx => x = c.rx)
  BY <1>1
<1> HIDE DEF x
<1>9. /\ e \in Connection /\ e.out = c.out /\ e.sends = c.sends /\ e.head = c.head
      /\ e.posted = c.posted /\ e.ring = c.ring /\ e.tx = c.tx /\ e.rx = x /\ e.last = t
      /\ e.arrived = o /\ e.consumed = a
  BY <1>2, <1>6, <1>8 DEF Connection
<1> HIDE DEF e
<1>10. CASE ~Valid(f)
  <2>1. Taken(c) = d /\ ~Accepts(c)
    BY <1>4, <1>7, <1>10
  <2>2. QED
    BY <1>6, <2>1 DEF ReadOne, o, a, t
<1>11. CASE Valid(f)
  <2>1. Taken(c) = e
    BY <1>7, <1>11
  <2>2. ReadOne(c, t, Taken(c))
    BY <1>9, <2>1 DEF ReadOne, o, a
  <2>3. QED
    BY <1>4, <1>8, <1>9, <1>11, <2>1, <2>2 DEF t, f
<1>12. QED
  BY <1>10, <1>11

(* The slots afterwards, and the frames under way.                         *)
LEMMA ReadOneDoes ==
  ASSUME NEW c \in Connection, Ring(c), c.arrived # <<>>,
         NEW t, t = Head(c.arrived), NEW d, ReadOne(c, t, d)
  PROVE  /\ t \in Slots /\ 1 \in 1..Len(c.arrived) /\ t = c.arrived[1]
         /\ Ring(d) /\ Len(c.arrived) \in Nat /\ Len(c.consumed) \in Nat
         /\ Len(d.arrived) = Len(c.arrived) - 1 /\ Len(d.consumed) = Len(c.consumed) + 1
         /\ Read(d, t) /\ \A u \in Slots : Read(c, u) => Read(d, u)
         /\ \A s, q, n : Under(d, s, q, n) => Under(c, s, q, n)
<1> DEFINE o == Tail(c.arrived)
           a == Append(c.consumed, t)
<1>1. c.arrived \in Seq(Slots) /\ c.consumed \in Seq(Slots)
  BY DEF Connection
<1>2. /\ t \in Slots /\ 1 \in 1..Len(c.arrived) /\ t = c.arrived[1] /\ Len(c.arrived) \in Nat
      /\ Len(o) = Len(c.arrived) - 1
      /\ \A i \in 1..Len(o) : i + 1 \in 1..Len(c.arrived) /\ o[i] = c.arrived[i + 1]
  BY <1>1, TailAt
<1>3. /\ Len(a) = Len(c.consumed) + 1 /\ Len(c.consumed) \in Nat
      /\ \A i \in 1..Len(c.consumed) : i \in 1..Len(a) /\ a[i] = c.consumed[i]
      /\ a[Len(c.consumed) + 1] = t
  BY <1>1, <1>2, AppendAt
<1>4. PICK A, B, C \in SUBSET Slots :
          /\ Lists(c.posted, A) /\ Lists(c.arrived, B) /\ Lists(c.consumed, C)
          /\ A \cup B \cup C = Slots
          /\ A \cap B = {} /\ A \cap C = {} /\ B \cap C = {}
  BY DEF Ring
<1>5. t \in B /\ Lists(o, B \ {t})
  BY <1>4, ListsTail
<1>6. Lists(a, C \cup {t})
  BY <1>4, <1>5, ListsAppend
<1> HIDE DEF o, a
<1>7. d.arrived = o /\ d.consumed = a /\ d.posted = c.posted /\ d.out = c.out
      /\ d.head = c.head /\ d.ring = c.ring
  BY DEF ReadOne, o, a
<1>8. Ring(d)
  BY <1>4, <1>5, <1>6, <1>7 DEF Ring
<1>9. Read(d, t) /\ \A u \in Slots : Read(c, u) => Read(d, u)
  <2>1. PICK n \in Nat : n = Len(c.consumed)
    BY <1>3
  <2>2. n + 1 \in 1..(n + 1)
    OBVIOUS
  <2>3. QED
    BY <1>3, <1>7, <2>1, <2>2 DEF Read
<1>10. ASSUME NEW s, NEW q, NEW n, Under(d, s, q, n) PROVE Under(c, s, q, n)
  BY <1>2, <1>7, <1>10 DEF Under
<1>11. QED
  BY <1>2, <1>3, <1>7, <1>8, <1>9, <1>10

(* The collection of an exchange begins.                                   *)
LEMMA CollectKeeps ==
  ASSUME IInv, Collect
  PROVE  IInv'
<1>1. /\ pc = "turn" /\ layer <= Layers /\ sent[lane] # 0 /\ wire.inflight # <<>>
      /\ pc' = "recv" /\ rank' = 1 /\ rows' = rows /\ layer' = layer /\ lane' = lane
      /\ sent' = sent /\ kernels' = kernels /\ conn' = conn /\ spark' = spark /\ broken' = broken
      /\ want' = Head(wire.inflight)
  BY DEF Collect
<1>2. Typed
  BY DEF IInv, Always
<1>3. wire \in Client /\ wire.inflight \in Seq(Exchange)
  BY <1>2 DEF Typed, Client
<1> DEFINE o == Tail(wire.inflight)
<1>4. /\ o \in Seq(Exchange) /\ Head(wire.inflight) \in Exchange
      /\ Head(wire.inflight) = wire.inflight[1] /\ 1 \in 1..Len(wire.inflight)
  BY <1>1, <1>3, TailAt
<1>5. PICK l \in Nat : Len(wire.inflight) = l + 1 /\ Len(o) = l
  <2>1. Len(wire.inflight) \in Nat \ {0} /\ Len(o) = Len(wire.inflight) - 1
    BY <1>1, <1>3, TailAt
  <2>2. PICK m \in Nat \ {0} : Len(wire.inflight) = m
    BY <2>1
  <2>3. m - 1 \in Nat /\ (m - 1) + 1 = m
    OBVIOUS
  <2>4. QED
    BY <2>1, <2>2, <2>3
<1>6. \A i \in 1..l : o[i] = wire.inflight[i + 1]
  BY <1>1, <1>3, <1>5, TailAt
<1>7. wire' = [wire EXCEPT !.inflight = o]
  BY DEF Collect
<1> HIDE DEF o
<1>8. /\ wire' \in Client /\ wire'.inflight = o /\ wire'.next = wire.next
      /\ wire'.half = wire.half /\ wire'.body = wire.body
  BY <1>3, <1>4, <1>7 DEF Client
<1>9. 1 \in R /\ \A r \in R : ~(r < 1) /\ 1 <= r
  BY WireAssumption DEF R
<1>10. Typed' /\ PassAt' /\ InFlight'
  <2>1. Typed'
    BY <1>1, <1>2, <1>4, <1>8, <1>9 DEF Typed
  <2>2. PassAt'
    BY <1>1 DEF IInv, Always, PassAt
  <2>3. Len(wire'.inflight) <= 2
    BY <1>5, <1>8 DEF IInv, Always, InFlight
  <2>4. InFlight'
    BY <1>1, <2>3 DEF IInv, Always, InFlight
  <2>5. QED
    BY <2>1, <2>2, <2>4
<1>11. ASSUME NEW r \in R
       PROVE  Sends(pc', conn'[r], spark'[r]) /\ Ring(conn'[r]) /\ Answers(spark'[r]) /\ Planes(r)'
  <2>1. Sends(pc, conn[r], spark[r]) /\ Ring(conn[r]) /\ Answers(spark[r]) /\ Planes(r)
    BY DEF IInv, Always
  <2>2. Planes(r)'
    BY <1>1, <1>9, <2>1 DEF Planes
  <2>3. QED
    BY <1>1, <2>1, <2>2 DEF Sends
<1>12. Always'
  BY <1>10, <1>11 DEF Always
<1>13. Carried' /\ Sound'
  BY <1>1, <1>8 DEF IInv, Carried, Sound, HalvesInTurn
<1>14. Wired'
  <2>1. PICK w \in Nat : wire.next = w /\ Posts = w - 1 /\ Posts' = w - 1
    BY <1>1, <1>3, <1>8 DEF Posts, Client
  <2>2. \A r \in R : Owed(r)' = l + 1 /\ Owed(r) = l + 1
    BY <1>1, <1>5, <1>8, <1>9 DEF Owed
  <2>3. ASSUME InStep PROVE InStep'
    <3>1. LanesInTurn'
      <4>1. /\ l + 1 = 1 + (IF sent[3 - lane] # 0 THEN 1 ELSE 0)
            /\ wire.inflight[1].id = sent[lane] /\ wire.inflight[1].rows = rows[lane]
            /\ sent[3 - lane] # 0 => /\ wire.inflight[1 + 1].id = sent[3 - lane]
                                     /\ wire.inflight[1 + 1].rows = rows[3 - lane]
                                     /\ 3 - lane <= Len(rows)
            /\ layer > Layers => sent[1] = 0 /\ sent[2] = 0
            /\ layer = Layers /\ lane = 2 => sent[1] = 0
            /\ layer > Layers => lane = 1
        BY <1>1, <1>5, <2>3 DEF InStep, LanesInTurn
      <4>2. l = IF sent[3 - lane] # 0 THEN 1 ELSE 0
        BY <4>1
      <4>3. sent[3 - lane] # 0 => o[1] = wire.inflight[1 + 1]
        BY <1>6, <4>2
      <4>4. QED
        BY <1>1, <1>4, <1>5, <1>8, <4>1, <4>2, <4>3 DEF LanesInTurn
    <3>2. \A i \in 1..(l + 1) : wire.inflight[i].id = w - 1 - (l + 1) + i
      BY <1>5, <2>1, <2>3 DEF InStep
    <3>3. want'.id = w - 1 - l
      <4>1. 1 \in 1..(l + 1) /\ w - 1 - (l + 1) + 1 = w - 1 - l
        OBVIOUS
      <4>2. QED
        BY <1>1, <1>4, <3>2, <4>1
    <3>4. ASSUME NEW i \in 1..l PROVE o[i].id = w - 1 - l + i
      <4>1. i + 1 \in 1..(l + 1) /\ w - 1 - (l + 1) + (i + 1) = w - 1 - l + i
        OBVIOUS
      <4>2. QED
        BY <1>6, <3>2, <4>1
    <3>5. QED
      <4>1. \A i \in 1..Len(wire'.inflight) : wire'.inflight[i].id = Posts' - Len(wire'.inflight) + i
        BY <1>5, <1>8, <2>1, <3>4
      <4>2. want'.id = Posts' - Len(wire'.inflight)
        BY <1>5, <1>8, <2>1, <3>3
      <4>3. Posts' = Posts /\ \A r \in R : Owed(r)' = Owed(r)
        BY <2>1, <2>2
      <4>4. QED
        BY <1>1, <2>3, <3>1, <4>1, <4>2, <4>3 DEF InStep
  <2>4. ASSUME Lost PROVE Lost'
    <3>1. PICK k \in R, b \in Nat : LostAt(k, b)
      BY <2>4 DEF Lost
    <3>2. \A i \in 1..(l + 1) : wire.inflight[i].id > b
      BY <1>5, <3>1 DEF LostAt, Behind
    <3>3. want'.id > b
      BY <1>1, <1>4, <1>5, <3>2
    <3>4. \A i \in 1..l : i + 1 \in 1..(l + 1)
      OBVIOUS
    <3>5. \A i \in 1..l : o[i].id > b
      BY <1>6, <3>2, <3>4
    <3>6. LostAt(k, b)'
      BY <1>1, <1>5, <1>8, <1>9, <2>1, <3>1, <3>3, <3>5 DEF LostAt, Behind
    <3>7. QED
      BY <3>6 DEF Lost
  <2>5. QED
    BY <1>1, <2>3, <2>4 DEF IInv, Wired
<1>15. QED
  BY <1>12, <1>13, <1>14 DEF IInv

\* The connections after a return is taken off.
Reading ==
  /\ pc = "recv" /\ conn[rank].arrived # <<>>
  /\ conn' = [conn EXCEPT ![rank] = Taken(conn[rank])] /\ spark' = spark

(* What that leaves alone.                                                 *)
LEMMA ReadingDoes ==
  ASSUME Always, Reading
  PROVE  /\ conn' \in [R -> Connection] /\ conn'[rank] = Taken(conn[rank])
         /\ ReadOne(conn[rank], Head(conn[rank].arrived), conn'[rank])
         /\ \A r \in R : r # rank => conn'[r] = conn[r]
         /\ \A r \in R : /\ conn'[r].out = conn[r].out /\ conn'[r].sends = conn[r].sends
                         /\ conn'[r].head = conn[r].head /\ conn'[r].ring = conn[r].ring
                         /\ conn'[r].tx = conn[r].tx
         /\ \A r \in R : Ring(conn'[r]) /\ \A u \in Slots : Read(conn[r], u) => Read(conn'[r], u)
         /\ \A r \in R : \A s, q, n : Under(conn'[r], s, q, n) => Under(conn[r], s, q, n)
         /\ Read(conn'[rank], Head(conn[rank].arrived))
         /\ Len(conn[rank].arrived) \in Nat /\ Len(conn[rank].consumed) \in Nat
         /\ Len(conn'[rank].arrived) = Len(conn[rank].arrived) - 1
         /\ Len(conn'[rank].consumed) = Len(conn[rank].consumed) + 1
<1>1. rank \in R /\ conn \in [R -> Connection] /\ conn[rank] \in Connection
  BY DEF Always, Typed
<1>2. ReadOne(conn[rank], Head(conn[rank].arrived), Taken(conn[rank]))
  BY <1>1, TakenDoes DEF Reading
<1>3. Taken(conn[rank]) \in Connection
  BY <1>2 DEF ReadOne
<1>4. /\ conn' \in [R -> Connection] /\ conn'[rank] = Taken(conn[rank])
      /\ \A r \in R : r # rank => conn'[r] = conn[r]
  BY <1>1, <1>3 DEF Reading
<1>5. Ring(conn[rank]) /\ conn[rank].arrived # <<>>
  BY <1>1 DEF Always, Reading
<1>6. /\ Ring(conn'[rank]) /\ \A u \in Slots : Read(conn[rank], u) => Read(conn'[rank], u)
      /\ \A s, q, n : Under(conn'[rank], s, q, n) => Under(conn[rank], s, q, n)
      /\ Read(conn'[rank], Head(conn[rank].arrived))
      /\ Len(conn[rank].arrived) \in Nat /\ Len(conn[rank].consumed) \in Nat
      /\ Len(conn'[rank].arrived) = Len(conn[rank].arrived) - 1
      /\ Len(conn'[rank].consumed) = Len(conn[rank].consumed) + 1
  BY <1>1, <1>2, <1>4, <1>5, ReadOneDoes
<1>7. \A r \in R : /\ conn'[r].out = conn[r].out /\ conn'[r].sends = conn[r].sends
                   /\ conn'[r].head = conn[r].head /\ conn'[r].ring = conn[r].ring
                   /\ conn'[r].tx = conn[r].tx
  BY <1>2, <1>4 DEF ReadOne
<1>8. \A r \in R : Ring(conn'[r]) /\ \A u \in Slots : Read(conn[r], u) => Read(conn'[r], u)
  BY <1>4, <1>6 DEF Always
<1>9. \A r \in R : \A s, q, n : Under(conn'[r], s, q, n) => Under(conn[r], s, q, n)
  BY <1>4, <1>6
<1>10. QED
  BY <1>2, <1>4, <1>6, <1>7, <1>8, <1>9

(* The parts of the invariant that taking a return off never disturbs.     *)
LEMMA ReadingKeeps ==
  ASSUME IInv, Reading, wire' = wire, broken \subseteq broken', pc' \notin {"fill", "post"}
  PROVE  /\ \A r \in R : Sends(pc', conn'[r], spark'[r]) /\ Ring(conn'[r]) /\ Answers(spark'[r])
         /\ \A r \in R : \A i \in 1..Len(kernels) : Read(conn'[r], kernels[i].planes[r])
         /\ Carried' /\ (kernels' = kernels => Sound') /\ conn' \in [R -> Connection]
<1>1. Always /\ Typed
  BY DEF IInv, Always
<1>2. /\ conn' \in [R -> Connection]
      /\ \A r \in R : /\ conn'[r].out = conn[r].out /\ conn'[r].sends = conn[r].sends
                      /\ conn'[r].head = conn[r].head /\ conn'[r].ring = conn[r].ring
                      /\ conn'[r].tx = conn[r].tx
      /\ \A r \in R : Ring(conn'[r]) /\ \A u \in Slots : Read(conn[r], u) => Read(conn'[r], u)
  BY <1>1, ReadingDoes
<1>3. pc = "recv" /\ spark' = spark
  BY DEF Reading
<1>4. \A r \in R : Sends(pc', conn'[r], spark'[r]) /\ Ring(conn'[r]) /\ Answers(spark'[r])
  BY <1>1, <1>2, <1>3 DEF Always, Sends
<1>5. \A r \in R : \A i \in 1..Len(kernels) : Read(conn'[r], kernels[i].planes[r])
  BY <1>1, <1>2, PlaneTypes DEF Always, Planes
<1>6. Carried'
  <2>1. ASSUME broken' \cap {"fill", "claim"} = {}, NEW r \in R
        PROVE  /\ HalvesInTurn(pc', wire'.half, conn'[r])
               /\ SameExchange(wire'.body, conn'[r], spark'[r])
    BY <1>2, <1>3, <2>1 DEF IInv, Carried, HalvesInTurn, SameExchange
  <2>2. QED
    BY <2>1 DEF Carried
<1>7. kernels' = kernels => Sound'
  BY <1>2 DEF IInv, Sound
<1>8. QED
  BY <1>2, <1>4, <1>5, <1>6, <1>7

(* A return is refused.                                                    *)
LEMMA RecvRefusedKeeps ==
  ASSUME IInv, RecvRefused
  PROVE  IInv'
<1>1. /\ Reading /\ pc = "recv" /\ ~Accepts(conn[rank]) /\ Abandon("return") /\ kernels' = kernels
      /\ wire' = wire /\ spark' = spark
  BY DEF RecvRefused, Reading
<1>2. Typed /\ Always /\ rank \in R /\ conn[rank] \in Connection
  BY DEF IInv, Always, Typed
<1>3. wire' \in Client /\ conn' \in [R -> Connection]
  BY <1>1, <1>2, ReadingDoes DEF Typed
<1>4. Typed' /\ PassAt' /\ pc' = "idle" /\ sent' = <<0, 0>> /\ broken' = broken \cup {"return"}
  BY <1>1, <1>2, <1>3, AbandonDoes
<1>5. /\ \A r \in R : Sends(pc', conn'[r], spark'[r]) /\ Ring(conn'[r]) /\ Answers(spark'[r])
      /\ \A r \in R : \A i \in 1..Len(kernels) : Read(conn'[r], kernels[i].planes[r])
      /\ Carried' /\ Sound'
  BY <1>1, <1>4, ReadingKeeps
<1>6. InFlight'
  <2>1. PICK n \in Nat : n = Len(kernels)
    BY <1>2 DEF Typed
  <2>2. n + (IF sent[1] # 0 THEN 1 ELSE 0) + (IF sent[2] # 0 THEN 1 ELSE 0) <= 2
    BY <1>2, <2>1 DEF Always, InFlight
  <2>3. n <= 2 /\ sent'[1] = 0 /\ sent'[2] = 0
    BY <1>4, <2>2
  <2>4. QED
    BY <1>1, <1>2, <1>4, <2>1, <2>3 DEF Always, InFlight
<1>7. Always'
  BY <1>1, <1>4, <1>5, <1>6 DEF Always, Planes
<1>8. Posts' = Posts
  BY <1>1, <1>4 DEF Posts
<1>9. \A k \in R : conn'[k].rx = conn[k].rx /\ conn'[k].tx = conn[k].tx
  <2>1. conn'[rank].rx = conn[rank].rx
    BY <1>1, <1>2, ReadingDoes, TakenDoes DEF Reading
  <2>2. QED
    BY <1>1, <1>2, <2>1, ReadingDoes
<1>10. ASSUME NEW k \in R, NEW b \in Nat, Behind(k, b) PROVE Lost'
  <2>1. \A n \in Nat : Under(conn'[k], spark'[k], conn[k].rx, n)
                         => Under(conn[k], spark[k], conn[k].rx, n)
    BY <1>1, <1>2, ReadingDoes
  <2>2. b <= Posts'
    BY <1>8, <1>10 DEF Behind
  <2>3. QED
    BY <1>1, <1>4, <1>9, <1>10, <2>1, <2>2, LostKeeps
<1>11. ASSUME InStep PROVE Lost'
  <2>1. rank \in R /\ want.id \in Nat
    BY <1>2 DEF Typed, Exchange
  <2>2. PICK k \in R, b \in Nat : k = rank /\ b = want.id
    BY <2>1
  <2>3. Behind(k, b)
    BY <1>1, <1>2, <1>11, <2>2, StepLost
  <2>4. QED
    BY <1>10, <2>3
<1>12. ASSUME Lost PROVE Lost'
  BY <1>10, <1>12 DEF Lost, LostAt
<1>13. Wired'
  BY <1>4, <1>11, <1>12 DEF IInv, Wired
<1>14. QED
  BY <1>5, <1>7, <1>13 DEF IInv

(* A return that is accepted is not of a rank that has lost step.          *)
LEMMA AcceptedNotLost ==
  ASSUME Always, Reading, Accepts(conn[rank]), NEW k \in R, NEW b \in Nat, LostAt(k, b)
  PROVE  k # rank /\ rank < k
<1> DEFINE c == conn[rank]
           t == Head(c.arrived)
<1>1. c \in Connection /\ c.arrived # <<>> /\ pc = "recv" /\ rank \in R /\ want.id \in Nat
  BY DEF Always, Typed, Reading, Exchange
<1>2. c.ring[t].id = want.id /\ c.ring[t].seq = c.rx
  BY <1>1, TakenDoes
<1>3. c.arrived \in Seq(Slots)
  BY <1>1 DEF Connection
<1>4. t = c.arrived[1] /\ 1 \in 1..Len(c.arrived)
  BY <1>1, <1>3, TailAt
<1>5. Under(c, spark[rank], c.rx, want.id)
  BY <1>2, <1>4 DEF Under, Is
<1>6. want.id > b /\ rank <= k
  BY <1>1 DEF LostAt
<1>7. k # rank
  BY <1>1, <1>5, <1>6 DEF LostAt, Behind
<1>8. QED
  BY <1>1, <1>6, <1>7 DEF R

(* The return of a rank is taken, and there is another to wait for.        *)
LEMMA RecvNext ==
  ASSUME IInv, Reading, Accepts(conn[rank]), rank < Ranks, rank' = rank + 1,
         UNCHANGED <<pc, rows, layer, lane, sent, want, kernels, broken, wire>>
  PROVE  IInv'
<1>1. /\ pc' = pc /\ rows' = rows /\ layer' = layer /\ lane' = lane /\ sent' = sent
      /\ want' = want /\ kernels' = kernels /\ broken' = broken /\ wire' = wire
      /\ pc = "recv" /\ spark' = spark
  BY DEF Reading
<1>2. Typed /\ Always /\ rank \in R /\ conn[rank] \in Connection /\ conn[rank].arrived # <<>>
  BY DEF IInv, Always, Typed, Reading
<1>3. /\ \A r \in R : Sends(pc', conn'[r], spark'[r]) /\ Ring(conn'[r]) /\ Answers(spark'[r])
      /\ \A r \in R : \A i \in 1..Len(kernels) : Read(conn'[r], kernels[i].planes[r])
      /\ Carried' /\ Sound' /\ conn' \in [R -> Connection]
  BY <1>1, ReadingKeeps
<1>4. /\ conn'[rank] = Taken(conn[rank])
      /\ ReadOne(conn[rank], Head(conn[rank].arrived), conn'[rank])
      /\ \A r \in R : r # rank => conn'[r] = conn[r]
      /\ \A r \in R : /\ conn'[r].out = conn[r].out /\ conn'[r].ring = conn[r].ring
                      /\ conn'[r].tx = conn[r].tx
      /\ \A r \in R : \A s, q, n : Under(conn'[r], s, q, n) => Under(conn[r], s, q, n)
  BY <1>2, ReadingDoes
<1>5. /\ conn'[rank].rx = conn[rank].rx + 1 /\ conn'[rank].last = Head(conn[rank].arrived)
      /\ conn[rank].ring[Head(conn[rank].arrived)].id = want.id
  BY <1>2, <1>4, TakenDoes
<1>6. /\ Read(conn'[rank], conn'[rank].last)
      /\ Len(conn[rank].arrived) \in Nat /\ Len(conn[rank].consumed) \in Nat
      /\ Len(conn'[rank].arrived) = Len(conn[rank].arrived) - 1
      /\ Len(conn'[rank].consumed) = Len(conn[rank].consumed) + 1
  BY <1>2, <1>5, ReadingDoes
<1>7. rank' \in R /\ \A r \in R : r < rank' => r < rank \/ r = rank
  BY <1>2, WireAssumption DEF R
<1>8. Always'
  <2>0. Typed'
    BY <1>1, <1>2, <1>3, <1>7 DEF Typed
  <2>a. PassAt /\ InFlight
    BY <1>2 DEF Always
  <2>b. PassAt'
    BY <1>1, <2>a DEF PassAt
  <2>c. InFlight'
    BY <1>1, <2>a DEF InFlight
  <2>1. Typed' /\ PassAt' /\ InFlight'
    BY <2>0, <2>b, <2>c
  <2>2. ASSUME NEW r \in R PROVE Planes(r)'
    <3>1. CASE r < rank'
      <4>1. Read(conn'[r], conn'[r].last) /\ conn'[r].ring[conn'[r].last].id = want.id
        <5>1. CASE r = rank
          BY <1>4, <1>5, <1>6, <5>1
        <5>2. CASE r # rank
          BY <1>1, <1>2, <1>4, <1>7, <3>1, <5>2 DEF Always, Planes
        <5>3. QED
          BY <5>1, <5>2
      <4>2. QED
        BY <1>1, <1>3, <4>1 DEF Planes
    <3>2. CASE ~(r < rank')
      BY <1>1, <1>3, <3>2 DEF Planes
    <3>3. QED
      BY <3>1, <3>2
  <2>3. QED
    BY <1>3, <2>1, <2>2 DEF Always
<1>9. Posts' = Posts
  BY <1>1 DEF Posts
<1>10. ASSUME InStep PROVE InStep'
  <2>1. PICK l, w \in Nat : Len(wire.inflight) = l /\ Posts = w
    <3>1. conn[rank].tx = Posts /\ conn[rank].tx \in Nat
      BY <1>2, <1>10 DEF InStep, Connection
    <3>2. Len(wire.inflight) \in Nat
      BY <1>2 DEF Typed, Client
    <3>3. QED
      BY <3>1, <3>2
  <2>0. PICK z \in R : z = rank
    BY <1>2
  <2>2. Owed(z) = l + 1 /\ Owed(z)' = l
    <3>1. rank <= z /\ ~(rank' <= z)
      BY <1>2, <2>0 DEF R
    <3>2. QED
      BY <1>1, <2>1, <3>1 DEF Owed
  <2>3. ASSUME NEW r \in R, r # rank PROVE Owed(r)' = Owed(r)
    <3>1. rank' <= r <=> rank <= r
      BY <1>2, <2>3 DEF R
    <3>2. QED
      BY <1>1, <3>1 DEF Owed
  <2>4. Flow(conn'[rank], spark[rank]) <= l
    <3>1. PICK o1, k, o2, v, x \in Nat : Parts(conn[rank], spark[rank], o1, k, o2, v, x)
      BY <1>2, FlowParts DEF Typed
    <3>2. Parts(conn'[rank], spark[rank], o1, k, o2, v - 1, x)
      BY <1>2, <1>4, <1>6, <3>1 DEF Parts
    <3>3. Flow(conn[rank], spark[rank]) <= l + 1
      BY <1>2, <1>10, <2>0, <2>2 DEF InStep
    <3>4. o1 + 2 - k + o2 + v + x <= l + 1
      BY <3>1, <3>3, PartsFlow
    <3>5. o1 + 2 - k + o2 + (v - 1) + x <= l
      BY <3>4
    <3>6. QED
      BY <3>2, <3>5, PartsFlow
  <2>5. l + Len(conn'[rank].consumed) <= 2 /\ conn'[rank].tx = w /\ conn'[rank].rx = w - l
    <3>1. PICK n, x \in Nat : Len(conn[rank].consumed) = n /\ conn[rank].rx = x
      BY <1>2, <1>6 DEF Connection
    <3>2. l + 1 + n <= 2 /\ conn[rank].tx = w /\ x = w - (l + 1)
      BY <1>2, <1>10, <2>0, <2>1, <2>2, <3>1 DEF InStep
    <3>3. QED
      BY <1>2, <1>4, <1>5, <1>6, <3>1, <3>2
  <2>6. ASSUME NEW r \in R
        PROVE  /\ Flow(conn'[r], spark'[r]) <= Owed(r)'
               /\ Owed(r)' + Len(conn'[r].consumed) <= 2
               /\ conn'[r].tx = Posts' /\ conn'[r].rx = Posts' - Owed(r)'
               /\ \A q, n \in Nat : Under(conn'[r], spark'[r], q, n) => n = q + 1
    <3>1. \A q, n \in Nat : Under(conn'[r], spark'[r], q, n) => n = q + 1
      BY <1>1, <1>4, <1>10 DEF InStep
    <3>2. CASE r = rank
      <4>1. r = z /\ Owed(r)' = l
        BY <2>0, <2>2, <3>2
      <4>2. QED
        BY <1>1, <1>9, <2>1, <2>4, <2>5, <3>1, <3>2, <4>1
    <3>3. CASE r # rank
      BY <1>1, <1>4, <1>9, <1>10, <2>3, <3>1, <3>3 DEF InStep
    <3>4. QED
      BY <3>2, <3>3
  <2>7. LanesInTurn'
    BY <1>1, <1>10 DEF InStep, LanesInTurn
  <2>8. QED
    BY <1>1, <1>9, <1>10, <2>6, <2>7 DEF InStep
<1>11. ASSUME Lost PROVE Lost'
  <2>1. PICK k \in R, b \in Nat : LostAt(k, b)
    BY <1>11 DEF Lost
  <2>2. k # rank /\ rank < k
    BY <1>2, <2>1, AcceptedNotLost
  <2>3. rank' <= k /\ conn'[k] = conn[k]
    BY <1>2, <1>4, <2>2 DEF R
  <2>4. LostAt(k, b)'
    BY <1>1, <1>9, <2>1, <2>3 DEF LostAt, Behind
  <2>5. QED
    BY <2>4 DEF Lost
<1>12. Wired'
  BY <1>1, <1>10, <1>11 DEF IInv, Wired
<1>13. QED
  BY <1>3, <1>8, <1>12 DEF IInv

(* The last return is taken, of an exchange with other rows: the pass is   *)
(* given up.  In step this does not happen.                                *)
LEMMA RecvOdd ==
  ASSUME IInv, Reading, Accepts(conn[rank]), want.rows # rows[lane], Abandon("return"),
         UNCHANGED <<kernels, wire>>
  PROVE  IInv'
<1>1. /\ pc = "recv" /\ kernels' = kernels /\ wire' = wire /\ spark' = spark
  BY DEF Reading
<1>2. Typed /\ Always /\ rank \in R /\ conn[rank] \in Connection
  BY DEF IInv, Always, Typed
<1>3. wire' \in Client /\ conn' \in [R -> Connection]
  BY <1>1, <1>2, ReadingDoes DEF Typed
<1>4. Typed' /\ PassAt' /\ pc' = "idle" /\ sent' = <<0, 0>> /\ broken' = broken \cup {"return"}
  BY <1>1, <1>2, <1>3, AbandonDoes
<1>5. /\ \A r \in R : Sends(pc', conn'[r], spark'[r]) /\ Ring(conn'[r]) /\ Answers(spark'[r])
      /\ \A r \in R : \A i \in 1..Len(kernels) : Read(conn'[r], kernels[i].planes[r])
      /\ Carried' /\ Sound'
  BY <1>1, <1>4, ReadingKeeps
<1>6. InFlight'
  <2>1. PICK n \in Nat : n = Len(kernels)
    BY <1>2 DEF Typed
  <2>2. n + (IF sent[1] # 0 THEN 1 ELSE 0) + (IF sent[2] # 0 THEN 1 ELSE 0) <= 2
    BY <1>2, <2>1 DEF Always, InFlight
  <2>3. n <= 2 /\ sent'[1] = 0 /\ sent'[2] = 0
    BY <1>4, <2>2
  <2>4. QED
    BY <1>1, <1>2, <1>4, <2>1, <2>3 DEF Always, InFlight
<1>7. Always'
  BY <1>1, <1>4, <1>5, <1>6 DEF Always, Planes
<1>8. Posts' = Posts
  BY <1>1, <1>4 DEF Posts
<1>9. ~InStep
  BY <1>1 DEF InStep, LanesInTurn
<1>10. ASSUME Lost PROVE Lost'
  <2>1. PICK k \in R, b \in Nat : LostAt(k, b)
    BY <1>10 DEF Lost
  <2>2. k # rank
    BY <1>2, <2>1, AcceptedNotLost
  <2>3. conn'[k] = conn[k]
    BY <1>2, <2>2, ReadingDoes
  <2>4. b <= Posts' /\ Behind(k, b)
    BY <1>8, <2>1 DEF LostAt, Behind
  <2>5. QED
    BY <1>1, <1>4, <2>3, <2>4, LostKeeps
<1>11. Wired'
  BY <1>4, <1>9, <1>10 DEF IInv, Wired
<1>12. QED
  BY <1>5, <1>7, <1>11 DEF IInv

(* The last return is taken, and the sum starts: over the planes of one    *)
(* exchange, and in step over those of the lane's own.                     *)
LEMMA RecvLast ==
  ASSUME IInv, Reading, Accepts(conn[rank]), rank = Ranks, want.rows = rows[lane],
         kernels' = Append(kernels, [id |-> want.id, own |-> sent[lane],
                                     planes |-> [r \in R |-> conn'[r].last]]),
         sent' = [sent EXCEPT ![lane] = 0], rank' = 1, want' = NoExchange, pc' = "turn",
         UNCHANGED <<rows, layer, lane, broken, wire>>
  PROVE  IInv'
<1> DEFINE K == [id |-> want.id, own |-> sent[lane], planes |-> [r \in R |-> conn'[r].last]]
<1>1. /\ pc = "recv" /\ pc' = "turn" /\ rows' = rows /\ layer' = layer /\ lane' = lane
      /\ broken' = broken /\ wire' = wire /\ spark' = spark
      /\ rank' = 1 /\ want' = NoExchange
  BY DEF Reading
<1>2. /\ Typed /\ Always /\ rank \in R /\ conn[rank] \in Connection /\ conn[rank].arrived # <<>>
      /\ lane \in 1..2 /\ sent \in [1..2 -> Nat] /\ want \in Exchange
  BY DEF IInv, Always, Typed, Reading
<1>3. /\ \A r \in R : Sends(pc', conn'[r], spark'[r]) /\ Ring(conn'[r]) /\ Answers(spark'[r])
      /\ \A r \in R : \A i \in 1..Len(kernels) : Read(conn'[r], kernels[i].planes[r])
      /\ Carried' /\ conn' \in [R -> Connection]
  BY <1>1, ReadingKeeps
<1>4. /\ conn'[rank] = Taken(conn[rank])
      /\ ReadOne(conn[rank], Head(conn[rank].arrived), conn'[rank])
      /\ \A r \in R : r # rank => conn'[r] = conn[r]
      /\ \A r \in R : /\ conn'[r].out = conn[r].out /\ conn'[r].ring = conn[r].ring
                      /\ conn'[r].tx = conn[r].tx
      /\ \A r \in R : \A s, q, n : Under(conn'[r], s, q, n) => Under(conn[r], s, q, n)
  BY <1>2, ReadingDoes
<1>5. /\ conn'[rank].rx = conn[rank].rx + 1 /\ conn'[rank].last = Head(conn[rank].arrived)
      /\ conn[rank].ring[Head(conn[rank].arrived)].id = want.id
  BY <1>2, <1>4, TakenDoes
<1>6. /\ Read(conn'[rank], conn'[rank].last)
      /\ Len(conn[rank].arrived) \in Nat /\ Len(conn[rank].consumed) \in Nat
      /\ Len(conn'[rank].arrived) = Len(conn[rank].arrived) - 1
      /\ Len(conn'[rank].consumed) = Len(conn[rank].consumed) + 1
  BY <1>2, <1>5, ReadingDoes
<1>7. \A r \in R : Read(conn'[r], conn'[r].last) /\ conn'[r].ring[conn'[r].last].id = want.id
  <2> TAKE r \in R
  <2>1. CASE r = rank
    BY <1>4, <1>5, <1>6, <2>1
  <2>2. CASE r # rank
    <3>1. r < rank
      BY <1>2, <2>2, WireAssumption DEF R
    <3>2. QED
      BY <1>1, <1>2, <1>4, <2>2, <3>1 DEF Always, Planes
  <2>3. QED
    BY <2>1, <2>2
<1>8. /\ K \in Sum /\ K.id = want.id /\ K.own = sent[lane]
      /\ \A r \in R : K.planes[r] = conn'[r].last
  BY <1>2, <1>3 DEF Sum, Exchange, Connection
<1>9. kernels' = Append(kernels, K) /\ kernels \in Seq(Sum)
  BY <1>2 DEF Typed
<1> HIDE DEF K
<1>10. /\ kernels' \in Seq(Sum) /\ Len(kernels) \in Nat /\ Len(kernels') = Len(kernels) + 1
       /\ \A i \in 1..Len(kernels') : \/ i \in 1..Len(kernels) /\ kernels'[i] = kernels[i]
                                      \/ kernels'[i] = K
  BY <1>8, <1>9, AppendAt
<1>11. /\ sent' \in [1..2 -> Nat] /\ sent'[lane] = 0 /\ sent'[3 - lane] = sent[3 - lane]
       /\ 3 - lane \in 1..2 /\ 3 - lane # lane
  BY <1>2
<1>12. Always'
  <2>1. Typed'
    <3>1. NoExchange \in Exchange /\ 1 \in R
      BY WireAssumption DEF NoExchange, Exchange, R
    <3>2. QED
      BY <1>1, <1>2, <1>3, <1>10, <1>11, <3>1 DEF Typed
  <2>2. PassAt /\ InFlight
    BY <1>2 DEF Always
  <2>3. PassAt'
    BY <1>1, <2>2 DEF PassAt
  <2>4. InFlight'
    <3>1. PICK n \in Nat : Len(kernels) = n /\ Len(kernels') = n + 1
      BY <1>10
    <3>2. sent[lane] # 0
      BY <1>1, <2>2 DEF PassAt
    <3>3. n + (IF sent[1] # 0 THEN 1 ELSE 0) + (IF sent[2] # 0 THEN 1 ELSE 0) <= 2
      BY <2>2, <3>1 DEF InFlight
    <3>4. n + 1 + (IF sent'[1] # 0 THEN 1 ELSE 0) + (IF sent'[2] # 0 THEN 1 ELSE 0) <= 2
      BY <1>2, <1>11, <3>2, <3>3
    <3>5. QED
      BY <1>1, <2>2, <3>1, <3>4 DEF InFlight
  <2>5. ASSUME NEW r \in R PROVE Planes(r)'
    BY <1>1, <1>3, <1>7, <1>8, <1>10 DEF Planes
  <2>6. QED
    BY <1>3, <2>1, <2>3, <2>4, <2>5 DEF Always
<1>13. ~Lost
  <2>1. ASSUME NEW k \in R, NEW b \in Nat, LostAt(k, b) PROVE FALSE
    <3>1. rank < k
      BY <1>2, <2>1, AcceptedNotLost
    <3>2. QED
      BY <3>1, WireAssumption DEF R
  <2>2. QED
    BY <2>1 DEF Lost
<1>14. broken \subseteq {"return", "claim"} => broken = {} /\ InStep
  BY <1>13 DEF IInv, Wired
<1>15. Sound'
  <2>1. ASSUME NEW i \in 1..Len(kernels'), NEW r \in R
        PROVE  LET d == conn'[r].ring[kernels'[i].planes[r]].data
               IN  /\ broken' \cap {"fill", "claim"} = {} => d = kernels'[i].id
                   /\ broken' \subseteq {"return", "claim"} => d = kernels'[i].own
    <3>1. CASE i \in 1..Len(kernels) /\ kernels'[i] = kernels[i]
      BY <1>1, <1>4, <3>1 DEF IInv, Sound
    <3>2. CASE kernels'[i] = K
      <4>1. ASSUME broken \cap {"fill", "claim"} = {}
            PROVE  conn'[r].ring[conn'[r].last].data = want.id
        <5>1. SameExchange(wire.body, conn[r], spark[r])
          BY <4>1 DEF IInv, Carried
        <5>2. conn'[r].last \in Slots
          BY <1>3 DEF Connection
        <5>3. conn'[r].ring[conn'[r].last].id = conn'[r].ring[conn'[r].last].data
          BY <1>4, <5>1, <5>2 DEF SameExchange
        <5>4. QED
          BY <1>7, <5>3
      <4>2. broken \subseteq {"return", "claim"} => want.id = sent[lane]
        BY <1>1, <1>14 DEF InStep, LanesInTurn
      <4>3. broken \subseteq {"return", "claim"} => broken \cap {"fill", "claim"} = {}
        BY <1>14
      <4>4. QED
        BY <1>1, <1>8, <3>2, <4>1, <4>2, <4>3
    <3>3. QED
      BY <1>10, <3>1, <3>2
  <2>2. QED
    BY <2>1 DEF Sound
<1>16. Posts' = Posts
  BY <1>1 DEF Posts
<1>17. ASSUME InStep PROVE InStep'
  <2>1. PICK l, w \in Nat : Len(wire.inflight) = l /\ Posts = w
    <3>1. conn[rank].tx = Posts /\ conn[rank].tx \in Nat
      BY <1>2, <1>17 DEF InStep, Connection
    <3>2. Len(wire.inflight) \in Nat
      BY <1>2 DEF Typed, Client
    <3>3. QED
      BY <3>1, <3>2
  <2>0. PICK z \in R : z = rank
    BY <1>2
  <2>2. Owed(z) = l + 1 /\ \A r \in R : Owed(r)' = l
    <3>1. rank <= z
      BY <1>2, <2>0 DEF R
    <3>2. QED
      BY <1>1, <2>1, <3>1 DEF Owed
  <2>3. ASSUME NEW r \in R, r # rank PROVE Owed(r) = l
    <3>1. ~(rank <= r)
      BY <1>2, <2>3, WireAssumption DEF R
    <3>2. QED
      BY <1>1, <2>1, <3>1 DEF Owed
  <2>4. Flow(conn'[rank], spark[rank]) <= l
    <3>1. PICK o1, k, o2, v, x \in Nat : Parts(conn[rank], spark[rank], o1, k, o2, v, x)
      BY <1>2, FlowParts DEF Typed
    <3>2. Parts(conn'[rank], spark[rank], o1, k, o2, v - 1, x)
      BY <1>2, <1>4, <1>6, <3>1 DEF Parts
    <3>3. Flow(conn[rank], spark[rank]) <= l + 1
      BY <1>2, <1>17, <2>0, <2>2 DEF InStep
    <3>4. o1 + 2 - k + o2 + v + x <= l + 1
      BY <3>1, <3>3, PartsFlow
    <3>5. o1 + 2 - k + o2 + (v - 1) + x <= l
      BY <3>4
    <3>6. QED
      BY <3>2, <3>5, PartsFlow
  <2>5. l + Len(conn'[rank].consumed) <= 2 /\ conn'[rank].tx = w /\ conn'[rank].rx = w - l
    <3>1. PICK n, x \in Nat : Len(conn[rank].consumed) = n /\ conn[rank].rx = x
      BY <1>2, <1>6 DEF Connection
    <3>2. l + 1 + n <= 2 /\ conn[rank].tx = w /\ x = w - (l + 1)
      BY <1>2, <1>17, <2>0, <2>1, <2>2, <3>1 DEF InStep
    <3>3. QED
      BY <1>2, <1>4, <1>5, <1>6, <3>1, <3>2
  <2>6. ASSUME NEW r \in R
        PROVE  /\ Flow(conn'[r], spark'[r]) <= Owed(r)'
               /\ Owed(r)' + Len(conn'[r].consumed) <= 2
               /\ conn'[r].tx = Posts' /\ conn'[r].rx = Posts' - Owed(r)'
               /\ \A q, n \in Nat : Under(conn'[r], spark'[r], q, n) => n = q + 1
    <3>1. \A q, n \in Nat : Under(conn'[r], spark'[r], q, n) => n = q + 1
      BY <1>1, <1>4, <1>17 DEF InStep
    <3>2. CASE r = rank
      <4>1. Owed(r)' = l
        BY <2>2
      <4>2. QED
        BY <1>1, <1>16, <2>1, <2>4, <2>5, <3>1, <3>2, <4>1
    <3>3. CASE r # rank
      <4>1. Owed(r)' = Owed(r)
        BY <2>2, <2>3, <3>3
      <4>2. QED
        BY <1>1, <1>4, <1>16, <1>17, <3>1, <3>3, <4>1 DEF InStep
    <3>4. QED
      BY <3>2, <3>3
  <2>7. LanesInTurn'
    <3>1. sent'[1] = 0 \/ sent'[1] = sent[1]
      BY <1>2, <1>11
    <3>2. sent'[2] = 0 \/ sent'[2] = sent[2]
      BY <1>2, <1>11
    <3>3. QED
      BY <1>1, <1>11, <1>17, <3>1, <3>2 DEF InStep, LanesInTurn
  <2>8. QED
    BY <1>1, <1>16, <1>17, <2>6, <2>7 DEF InStep
<1>18. Wired'
  BY <1>1, <1>13, <1>17 DEF IInv, Wired
<1>19. QED
  BY <1>3, <1>12, <1>15, <1>18 DEF IInv

(* Recv, in its three cases.                                               *)
LEMMA RecvKeeps ==
  ASSUME IInv, Recv
  PROVE  IInv'
<1>1. Reading /\ Accepts(conn[rank]) /\ wire' = wire
  BY DEF Recv, Reading
<1>2. CASE /\ rank < Ranks /\ rank' = rank + 1
           /\ UNCHANGED <<pc, rows, layer, lane, sent, want, kernels, broken>>
  BY <1>1, <1>2, RecvNext
<1>3. CASE want.rows # rows[lane] /\ Abandon("return") /\ UNCHANGED kernels
  BY <1>1, <1>3, RecvOdd
<1>4. CASE /\ rank = Ranks /\ want.rows = rows[lane]
           /\ kernels' = Append(kernels,
                [id |-> want.id, own |-> sent[lane], planes |-> [r \in R |-> conn'[r].last]])
           /\ sent' = [sent EXCEPT ![lane] = 0] /\ rank' = 1 /\ want' = NoExchange
           /\ pc' = "turn" /\ UNCHANGED <<rows, layer, lane, broken>>
  BY <1>1, <1>4, RecvLast
<1>5. QED
  BY <1>2, <1>3, <1>4 DEF Recv
-----------------------------------------------------------------------------
(* Requests.                                                               *)

(* claim_half reaps a send at most, and leaves at most one out.            *)
LEMMA ReapedDoes ==
  ASSUME NEW c \in Connection, NEW p, NEW s, Sends(p, c, s)
  PROVE  /\ Reaped(c) \in Connection /\ Reaped(c).out = c.out /\ Reaped(c).head = c.head
         /\ Reaped(c).ring = c.ring /\ Reaped(c).posted = c.posted /\ Reaped(c).arrived = c.arrived
         /\ Reaped(c).consumed = c.consumed /\ Reaped(c).last = c.last
         /\ Reaped(c).rx = c.rx /\ Reaped(c).tx = c.tx
         /\ CanReap(c) => Reaped(c).sends <= 1 /\ Len(c.out) <= Reaped(c).sends
<1> DEFINE x == IF c.sends >= 2 THEN 1 ELSE c.sends
           d == [c EXCEPT !.sends = x]
<1>1. PICK a, l \in Nat : c.sends = a /\ Len(c.out) = l
  BY DEF Connection
<1>2. a <= 2 /\ l <= a
  BY <1>1 DEF Sends
<1>3. x \in Nat /\ (CanReap(c) => x <= 1 /\ l <= x)
  BY <1>1, <1>2 DEF CanReap
<1>4. Reaped(c) = d
  BY DEF Reaped
<1> HIDE DEF x
<1>5. /\ d \in Connection /\ d.out = c.out /\ d.head = c.head
      /\ d.ring = c.ring /\ d.posted = c.posted /\ d.arrived = c.arrived
      /\ d.consumed = c.consumed /\ d.last = c.last
      /\ d.rx = c.rx /\ d.tx = c.tx /\ d.sends = x
  BY <1>3 DEF Connection
<1>6. QED
  BY <1>1, <1>3, <1>4, <1>5

(* The exchange is numbered, and the other half is next.                   *)
LEMMA ClaimedDoes ==
  ASSUME wire \in Client
  PROVE  /\ Claimed \in Client /\ Claimed.inflight = wire.inflight /\ Claimed.body = wire.body
         /\ Claimed.next = wire.next + 1 /\ Claimed.half = 1 - wire.half
<1>1. wire.next + 1 \in Nat \ {0} /\ 1 - wire.half \in Halves
  BY DEF Client, Halves
<1>2. QED
  BY <1>1 DEF Claimed, Client

\* Everything of a connection but its count of sends.
SameFrames(c, d) ==
  /\ d.out = c.out /\ d.head = c.head /\ d.ring = c.ring /\ d.posted = c.posted
  /\ d.arrived = c.arrived /\ d.consumed = c.consumed /\ d.last = c.last
  /\ d.rx = c.rx /\ d.tx = c.tx

(* Then the same frames are under way.                                     *)
LEMMA SameFramesDo ==
  ASSUME NEW c, NEW d, NEW s, SameFrames(c, d)
  PROVE  /\ Flow(d, s) = Flow(c, s)
         /\ \A q, n : Under(d, s, q, n) => Under(c, s, q, n)
<1>1. d.out = c.out /\ d.head = c.head /\ d.ring = c.ring /\ d.arrived = c.arrived
  BY DEF SameFrames
<1>2. Flow(d, s) = Flow(c, s)
  BY <1>1 DEF Flow
<1>3. ASSUME NEW q, NEW n, Under(d, s, q, n) PROVE Under(c, s, q, n)
  BY <1>1, <1>3 DEF Under
<1>4. QED
  BY <1>2, <1>3

(* The counts of a connection and a daemon are numbers.                    *)
LEMMA Counts ==
  ASSUME NEW c \in Connection, NEW s \in DaemonState
  PROVE  /\ c.sends \in Nat /\ Len(c.out) \in Nat /\ Len(c.arrived) \in Nat
         /\ Len(c.consumed) \in Nat /\ c.rx \in Nat /\ c.tx \in Nat
         /\ s.slots \in Nat /\ Len(s.inbox) \in Nat /\ Len(s.out) \in Nat
BY DEF Connection, DaemonState

(* claim_half.                                                             *)
LEMMA ClaimKeeps ==
  ASSUME IInv, Claim
  PROVE  IInv'
<1>1. /\ pc = "claim" /\ Len(wire.inflight) < 2 /\ pc' = "fill" /\ wire' = Claimed
      /\ rows' = rows /\ layer' = layer /\ lane' = lane /\ sent' = sent /\ rank' = rank
      /\ want' = want /\ kernels' = kernels /\ spark' = spark /\ broken' = broken
  BY DEF Claim
<1>2. conn' = [r \in R |-> Reaped(conn[r])] /\ \A r \in R : CanReap(conn[r])
  BY DEF Claim
<1>3. /\ Typed /\ Always /\ PassAt /\ InFlight /\ wire \in Client /\ conn \in [R -> Connection]
      /\ \A r \in R : Sends(pc, conn[r], spark[r])
  BY DEF IInv, Always, Typed
<1>4. \A r \in R : /\ conn'[r] = Reaped(conn[r]) /\ conn'[r] \in Connection
                   /\ SameFrames(conn[r], conn'[r])
                   /\ conn'[r].sends <= 1 /\ Len(conn[r].out) <= conn'[r].sends
  BY <1>2, <1>3, ReapedDoes DEF SameFrames
<1>5. conn' \in [R -> Connection]
  BY <1>2, <1>4
<1>6. /\ wire' \in Client /\ wire'.inflight = wire.inflight /\ wire'.body = wire.body
      /\ wire'.next = wire.next + 1 /\ wire'.half = 1 - wire.half
  BY <1>1, <1>3, ClaimedDoes
<1>7. PICK l, w \in Nat : Len(wire.inflight) = l /\ wire.next = w /\ l <= 1
  <2>1. Len(wire.inflight) \in Nat /\ wire.next \in Nat
    BY <1>3 DEF Client
  <2>2. QED
    BY <1>1, <2>1
<1>8. Typed' /\ PassAt' /\ InFlight'
  <2>1. Typed'
    BY <1>1, <1>3, <1>5, <1>6 DEF Typed
  <2>2. PassAt'
    BY <1>1, <1>3 DEF PassAt
  <2>3. InFlight'
    BY <1>1, <1>3, <1>6, <1>7 DEF InFlight
  <2>4. QED
    BY <2>1, <2>2, <2>3
<1>9. ASSUME NEW r \in R
      PROVE  Sends(pc', conn'[r], spark'[r]) /\ Ring(conn'[r]) /\ Answers(spark'[r]) /\ Planes(r)'
  <2>1. Sends(pc, conn[r], spark[r]) /\ Ring(conn[r]) /\ Answers(spark[r]) /\ Planes(r)
    BY DEF IInv, Always
  <2>2. conn'[r].sends <= 2
    <3>1. PICK x \in Nat : conn'[r].sends = x
      BY <1>4 DEF Connection
    <3>2. QED
      BY <1>4, <3>1
  <2>3. Sends(pc', conn'[r], spark'[r])
    BY <1>1, <1>4, <2>1, <2>2 DEF Sends, SameFrames
  <2>4. Ring(conn'[r])
    BY <1>4, <2>1 DEF Ring, SameFrames
  <2>5. Planes(r)'
    BY <1>1, <1>4, <2>1 DEF Planes, Read, SameFrames
  <2>6. QED
    BY <1>1, <2>1, <2>3, <2>4, <2>5
<1>10. Always'
  BY <1>8, <1>9 DEF Always
<1>11. Carried'
  <2>1. ASSUME broken \cap {"fill", "claim"} = {}, NEW r \in R
        PROVE  /\ HalvesInTurn(pc', wire'.half, conn'[r])
               /\ SameExchange(wire'.body, conn'[r], spark'[r])
    <3>1. HalvesInTurn(pc, wire.half, conn[r]) /\ SameExchange(wire.body, conn[r], spark[r])
      BY <2>1 DEF IInv, Carried
    <3>a. Len(conn[r].out) \in Nat /\ conn'[r].sends \in Nat
      BY <1>3, <1>4, Counts DEF Typed
    <3>2. PICK m, x \in Nat : Len(conn[r].out) = m /\ conn'[r].sends = x
      BY <3>a
    <3>3. m <= 1
      BY <1>4, <3>2
    <3>4. m >= 1 => conn[r].out[1] = 1 - wire.half
      BY <1>1, <3>1, <3>2, <3>3 DEF HalvesInTurn
    <3>5. QED
      BY <1>1, <1>4, <1>6, <3>1, <3>2, <3>4 DEF HalvesInTurn, SameExchange, SameFrames
  <2>2. QED
    BY <1>1, <2>1 DEF Carried
<1>12. Sound'
  BY <1>1, <1>4 DEF IInv, Sound, SameFrames
<1>13. Wired'
  <2>1. Posts = w - 1 /\ Posts' = w - 1
    <3>1. w + 1 - 2 = w - 1
      OBVIOUS
    <3>2. QED
      BY <1>1, <1>6, <1>7, <3>1 DEF Posts
  <2>2. \A r \in R : Owed(r)' = Owed(r)
    BY <1>1, <1>6 DEF Owed
  <2>3. \A r \in R : /\ Flow(conn'[r], spark'[r]) = Flow(conn[r], spark[r])
                     /\ \A q, n \in Nat : Under(conn'[r], spark'[r], q, n)
                                            => Under(conn[r], spark[r], q, n)
    BY <1>1, <1>4, SameFramesDo
  <2>4. ASSUME InStep PROVE InStep'
    <3>1. LanesInTurn'
      BY <1>1, <1>6, <2>4 DEF InStep, LanesInTurn
    <3>2. Posts' = Posts /\ wire'.inflight = wire.inflight
      BY <1>6, <2>1
    <3>3. \A r \in R : /\ conn'[r].tx = conn[r].tx /\ conn'[r].rx = conn[r].rx
                       /\ conn'[r].consumed = conn[r].consumed
      BY <1>4 DEF SameFrames
    <3>4. QED
      BY <1>1, <2>2, <2>3, <2>4, <3>1, <3>2, <3>3 DEF InStep
  <2>5. ASSUME Lost PROVE Lost'
    <3>1. PICK k \in R, b \in Nat : LostAt(k, b)
      BY <2>5 DEF Lost
    <3>2. b <= Posts' /\ Behind(k, b)
      BY <2>1, <3>1 DEF LostAt, Behind
    <3>3. conn'[k].rx = conn[k].rx /\ conn'[k].tx = conn[k].tx /\ conn[k].rx \in Nat
      BY <1>3, <1>4 DEF SameFrames, Connection
    <3>4. QED
      BY <1>1, <1>6, <2>3, <3>2, <3>3, LostKeeps
  <2>6. QED
    BY <1>1, <2>4, <2>5 DEF IInv, Wired
<1>14. QED
  BY <1>10, <1>11, <1>12, <1>13 DEF IInv

(* claim_half waits in vain.  In step it never does: two sends that are    *)
(* still out would both be of exchanges in flight.                         *)
LEMMA ClaimFailsKeeps ==
  ASSUME IInv, NEW r \in R, ClaimFails(r)
  PROVE  IInv'
<1>1. /\ pc = "claim" /\ Len(wire.inflight) < 2 /\ wire' = Claimed /\ Abandon("claim")
      /\ kernels' = kernels /\ spark' = spark /\ ~CanReap(conn[r])
  BY DEF ClaimFails
<1>2. /\ conn' = [q \in R |-> IF q < r THEN Reaped(conn[q]) ELSE conn[q]]
      /\ \A q \in 1..(r - 1) : CanReap(conn[q])
  BY DEF ClaimFails
<1>3. /\ Typed /\ Always /\ PassAt /\ InFlight /\ wire \in Client /\ conn \in [R -> Connection]
      /\ \A q \in R : Sends(pc, conn[q], spark[q])
  BY DEF IInv, Always, Typed
<1>4. ASSUME NEW q \in R
      PROVE  /\ conn'[q] \in Connection /\ SameFrames(conn[q], conn'[q])
             /\ conn'[q].sends <= 2 /\ Len(conn[q].out) <= conn'[q].sends
  <2>1. CASE q < r
    <3>1. q \in 1..(r - 1)
      BY <2>1 DEF R
    <3>2. conn'[q] = Reaped(conn[q]) /\ CanReap(conn[q])
      BY <1>2, <2>1, <3>1
    <3>3. /\ conn'[q] \in Connection /\ SameFrames(conn[q], conn'[q])
          /\ conn'[q].sends <= 1 /\ Len(conn[q].out) <= conn'[q].sends
      BY <1>3, <3>2, ReapedDoes DEF SameFrames
    <3>4. PICK x \in Nat : conn'[q].sends = x
      BY <3>3 DEF Connection
    <3>5. QED
      BY <3>3, <3>4
  <2>2. CASE ~(q < r)
    BY <1>2, <1>3, <2>2 DEF SameFrames, Sends
  <2>3. QED
    BY <2>1, <2>2
<1>5. conn' \in [R -> Connection]
  BY <1>2, <1>4
<1>6. /\ wire' \in Client /\ wire'.inflight = wire.inflight /\ wire'.next = wire.next + 1
  BY <1>1, <1>3, ClaimedDoes
<1>7. Typed' /\ PassAt' /\ pc' = "idle" /\ sent' = <<0, 0>> /\ broken' = broken \cup {"claim"}
  BY <1>1, <1>3, <1>5, <1>6, AbandonDoes
<1>8. InFlight'
  <2>1. PICK n \in Nat : n = Len(kernels)
    BY <1>3 DEF Typed
  <2>2. n + (IF sent[1] # 0 THEN 1 ELSE 0) + (IF sent[2] # 0 THEN 1 ELSE 0) <= 2
    BY <1>3, <2>1 DEF InFlight
  <2>3. n <= 2 /\ sent'[1] = 0 /\ sent'[2] = 0
    BY <1>7, <2>2
  <2>4. QED
    BY <1>1, <1>3, <1>6, <1>7, <2>1, <2>3 DEF InFlight
<1>9. ASSUME NEW q \in R
      PROVE  Sends(pc', conn'[q], spark'[q]) /\ Ring(conn'[q]) /\ Answers(spark'[q]) /\ Planes(q)'
  <2>1. Sends(pc, conn[q], spark[q]) /\ Ring(conn[q]) /\ Answers(spark[q]) /\ Planes(q)
    BY <1>3 DEF Always
  <2>2. Sends(pc', conn'[q], spark'[q])
    BY <1>1, <1>4, <1>7, <2>1 DEF Sends, SameFrames
  <2>3. Ring(conn'[q])
    BY <1>4, <2>1 DEF Ring, SameFrames
  <2>4. Planes(q)'
    BY <1>1, <1>4, <1>7, <2>1 DEF Planes, Read, SameFrames
  <2>5. QED
    BY <1>1, <2>1, <2>2, <2>3, <2>4
<1>10. Always'
  BY <1>7, <1>8, <1>9 DEF Always
<1>11. Carried'
  BY <1>7 DEF Carried
<1>12. Sound'
  BY <1>1, <1>4, <1>7 DEF IInv, Sound, SameFrames
<1>13. ~InStep
  <2>1. PICK o1, k, o2, v, w \in Nat : Parts(conn[r], spark[r], o1, k, o2, v, w)
    BY <1>3, FlowParts DEF Typed
  <2>a. conn[r].sends \in Nat /\ Len(spark[r].inbox) \in Nat
    BY <1>3, Counts DEF Typed
  <2>b. Len(wire.inflight) \in Nat
    BY <1>3 DEF Client
  <2>2. PICK x, m, l \in Nat : conn[r].sends = x /\ Len(spark[r].inbox) = m /\ Len(wire.inflight) = l
    BY <2>a, <2>b
  <2>3. o1 >= 2
    BY <1>1, <2>1, <2>2 DEF CanReap, Parts
  <2>4. k <= 2
    <3>1. PICK e \in 0..1 : e = IF spark[r].pc = "serve" THEN 1 ELSE 0
      OBVIOUS
    <3>2. spark[r].slots + Len(spark[r].inbox) + e <= 2
      BY <1>3, <3>1 DEF Sends
    <3>3. spark[r].slots = k
      BY <2>1 DEF Parts
    <3>4. k + m + e <= 2
      BY <2>2, <3>2, <3>3
    <3>5. QED
      BY <3>4
  <2>5. l < 2 /\ Owed(r) = l
    BY <1>1, <2>2 DEF Owed
  <2>6. Flow(conn[r], spark[r]) = o1 + 2 - k + o2 + v + w
    BY <2>1, PartsFlow
  <2>7. o1 + 2 - k + o2 + v + w > l
    BY <2>3, <2>4, <2>5
  <2>8. QED
    BY <2>5, <2>6, <2>7 DEF InStep
<1>14. ASSUME Lost PROVE Lost'
  <2>1. PICK k \in R, b \in Nat : LostAt(k, b)
    BY <1>14 DEF Lost
  <2>2. PICK w \in Nat : wire.next = w
    BY <1>3 DEF Client
  <2>3. Posts = w - 1 /\ Posts' = w + 1 - 1
    BY <1>1, <1>6, <1>7, <2>2 DEF Posts
  <2>4. b <= Posts' /\ Behind(k, b)
    BY <2>1, <2>3 DEF LostAt, Behind
  <2>5. conn'[k].rx = conn[k].rx /\ conn'[k].tx = conn[k].tx
    BY <1>4 DEF SameFrames
  <2>6. \A n \in Nat : Under(conn'[k], spark'[k], conn[k].rx, n)
                         => Under(conn[k], spark[k], conn[k].rx, n)
    BY <1>1, <1>4, SameFramesDo
  <2>7. QED
    BY <1>6, <1>7, <2>4, <2>5, <2>6, LostKeeps
<1>15. Wired'
  BY <1>7, <1>13, <1>14 DEF IInv, Wired
<1>16. QED
  BY <1>10, <1>11, <1>12, <1>15 DEF IInv

(* The half claimed is one of the two and not the next, and the exchange   *)
(* it is for has a number.                                                 *)
LEMMA MineThis ==
  ASSUME wire \in Client
  PROVE  /\ Mine \in Halves /\ Mine = 1 - wire.half /\ Mine # wire.half /\ wire.half \in Halves
         /\ wire.half = 1 - Mine
         /\ This \in Nat /\ This = wire.next - 1 /\ wire.next \in Nat \ {0}
<1>1. wire.half \in {0, 1} /\ wire.next \in Nat \ {0}
  BY DEF Client, Halves
<1>2. PICK h \in {0, 1}, n \in Nat \ {0} : wire.half = h /\ wire.next = n
  BY <1>1
<1>3. QED
  BY <1>2 DEF Mine, This, Halves

\* The client with the half claimed written.
Filled == [wire EXCEPT !.body[Mine] = This]

(* Only that half changes.                                                 *)
LEMMA FilledDoes ==
  ASSUME wire \in Client
  PROVE  /\ Filled \in Client /\ Filled.inflight = wire.inflight /\ Filled.next = wire.next
         /\ Filled.half = wire.half
         /\ Filled.body[Mine] = This /\ \A h \in Halves : h # Mine => Filled.body[h] = wire.body[h]
<1>1. /\ Mine \in Halves /\ This \in Nat /\ wire.body \in [Halves -> Nat]
  BY MineThis DEF Client
<1> DEFINE b == [wire.body EXCEPT ![Mine] = This]
           d == [wire EXCEPT !.body = b]
<1>2. /\ b \in [Halves -> Nat] /\ b[Mine] = This /\ \A h \in Halves : h # Mine => b[h] = wire.body[h]
  BY <1>1
<1>3. Filled = d
  BY DEF Filled
<1> HIDE DEF b
<1>4. d \in Client /\ d.inflight = wire.inflight /\ d.next = wire.next /\ d.half = wire.half /\ d.body = b
  BY <1>2 DEF Client
<1>5. QED
  BY <1>2, <1>3, <1>4

(* The request is written into its half.                                   *)
LEMMA FillKeeps ==
  ASSUME IInv, Fill
  PROVE  IInv'
<1>1. /\ pc = "fill" /\ kernels = <<>> /\ pc' = "post" /\ wire' = Filled
      /\ rows' = rows /\ layer' = layer /\ lane' = lane /\ sent' = sent /\ rank' = rank
      /\ want' = want /\ kernels' = kernels /\ conn' = conn /\ spark' = spark /\ broken' = broken
  BY DEF Fill, Filled
<1>2. /\ Typed /\ Always /\ PassAt /\ InFlight /\ wire \in Client /\ conn \in [R -> Connection]
  BY DEF IInv, Always, Typed
<1>3. /\ wire' \in Client /\ wire'.inflight = wire.inflight /\ wire'.next = wire.next
      /\ wire'.half = wire.half /\ Mine' = Mine /\ This' = This
      /\ wire'.body[Mine] = This /\ \A h \in Halves : h # Mine => wire'.body[h] = wire.body[h]
  BY <1>1, <1>2, FilledDoes DEF Mine, This
<1>4. Always'
  <2>1. Typed'
    BY <1>1, <1>2, <1>3 DEF Typed
  <2>2. PassAt'
    BY <1>1, <1>2 DEF PassAt
  <2>3. InFlight'
    BY <1>1, <1>2, <1>3 DEF InFlight
  <2>4. ASSUME NEW r \in R
        PROVE  Sends(pc', conn'[r], spark'[r]) /\ Ring(conn'[r]) /\ Answers(spark'[r]) /\ Planes(r)'
    <3>1. Sends(pc, conn[r], spark[r]) /\ Ring(conn[r]) /\ Answers(spark[r]) /\ Planes(r)
      BY <1>2 DEF Always
    <3>2. QED
      BY <1>1, <3>1 DEF Sends, Planes
  <2>5. QED
    BY <2>1, <2>2, <2>3, <2>4 DEF Always
<1>5. Carried'
  <2>1. ASSUME broken \cap {"fill", "claim"} = {}, NEW r \in R
        PROVE  /\ HalvesInTurn(pc', wire'.half, conn'[r])
               /\ SameExchange(wire'.body, conn'[r], spark'[r])
    <3>1. HalvesInTurn(pc, wire.half, conn[r]) /\ SameExchange(wire.body, conn[r], spark[r])
      BY <2>1 DEF IInv, Carried
    <3>2. Len(conn[r].out) \in Nat /\ conn[r].sends \in Nat
      BY <1>2, Counts DEF Typed
    <3>3. PICK m, x \in Nat : Len(conn[r].out) = m /\ conn[r].sends = x
      BY <3>2
    <3>4. m <= 1
      BY <1>1, <1>2, <3>3 DEF Always, Sends
    <3>5. \A i \in 1..Len(conn[r].out) : conn[r].out[i] = wire.half
      BY <1>1, <3>1, <3>3, <3>4 DEF HalvesInTurn
    <3>6. wire.half \in Halves /\ wire.half # Mine
      BY <1>2, MineThis
    <3>7. wire'.body[wire.half] = wire.body[wire.half]
      BY <1>3, <3>6
    <3>8. \A i \in 1..Len(conn[r].out) : conn[r].head[conn[r].out[i]].id = wire'.body[conn[r].out[i]]
      BY <3>1, <3>5, <3>7 DEF SameExchange
    <3>9. SameExchange(wire'.body, conn'[r], spark'[r])
      BY <1>1, <3>1, <3>8 DEF SameExchange
    <3>10. HalvesInTurn(pc', wire'.half, conn'[r])
      BY <1>1, <1>3, <3>1 DEF HalvesInTurn
    <3>11. QED
      BY <3>9, <3>10
  <2>2. QED
    BY <1>1, <1>3, <2>1 DEF Carried
<1>6. Sound'
  BY <1>1 DEF Sound
<1>7. Wired'
  <2>1. Posts' = Posts /\ \A r \in R : Owed(r)' = Owed(r)
    BY <1>1, <1>3 DEF Posts, Owed
  <2>2. ASSUME InStep PROVE InStep'
    <3>1. LanesInTurn'
      BY <1>1, <1>3, <2>2 DEF InStep, LanesInTurn
    <3>2. QED
      BY <1>1, <1>3, <2>1, <2>2, <3>1 DEF InStep
  <2>3. ASSUME Lost PROVE Lost'
    <3>1. PICK k \in R, b \in Nat : LostAt(k, b)
      BY <2>3 DEF Lost
    <3>2. QED
      BY <1>1, <1>3, <2>1, <3>1, LostKeeps DEF LostAt, Behind
  <2>4. QED
    BY <1>1, <2>2, <2>3 DEF IInv, Wired
<1>8. QED
  BY <1>4, <1>5, <1>6, <1>7 DEF IInv

(* The pass is given up with a half written or some of its sends made:     *)
(* only what holds always is left, and no sum is waiting to run.           *)
LEMMA FillGivesUp ==
  ASSUME Always, kernels = <<>>, kernels' = kernels, Abandon("fill"), spark' = spark,
         wire' \in Client, wire'.inflight = wire.inflight, conn' \in [R -> Connection],
         \A r \in R : Sends("idle", conn'[r], spark[r]) /\ Ring(conn'[r])
  PROVE  IInv'
<1>1. Typed /\ InFlight
  BY DEF Always
<1>2. Typed' /\ PassAt' /\ pc' = "idle" /\ sent' = <<0, 0>> /\ broken' = broken \cup {"fill"}
  BY <1>1, AbandonDoes
<1>3. kernels' = <<>> /\ Len(kernels') = 0 /\ sent'[1] = 0 /\ sent'[2] = 0
  BY <1>2
<1>4. InFlight'
  BY <1>1, <1>2, <1>3 DEF InFlight
<1>5. \A r \in R : Planes(r)'
  BY <1>2, <1>3 DEF Planes
<1>6. Always'
  BY <1>2, <1>4, <1>5 DEF Always
<1>7. Carried'
  BY <1>2 DEF Carried
<1>8. Sound'
  BY <1>3 DEF Sound
<1>9. Wired'
  BY <1>2 DEF Wired
<1>10. QED
  BY <1>6, <1>7, <1>8, <1>9 DEF IInv

(* The copy into the half fails.                                           *)
LEMMA FillFailsKeeps ==
  ASSUME IInv, FillFails
  PROVE  IInv'
<1>1. /\ pc = "fill" /\ kernels = <<>> /\ wire' = Filled /\ Abandon("fill") /\ pc' = "idle"
      /\ kernels' = kernels /\ conn' = conn /\ spark' = spark
  BY DEF FillFails, Filled, Abandon
<1>2. Always /\ wire \in Client /\ conn \in [R -> Connection]
  BY DEF IInv, Always, Typed
<1>3. \A r \in R : Sends("idle", conn'[r], spark[r]) /\ Ring(conn'[r])
  BY <1>1, <1>2 DEF Always, Sends
<1>4. wire' \in Client /\ wire'.inflight = wire.inflight
  BY <1>1, <1>2, FilledDoes
<1>5. QED
  BY <1>1, <1>2, <1>3, <1>4, FillGivesUp

\* The header a request is stamped with.
Stamp(c) == [id |-> This, layer |-> layer, rows |-> rows[lane], seq |-> c.tx]

\* What a connection is after a header is stamped in its half h.
Stamping(c, h, d) ==
  /\ d \in Connection /\ d.out = c.out /\ d.sends = c.sends /\ d.ring = c.ring
  /\ d.arrived = c.arrived /\ d.consumed = <<>> /\ d.last = c.last /\ d.rx = c.rx
  /\ d.tx = c.tx + 1 /\ d.head = [c.head EXCEPT ![h] = Stamp(c)] /\ Ring(d)

(* It is, up to the send.                                                  *)
LEMMA StampedDoes ==
  ASSUME NEW c \in Connection, NEW h \in Halves, Ring(c),
         This \in Nat, layer \in Nat, rows[lane] \in Nat
  PROVE  Stamping(c, h, Stamped(c, h)) /\ Stamp(c) \in Header
<1> DEFINE f == Stamp(c)
           x == c.tx + 1
           g == [c.head EXCEPT ![h] = f]
           p == c.posted \o c.consumed
           d == [c EXCEPT !.tx = x, !.head = g, !.posted = p, !.consumed = <<>>]
<1>1. /\ c.posted \in Seq(Slots) /\ c.consumed \in Seq(Slots) /\ c.tx \in Nat
      /\ c.head \in [Halves -> Header]
  BY DEF Connection
<1>2. f \in Header
  BY <1>1 DEF Stamp, Header
<1>3. x \in Nat /\ p \in Seq(Slots) /\ <<>> \in Seq(Slots)
  BY <1>1
<1>4. Stamped(c, h) = d
  BY DEF Stamped, Stamp
<1> HIDE DEF f
<1>5. g \in [Halves -> Header]
  BY <1>1, <1>2
<1> HIDE DEF x, g, p
<1>6. /\ d \in Connection /\ d.out = c.out /\ d.sends = c.sends /\ d.ring = c.ring
      /\ d.arrived = c.arrived /\ d.consumed = <<>> /\ d.last = c.last /\ d.rx = c.rx
      /\ d.tx = x /\ d.head = g /\ d.posted = p
  BY <1>3, <1>5 DEF Connection
<1> HIDE DEF d
<1>7. Ring(d)
  <2>1. PICK A, B, C \in SUBSET Slots :
           /\ Lists(c.posted, A) /\ Lists(c.arrived, B) /\ Lists(c.consumed, C)
           /\ A \cup B \cup C = Slots
           /\ A \cap B = {} /\ A \cap C = {} /\ B \cap C = {}
    BY DEF Ring
  <2>2. Lists(p, A \cup C)
    BY <2>1, ListsConcat DEF p
  <2>3. Lists(<<>>, {})
    BY DEF Lists
  <2>4. QED
    BY <1>6, <2>1, <2>2, <2>3 DEF Ring
<1>8. QED
  BY <1>2, <1>4, <1>6, <1>7 DEF Stamping, f, x, g

\* And after the request has gone.
Posting(c, h, d) ==
  /\ d \in Connection /\ d.out = Append(c.out, h) /\ d.sends = c.sends + 1 /\ d.ring = c.ring
  /\ d.arrived = c.arrived /\ d.consumed = <<>> /\ d.last = c.last /\ d.rx = c.rx
  /\ d.tx = c.tx + 1 /\ d.head = [c.head EXCEPT ![h] = Stamp(c)] /\ Ring(d)

(* It is.                                                                  *)
LEMMA PostedDoes ==
  ASSUME NEW c \in Connection, NEW h \in Halves, Ring(c),
         This \in Nat, layer \in Nat, rows[lane] \in Nat
  PROVE  Posting(c, h, Posted(c, h))
<1> DEFINE e == Stamped(c, h)
           a == Append(e.out, h)
           n == e.sends + 1
           d == [e EXCEPT !.out = a, !.sends = n]
<1>1. Stamping(c, h, e)
  BY StampedDoes
<1>2. Posted(c, h) = d
  BY DEF Posted
<1> HIDE DEF e
<1>3. e \in Connection /\ a \in Seq(Halves) /\ n \in Nat
  BY <1>1 DEF Stamping, Connection
<1>4. a = Append(c.out, h) /\ n = c.sends + 1
  BY <1>1 DEF Stamping
<1> HIDE DEF a, n
<1>5. /\ d \in Connection /\ d.out = a /\ d.sends = n /\ d.ring = e.ring
      /\ d.arrived = e.arrived /\ d.consumed = e.consumed /\ d.last = e.last /\ d.rx = e.rx
      /\ d.tx = e.tx /\ d.head = e.head /\ d.posted = e.posted
  BY <1>3 DEF Connection
<1> HIDE DEF d
<1>6. Ring(d)
  BY <1>1, <1>5 DEF Stamping, Ring
<1>7. QED
  BY <1>1, <1>2, <1>4, <1>5, <1>6 DEF Stamping, Posting

(* The send to rank r is refused.                                          *)
LEMMA PostFailsKeeps ==
  ASSUME IInv, NEW r \in R, PostFails(r)
  PROVE  IInv'
<1>1. /\ pc = "post" /\ Abandon("fill") /\ kernels' = kernels /\ wire' = wire /\ spark' = spark
  BY DEF PostFails
<1>2. conn' = [q \in R |-> CASE q < r -> Posted(conn[q], Mine)
                             [] q = r -> Stamped(conn[q], Mine)
                             [] q > r -> conn[q]]
  BY DEF PostFails
<1>3. Always /\ Typed /\ PassAt /\ InFlight /\ wire \in Client /\ conn \in [R -> Connection]
  BY DEF IInv, Always, Typed
<1>4. Mine \in Halves /\ This \in Nat /\ layer \in Nat /\ rows[lane] \in Nat
  <2>1. rows[lane] \in Nat
    BY <1>1, <1>3 DEF Typed, PassAt
  <2>2. QED
    BY <1>3, <2>1, MineThis DEF Typed
<1>5. ASSUME NEW q \in R
      PROVE  conn'[q] \in Connection /\ Sends("idle", conn'[q], spark[q]) /\ Ring(conn'[q])
  <2>1. Sends("post", conn[q], spark[q]) /\ Ring(conn[q]) /\ conn[q] \in Connection
    BY <1>1, <1>3 DEF Always
  <2>2. CASE q < r
    <3>1. conn'[q] = Posted(conn[q], Mine)
      BY <1>2, <2>2 DEF R
    <3>2. Posting(conn[q], Mine, conn'[q])
      BY <1>4, <2>1, <3>1, PostedDoes
    <3>3. conn[q].out \in Seq(Halves) /\ conn[q].sends \in Nat
      BY <2>1 DEF Connection
    <3>4. PICK l, n \in Nat : Len(conn[q].out) = l /\ conn[q].sends = n
      BY <3>3
    <3>5. n <= 1 /\ l <= n
      BY <2>1, <3>4 DEF Sends
    <3>6. Len(conn'[q].out) = l + 1 /\ conn'[q].sends = n + 1
      BY <1>4, <3>2, <3>3, <3>4 DEF Posting
    <3>7. Sends("idle", conn'[q], spark[q])
      BY <2>1, <3>5, <3>6 DEF Sends
    <3>8. QED
      BY <3>2, <3>7 DEF Posting
  <2>3. CASE q = r
    <3>1. conn'[q] = Stamped(conn[q], Mine)
      BY <1>2, <2>3 DEF R
    <3>2. Stamping(conn[q], Mine, conn'[q])
      BY <1>4, <2>1, <3>1, StampedDoes
    <3>3. QED
      BY <2>1, <3>2 DEF Stamping, Sends
  <2>4. CASE q > r
    <3>1. conn'[q] = conn[q]
      BY <1>2, <2>4 DEF R
    <3>2. QED
      BY <2>1, <3>1 DEF Sends
  <2>5. QED
    BY <2>2, <2>3, <2>4 DEF R
<1>6. conn' \in [R -> Connection]
  BY <1>2, <1>5
<1>7. kernels = <<>>
  BY <1>1, <1>3 DEF InFlight
<1>8. QED
  BY <1>1, <1>3, <1>5, <1>6, <1>7, FillGivesUp

(* A request sent is one more frame under way, with the header stamped; so *)
(* is one whose half had not been read yet.                                *)
LEMMA PostingFlows ==
  ASSUME NEW c \in Connection, NEW s \in DaemonState, NEW h \in Halves, NEW d, Posting(c, h, d)
  PROVE  /\ Flow(d, s) = Flow(c, s) + 1
         /\ \A q, n \in Nat : Under(d, s, q, n) => Under(c, s, q, n) \/ (q = c.tx /\ n = This)
<1>1. /\ c.out \in Seq(Halves) /\ c.head \in [Halves -> Header]
      /\ d.out = Append(c.out, h) /\ d.head = [c.head EXCEPT ![h] = Stamp(c)]
      /\ d.arrived = c.arrived /\ d.ring = c.ring
  BY DEF Connection, Posting
<1>2. /\ Len(d.out) = Len(c.out) + 1
      /\ \A i \in 1..Len(d.out) : \/ i \in 1..Len(c.out) /\ d.out[i] = c.out[i]
                                  \/ d.out[i] = h
  BY <1>1, AppendAt
<1>3. Flow(d, s) = Flow(c, s) + 1
  <2>1. PICK o1, k, o2, v, w \in Nat : Parts(c, s, o1, k, o2, v, w)
    BY FlowParts
  <2>2. Parts(d, s, o1 + 1, k, o2, v, w)
    BY <1>1, <1>2, <2>1 DEF Parts
  <2>3. Flow(c, s) = o1 + 2 - k + o2 + v + w /\ Flow(d, s) = o1 + 1 + 2 - k + o2 + v + w
    BY <2>1, <2>2, PartsFlow
  <2>4. QED
    BY <2>3
<1>4. ASSUME NEW q \in Nat, NEW n \in Nat, NEW i \in 1..Len(d.out), Is(d.head[d.out[i]], q, n)
      PROVE  Under(c, s, q, n) \/ (q = c.tx /\ n = This)
  <2>1. d.head[h] = Stamp(c) /\ \A g \in Halves : g # h => d.head[g] = c.head[g]
    BY <1>1
  <2>2. CASE d.out[i] = h
    BY <1>4, <2>1, <2>2 DEF Is, Stamp
  <2>3. CASE d.out[i] # h
    <3>1. i \in 1..Len(c.out) /\ d.out[i] = c.out[i]
      BY <1>2, <2>3
    <3>2. c.out[i] \in Halves
      BY <1>1, <3>1
    <3>3. Is(c.head[c.out[i]], q, n)
      BY <1>4, <2>1, <2>3, <3>1, <3>2
    <3>4. QED
      BY <3>1, <3>3 DEF Under
  <2>4. QED
    BY <2>2, <2>3
<1>5. ASSUME NEW q \in Nat, NEW n \in Nat, Under(d, s, q, n)
      PROVE  Under(c, s, q, n) \/ (q = c.tx /\ n = This)
  <2>1. CASE \E i \in 1..Len(d.out) : Is(d.head[d.out[i]], q, n)
    BY <1>4, <2>1
  <2>2. CASE ~\E i \in 1..Len(d.out) : Is(d.head[d.out[i]], q, n)
    BY <1>1, <1>5, <2>2 DEF Under
  <2>3. QED
    BY <2>1, <2>2
<1>6. QED
  BY <1>3, <1>5

(* And the halves under way stay in turn, each with the rows of its        *)
(* header.                                                                 *)
LEMMA PostingCarries ==
  ASSUME wire \in Client, NEW c \in Connection, NEW s, NEW d, Posting(c, Mine, d),
         c.sends <= 1, Len(c.out) <= c.sends,
         HalvesInTurn("post", wire.half, c), SameExchange(wire.body, c, s), wire.body[Mine] = This
  PROVE  HalvesInTurn("turn", wire.half, d) /\ SameExchange(wire.body, d, s)
<1>1. /\ c.out \in Seq(Halves) /\ c.head \in [Halves -> Header] /\ Mine \in Halves
      /\ d.out = Append(c.out, Mine) /\ d.head = [c.head EXCEPT ![Mine] = Stamp(c)]
      /\ d.ring = c.ring /\ Mine = 1 - wire.half /\ wire.half \in Halves /\ wire.half # Mine
  BY MineThis DEF Connection, Posting
<1>2. PICK l, x \in Nat : Len(c.out) = l /\ c.sends = x
  BY <1>1 DEF Connection
<1>3. l <= 1
  BY <1>2
<1>4. /\ Len(d.out) = l + 1 /\ d.out[l + 1] = Mine
      /\ \A i \in 1..Len(d.out) : (i \in 1..l /\ d.out[i] = c.out[i]) \/ d.out[i] = Mine
      /\ \A i \in 1..l : d.out[i] = c.out[i]
  BY <1>1, <1>2, AppendAt
<1>5. \A i \in 1..l : c.out[i] = wire.half
  BY <1>2, <1>3 DEF HalvesInTurn
<1>6. HalvesInTurn("turn", wire.half, d)
  <2>1. l = 1 => d.out[1] = wire.half
    BY <1>4, <1>5
  <2>2. QED
    BY <1>1, <1>3, <1>4, <2>1 DEF HalvesInTurn
<1>7. d.head[Mine].id = This /\ d.head[wire.half] = c.head[wire.half]
  <2>1. d.head[Mine] = Stamp(c) /\ d.head[wire.half] = c.head[wire.half]
    BY <1>1
  <2>2. QED
    BY <2>1 DEF Stamp
<1>8. \A i \in 1..Len(d.out) : d.head[d.out[i]].id = wire.body[d.out[i]]
  <2>1. ASSUME NEW i \in 1..l PROVE d.head[d.out[i]].id = wire.body[d.out[i]]
    <3>1. d.out[i] = wire.half /\ c.out[i] = wire.half
      BY <1>4, <1>5
    <3>2. c.head[c.out[i]].id = wire.body[c.out[i]]
      BY <1>2 DEF SameExchange
    <3>3. QED
      BY <1>7, <3>1, <3>2
  <2>2. QED
    BY <1>4, <1>7, <2>1
<1>9. SameExchange(wire.body, d, s)
  BY <1>1, <1>8 DEF SameExchange
<1>10. QED
  BY <1>6, <1>9

(* The request goes to every rank, and the turn to the next lane.          *)
LEMMA PostKeeps ==
  ASSUME IInv, Post
  PROVE  IInv'
<1> DEFINE f == [id |-> This, layer |-> layer, rows |-> rows[lane]]
           a == Append(wire.inflight, f)
<1>1. /\ pc = "post" /\ pc' = "turn" /\ rows' = rows /\ broken' = broken /\ rank' = rank
      /\ want' = want /\ kernels' = kernels /\ spark' = spark
      /\ sent' = [sent EXCEPT ![lane] = This]
  BY DEF Post, NextTurn
<1>2. \/ lane < Len(rows) /\ lane' = lane + 1 /\ layer' = layer
      \/ ~(lane < Len(rows)) /\ lane' = 1 /\ layer' = layer + 1
  BY DEF Post, NextTurn
<1>3. conn' = [r \in R |-> Posted(conn[r], Mine)] /\ wire' = [wire EXCEPT !.inflight = a]
  BY DEF Post
<1>4. /\ Always /\ Typed /\ PassAt /\ InFlight /\ wire \in Client /\ conn \in [R -> Connection]
      /\ spark \in [R -> DaemonState] /\ sent \in [1..2 -> Nat]
      /\ lane \in 1..2 /\ layer \in Nat /\ rows \in Seq(Nat) /\ Layers \in Nat \ {0}
  BY WireAssumption DEF IInv, Always, Typed
<1>5. /\ Mine \in Halves /\ This \in Nat /\ This = wire.next - 1 /\ rows[lane] \in Nat
      /\ kernels = <<>> /\ sent[lane] = 0
  <2>1. rows[lane] \in Nat
    BY <1>1, <1>4 DEF PassAt
  <2>2. QED
    BY <1>1, <1>4, <2>1, MineThis DEF InFlight, PassAt
<1>6. PICK l, w, m \in Nat : /\ Len(wire.inflight) = l /\ wire.next = w /\ Len(rows) = m
                             /\ l <= 1 /\ m <= 2 /\ lane <= m /\ layer + 1 <= Layers
  <2>1. Len(wire.inflight) \in Nat /\ wire.next \in Nat /\ Len(rows) \in Nat
    BY <1>4 DEF Client
  <2>2. Len(wire.inflight) <= 1 /\ Len(rows) <= 2 /\ lane <= Len(rows) /\ layer + 1 <= Layers
    BY <1>1, <1>4 DEF Typed, PassAt, InFlight
  <2>3. QED
    BY <2>1, <2>2
<1>7. /\ a \in Seq(Exchange) /\ Len(a) = l + 1 /\ a[l + 1].id = This /\ a[l + 1].rows = rows[lane]
      /\ \A i \in 1..l : a[i] = wire.inflight[i]
      /\ \A i \in 1..Len(a) : i \in 1..l \/ i = l + 1
  <2>1. f \in Exchange /\ f.id = This /\ f.rows = rows[lane]
    BY <1>4, <1>5 DEF Exchange
  <2>2. wire.inflight \in Seq(Exchange)
    BY <1>4 DEF Client
  <2> HIDE DEF f
  <2>3. QED
    BY <1>6, <2>1, <2>2, AppendAt
<1> HIDE DEF f, a
<1>8. /\ wire' \in Client /\ wire'.inflight = a /\ wire'.next = wire.next
      /\ wire'.half = wire.half /\ wire'.body = wire.body
  BY <1>3, <1>4, <1>7 DEF Client
<1>9. \A r \in R : Sends("post", conn[r], spark[r]) /\ Ring(conn[r]) /\ Answers(spark[r])
  BY <1>1, <1>4 DEF Always
<1>10. \A r \in R : Posting(conn[r], Mine, conn'[r])
  BY <1>3, <1>4, <1>5, <1>9, PostedDoes
<1>11. conn' \in [R -> Connection]
  BY <1>3, <1>10 DEF Posting
<1>12. sent' \in [1..2 -> Nat] /\ sent'[lane] = This /\ sent'[3 - lane] = sent[3 - lane]
  BY <1>1, <1>4, <1>5
<1>13. layer' \in Nat /\ lane' \in 1..2 /\ lane' <= m /\ layer' <= Layers
  BY <1>2, <1>4, <1>6
<1>14. Always'
  <2>1. Typed'
    BY <1>1, <1>4, <1>8, <1>11, <1>12, <1>13 DEF Typed
  <2>2. PassAt'
    BY <1>1, <1>4, <1>6, <1>13 DEF PassAt
  <2>3. InFlight'
    <3>1. Len(kernels') = 0 /\ Len(wire'.inflight) <= 2
      BY <1>1, <1>5, <1>6, <1>7, <1>8
    <3>2. QED
      BY <1>1, <3>1 DEF InFlight
  <2>4. ASSUME NEW r \in R
        PROVE  Sends(pc', conn'[r], spark'[r]) /\ Ring(conn'[r]) /\ Answers(spark'[r]) /\ Planes(r)'
    <3>1. conn[r].out \in Seq(Halves) /\ conn[r].sends \in Nat
      BY <1>4 DEF Connection
    <3>2. PICK k, n \in Nat : Len(conn[r].out) = k /\ conn[r].sends = n
      BY <3>1
    <3>3. n <= 1 /\ k <= n
      BY <1>9, <3>2 DEF Sends
    <3>a. conn'[r].out = Append(conn[r].out, Mine) /\ conn'[r].sends = conn[r].sends + 1
      BY <1>10 DEF Posting
    <3>4. Len(conn'[r].out) = k + 1 /\ conn'[r].sends = n + 1
      BY <1>5, <3>a, <3>1, <3>2
    <3>5. Sends(pc', conn'[r], spark'[r])
      BY <1>1, <1>9, <3>3, <3>4 DEF Sends
    <3>6. Planes(r)'
      BY <1>1, <1>5 DEF Planes
    <3>7. QED
      BY <1>1, <1>9, <1>10, <3>5, <3>6 DEF Posting
  <2>5. QED
    BY <2>1, <2>2, <2>3, <2>4 DEF Always
<1>15. Carried'
  <2>1. ASSUME broken \cap {"fill", "claim"} = {}, NEW r \in R
        PROVE  /\ HalvesInTurn(pc', wire'.half, conn'[r])
               /\ SameExchange(wire'.body, conn'[r], spark'[r])
    <3>1. /\ HalvesInTurn("post", wire.half, conn[r]) /\ SameExchange(wire.body, conn[r], spark[r])
          /\ wire.body[Mine] = This
      BY <1>1, <2>1 DEF IInv, Carried
    <3>2. conn[r].sends <= 1 /\ Len(conn[r].out) <= conn[r].sends /\ conn[r] \in Connection
      BY <1>4, <1>9 DEF Sends
    <3>3. QED
      BY <1>1, <1>4, <1>8, <1>10, <3>1, <3>2, PostingCarries
  <2>2. QED
    BY <1>1, <2>1 DEF Carried
<1>16. Sound'
  BY <1>1, <1>5 DEF Sound
<1>17. Posts = w - 2 /\ Posts' = w - 1 /\ This = w - 1
  BY <1>1, <1>5, <1>6, <1>8 DEF Posts
<1>18. \A r \in R : Owed(r) = l /\ Owed(r)' = l + 1
  BY <1>1, <1>6, <1>7, <1>8 DEF Owed
<1>19. ASSUME NEW r \in R
       PROVE  /\ Flow(conn'[r], spark'[r]) = Flow(conn[r], spark[r]) + 1
              /\ \A q, n \in Nat : Under(conn'[r], spark'[r], q, n)
                   => Under(conn[r], spark[r], q, n) \/ (q = conn[r].tx /\ n = This)
  BY <1>1, <1>4, <1>5, <1>10, PostingFlows
<1>20. ASSUME InStep PROVE InStep'
  <2>1. This # 0
    <3>1. 1 \in R
      BY WireAssumption DEF R
    <3>2. conn[1].tx \in Nat /\ conn[1].tx = w - 2
      BY <1>4, <1>17, <1>20, <3>1 DEF InStep, Connection
    <3>3. QED
      BY <1>17, <3>2
  <2>2. LanesInTurn'
    <3>1. PICK o \in 1..2 : o = 3 - lane
      BY <1>4
    <3>2. /\ l = (IF sent[o] # 0 THEN 1 ELSE 0)
          /\ sent[o] # 0 => /\ wire.inflight[1].id = sent[o] /\ wire.inflight[1].rows = rows[o]
                            /\ o <= m
      BY <1>1, <1>5, <1>6, <1>20, <3>1 DEF InStep, LanesInTurn
    <3>3. sent[o] # 0 => l = 1 /\ a[1].id = sent[o] /\ a[1].rows = rows[o]
      BY <1>7, <3>2
    <3>4. sent[o] = 0 => l = 0
      BY <3>2
    <3>5. sent'[o] = sent[o]
      BY <1>12, <3>1
    <3>6. CASE lane' = o
      <4>1. 3 - lane' = lane /\ sent'[lane'] = sent[o] /\ sent'[3 - lane'] = This
        BY <1>4, <1>12, <3>1, <3>5, <3>6
      <4>2. o \in Nat /\ lane <= m /\ Len(rows') = m
        BY <1>1, <1>6
      <4>3. layer' = Layers /\ lane' = 2 => FALSE
        BY <1>2, <1>4, <1>6, <3>1, <3>6
      <4>4. ~(layer' > Layers)
        BY <1>4, <1>13
      <4>5. CASE sent[o] # 0
        BY <1>1, <1>6, <1>7, <1>8, <2>1, <3>3, <3>6, <4>1, <4>2, <4>3, <4>4, <4>5 DEF LanesInTurn
      <4>6. CASE sent[o] = 0
        BY <1>1, <1>6, <1>7, <1>8, <2>1, <3>4, <3>6, <4>1, <4>2, <4>3, <4>4, <4>6 DEF LanesInTurn
      <4>7. QED
        BY <4>5, <4>6
    <3>7. CASE lane' # o
      <4>1. lane = 1 /\ o = 2 /\ lane' = 1 /\ m = 1
        BY <1>2, <1>4, <1>6, <3>1, <3>7
      <4>2. sent[o] = 0 /\ l = 0
        BY <3>2, <4>1
      <4>3. sent'[1] = This /\ sent'[2] = 0
        BY <1>12, <3>5, <4>1, <4>2
      <4>4. ~(layer' > Layers)
        BY <1>4, <1>13
      <4>5. QED
        BY <1>1, <1>7, <1>8, <2>1, <4>1, <4>2, <4>3, <4>4 DEF LanesInTurn
    <3>8. QED
      BY <3>6, <3>7
  <2>3. ASSUME NEW i \in 1..Len(a) PROVE a[i].id = Posts' - Len(a) + i
    <3>1. CASE i \in 1..l
      <4>1. wire.inflight[i].id = Posts - Len(wire.inflight) + i
        BY <1>6, <1>20, <3>1 DEF InStep
      <4>2. a[i].id = (w - 2) - l + i
        BY <1>6, <1>7, <1>17, <3>1, <4>1
      <4>3. (w - 2) - l + i = (w - 1) - (l + 1) + i
        BY <3>1
      <4>4. QED
        BY <1>7, <1>17, <4>2, <4>3
    <3>2. CASE i = l + 1
      <4>1. (w - 1) - (l + 1) + (l + 1) = w - 1
        OBVIOUS
      <4>2. QED
        BY <1>7, <1>17, <3>2, <4>1
    <3>3. QED
      BY <1>7, <3>1, <3>2
  <2>4. ASSUME NEW r \in R
        PROVE  /\ Flow(conn'[r], spark'[r]) <= Owed(r)'
               /\ Owed(r)' + Len(conn'[r].consumed) <= 2
               /\ conn'[r].tx = Posts' /\ conn'[r].rx = Posts' - Owed(r)'
               /\ \A q, n \in Nat : Under(conn'[r], spark'[r], q, n) => n = q + 1
    <3>1. /\ Flow(conn[r], spark[r]) <= l
          /\ conn[r].tx = w - 2 /\ conn[r].rx = (w - 2) - l
          /\ \A q, n \in Nat : Under(conn[r], spark[r], q, n) => n = q + 1
      BY <1>17, <1>18, <1>20 DEF InStep
    <3>2. PICK x \in Int : Flow(conn[r], spark[r]) = x
      BY <1>4, FlowInt
    <3>3. Flow(conn'[r], spark'[r]) <= l + 1
      BY <1>19, <3>1, <3>2
    <3>a. conn'[r].consumed = <<>> /\ conn'[r].tx = conn[r].tx + 1 /\ conn'[r].rx = conn[r].rx
      BY <1>10 DEF Posting
    <3>4. Len(conn'[r].consumed) = 0 /\ conn'[r].tx = conn[r].tx + 1 /\ conn'[r].rx = conn[r].rx
      BY <3>a
    <3>5. conn'[r].tx = w - 1 /\ conn'[r].rx = (w - 1) - (l + 1)
      BY <3>1, <3>4
    <3>6. \A q, n \in Nat : Under(conn'[r], spark'[r], q, n) => n = q + 1
      BY <1>17, <1>19, <3>1
    <3>7. QED
      BY <1>6, <1>17, <1>18, <3>3, <3>4, <3>5, <3>6
  <2>5. QED
    BY <1>1, <1>8, <2>2, <2>3, <2>4 DEF InStep
<1>21. ASSUME Lost PROVE Lost'
  <2>1. PICK k \in R, b \in Nat : LostAt(k, b)
    BY <1>21 DEF Lost
  <2>2. /\ b <= w - 2 /\ \A i \in 1..l : wire.inflight[i].id > b
        /\ conn[k].tx > conn[k].rx
        /\ \A n \in Nat : Under(conn[k], spark[k], conn[k].rx, n) => n <= b
    BY <1>6, <1>17, <2>1 DEF LostAt, Behind
  <2>3. PICK t, x \in Nat : conn[k].tx = t /\ conn[k].rx = x
    BY <1>4 DEF Connection
  <2>4. conn'[k].tx = t + 1 /\ conn'[k].rx = x
    BY <1>10, <2>3 DEF Posting
  <2>5. b <= Posts' /\ This > b
    BY <1>17, <2>2
  <2>6. \A i \in 1..Len(wire'.inflight) : wire'.inflight[i].id > b
    BY <1>7, <1>8, <2>2, <2>5
  <2>7. \A n \in Nat : Under(conn'[k], spark'[k], conn'[k].rx, n) => n <= b
    BY <1>19, <2>2, <2>3, <2>4
  <2>8. Behind(k, b)'
    BY <2>2, <2>3, <2>4, <2>5, <2>6, <2>7 DEF Behind
  <2>9. QED
    BY <1>1, <2>8 DEF Lost, LostAt
<1>22. Wired'
  BY <1>1, <1>20, <1>21 DEF IInv, Wired
<1>23. QED
  BY <1>14, <1>15, <1>16, <1>22 DEF IInv
-----------------------------------------------------------------------------
(* The invariant.                                                          *)

(* It holds when client and ranks have connected.                          *)
LEMMA InitIInv ==
  ASSUME Init
  PROVE  IInv
<1>1. /\ pc = "idle" /\ rows = <<>> /\ layer = 0 /\ lane = 1
      /\ sent = <<0, 0>> /\ rank = 1 /\ want = NoExchange /\ kernels = <<>> /\ broken = {}
  BY DEF Init
<1>2. /\ wire = [next |-> 1, inflight |-> <<>>, half |-> 0, body |-> [h \in Halves |-> 0]]
  BY DEF Init
<1> DEFINE c == [out |-> <<>>, sends |-> 0, ring |-> [s \in Slots |-> NoReturn],
                 posted |-> <<0, 1>>, arrived |-> <<>>, consumed |-> <<>>,
                 last |-> 0, rx |-> 0, tx |-> 0, head |-> [h \in Halves |-> NoHeader]]
           s == [pc |-> "recv", slots |-> 2, inbox |-> <<>>, held |-> NoHeader, data |-> 0,
                 rx |-> 0, tx |-> 0, cur |-> 0, busy |-> {},
                 buf |-> [h \in Halves |-> NoReturn], out |-> <<>>]
<1>3. conn = [r \in R |-> c] /\ spark = [r \in R |-> s]
  BY DEF Init
<1>4. NoHeader \in Header /\ NoReturn \in Return /\ NoExchange \in Exchange
  BY DEF NoHeader, NoReturn, NoExchange, Header, Return, Exchange
<1>5. c \in Connection
  <2>1. <<0, 1>> \in Seq(Slots) /\ 0 \in Slots
    BY DEF Slots
  <2>2. [t \in Slots |-> NoReturn] \in [Slots -> Return]
    BY <1>4
  <2>3. [h \in Halves |-> NoHeader] \in [Halves -> Header]
    BY <1>4
  <2>4. QED
    BY <2>1, <2>2, <2>3 DEF Connection
<1>6. s \in DaemonState
  <2>1. "recv" \in DaemonAt /\ 0 \in Halves /\ {} \in SUBSET Halves
    BY DEF DaemonAt, Halves
  <2>2. [h \in Halves |-> NoReturn] \in [Halves -> Return]
    BY <1>4
  <2>3. QED
    BY <1>4, <2>1, <2>2 DEF DaemonState
<1>7. /\ c.out = <<>> /\ c.sends = 0 /\ c.posted = <<0, 1>> /\ c.arrived = <<>> /\ c.consumed = <<>>
      /\ c.rx = 0 /\ c.tx = 0 /\ \A t \in Slots : c.ring[t] = NoReturn
      /\ s.pc = "recv" /\ s.slots = 2 /\ s.inbox = <<>> /\ s.rx = 0 /\ s.tx = 0 /\ s.out = <<>>
      /\ \A h \in Halves : s.buf[h] = NoReturn
  OBVIOUS
<1> HIDE DEF c, s
<1>8. \A r \in R : conn[r] = c /\ spark[r] = s
  BY <1>3
<1>9. /\ wire \in Client /\ wire.next = 1 /\ wire.inflight = <<>> /\ Len(wire.inflight) = 0
  BY <1>2 DEF Client, Halves
<1>10. 1 \in R /\ Layers \in Nat \ {0}
  BY WireAssumption DEF R
<1>11. sent \in [1..2 -> Nat] /\ sent[1] = 0 /\ sent[2] = 0
  BY <1>1
<1>12. Typed
  BY <1>1, <1>3, <1>4, <1>5, <1>6, <1>9, <1>10, <1>11 DEF Typed
<1>13. PassAt
  BY <1>1, <1>10 DEF PassAt
<1>14. InFlight
  BY <1>1, <1>9, <1>11 DEF InFlight
<1>15. Sends(pc, c, s) /\ Answers(s)
  BY <1>1, <1>7 DEF Sends, Answers
<1>16. Ring(c)
  <2>1. Lists(<<0, 1>>, Slots)
    BY DEF Lists, Slots
  <2>2. Lists(<<>>, {})
    BY DEF Lists
  <2>3. QED
    BY <1>7, <2>1, <2>2 DEF Ring
<1>17. \A r \in R : Planes(r)
  BY <1>1 DEF Planes
<1>18. Always
  BY <1>8, <1>12, <1>13, <1>14, <1>15, <1>16, <1>17 DEF Always
<1>19. HalvesInTurn(pc, wire.half, c) /\ SameExchange(wire.body, c, s)
  <2>1. HalvesInTurn(pc, wire.half, c)
    BY <1>1, <1>7 DEF HalvesInTurn
  <2>2. SameExchange(wire.body, c, s)
    BY <1>7 DEF SameExchange, NoReturn
  <2>3. QED
    BY <2>1, <2>2
<1>20. Carried
  BY <1>1, <1>8, <1>19 DEF Carried
<1>21. Sound
  BY <1>1 DEF Sound
<1>22. LanesInTurn
  BY <1>1, <1>9, <1>10, <1>11 DEF LanesInTurn
<1>23. Posts = 0 /\ \A r \in R : Owed(r) = 0
  BY <1>1, <1>9 DEF Posts, Owed
<1>24. Flow(c, s) = 0 /\ \A q, n \in Nat : ~Under(c, s, q, n)
  <2>1. Parts(c, s, 0, 2, 0, 0, 0)
    BY <1>7 DEF Parts, Sending
  <2>2. Flow(c, s) = 0
    BY <2>1, PartsFlow
  <2>3. \A q, n \in Nat : ~Under(c, s, q, n)
    BY <1>7 DEF Under
  <2>4. QED
    BY <2>2, <2>3
<1>25. InStep
  BY <1>1, <1>7, <1>8, <1>9, <1>22, <1>23, <1>24 DEF InStep
<1>26. QED
  BY <1>1, <1>18, <1>20, <1>21, <1>25 DEF IInv, Wired

(* Every step keeps it.                                                    *)
LEMMA NextKeeps ==
  ASSUME IInv, [Next]_vars
  PROVE  IInv'
<1>1. CASE \E b \in Batches : StartPass(b)
  BY <1>1, StartPassKeeps
<1>2. CASE Coordinator
  <2>1. CASE EndPass
    BY <2>1, EndPassKeeps
  <2>2. CASE Collect
    BY <2>2, CollectKeeps
  <2>3. CASE Recv
    BY <2>3, RecvKeeps
  <2>4. CASE RecvRefused
    BY <2>4, RecvRefusedKeeps
  <2>5. CASE Attend
    BY <2>5, AttendKeeps
  <2>6. CASE SendRefused
    BY <2>6, LaneGivesUp
  <2>7. CASE Claim
    BY <2>7, ClaimKeeps
  <2>8. CASE Fill
    BY <2>8, FillKeeps
  <2>9. CASE Post
    BY <2>9, PostKeeps
  <2>10. QED
    BY <1>2, <2>1, <2>2, <2>3, <2>4, <2>5, <2>6, <2>7, <2>8, <2>9 DEF Coordinator
<1>3. CASE GivesUp
  <2>1. CASE RecvFails
    BY <2>1, RecvFailsKeeps
  <2>2. CASE \E r \in R : ClaimFails(r)
    BY <2>2, ClaimFailsKeeps
  <2>3. QED
    BY <1>3, <2>1, <2>2 DEF GivesUp
<1>4. CASE LaneFails
  BY <1>4, LaneGivesUp
<1>5. CASE FillFails
  BY <1>5, FillFailsKeeps
<1>6. CASE RunSum
  BY <1>6, RunSumKeeps
<1>7. CASE \E r \in R : PostFails(r)
  BY <1>7, PostFailsKeeps
<1>8. ASSUME NEW r \in R, Daemon(r) \/ ServeFails(r) \/ Dies(r) \/ Card(r)
      PROVE  IInv'
  <2>1. Always
    BY DEF IInv
  <2>2. Local(r)
    BY <1>8, <2>1, RankSteps DEF Daemon, Card
  <2>3. QED
    BY <2>2, LocalKeeps
<1>9. CASE UNCHANGED vars
  <2>1. /\ pc' = pc /\ rows' = rows /\ layer' = layer /\ lane' = lane /\ sent' = sent
        /\ rank' = rank /\ want' = want /\ kernels' = kernels /\ wire' = wire /\ conn' = conn
        /\ spark' = spark /\ broken' = broken
    BY <1>9 DEF vars
  <2>2. Always'
    BY <2>1 DEF IInv, Always, Typed, PassAt, InFlight, Planes
  <2>3. Carried'
    BY <2>1 DEF IInv, Carried, Mine, This
  <2>4. Sound'
    BY <2>1 DEF IInv, Sound
  <2>5. Posts' = Posts /\ \A r \in R : Owed(r)' = Owed(r)
    BY <2>1 DEF Posts, Owed
  <2>6. InStep => InStep'
    BY <2>1, <2>5 DEF InStep, LanesInTurn
  <2>7. Lost => Lost'
    BY <2>1, <2>5 DEF Lost, LostAt, Behind
  <2>8. QED
    BY <2>1, <2>2, <2>3, <2>4, <2>6, <2>7 DEF IInv, Wired
<1>10. QED
  BY <1>1, <1>2, <1>3, <1>4, <1>5, <1>6, <1>7, <1>8, <1>9 DEF Next

(* A rank's receive ring has two slots.                                    *)
LEMMA RingOfTwo ==
  ASSUME NEW c \in Connection, Ring(c)
  PROVE  /\ Len(c.posted) + Len(c.arrived) + Len(c.consumed) = 2
         /\ {c.posted[i] : i \in 1..Len(c.posted)}
              \cup {c.arrived[i] : i \in 1..Len(c.arrived)}
              \cup {c.consumed[i] : i \in 1..Len(c.consumed)} = Slots
<1>1. PICK A, B, C \in SUBSET Slots :
         /\ Lists(c.posted, A) /\ Lists(c.arrived, B) /\ Lists(c.consumed, C)
         /\ A \cup B \cup C = Slots
         /\ A \cap B = {} /\ A \cap C = {} /\ B \cap C = {}
  BY DEF Ring
<1>2. /\ c.posted \in Seq(Slots) /\ c.arrived \in Seq(Slots) /\ c.consumed \in Seq(Slots)
  BY DEF Connection
<1> DEFINE s == c.posted \o c.arrived
           t == s \o c.consumed
<1>3. Lists(t, Slots)
  <2>1. Lists(s, A \cup B)
    BY <1>1, ListsConcat
  <2>2. (A \cup B) \cap C = {}
    BY <1>1
  <2>3. Lists(t, (A \cup B) \cup C)
    BY <1>1, <2>1, <2>2, ListsConcat
  <2>4. QED
    BY <1>1, <2>3
<1>4. /\ Len(s) = Len(c.posted) + Len(c.arrived) /\ Len(t) = Len(s) + Len(c.consumed)
      /\ s \in Seq(Slots)
  BY <1>2
<1> HIDE DEF s, t
<1>5. Len(t) = 2
  <2>1. PICK n \in Nat : Len(t) = n
    BY <1>3 DEF Lists
  <2>2. /\ \A i \in 1..n : t[i] \in {0, 1}
        /\ \A i, k \in 1..n : t[i] = t[k] => i = k
        /\ \E i \in 1..n : t[i] = 0
        /\ \E i \in 1..n : t[i] = 1
    BY <1>3, <2>1 DEF Lists, Slots
  <2>3. ~(n >= 3)
    <3>1. SUFFICES ASSUME n >= 3 PROVE FALSE
      OBVIOUS
    <3>2. 1 \in 1..n /\ 2 \in 1..n /\ 3 \in 1..n
      BY <3>1
    <3>3. QED
      BY <2>2, <3>2
  <2>4. n >= 2
    <3>1. PICK i \in 1..n : t[i] = 0
      BY <2>2
    <3>2. PICK k \in 1..n : t[k] = 1
      BY <2>2
    <3>3. i # k
      BY <3>1, <3>2
    <3>4. QED
      BY <3>3
  <2>5. QED
    BY <2>1, <2>3, <2>4
<1>6. /\ {c.posted[i] : i \in 1..Len(c.posted)} = A
      /\ {c.arrived[i] : i \in 1..Len(c.arrived)} = B
      /\ {c.consumed[i] : i \in 1..Len(c.consumed)} = C
  <2>1. ASSUME NEW u, NEW S, Lists(u, S) PROVE {u[i] : i \in 1..Len(u)} = S
    BY <2>1 DEF Lists
  <2>2. QED
    BY <1>1, <2>1
<1>7. QED
  BY <1>1, <1>4, <1>5, <1>6

(* The type invariant.                                                     *)
LEMMA TypesFollow ==
  ASSUME IInv
  PROVE  TypeOK
<1>1. /\ Always /\ Typed /\ PassAt /\ InFlight /\ conn \in [R -> Connection]
      /\ spark \in [R -> DaemonState] /\ layer \in Nat /\ lane \in 1..2 /\ rank \in R
  BY DEF IInv, Always, Typed
<1>2. /\ pc \in {"idle", "turn", "recv", "claim", "fill", "post"}
      /\ layer \in 0..(Layers + 1) /\ Len(wire.inflight) <= 2
  BY <1>1, WireAssumption DEF Typed, PassAt, InFlight
<1>3. Len(kernels) <= 2
  <2>1. PICK n \in Nat : Len(kernels) = n
    BY <1>1 DEF Typed
  <2>2. n + (IF sent[1] # 0 THEN 1 ELSE 0) + (IF sent[2] # 0 THEN 1 ELSE 0) <= 2
    BY <1>1, <2>1 DEF InFlight
  <2>3. QED
    BY <2>1, <2>2
<1>4. ASSUME NEW r \in R
      PROVE  /\ conn[r].sends \in 0..2 /\ Len(conn[r].out) <= conn[r].sends
             /\ spark[r].slots + Len(spark[r].inbox)
                  + (IF spark[r].pc = "serve" THEN 1 ELSE 0) <= 2
             /\ {conn[r].posted[i] : i \in 1..Len(conn[r].posted)}
                  \cup {conn[r].arrived[i] : i \in 1..Len(conn[r].arrived)}
                  \cup {conn[r].consumed[i] : i \in 1..Len(conn[r].consumed)} = Slots
  <2>1. Sends(pc, conn[r], spark[r]) /\ Ring(conn[r]) /\ conn[r] \in Connection
    BY <1>1 DEF Always
  <2>2. conn[r].sends \in Nat
    BY <2>1 DEF Connection
  <2>3. PICK x \in Nat : conn[r].sends = x
    BY <2>2
  <2>4. x <= 2 /\ Len(conn[r].out) <= x
    BY <2>1, <2>3 DEF Sends
  <2>5. spark[r].slots + Len(spark[r].inbox)
          + (IF spark[r].pc = "serve" THEN 1 ELSE 0) <= 2
    BY <2>1 DEF Sends
  <2>6. {conn[r].posted[i] : i \in 1..Len(conn[r].posted)}
          \cup {conn[r].arrived[i] : i \in 1..Len(conn[r].arrived)}
          \cup {conn[r].consumed[i] : i \in 1..Len(conn[r].consumed)} = Slots
    BY <2>1, RingOfTwo
  <2>7. conn[r].sends \in 0..2
    BY <2>3, <2>4
  <2>8. QED
    BY <2>3, <2>4, <2>5, <2>6, <2>7
<1>5. QED
  BY <1>1, <1>2, <1>3, <1>4 DEF TypeOK

(* The half a request is built in has been read by every card.             *)
LEMMA HalfFollows ==
  ASSUME IInv
  PROVE  HalfFree
<1>1. SUFFICES ASSUME broken \cap {"fill", "claim"} = {}, pc \in {"fill", "post"},
                      NEW r \in R, NEW i \in 1..Len(conn[r].out)
               PROVE  conn[r].out[i] # Mine
  BY DEF HalfFree
<1>2. /\ HalvesInTurn(pc, wire.half, conn[r]) /\ Sends(pc, conn[r], spark[r])
      /\ wire \in Client /\ conn[r] \in Connection
  BY <1>1 DEF IInv, Always, Typed, Carried
<1>3. Len(conn[r].out) \in Nat /\ conn[r].sends \in Nat
  BY <1>2 DEF Connection
<1>4. PICK l, x \in Nat : Len(conn[r].out) = l /\ conn[r].sends = x
  BY <1>3
<1>5. l <= 1
  BY <1>1, <1>2, <1>4 DEF Sends
<1>6. i = 1 /\ l >= 1
  BY <1>1, <1>4, <1>5
<1>7. conn[r].out[1] = wire.half
  BY <1>1, <1>2, <1>4, <1>6 DEF HalvesInTurn
<1>8. QED
  BY <1>2, <1>6, <1>7, MineThis

(* In step, every send finds a slot.                                       *)
LEMMA SlotsFollow ==
  ASSUME IInv
  PROVE  SlotAlwaysPosted
<1>1. SUFFICES ASSUME broken = {}, NEW r \in R
               PROVE  /\ Len(conn[r].out) <= spark[r].slots
                      /\ Len(spark[r].out) <= Len(conn[r].posted)
  BY DEF SlotAlwaysPosted
<1>2. /\ InStep /\ Typed /\ Sends(pc, conn[r], spark[r]) /\ Ring(conn[r])
      /\ conn[r] \in Connection /\ spark[r] \in DaemonState
  BY <1>1 DEF IInv, Wired, Always, Typed
<1>3. PICK o1, k, o2, v, w \in Nat : Parts(conn[r], spark[r], o1, k, o2, v, w)
  BY <1>2, FlowParts
<1>4. /\ Len(conn[r].consumed) \in Nat /\ Len(conn[r].posted) \in Nat
      /\ Len(spark[r].inbox) \in Nat /\ Owed(r) \in Nat
  <2>1. Len(conn[r].posted) \in Nat
    BY <1>2 DEF Connection
  <2>2. Owed(r) \in Nat
    BY <1>2, OwedInt
  <2>3. QED
    BY <1>2, <2>1, <2>2, Counts
<1>5. PICK n, p, m, d \in Nat : /\ Len(conn[r].consumed) = n /\ Len(conn[r].posted) = p
                                /\ Len(spark[r].inbox) = m /\ Owed(r) = d
  BY <1>4
<1>6. o1 + 2 - k + o2 + v + w <= d /\ d + n <= 2
  <2>1. Flow(conn[r], spark[r]) <= d /\ d + n <= 2
    BY <1>2, <1>5 DEF InStep
  <2>2. QED
    BY <1>3, <2>1, PartsFlow
<1>7. p + v + n = 2
  BY <1>2, <1>3, <1>5, RingOfTwo DEF Parts
<1>8. k <= 2
  BY <1>2, <1>3, <1>5 DEF Sends, Parts
<1>9. o1 <= k /\ o2 <= p
  BY <1>6, <1>7, <1>8
<1>10. QED
  BY <1>3, <1>5, <1>9 DEF Parts

(* What the code behaviour of wire.rs and transport.rs comes to, whatever  *)
(* the number of ranks, layers and passes: the two halves of claim_half    *)
(* are never written while a card still reads one, the two receive slots   *)
(* of each side are all accounted for, and with no failure no send waits   *)
(* for a slot.                                                             *)
THEOREM BuffersAlwaysInTurn == Spec => []BuffersInTurn
<1>1. Init => IInv
  BY InitIInv
<1>2. IInv /\ [Next]_vars => IInv'
  BY NextKeeps
<1>3. IInv => BuffersInTurn
  BY TypesFollow, HalfFollows, SlotsFollow DEF BuffersInTurn
<1>4. QED
  BY <1>1, <1>2, <1>3, PTL DEF Spec

(* moe_finish never sums the answers to two requests, whatever has failed  *)
(* short of a pass given up between claim_half and post_half.              *)
THEOREM SumsOfOneExchange == Spec => []OneExchange
<1>1. Init => IInv
  BY InitIInv
<1>2. IInv /\ [Next]_vars => IInv'
  BY NextKeeps
<1>3. IInv => OneExchange
  BY DEF IInv, Sound, OneExchange
<1>4. QED
  BY <1>1, <1>2, <1>3, PTL DEF Spec

(* A wire on which a return was refused, late or missing, or a claim timed *)
(* out, has lost step for good: validate_return_header and the sequence    *)
(* numbers let no sum start on it that is not of its lane's own request.   *)
THEOREM WireFailsClosed == Spec => []FailsClosed
<1>1. Init => IInv
  BY InitIInv
<1>2. IInv /\ [Next]_vars => IInv'
  BY NextKeeps
<1>3. IInv => FailsClosed
  BY DEF IInv, Sound, FailsClosed, OwnPlanes
<1>4. QED
  BY <1>1, <1>2, <1>3, PTL DEF Spec
=============================================================================
