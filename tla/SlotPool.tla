------------------------------ MODULE SlotPool ------------------------------
(***************************************************************************)
(* The coordinator's KV slots and snapshot tiers (api.rs, Pool, and what   *)
(* the scheduler does to a request's slot): a slot is free, retained for   *)
(* its snapshot points, or held by a request that prefills or decodes.     *)
(* Points leave the device for the RAM tier (RamTier) under pressure.      *)
(*                                                                         *)
(* A slot's rows are the tokens they were computed from, and a point keeps *)
(* the rows its state was saved at, so a row or a state of another history *)
(* shows as a mismatch.  Which of several retained slots or points is the  *)
(* least recently used is left open: any may be the one to go.             *)
(***************************************************************************)
EXTENDS Integers, Sequences, FiniteSets, FiniteSetsExt

CONSTANTS
  Slots,      \* KV slots
  Token,
  Prompts,    \* prompts that arrive
  Argmax(_),  \* the greedy next token of a history
  MinRetain,  \* MIN_RETAIN
  Bank,       \* points kept on the device for each kind
  Cap,        \* snapshots the RAM tier holds
  Base,       \* rows of a slot at its build size
  Ahead,      \* rows reserved beyond the prompt (admit_rows)
  Transient,  \* rows a growing slot needs while it copies
  Swa,        \* rows' worth of a prefill's SWA working set
  Total,      \* rows the device has room for
  MaxHist,    \* bound of the model: tokens of a history
  None

ASSUME PoolAssumption ==
  /\ IsFiniteSet(Slots) /\ None \notin Token
  /\ Prompts \subseteq Seq(Token) \ {<<>>}
  /\ MinRetain \in Nat \ {0} /\ Bank \in Nat /\ Cap \in Nat
  /\ {Base, Ahead, Transient, Swa, Total, MaxHist} \subseteq Nat
  /\ Cardinality(Slots) * Base <= Total
  /\ \A n \in 0..MaxHist : \A h \in [1..n -> Token] : Argmax(h) \in Token

VARIABLES
  slot,  \* Slots -> what the slot holds
  ram,   \* the RAM tier
  req,   \* the request whose admission needs a clean slot, or none
  ramOn  \* whether there is a RAM tier, settled at start-up

vars == <<slot, ram, req, ramOn>>

Kinds == {"prompt", "turn"}
NoAfter == [greedy |-> None, logits |-> FALSE]
NoReq == [ids |-> <<>>, sampled |-> FALSE]

Tier == INSTANCE RamTier WITH Snapshots <- {}

\* A clean slot at its build size.
Clean == [st |-> "free", kv |-> <<>>, hist |-> <<>>, points |-> {},
          cap |-> Base, after |-> NoAfter, sampled |-> FALSE]

In(st) == {s \in Slots : slot[s].st = st}
First(h, n) == SubSeq(h, 1, n)
Prefix(a, b) == Len(a) <= Len(b) /\ First(b, Len(a)) = a
Serves(a, sampled) == IF sampled THEN a.logits ELSE a.greedy # None

\* Point::save of a slot with rows `kv`.
Point(kv, kind, after) ==
  [len |-> Len(kv), kind |-> kind, after |-> after, at |-> kv]

\* The points of `p` and, when the device has room for its state, one more.
Saved(points, kv, kind, after) == {points, points \cup {Point(kv, kind, after)}}

\* Pool::store: what capture reads for point p of slot s.
Snap(s, p) == [tokens |-> First(slot[s].hist, p.len), after |-> p.after, kind |-> p.kind,
               rows |-> First(slot[s].kv, p.len), at |-> p.at]
Snaps(S) == UNION {{Snap(s, p) : p \in slot[s].points} : s \in S}

\* What storing `snaps` leaves in RAM: nothing with the tier off.
RamWith(snaps) == IF ramOn THEN Tier!StoredAll(ram, snaps) ELSE {ram}

Init ==
  /\ slot = [s \in Slots |-> Clean]
  /\ ram = {}
  /\ req = NoReq
  /\ ramOn \in BOOLEAN
-----------------------------------------------------------------------------
(* Device memory.                                                          *)

\* The rows a slot takes, a prefill's working set included.
Size(x) == x.cap + IF x.st = "prefill" THEN Swa ELSE 0

\* The rows in use, each with its slot, and those of the slots E that an
\* eviction gives back: a released slot shrinks to its build size.
Cells == UNION {{s} \X (1..Size(slot[s])) : s \in Slots}
Above(E) == UNION {{s} \X ((Base + 1)..slot[s].cap) : s \in E}

Used == Cardinality(Cells)
Rows(ids) == Len(ids) + Ahead
Larger(a, b) == IF a >= b THEN a ELSE b

\* Mutant: the slot's own growth is not counted.
Need_NoGrowth(cap, rows) == IF rows > cap THEN Transient + Swa ELSE Swa

\* admit_check: what a slot of `cap` rows needs to hold `rows`.
Need(cap, rows) == IF rows > cap THEN rows - cap + Transient + Swa ELSE Swa

\* The room there is once the slots E are evicted.
FreeWithout(E) == Total - Used + Cardinality(Above(E))
Fits(cap, rows, E) == Need(cap, rows) <= FreeWithout(E)

\* make_room, with the slots `gone` evicted already: the slots of `avail` that
\* go, one after the other until it fits or none is left.
MadeRoom(cap, rows, gone, avail) ==
  {E \in SUBSET avail :
     /\ Fits(cap, rows, gone \cup E) \/ E = avail
     /\ E # {} => \E s \in E : ~Fits(cap, rows, gone \cup (E \ {s}))}
-----------------------------------------------------------------------------
(* Lookup.                                                                 *)

\* The points of the slots S, each with its slot.
PointsOf(S) == UNION {{s} \X slot[s].points : s \in S}
Top(s) == Max({0} \cup {p.len : p \in slot[s].points})

\* The hits device_hit chooses from: longest first, then with nothing after it.
DeviceHit(ids) ==
  LET hits == {h \in PointsOf(In("retained")) :
                 Prefix(First(slot[h[1]].hist, h[2].len), ids)}
      long == {h \in hits : \A g \in hits : g[2].len <= h[2].len}
      tops == {h \in long : h[2].len = Top(h[1])}
  IN  IF tops # {} THEN tops ELSE long

\* device_hit_for: an exact hit that does not serve gives way to a shorter one.
DeviceHitFor(ids, sampled) ==
  UNION {IF h[2].len = Len(ids) /\ ~Serves(h[2].after, sampled)
         THEN DeviceHit(First(ids, Len(ids) - 1))
         ELSE {h} : h \in DeviceHit(ids)}

\* lookup_for in RAM: what may serve, and the longest of it.
HitsIn(R, ids, sampled) ==
  {r \in R : Prefix(r.tokens, ids) /\ (r.tokens = ids => Serves(r.after, sampled))}
LongestIn(R, ids, sampled) ==
  LET hits == HitsIn(R, ids, sampled)
  IN  {r \in hits : \A x \in hits : Len(x.tokens) <= Len(r.tokens)}
HostHit(ids, sampled) == LongestIn(ram, ids, sampled)

HostLonger(ids, sampled, n) ==
  n < Len(ids) /\ \E r \in HostHit(ids, sampled) : Len(r.tokens) > n

\* Whether admission uses the device hit h, one of DeviceHitFor.
UsableHit(ids, sampled, h) == ~HostLonger(ids, sampled, h[2].len)
-----------------------------------------------------------------------------
(* Admission.                                                              *)

\* A request for `ids` in a slot that holds `kv`: prefilling, or ready for its
\* first token when that is the whole prompt.
Running(ids, sampled, kv, points, after, cap) ==
  [st |-> IF kv = ids THEN "ready" ELSE "prefill", kv |-> kv, hist |-> ids,
   points |-> points, cap |-> Larger(cap, Rows(ids)),
   after |-> IF kv = ids THEN after ELSE NoAfter, sampled |-> sampled]

\* slot with s holding `new` and the slots E released.
Updated(s, new, E) ==
  [x \in Slots |-> IF x = s THEN new ELSE IF x \in E THEN Clean ELSE slot[x]]

\* A hit below later points is forked into a free slot that fits as it is.
AdmitFork(ids, sampled, h, f) ==
  LET s == h[1]  p == h[2]
  IN  /\ req = NoReq /\ UsableHit(ids, sampled, h)
      /\ p.len < Top(s) /\ f \in In("free")
      /\ Fits(Base, Rows(ids), {})
      /\ slot' = Updated(f, Running(ids, sampled, First(slot[s].kv, p.len), {},
                                    p.after, Base), {})
      /\ UNCHANGED <<ram, req>>

Keep(s, p) == {q \in slot[s].points : q.len <= p.len}
Later(s, p) == {q \in slot[s].points : q.len > p.len}
LaterSnaps(s, p) == {Snap(s, q) : q \in Later(s, p)}
Others(s) == In("retained") \ {s}

\* Mutant: the slot's later points stay.
AdmitInPlace_KeepsLater(ids, sampled, h, E) ==
  LET s == h[1]  p == h[2]
  IN  /\ req = NoReq /\ UsableHit(ids, sampled, h)
      /\ E \in MadeRoom(slot[s].cap, Rows(ids), {}, Others(s))
      /\ Fits(slot[s].cap, Rows(ids), E)
      /\ ram' \in RamWith(LaterSnaps(s, p) \cup Snaps(E))
      /\ slot' = Updated(s, Running(ids, sampled, First(slot[s].kv, p.len),
                                    slot[s].points, p.after, slot[s].cap), E)
      /\ UNCHANGED req

\* The slot of the hit rewinds to it, its later points go to RAM (also when a
\* fork would fit, and its copy fails).
AdmitInPlace(ids, sampled, h, E) ==
  LET s == h[1]  p == h[2]
  IN  /\ req = NoReq /\ UsableHit(ids, sampled, h)
      /\ E \in MadeRoom(slot[s].cap, Rows(ids), {}, Others(s))
      /\ Fits(slot[s].cap, Rows(ids), E)
      /\ ram' \in RamWith(LaterSnaps(s, p) \cup Snaps(E))
      /\ slot' = Updated(s, Running(ids, sampled, First(slot[s].kv, p.len),
                                    Keep(s, p), p.after, slot[s].cap), E)
      /\ UNCHANGED req

\* The slot cannot grow in place, for lack of room or because the device
\* refuses: with the RAM tier on, all its points go there and it is given back.
Relocate(ids, sampled, h, E) ==
  LET s == h[1]
  IN  /\ req = NoReq /\ UsableHit(ids, sampled, h) /\ ramOn
      /\ E \in MadeRoom(slot[s].cap, Rows(ids), {}, Others(s))
      /\ ram' \in RamWith(Snaps({s} \cup E))
      /\ slot' = Updated(s, Clean, E)
      /\ req' = [ids |-> ids, sampled |-> sampled]

\* Without it the request is refused, and the slot keeps the points up to the hit.
RefuseInPlace(ids, sampled, h, E) ==
  LET s == h[1]  p == h[2]
  IN  /\ req = NoReq /\ UsableHit(ids, sampled, h) /\ ~ramOn
      /\ E \in MadeRoom(slot[s].cap, Rows(ids), {}, Others(s))
      /\ slot' = Updated(s, [slot[s] EXCEPT !.hist = First(@, p.len),
                                            !.points = Keep(s, p)], E)
      /\ UNCHANGED <<ram, req>>

\* No device hit, or RAM has a longer one: a clean slot is wanted.
Miss(ids, sampled) ==
  /\ req = NoReq
  /\ LET hits == DeviceHitFor(ids, sampled)
     IN  hits = {} \/ \E h \in hits : ~UsableHit(ids, sampled, h)
  /\ In("free") \cup In("retained") # {}
  /\ req' = [ids |-> ids, sampled |-> sampled]
  /\ UNCHANGED <<slot, ram>>

\* take_free: a free slot, else a retained one, which is evicted.
Takable == IF In("free") # {} THEN In("free") ELSE In("retained")
Taken(f) == IF slot[f].st = "retained" THEN {f} ELSE {}

\* The clean slot f for the pending request, with the slots E evicted on the way.
CleanSlot(f, E) ==
  /\ req # NoReq /\ f \in Takable
  /\ Taken(f) \subseteq E
  /\ E \ Taken(f) \in MadeRoom(Base, Rows(req.ids), Taken(f), In("retained") \ {f})

CleanSlotFits(f, E) == CleanSlot(f, E) /\ Fits(Base, Rows(req.ids), E)

\* A snapshot found in RAM is restored, and kept as a point if there is room.
AdmitRestored(f, E) ==
  /\ CleanSlotFits(f, E)
  /\ ram' \in RamWith(Snaps(E))
  /\ \E r \in LongestIn(ram', req.ids, req.sampled) :
       \E points \in Saved({}, r.rows, r.kind, r.after) :
         slot' = Updated(f, Running(req.ids, req.sampled, r.rows, points, r.after, Base), E)
  /\ req' = NoReq

\* Nothing in RAM, or it does not restore: the prompt prefills from its start.
AdmitCold(f, E) ==
  /\ CleanSlotFits(f, E)
  /\ ram' \in RamWith(Snaps(E))
  /\ slot' = Updated(f, Running(req.ids, req.sampled, <<>>, {}, NoAfter, Base), E)
  /\ req' = NoReq

\* It does not fit even so, or the device refuses: the slot goes back.
Refuse(f, E) ==
  /\ CleanSlot(f, E)
  /\ ram' \in RamWith(Snaps(E))
  /\ slot' = Updated(f, Clean, E)
  /\ req' = NoReq
-----------------------------------------------------------------------------
(* A request's life in its slot.                                           *)

\* One prefill segment, alone or in a batch.
Segment(s, end) ==
  LET x == slot[s]
      h == First(x.hist, end)
  IN  /\ req = NoReq /\ x.st = "prefill"
      /\ end \in (Len(x.kv) + 1)..Len(x.hist)
      /\ slot' = [slot EXCEPT ![s] =
                    [x EXCEPT !.kv = h,
                              !.st = IF end = Len(x.hist) THEN "ready" ELSE "prefill",
                              !.after = [greedy |-> Argmax(h), logits |-> end >= MinRetain]]]
      /\ UNCHANGED <<ram, req>>

\* The token after history h: the argmax, or any draw.
Draw(h, sampled) == IF sampled THEN Token ELSE {Argmax(h)}

\* start: the prompt end is kept as a point, the first token is sent.
Start(s, next) ==
  LET x    == slot[s]
      want == Len(x.hist) >= MinRetain /\ \A p \in x.points : p.len # Len(x.hist)
  IN  /\ req = NoReq /\ x.st = "ready"
      /\ next \in Draw(x.hist, x.sampled)
      /\ \E points \in IF want THEN Saved(x.points, x.kv, "prompt", x.after) ELSE {x.points} :
           slot' = [slot EXCEPT ![s] =
                      [x EXCEPT !.st = "active", !.hist = Append(@, next),
                                !.points = points, !.after = NoAfter]]
      /\ UNCHANGED <<ram, req>>

\* A decode step: the KV takes the whole accepted run `out`, the request its
\* first `sent` tokens (it may end inside the run).
Decode(s, out, sent) ==
  LET x == slot[s]
  IN  /\ req = NoReq /\ x.st = "active"
      /\ Len(x.kv) + Len(out) <= x.cap /\ Len(x.hist) + sent <= MaxHist
      /\ \A i \in 1..Len(out) : out[i] \in Draw(x.hist \o First(out, i - 1), x.sampled)
      /\ sent \in 1..Len(out)
      /\ slot' = [slot EXCEPT ![s] =
                    [x EXCEPT !.kv = x.hist \o First(out, Len(out) - 1),
                              !.hist = @ \o First(out, sent),
                              !.st = IF sent < Len(out) THEN "done" ELSE "active"]]
      /\ UNCHANGED <<ram, req>>

\* grow_active: more rows for a running request, retained slots evicted for it;
\* when even that is not enough they are gone all the same.
GrowActive(s, E) ==
  LET x == slot[s]
  IN  /\ req = NoReq /\ x.st = "active" /\ Len(x.kv) + 1 >= x.cap /\ x.cap < MaxHist
      /\ \/ /\ E \in MadeRoom(x.cap, x.cap + 1, {}, In("retained")) /\ Fits(x.cap, x.cap + 1, E)
            /\ slot' = Updated(s, [x EXCEPT !.cap = @ + 1], E)
         \/ /\ E = In("retained") /\ ~Fits(x.cap, x.cap + 1, E) /\ E # {}
            /\ slot' = Updated(s, x, E)
      /\ ram' \in RamWith(Snaps(E))
      /\ UNCHANGED req

\* Mutant: the last token of any request passes for the argmax.
TurnAfter_Last(x) == [greedy |-> x.hist[Len(x.hist)], logits |-> FALSE]

\* What is known at a completion's end: a sampled token is a draw.
TurnAfter(x) ==
  [greedy |-> IF x.sampled THEN None ELSE x.hist[Len(x.hist)], logits |-> FALSE]

\* Retained with `points`, or released when there is none.
Kept(x, kv, hist, points) ==
  IF points = {} THEN Clean
  ELSE [x EXCEPT !.st = "retained", !.kv = kv, !.hist = hist, !.points = points,
                 !.after = NoAfter, !.sampled = FALSE]

\* retire, for a finished or cancelled request.  Rows past the history are cut
\* off, unless the cache can no longer (`cut`).
Retire(s, cancelled, cut) ==
  LET x   == slot[s]
      n   == Len(x.hist) - 1
      h   == First(x.hist, n)
      atN == Len(x.kv) = n \/ cut
      kv  == IF atN THEN First(x.kv, n) ELSE x.kv
      want == /\ atN /\ ~cancelled /\ n >= MinRetain
              /\ \A p \in x.points : p.len < n
              /\ \A g \in DeviceHit(h) : g[2].len # n
  IN  /\ req = NoReq /\ x.st \in {"active", "done"}
      /\ \E points \in IF want THEN Saved(x.points, kv, "turn", TurnAfter(x)) ELSE {x.points} :
           slot' = [slot EXCEPT ![s] = Kept(x, kv, h, points)]
      /\ UNCHANGED <<ram, req>>

\* park: an abandoned prefill is kept where it stopped.
Park(s) ==
  LET x    == slot[s]
      n    == Len(x.kv)
      want == /\ x.after # NoAfter /\ n >= MinRetain
              /\ \A p \in x.points : p.len < n
  IN  /\ req = NoReq /\ x.st \in {"prefill", "ready"}
      /\ \E points \in IF want THEN Saved(x.points, x.kv, "prompt", x.after) ELSE {x.points} :
           slot' = [slot EXCEPT ![s] = Kept(x, x.kv, First(x.hist, n), points)]
      /\ UNCHANGED <<ram, req>>

\* A failed forward, step, image or SWA reservation: the slot is released, its
\* points are dropped.
Release(s) ==
  /\ req = NoReq /\ slot[s].st \in {"prefill", "active"}
  /\ slot' = [slot EXCEPT ![s] = Clean]
  /\ UNCHANGED <<ram, req>>

\* make_room_bytes, for the image encoder.
EvictForImages(s) ==
  /\ req = NoReq /\ slot[s].st = "retained" /\ In("prefill") # {}
  /\ ram' \in RamWith(Snaps({s}))
  /\ slot' = [slot EXCEPT ![s] = Clean]
  /\ UNCHANGED req

\* The points enforce_banks counts: of running and of retained slots.
Banked(kind) == {x \in PointsOf(In("active") \cup In("retained")) : x[2].kind = kind}

\* enforce_banks: the oldest points X of a bank over its size go to RAM.
EnforceBanks(X) ==
  /\ req = NoReq /\ X # {} /\ In("done") = {}
  /\ \A k \in Kinds :
       Cardinality(X \cap Banked(k)) = Larger(Cardinality(Banked(k)) - Bank, 0)
  /\ ram' \in RamWith({Snap(x[1], x[2]) : x \in X})
  /\ slot' = [s \in Slots |->
                LET points == {p \in slot[s].points : <<s, p>> \notin X}
                IN  IF slot[s].st = "retained" /\ points = {} THEN Clean
                    ELSE [slot[s] EXCEPT !.points = points]]
  /\ UNCHANGED req

Runs == UNION {[1..n -> Token] : n \in 1..2}

Next ==
  /\ UNCHANGED ramOn
  /\ \/ \E ids \in Prompts, sampled \in BOOLEAN :
          \/ Miss(ids, sampled)
          \/ \E h \in DeviceHitFor(ids, sampled) :
               \/ \E f \in Slots : AdmitFork(ids, sampled, h, f)
               \/ \E E \in SUBSET Slots :
                    \/ AdmitInPlace(ids, sampled, h, E)
                    \/ Relocate(ids, sampled, h, E)
                    \/ RefuseInPlace(ids, sampled, h, E)
     \/ \E f \in Slots, E \in SUBSET Slots :
          AdmitCold(f, E) \/ Refuse(f, E) \/ AdmitRestored(f, E)
     \/ \E s \in Slots :
          \/ \E end \in 1..MaxHist : Segment(s, end)
          \/ \E next \in Token : Start(s, next)
          \/ \E out \in Runs, sent \in 1..2 : Decode(s, out, sent)
          \/ \E E \in SUBSET Slots : GrowActive(s, E)
          \/ \E cancelled, cut \in BOOLEAN : Retire(s, cancelled, cut)
          \/ Park(s) \/ Release(s) \/ EvictForImages(s)
     \/ \E X \in SUBSET UNION {Banked(k) : k \in Kinds} : EnforceBanks(X)

Spec == Init /\ [][Next]_vars
-----------------------------------------------------------------------------
States == {"free", "retained", "prefill", "ready", "active", "done"}
After == [greedy : Token \cup {None}, logits : BOOLEAN]
PointOK(p) ==
  p.len \in Nat /\ p.kind \in Kinds /\ p.after \in After /\ p.at \in Seq(Token)

(* Type correctness of the slots, their points and the RAM tier.           *)
TypeOK ==
  /\ \A s \in Slots :
       /\ slot[s].st \in States
       /\ slot[s].kv \in Seq(Token) /\ slot[s].hist \in Seq(Token)
       /\ slot[s].cap \in Nat /\ slot[s].after \in After
       /\ \A p \in slot[s].points : PointOK(p)
  /\ \A r \in ram : r.tokens \in Seq(Token) /\ r.after \in After
  /\ Cardinality(ram) <= Cap

\* Point p of slot s is the state at the end of the first p.len tokens of the
\* slot's history, and the slot's rows up to there are those tokens' rows.
PointExact(s, p) ==
  /\ p.len <= Len(slot[s].kv) /\ p.len <= Len(slot[s].hist)
  /\ p.at = First(slot[s].hist, p.len)
  /\ First(slot[s].kv, p.len) = First(slot[s].hist, p.len)

(* "An exact position in a slot's token history": through forks, rewinds,  *)
(* decoding and cuts, every point still has its own rows and its own state *)
(* (a point must leave before rows below it are written again).            *)
PointsExact == \A s \in Slots : \A p \in slot[s].points : PointExact(s, p)

(* A request continues on the rows of its own tokens: while it prefills    *)
(* its KV is a prefix of its prompt, while it decodes it is its history    *)
(* without the last token.                                                 *)
RowsExact ==
  \A s \in Slots :
    /\ slot[s].st \in {"prefill", "ready"} => Prefix(slot[s].kv, slot[s].hist)
    /\ slot[s].st = "active" =>
         slot[s].kv = First(slot[s].hist, Len(slot[s].hist) - 1)

(* The RAM tier never holds rows or a state of another history.            *)
RamExact == \A r \in ram : r.rows = r.tokens /\ r.at = r.tokens

(* Whatever order slots are forked, rewound, evicted, restored and written *)
(* again in, points, running requests and RAM snapshots each keep the rows *)
(* and the state of their own tokens.                                      *)
TiersExact == TypeOK /\ PointsExact /\ RowsExact /\ RamExact

AfterTrue(a, tokens) == a.greedy \in {None, Argmax(tokens)}

(* "A sampled request's last token is a draw, not the argmax there": what  *)
(* a snapshot says the greedy next token is, on the device or in RAM, is.  *)
GreedyTrue ==
  /\ \A s \in Slots : \A p \in slot[s].points : AfterTrue(p.after, p.at)
  /\ \A r \in ram : AfterTrue(r.after, r.tokens)

(* "An exact resume always serves the request": a slot that holds the      *)
(* whole prompt knows the first token, or can draw it.  A prompt shorter   *)
(* than MinRetain is never kept: its slot has just prefilled it, and draws *)
(* from the row the forward pass left on the device.                       *)
ExactServes ==
  \A s \in Slots : slot[s].st = "ready" /\ Len(slot[s].hist) >= MinRetain =>
    Serves(slot[s].after, slot[s].sampled)

(* A resumed request is answered with the right first token: the recorded  *)
(* greedy token is the argmax, and an exact hit can serve.                 *)
ResumeTrue == GreedyTrue /\ ExactServes

(* Admission and growth never take more of the device than there is,       *)
(* whichever slots were evicted to make the room.                          *)
NoOvercommit == Used <= Total

(* "The slot keeps its points; the request is refused": a refusal in place *)
(* leaves the slot of the hit with the points it had.                      *)
RefusalKeepsPoints ==
  [][\A ids \in Prompts, sampled \in BOOLEAN :
       \A h \in DeviceHitFor(ids, sampled), E \in SUBSET Slots :
         RefuseInPlace(ids, sampled, h, E) =>
           slot'[h[1]].points = slot[h[1]].points]_vars
=============================================================================
