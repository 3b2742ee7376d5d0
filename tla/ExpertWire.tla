----------------------------- MODULE ExpertWire -----------------------------
(***************************************************************************)
(* The expert exchange over RDMA: a forward pass on the coordinator        *)
(* (dforward.rs), its WireClient (wire.rs), the reliable queue pairs       *)
(* between them (mimo26-rdma) and the daemon on each Spark rank (main.rs,  *)
(* transport.rs).  A pass runs its layers for one lane or two; a lane      *)
(* sends one request to every rank, the other lane has its turn, and then  *)
(* the lane collects the four returns and adds them up.                    *)
(*                                                                         *)
(* What a frame carries is the number of the exchange it belongs to: in    *)
(* its header (`id`) and, separately, in its rows (`data`), because the    *)
(* network card reads a body when it sends it and the GPU reads a return   *)
(* when the sum runs, each some time after the program asked for it.       *)
(*                                                                         *)
(* Returns are summed in place from the receive ring, as decode and verify *)
(* do; a prefill's are copied out of it first.                             *)
(***************************************************************************)
EXTENDS Integers, Sequences, FiniteSets

CONSTANTS
  Ranks,       \* how many Spark ranks there are: SPARKS
  Layers,      \* num_hidden_layers; layer 0 is dense, the others are MoE
  Batches,     \* the passes: the rows of each lane
  Faults,      \* the kinds of failure that may happen
  MaxPasses    \* bound of the model: forward passes

ASSUME WireAssumption ==
  /\ Ranks \in Nat \ {0} /\ Layers \in Nat \ {0} /\ MaxPasses \in Nat
  /\ \A b \in Batches : b \in Seq(Nat \ {0}) /\ Len(b) \in 1..2
  /\ Faults \subseteq {"timeout", "serve", "lane", "fill"}

VARIABLES
  pc,        \* where the forward pass is
  rows,      \* the rows of its lanes
  layer, lane, \* the turn it is at
  sent,      \* pending: the exchange each lane has in flight, or 0
  rank,      \* the rank whose return it waits for
  want,      \* the exchange it collects
  kernels,   \* sums the GPU has not run yet
  wire,      \* the WireClient
  conn,      \* its connection to each rank
  spark,     \* the daemon on each rank
  passes,    \* forward passes begun
  broken     \* the kinds of failure that have ended a pass

vars == <<pc, rows, layer, lane, sent, rank, want, kernels, wire, conn, spark,
          passes, broken>>

R == 1..Ranks
Halves == {0, 1}
Slots == {0, 1}
Lanes == 1..Len(rows)
NoExchange == [id |-> 0, layer |-> 0, rows |-> 0]
NoHeader == [id |-> 0, layer |-> 0, rows |-> 0, seq |-> 0]
NoReturn == [id |-> 0, layer |-> 0, rows |-> 0, seq |-> 0, ok |-> TRUE, data |-> 0]

\* connect and rdma_setup: both ends post both receive slots.
Init ==
  /\ pc = "idle" /\ rows = <<>> /\ layer = 0 /\ lane = 1
  /\ sent = <<0, 0>> /\ rank = 1 /\ want = NoExchange /\ kernels = <<>>
  /\ wire = [next |-> 1, inflight |-> <<>>, half |-> 0,
             body |-> [h \in Halves |-> 0]]
  /\ conn = [r \in R |->
       [out |-> <<>>, sends |-> 0, ring |-> [s \in Slots |-> NoReturn],
        posted |-> <<0, 1>>, arrived |-> <<>>, consumed |-> <<>>,
        last |-> 0, rx |-> 0, tx |-> 0, head |-> [h \in Halves |-> NoHeader]]]
  /\ spark = [r \in R |->
       [pc |-> "recv", slots |-> 2, inbox |-> <<>>, held |-> NoHeader, data |-> 0,
        rx |-> 0, tx |-> 0, cur |-> 0, busy |-> {},
        buf |-> [h \in Halves |-> NoReturn], out |-> <<>>]]
  /\ passes = 0 /\ broken = {}
-----------------------------------------------------------------------------
(* The forward pass.                                                       *)

\* forward, decode_batch or verify_batch begins.
StartPass(b) ==
  /\ pc = "idle" /\ passes < MaxPasses
  /\ pc' = "turn" /\ rows' = b /\ layer' = 0 /\ lane' = 1
  /\ passes' = passes + 1
  /\ UNCHANGED <<sent, rank, want, kernels, wire, conn, spark, broken>>

\* An error (`?`) ends the pass; the requests it served fail and the next pass
\* runs over the same WireClient.
Abandon(cause) ==
  /\ pc' = "idle" /\ rows' = <<>> /\ layer' = 0 /\ lane' = 1
  /\ sent' = <<0, 0>> /\ rank' = 1 /\ want' = NoExchange
  /\ broken' = broken \cup {cause}

\* The turn goes to the next lane, or to the first lane of the next layer.
NextTurn ==
  /\ pc' = "turn"
  /\ IF lane < Len(rows) THEN lane' = lane + 1 /\ layer' = layer
                         ELSE lane' = 1 /\ layer' = layer + 1
  /\ UNCHANGED <<rows, broken>>

\* The layers are done and each lane has collected its last exchange.
EndPass ==
  /\ pc = "turn" /\ layer > Layers /\ kernels = <<>>
  /\ pc' = "idle" /\ rows' = <<>> /\ layer' = 0 /\ lane' = 1
  /\ UNCHANGED <<sent, rank, want, kernels, wire, conn, spark, passes, broken>>

\* Mutant: the exchange stays in `inflight`.
Collect_Peeks ==
  /\ pc = "turn" /\ layer <= Layers /\ sent[lane] # 0
  /\ wire.inflight # <<>>
  /\ want' = Head(wire.inflight)
  /\ pc' = "recv" /\ rank' = 1
  /\ UNCHANGED <<rows, layer, lane, sent, kernels, wire, conn, spark, passes,
                 broken>>

\* moe_recv_raw begins: the client's oldest exchange.
Collect ==
  /\ pc = "turn" /\ layer <= Layers /\ sent[lane] # 0
  /\ wire.inflight # <<>>
  /\ want' = Head(wire.inflight)
  /\ wire' = [wire EXCEPT !.inflight = Tail(@)]
  /\ pc' = "recv" /\ rank' = 1
  /\ UNCHANGED <<rows, layer, lane, sent, kernels, conn, spark, passes, broken>>

\* validate_return_header.
Valid(f) ==
  f.ok /\ f.id = want.id /\ f.layer = want.layer /\ f.rows = want.rows

\* recv_rdma took the completion of a slot: its connection afterwards.
Taken(c) ==
  LET slot == Head(c.arrived)
      f    == c.ring[slot]
      d    == [c EXCEPT !.arrived = Tail(@), !.consumed = Append(@, slot)]
  IN  IF ~Valid(f) THEN d
      ELSE [d EXCEPT !.last = slot, !.rx = IF f.seq = @ THEN @ + 1 ELSE @]

\* Whether recv_rdma accepts it.
Accepts(c) == LET f == c.ring[Head(c.arrived)] IN Valid(f) /\ f.seq = c.rx

\* The return of one rank is there; the last one starts the sum (moe_finish).
Recv ==
  LET c == conn[rank]
  IN  /\ pc = "recv" /\ c.arrived # <<>> /\ Accepts(c)
      /\ conn' = [conn EXCEPT ![rank] = Taken(c)]
      /\ UNCHANGED <<wire, spark, passes>>
      /\ \/ /\ rank < Ranks
            /\ rank' = rank + 1
            /\ UNCHANGED <<pc, rows, layer, lane, sent, want, kernels, broken>>
         \/ /\ rank = Ranks /\ want.rows # rows[lane]
            /\ Abandon("return") /\ UNCHANGED kernels
         \/ /\ rank = Ranks /\ want.rows = rows[lane]
            /\ kernels' = Append(kernels,
                 [id |-> want.id, own |-> sent[lane],
                  planes |-> [r \in R |-> conn'[r].last]])
            /\ sent' = [sent EXCEPT ![lane] = 0]
            /\ rank' = 1 /\ want' = NoExchange
            /\ pc' = "turn" /\ UNCHANGED <<rows, layer, lane, broken>>

\* A return that is not the one wanted, out of sequence, or an error report.
RecvRefused ==
  LET c == conn[rank]
  IN  /\ pc = "recv" /\ c.arrived # <<>> /\ ~Accepts(c)
      /\ conn' = [conn EXCEPT ![rank] = Taken(c)]
      /\ Abandon("return")
      /\ UNCHANGED <<kernels, wire, spark, passes>>

\* No return in 120 s, or a queue pair whose peer is gone.
RecvFails ==
  /\ pc = "recv" /\ conn[rank].arrived = <<>>
  /\ "timeout" \in Faults \/ spark[rank].pc = "closed"
  /\ Abandon("return")
  /\ UNCHANGED <<kernels, wire, conn, spark, passes>>

\* Nothing of this lane's is pending: attention, and in a dense layer the MLP.
Attend ==
  /\ pc = "turn" /\ sent[lane] = 0 /\ layer <= Layers
  /\ IF layer \in 1..(Layers - 1)
     THEN pc' = "claim" /\ UNCHANGED <<rows, layer, lane, broken>>
     ELSE NextTurn
  /\ UNCHANGED <<sent, rank, want, kernels, wire, conn, spark, passes>>

\* The lane's attention fails: its KV rows do not fit, or a kernel is refused.
LaneFails ==
  /\ "lane" \in Faults
  /\ pc = "turn" /\ sent[lane] = 0 /\ layer < Layers
  /\ Abandon("lane")
  /\ UNCHANGED <<kernels, wire, conn, spark, passes>>
-----------------------------------------------------------------------------
(* moe_send_device and moe_send_mapped.                                    *)

\* claim_half, one rank: reap a send if two are out.
Reaped(c) == [c EXCEPT !.sends = IF @ >= 2 THEN 1 ELSE @]

\* A rank with two sends out has a completion to reap.
CanReap(c) == c.sends >= 2 => Len(c.out) < c.sends

\* Two exchanges are in flight already.
SendRefused ==
  /\ pc = "claim" /\ Len(wire.inflight) >= 2
  /\ Abandon("lane")
  /\ UNCHANGED <<kernels, wire, conn, spark, passes>>

\* The client with the exchange numbered and the other half next.
Claimed == [wire EXCEPT !.next = @ + 1, !.half = 1 - @]

\* claim_half.
Claim ==
  /\ pc = "claim" /\ Len(wire.inflight) < 2
  /\ \A r \in R : CanReap(conn[r])
  /\ wire' = Claimed
  /\ conn' = [r \in R |-> Reaped(conn[r])]
  /\ pc' = "fill"
  /\ UNCHANGED <<rows, layer, lane, sent, rank, want, kernels, spark,
                 passes, broken>>

\* A send of rank r does not complete in 30 s, or its queue pair is gone.
ClaimFails(r) ==
  /\ pc = "claim" /\ Len(wire.inflight) < 2
  /\ "timeout" \in Faults \/ spark[r].pc = "closed"
  /\ ~CanReap(conn[r]) /\ \A q \in 1..(r - 1) : CanReap(conn[q])
  /\ wire' = Claimed
  /\ conn' = [q \in R |-> IF q < r THEN Reaped(conn[q]) ELSE conn[q]]
  /\ Abandon("claim")
  /\ UNCHANGED <<kernels, spark, passes>>

\* The half just claimed, and the exchange it is for.
Mine == 1 - wire.half
This == wire.next - 1

\* Mutant: the copies are queued and not waited for.
Fill_NoSync ==
  /\ pc = "fill"
  /\ wire' = [wire EXCEPT !.body[Mine] = This]
  /\ pc' = "post"
  /\ UNCHANGED <<rows, layer, lane, sent, rank, want, kernels, conn, spark,
                 passes, broken>>

\* The descriptors are encoded and the GPU writes routes and hidden rows; the
\* sync at the end also waits for the sums queued before.
Fill ==
  /\ pc = "fill" /\ kernels = <<>>
  /\ wire' = [wire EXCEPT !.body[Mine] = This]
  /\ pc' = "post"
  /\ UNCHANGED <<rows, layer, lane, sent, rank, want, kernels, conn, spark,
                 passes, broken>>

\* The copy fails, with the half written in part.
FillFails ==
  /\ "fill" \in Faults
  /\ pc = "fill" /\ kernels = <<>>
  /\ wire' = [wire EXCEPT !.body[Mine] = This]
  /\ Abandon("fill")
  /\ UNCHANGED <<kernels, conn, spark, passes>>

\* post_half, one rank, up to the send: the header takes the next sequence
\* number and the slots read are posted again.
Stamped(c, h) ==
  [c EXCEPT !.tx = @ + 1,
            !.head[h] = [id |-> This, layer |-> layer, rows |-> rows[lane],
                         seq |-> c.tx],
            !.posted = @ \o c.consumed, !.consumed = <<>>]

\* Mutant: the slots read are not posted again.
Posted_NoSlots(c, h) ==
  [c EXCEPT !.tx = @ + 1, !.head[h] = Stamped(c, h).head[h],
            !.out = Append(@, h), !.sends = @ + 1]

\* post_half, one rank: then the request goes.
Posted(c, h) ==
  [Stamped(c, h) EXCEPT !.out = Append(@, h), !.sends = @ + 1]

\* post_half to every rank, and the exchange is in flight.
Post ==
  /\ pc = "post"
  /\ conn' = [r \in R |-> Posted(conn[r], Mine)]
  /\ wire' = [wire EXCEPT !.inflight =
       Append(@, [id |-> This, layer |-> layer, rows |-> rows[lane]])]
  /\ sent' = [sent EXCEPT ![lane] = This]
  /\ NextTurn
  /\ UNCHANGED <<rank, want, kernels, spark, passes>>

\* The send to rank r is refused, after those to the ranks before it.
PostFails(r) ==
  /\ "fill" \in Faults
  /\ pc = "post"
  /\ conn' = [q \in R |-> CASE q < r -> Posted(conn[q], Mine)
                            [] q = r -> Stamped(conn[q], Mine)
                            [] q > r -> conn[q]]
  /\ Abandon("fill")
  /\ UNCHANGED <<kernels, wire, spark, passes>>

\* The GPU runs the oldest sum.
RunSum ==
  /\ kernels # <<>>
  /\ kernels' = Tail(kernels)
  /\ UNCHANGED <<pc, rows, layer, lane, sent, rank, want, wire, conn, spark,
                 passes, broken>>
-----------------------------------------------------------------------------
(* The queue pairs: each side's sends arrive in order, each in a receive   *)
(* slot the other side has posted; without one the card retries.           *)

\* A request arrives; the card reads header and body now.
DeliverRequest(r) ==
  LET c == conn[r]
      s == spark[r]
      h == Head(c.out)
  IN  /\ c.out # <<>> /\ s.slots > 0 /\ s.pc # "closed"
      /\ conn' = [conn EXCEPT ![r] = [c EXCEPT !.out = Tail(@)]]
      /\ spark' = [spark EXCEPT ![r] = [s EXCEPT !.slots = @ - 1,
           !.inbox = Append(@, [head |-> c.head[h], data |-> wire.body[h]])]]
      /\ UNCHANGED <<pc, rows, layer, lane, sent, rank, want, kernels, wire,
                     passes, broken>>

\* A return arrives; the card reads the rank's send half now.
DeliverReturn(r) ==
  LET c == conn[r]
      s == spark[r]
      t == Head(c.posted)
  IN  /\ s.out # <<>> /\ c.posted # <<>>
      /\ conn' = [conn EXCEPT ![r] = [c EXCEPT
           !.posted = Tail(@), !.arrived = Append(@, t),
           !.ring[t] = s.buf[Head(s.out)]]]
      /\ spark' = [spark EXCEPT ![r] = [s EXCEPT !.out = Tail(@)]]
      /\ UNCHANGED <<pc, rows, layer, lane, sent, rank, want, kernels, wire,
                     passes, broken>>
-----------------------------------------------------------------------------
(* The daemon of a rank.                                                   *)

\* recv_slot and accept_seq: a request is held in its slot.
Accept(r) ==
  LET s == spark[r]
      f == Head(s.inbox)
  IN  /\ s.pc = "recv" /\ s.inbox # <<>>
      /\ spark' = [spark EXCEPT ![r] = [s EXCEPT
           !.inbox = Tail(@), !.held = f.head, !.data = f.data,
           !.rx = IF f.head.seq = @ THEN @ + 1 ELSE @,
           !.pc = IF f.head.seq = s.rx THEN "serve" ELSE "closed"]]
      /\ UNCHANGED <<pc, rows, layer, lane, sent, rank, want, kernels, wire,
                     conn, passes, broken>>

\* The return of the request held.
Answer(s, ok) ==
  [id |-> s.held.id, layer |-> s.held.layer, rows |-> s.held.rows,
   seq |-> s.tx, ok |-> ok, data |-> s.data]

\* Mutant: completions are not reaped.
HalfReady_Unreaped(s) == s.cur \notin s.busy

\* send_buffer: the half is free, or its send has completed.
HalfReady(s) == s.cur \in s.busy => Len(s.out) < Cardinality(s.busy)

\* The request is served into the send half, and its slot is posted again.
Serve(r) ==
  LET s == spark[r]
  IN  /\ s.pc = "serve" /\ HalfReady(s)
      /\ spark' = [spark EXCEPT ![r] = [s EXCEPT
           !.busy = @ \ {s.cur}, !.buf[s.cur] = Answer(s, TRUE),
           !.slots = @ + 1, !.pc = "send"]]
      /\ UNCHANGED <<pc, rows, layer, lane, sent, rank, want, kernels, wire,
                     conn, passes, broken>>

\* take_seq and send_in_place.
Send(r) ==
  LET s == spark[r]
  IN  /\ s.pc = "send"
      /\ spark' = [spark EXCEPT ![r] = [s EXCEPT
           !.tx = @ + 1, !.busy = @ \cup {s.cur}, !.out = Append(@, s.cur),
           !.cur = 1 - @, !.pc = "recv"]]
      /\ UNCHANGED <<pc, rows, layer, lane, sent, rank, want, kernels, wire,
                     conn, passes, broken>>

\* The experts fail: an error return, and the daemon leaves the connection.
ServeFails(r) ==
  LET s == spark[r]
  IN  /\ "serve" \in Faults
      /\ s.pc = "serve" /\ HalfReady(s)
      /\ spark' = [spark EXCEPT ![r] = [s EXCEPT
           !.tx = @ + 1, !.slots = @ + 1, !.busy = @ \cup {s.cur},
           !.buf[s.cur] = Answer(s, FALSE),
           !.out = Append(@, s.cur), !.cur = 1 - @, !.pc = "closed"]]
      /\ UNCHANGED <<pc, rows, layer, lane, sent, rank, want, kernels, wire,
                     conn, passes, broken>>
\* The daemon goes away, and what it had not sent with it.  The coordinator
\* cannot tell at which step: it is the one at which a request is in hand.
Dies(r) ==
  /\ "serve" \in Faults
  /\ spark[r].pc = "serve"
  /\ spark' = [spark EXCEPT ![r] = [spark[r] EXCEPT !.pc = "closed", !.out = <<>>]]
  /\ UNCHANGED <<pc, rows, layer, lane, sent, rank, want, kernels, wire,
                 conn, passes, broken>>
-----------------------------------------------------------------------------
Coordinator ==
  \/ EndPass \/ Collect \/ Recv \/ RecvRefused \/ Attend
  \/ SendRefused \/ Claim \/ Fill \/ Post

\* Waits that end in an error.
GivesUp == RecvFails \/ \E r \in R : ClaimFails(r)

Daemon(r) == Accept(r) \/ Serve(r) \/ Send(r)
Card(r) == DeliverRequest(r) \/ DeliverReturn(r)

Next ==
  \/ \E b \in Batches : StartPass(b)
  \/ Coordinator \/ GivesUp \/ LaneFails \/ FillFails \/ RunSum
  \/ \E r \in R : \/ PostFails(r) \/ Daemon(r) \/ ServeFails(r) \/ Dies(r)
                 \/ Card(r)

\* The coordinator's thread, the GPU, the cards and the daemons run; a wait on
\* a rank that has left the connection ends in its timeout.
Fairness ==
  /\ WF_vars(Coordinator) /\ WF_vars(RunSum)
  /\ \A r \in R : WF_vars(Daemon(r)) /\ WF_vars(DeliverRequest(r))
                   /\ WF_vars(DeliverReturn(r))
  /\ WF_vars(GivesUp /\ \E r \in R : spark[r].pc = "closed")

Spec == Init /\ [][Next]_vars
FairSpec == Spec /\ Fairness
-----------------------------------------------------------------------------
(* Type correctness.                                                       *)
TypeOK ==
  /\ pc \in {"idle", "turn", "recv", "claim", "fill", "post"}
  /\ layer \in 0..(Layers + 1) /\ lane \in 1..2 /\ rank \in R
  /\ Len(wire.inflight) <= 2 /\ Len(kernels) <= 2
  /\ \A r \in R :
       /\ conn[r].sends \in 0..2 /\ Len(conn[r].out) <= conn[r].sends
       /\ spark[r].slots + Len(spark[r].inbox)
            + (IF spark[r].pc = "serve" THEN 1 ELSE 0) <= 2
       /\ {conn[r].posted[i] : i \in 1..Len(conn[r].posted)}
            \cup {conn[r].arrived[i] : i \in 1..Len(conn[r].arrived)}
            \cup {conn[r].consumed[i] : i \in 1..Len(conn[r].consumed)} = Slots

(* "Collect `lane`'s oldest in-flight exchange": the planes a sum reads    *)
(* are the answers of all ranks to the very request its lane sent, rows    *)
(* and all, until the sum has run.                                         *)
OwnPlanes ==
  \A i \in 1..Len(kernels) : \A r \in R :
    conn[r].ring[kernels[i].planes[r]].data = kernels[i].own

(* The same with ranks that answer late, fail or go away at any time, but  *)
(* with no pass given up on the coordinator's side: a wire that has lost   *)
(* step refuses every return and never sums the wrong ones.                *)
FailsClosed == broken \subseteq {"return", "claim"} => OwnPlanes

(* Whatever else has failed, until a fill or a claim does a sum never      *)
(* mixes exchanges: its planes are the answers of all ranks to one request *)
(* (a half that is out of turn may be rebuilt while a card reads it).      *)
OneExchange ==
  broken \cap {"fill", "claim"} = {} =>
    \A i \in 1..Len(kernels) : \A r \in R :
      conn[r].ring[kernels[i].planes[r]].data = kernels[i].id

(* "a half is reused only once reaped": while a request is built in a half *)
(* no rank's card still has to read it.                                    *)
HalfFree ==
  broken \cap {"fill", "claim"} = {} /\ pc \in {"fill", "post"} =>
    \A r \in R : \A i \in 1..Len(conn[r].out) : conn[r].out[i] # Mine

(* "the coordinator's next request on this lane always finds a posted      *)
(* slot", and so does every return: with no failure no send ever waits for *)
(* the other side to post one.                                             *)
SlotAlwaysPosted ==
  broken = {} => \A r \in R :
    /\ Len(conn[r].out) <= spark[r].slots
    /\ Len(spark[r].out) <= Len(conn[r].posted)

(* The two halves and the two slots of each side are used in turn: none is *)
(* written while a card still reads it, and none is missing when a send    *)
(* comes.                                                                  *)
BuffersInTurn == TypeOK /\ HalfFree /\ SlotAlwaysPosted

(* A pass ends: pass, ranks and cards never wait for each other in a       *)
(* circle, also when the wire has lost step.                               *)
PassEnds == pc # "idle" ~> pc = "idle"
=============================================================================
