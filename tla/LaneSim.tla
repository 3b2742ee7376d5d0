-------------------------------- MODULE LaneSim --------------------------------
(* mimo26-lanesim: the expert path against stub Sparks on a virtual clock, with    *)
(* loss and duplication of the return frames.                                      *)
(*                                                                                *)
(* One thread calls submit, poll, collect and run_decode_step.  Times are the      *)
(* code's, in units; a partial is the sequence of its weighted terms, a term a     *)
(* route's expert and the quarter that computed it.  The seeded generator decides  *)
(* what is lost or repeated: any choice.                                           *)
EXTENDS Integers, Sequences, FiniteSets, TLC, SequencesExt, FiniteSetsExt

CONSTANTS Ranks,        \* spark_ranks
          RowLists,     \* what a caller may submit: sequences of [token, width, routes]
          Width, TopK,  \* geom.hidden, geom.top_k
          Rtt,          \* wire_rtt_ns
          StepLayers,   \* geom.moe_layers
          MaxSubmits    \* bound on submits

VARIABLES clock, queue, nextKey, nextTicket, free, tickets,
          faults,     \* LaneFaults' counters
          call,       \* [op, ticket] of the collect that runs, or <<>>
          step,       \* run_decode_step: [layer, start, report], or <<>>
          results     \* StepResults handed out

vars == <<clock, queue, nextKey, nextTicket, free, tickets, faults, call, step, results>>

Init == /\ clock = 0 /\ queue = {} /\ nextKey = 0 /\ nextTicket = 0 /\ free = [r \in 1..Ranks |-> 0]
        /\ tickets = <<>> /\ call = <<>> /\ step = <<>> /\ results = {}
        /\ faults = [sent |-> 0, delivered |-> 0, dropped |-> 0, duplicated |-> 0, combined |-> 0]

-------------------------------------------------------------------------------
(* Rows and stub Sparks *)

RequestBytes(row) == 1 + Len(row.routes)
ReturnBytes(rows) == Len(rows)
Experts(rows) == UNION {ToSet(rows[i].routes) : i \in DOMAIN rows}

\* submit's checks
Valid(rows) == /\ rows # <<>>
               /\ \A i \in DOMAIN rows : rows[i].width = Width /\ Len(rows[i].routes) = TopK
               /\ IsInjective([i \in DOMAIN rows |-> rows[i].token])

\* pre_sum: the weighted terms of the rank's quarter, over the row's routes.
PreSum(rank, row) == [i \in DOMAIN row.routes |-> <<row.routes[i], rank>>]

\* reference_expert_sum: per route, every quarter.
ReferenceSum(row) == {<<row.routes[i], q>> : i \in DOMAIN row.routes, q \in 1..Ranks}

-------------------------------------------------------------------------------
(* submit *)

ReqSer(rows) == MapThenSumSet(LAMBDA i : RequestBytes(rows[i]), DOMAIN rows)

\* LayerAcct
Acct(rows) == [compute |-> Cardinality(Experts(rows)), rtt |-> Rtt, ser |-> ReqSer(rows) + ReturnBytes(rows)]

\* Per rank: arrival, the rank's earlier work, streaming, the way back.
Finish(r, rows) == Max({clock + Rtt \div 2 + ReqSer(rows), free[r]}) + Acct(rows).compute
Deliver(r, rows) == Finish(r, rows) + Rtt \div 2 + ReturnBytes(rows)

Key(r, i, rows) == nextKey + (r - 1) * Len(rows) + i - 1
Frames(rows) == {[at |-> Deliver(r, rows), key |-> Key(r, i, rows), ticket |-> nextTicket,
                  seq |-> <<r, i, Key(r, i, rows)>>, part |-> PreSum(r, rows[i])] : r \in 1..Ranks, i \in DOMAIN rows}

DoSubmit(rows) ==
  /\ nextTicket < MaxSubmits
  /\ queue' = queue \cup Frames(rows)
  /\ nextKey' = nextKey + Ranks * Len(rows) /\ nextTicket' = nextTicket + 1
  /\ free' = [r \in 1..Ranks |-> Finish(r, rows)]
  /\ tickets' = (nextTicket :> [rows |-> rows, expected |-> {f.seq : f \in Frames(rows)}, received |-> <<>>,
                                lost |-> {}, acct |-> Acct(rows),
                                finished |-> Max({Deliver(r, rows) : r \in 1..Ranks})]) @@ tickets
  /\ UNCHANGED <<clock, faults, results>>

Submit(rows) == call = <<>> /\ step = <<>> /\ Valid(rows) /\ DoSubmit(rows) /\ UNCHANGED <<call, step>>

-------------------------------------------------------------------------------
(* advance_one_event and try_finish *)

First == CHOOSE e \in queue : \A g \in queue : e.at < g.at \/ (e.at = g.at /\ e.key <= g.key)

\* LaneFaults::dispatch: a return is dropped, delivered, or delivered twice.
Copies == {0, 1, 2}
Known == queue # {} /\ First.ticket \in DOMAIN tickets

\* Pop the first event; `copies` of its frame arrive.  FALSE answers: nothing queued, or a ticket that is gone.
Dispatch(copies) ==
  LET e == First
      f == [seq |-> e.seq, part |-> e.part]
  IN  /\ queue' = queue \ {e}
      /\ clock' = Max({clock, e.at})
      /\ faults' = [faults EXCEPT !.sent = @ + 1, !.delivered = @ + (IF copies = 0 THEN 0 ELSE 1),
                                  !.dropped = @ + (IF copies = 0 THEN 1 ELSE 0),
                                  !.duplicated = @ + (IF copies = 2 THEN 1 ELSE 0), !.combined = @ + copies]
      /\ tickets' = IF ~Known THEN tickets
                    ELSE IF copies = 0 THEN [tickets EXCEPT ![e.ticket].lost = @ \cup {e.seq}]
                    ELSE [tickets EXCEPT ![e.ticket].received = @ \o [i \in 1..copies |-> f]]

Seqs(s) == {s.received[i].seq : i \in DOMAIN s.received}
Complete(s) == Cardinality(Seqs(s)) >= Cardinality(s.expected)
Ready(t) == tickets[t].lost # {} \/ Complete(tickets[t])

Before(a, b) == \/ a[1] < b[1]
                \/ a[1] = b[1] /\ a[2] < b[2]
                \/ a[1] = b[1] /\ a[2] = b[2] /\ a[3] < b[3]
\* Mutant: every copy is added (CollectMode::NaiveNoDedup).
Kept_All(s) == SortSeq(s.received, LAMBDA f, g : Before(f.seq, g.seq))
\* The frames summed: in (rank, row, seq) order, each key once (CollectMode::DedupBySeq).
Kept(s) == SetToSortSeq({s.received[i] : i \in DOMAIN s.received}, LAMBDA f, g : Before(f.seq, g.seq))
Combined(s) == [i \in DOMAIN s.rows |->
                  FlattenSeq([k \in DOMAIN Kept(s) |-> IF Kept(s)[k].seq[2] = i THEN Kept(s)[k].part ELSE <<>>])]

\* Removes the ticket; a result unless a frame of it was lost.
TryFinish(t) ==
  /\ tickets' = [u \in DOMAIN tickets \ {t} |-> tickets[u]]
  /\ results' = IF tickets[t].lost # {} THEN results
                ELSE results \cup {[ticket |-> t, rows |-> tickets[t].rows, combined |-> Combined(tickets[t]),
                                    finished |-> tickets[t].finished, at |-> clock]}

-------------------------------------------------------------------------------
(* poll, collect and run_decode_step *)

Poll(t) ==
  /\ call = <<>> /\ step = <<>> /\ t \in DOMAIN tickets
  /\ \/ Ready(t) /\ TryFinish(t) /\ UNCHANGED <<clock, queue, faults, call>>
     \/ /\ ~Ready(t) /\ queue # {}
        /\ \E copies \in Copies : Dispatch(copies)
        /\ call' = IF Known THEN <<"poll", t>> ELSE <<>>
        /\ UNCHANGED results
  /\ UNCHANGED <<nextKey, nextTicket, free, step>>

\* The second try_finish of poll.
Polled == /\ call # <<>> /\ call[1] = "poll"
          /\ IF Ready(call[2]) THEN TryFinish(call[2]) ELSE UNCHANGED <<tickets, results>>
          /\ call' = <<>>
          /\ UNCHANGED <<clock, queue, nextKey, nextTicket, free, faults, step>>

Collect(t) == /\ call = <<>> /\ step = <<>> /\ t \in DOMAIN tickets
              /\ call' = <<"collect", t>>
              /\ UNCHANGED <<clock, queue, nextKey, nextTicket, free, tickets, faults, step, results>>

StepDone == step' = IF step = <<>> THEN <<>>
                    ELSE LET a == tickets[call[2]].acct
                         IN  [step EXCEPT !.layer = @ + 1, !.sum = @ + a.compute + a.rtt + a.ser,
                                          !.total = clock - step.start]
StepFails == step' = <<>>

\* One turn of collect's loop: the result, the lost frame, an event, or an error.
Turn ==
  /\ call # <<>> /\ call[1] = "collect"
  /\ LET t == call[2]
     IN  \/ /\ Ready(t) /\ TryFinish(t) /\ call' = <<>>
            /\ IF tickets[t].lost # {} THEN StepFails ELSE StepDone
            /\ UNCHANGED <<clock, queue, faults>>
         \/ /\ ~Ready(t) /\ queue # {}
            /\ \E copies \in Copies : Dispatch(copies)
            /\ IF Known THEN UNCHANGED <<call, step>> ELSE call' = <<>> /\ StepFails
            /\ UNCHANGED results
         \/ /\ ~Ready(t) /\ queue = {} /\ call' = <<>> /\ StepFails
            /\ UNCHANGED <<clock, queue, faults, tickets, results>>
  /\ UNCHANGED <<nextKey, nextTicket, free>>

StepBegin == /\ call = <<>> /\ step = <<>> /\ nextTicket = 0
             /\ step' = [layer |-> 1, start |-> clock, sum |-> 0, total |-> 0]
             /\ UNCHANGED <<clock, queue, nextKey, nextTicket, free, tickets, faults, call, results>>

StepLayer(rows) == /\ step # <<>> /\ call = <<>> /\ step.layer <= StepLayers /\ Valid(rows)
                   /\ DoSubmit(rows)
                   /\ call' = <<"collect", nextTicket>> /\ UNCHANGED step

StepEnd == /\ step # <<>> /\ call = <<>> /\ step.layer > StepLayers
           /\ step' = <<>>
           /\ UNCHANGED <<clock, queue, nextKey, nextTicket, free, tickets, faults, call, results>>

Next == \/ \E rows \in RowLists : Submit(rows) \/ StepLayer(rows)
        \/ \E t \in DOMAIN tickets : Poll(t) \/ Collect(t)
        \/ Polled \/ Turn \/ StepBegin \/ StepEnd

Spec == Init /\ [][Next]_vars

-------------------------------------------------------------------------------
(* Properties *)

\* The sum-conservation law of the compact returns: whatever was lost or repeated, and whichever
\* tickets were in flight, a combined row has every route's term of every quarter once, rank by
\* rank, and is handed out when its last frame has arrived; a decode step's total is the time its
\* layers account for (sim.rs, check_sum_conservation and StepReport).
LaneExact ==
  /\ \A x \in results :
       /\ x.finished <= x.at
       /\ \A i \in DOMAIN x.rows : /\ ToSet(x.combined[i]) = ReferenceSum(x.rows[i])
                                   /\ Len(x.combined[i]) = Ranks * TopK
                                   /\ \A k \in 1..Len(x.combined[i]) - 1 : x.combined[i][k][2] <= x.combined[i][k + 1][2]
  /\ step # <<>> /\ call = <<>> => step.total = step.sum
===============================================================================
