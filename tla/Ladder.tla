-------------------------------- MODULE Ladder --------------------------------
(* The L4 integrity ladder of mimo26-wire, from a submitted layer to its sum:     *)
(* ExpertClient over one sequenced stream of return frames per Spark, with loss,  *)
(* duplication, reordering and damage between the two ends.                       *)
(*                                                                               *)
(* Ranks count from 0.  The transport itself, and the copy of a frame that is sent *)
(* again when the receiver asks for it, are external: the code fixes only what     *)
(* StreamReceiver and retry_until make of the bytes they are given.  A partial is  *)
(* named by what it belongs to; a sum is the sequence of its terms, in order.      *)
EXTENDS Frames

CONSTANTS MaxTickets,   \* bound on submits
          MaxRows,      \* bound on the rows of a submit
          MaxFaults,    \* bound on frames lost, duplicated or damaged
          MaxAttempts   \* retry_until's max_attempts

ASSUME LadderAssumption == TopK \in Nat \ {0} /\ Sparks \in Nat \ {0} /\ MaxRows \in Nat \ {0}

VARIABLES probe,      \* [f, off]: a frame given to both request decoders, or <<>>
          nextId,     \* next_id
          pending,    \* Pending by request id
          asked,      \* requests a Spark has not answered, per rank
          txlog,      \* frames each rank has stamped and sent: next_seq is its length
          net,        \* frames under way, per rank
          expected,   \* StreamReceiver::expected, per rank
          tries,      \* retry_until's attempts, per rank
          down,       \* ranks whose stream failed loud
          inbox,      \* accepted frames try_recv will return
          busy,       \* request id of the collect that runs, or 0
          results,    \* sums handed out
          faults

vars == <<probe, nextId, pending, asked, txlog, net, expected, tries, down, inbox, busy, results, faults>>
stream == <<txlog, net, expected, tries, down>>
client == <<nextId, pending, busy, results>>

Ranks == 0..Sparks - 1
Layers == {1}
Partial(req, layer, t, r) == [req |-> req, layer |-> layer, tok |-> t, rank |-> r]

Init == /\ probe = <<>> /\ nextId = 1 /\ pending = <<>> /\ asked = [r \in Ranks |-> <<>>]
        /\ txlog = [r \in Ranks |-> <<>>] /\ net = [r \in Ranks |-> {}] /\ expected = [r \in Ranks |-> 0]
        /\ tries = [r \in Ranks |-> 0] /\ down = {} /\ inbox = <<>> /\ busy = 0 /\ results = {} /\ faults = 0

-------------------------------------------------------------------------------
(* CoordinatorSum *)

NewSum(n) == [rows |-> n, seen |-> {}, buf |-> [r \in Ranks |-> [t \in 0..n - 1 |-> <<>>]],
              acc |-> [t \in 0..n - 1 |-> <<>>]]

IsComplete(s) == Cardinality(s.seen) = s.rows * Sparks

Key(f, t) == <<f.req, f.layer, t, f.exec>>

\* Mutant: terms are added as they arrive (RANK_SUM_BY_ARRIVAL).
AddRow_Arrival(s, f, t) == [s EXCEPT !.seen = @ \cup {Key(f, t)}, !.acc[t] = Append(@, f.hid[t - f.tok + 1].data)]
\* One row of an accepted frame: buffered by rank, summed in rank order once every rank is there.
AddRow(s, f, t) ==
  LET seen == s.seen \cup {Key(f, t)}
      buf == [s.buf EXCEPT ![f.exec][t] = Append(@, f.hid[t - f.tok + 1].data)]
      full == Cardinality({k \in seen : k[3] = t}) = Sparks
      sum[r \in 0..Sparks] == IF r = 0 THEN <<>> ELSE sum[r - 1] \o buf[r - 1][t]
  IN  [s EXCEPT !.seen = seen, !.buf = buf, !.acc[t] = IF full THEN sum[Sparks] ELSE @]

\* accumulate: [sum, err].  The rows before the one that is refused stay added.
Accumulate(s, f) ==
  LET last == f.tok + f.rows - 1
      bad == {t \in f.tok..last : t >= s.rows \/ Key(f, t) \in s.seen}
      stop == IF bad = {} THEN last + 1 ELSE CHOOSE t \in bad : \A u \in bad : t <= u
      add[t \in f.tok..last + 1] == IF t = f.tok THEN s ELSE AddRow(add[t - 1], f, t - 1)
  IN  IF f.status # "Ok" THEN [sum |-> s, err |-> "SparkReportedError"]
      ELSE IF f.exec >= Sparks THEN [sum |-> s, err |-> "DimMismatch"]
      ELSE [sum |-> add[stop],
            err |-> IF bad = {} THEN "ok" ELSE IF stop >= s.rows THEN "DimMismatch" ELSE "SlotFilled"]

-------------------------------------------------------------------------------
(* ExpertClient *)

\* submit: one request per Spark; a send that fails at rank k leaves the earlier ones sent and no ticket.
Submit(n, k) ==
  /\ busy = 0 /\ nextId <= MaxTickets
  /\ nextId' = nextId + 1
  /\ asked' = [r \in Ranks |-> IF r < k THEN Append(asked[r], [req |-> nextId, layer |-> 1, rows |-> n]) ELSE asked[r]]
  /\ pending' = IF k = Sparks
                THEN [i \in DOMAIN pending \cup {nextId} |->
                        IF i = nextId THEN [layer |-> 1, sum |-> NewSum(n)] ELSE pending[i]]
                ELSE pending
  /\ UNCHANGED <<probe, stream, inbox, busy, results, faults>>

CollectStart(id) == /\ busy = 0 /\ id \in DOMAIN pending
                    /\ busy' = id
                    /\ UNCHANGED <<probe, nextId, pending, asked, stream, inbox, results, faults>>

\* One turn of collect's loop; an error ends the call and the frame is gone.
CollectFrame ==
  /\ busy # 0 /\ inbox # <<>>
  /\ LET f == Head(inbox)
         known == f.req \in DOMAIN pending /\ pending[f.req].layer = f.layer
         got == Accumulate(pending[f.req].sum, f)
     IN  /\ inbox' = Tail(inbox)
         /\ pending' = IF known THEN [pending EXCEPT ![f.req].sum = got.sum] ELSE pending
         /\ busy' = IF known /\ got.err = "ok" THEN busy ELSE 0
  /\ UNCHANGED <<probe, nextId, asked, stream, results, faults>>

\* The queue is empty: Ok(None), or the sum.
CollectEnd ==
  /\ busy # 0 /\ inbox = <<>>
  /\ LET s == pending[busy].sum
     IN  results' = IF IsComplete(s) THEN results \cup {[id |-> busy, rows |-> s.rows, acc |-> s.acc]} ELSE results
  /\ busy' = 0
  /\ UNCHANGED <<probe, nextId, pending, asked, stream, inbox, faults>>

Retire(id) == /\ busy = 0 /\ id \in DOMAIN pending /\ \E x \in results : x.id = id
              /\ pending' = [i \in DOMAIN pending \ {id} |-> pending[i]]
              /\ UNCHANGED <<probe, nextId, asked, stream, inbox, busy, results, faults>>

-------------------------------------------------------------------------------
(* A Spark answers: StreamSender::encode_return *)

Answer(r, status) ==
  /\ asked[r] # <<>>
  /\ LET a == Head(asked[r])
         ret == [req |-> a.req, layer |-> a.layer, exec |-> r, routes |-> TopK, status |-> status,
                 flags |-> IF status = "Ok" THEN ReturnRequired ELSE {},
                 rows |-> [i \in 1..a.rows |-> [size |-> ReturnRow, data |-> Partial(a.req, a.layer, i - 1, r)]]]
         f == EncodeReturn(ret, Len(txlog[r]), FALSE)
     IN  txlog' = [txlog EXCEPT ![r] = Append(@, f)] /\ net' = [net EXCEPT ![r] = @ \cup {f}]
  /\ asked' = [asked EXCEPT ![r] = Tail(@)]
  /\ UNCHANGED <<probe, client, expected, tries, down, inbox, faults>>

-------------------------------------------------------------------------------
(* Between the two ends *)

\* One field of a frame changed on the way.
Damage(f) == {[f EXCEPT !.len = HeaderLen - 1], [f EXCEPT !.len = @ - 1], [f EXCEPT !.len = @ + 1],
              [f EXCEPT !.magic = "?"], [f EXCEPT !.kind = "?"], [f EXCEPT !.rows = @ + 1],
              [f EXCEPT !.seq = @ + 1], [f EXCEPT !.exec = (@ + 1) % Sparks], [f EXCEPT !.tok = @ + 1],
              [f EXCEPT !.req = @ + 1], [f EXCEPT !.status = "Error"], [f EXCEPT !.flags = {}],
              [f EXCEPT !.hid[1].data.req = 0]}

Faulty == faults < MaxFaults /\ faults' = faults + 1 /\ UNCHANGED <<probe, client, asked, txlog, expected, tries, down, inbox>>
Lose(r) == \E f \in net[r] : Faulty /\ net' = [net EXCEPT ![r] = @ \ {f}]
Twice(r) == \E s \in 1..Len(txlog[r]) : Faulty /\ txlog[r][s] \notin net[r] /\ net' = [net EXCEPT ![r] = @ \cup {txlog[r][s]}]
Harm(r) == \E f \in net[r] : \E g \in Damage(f) : Faulty /\ net' = [net EXCEPT ![r] = (@ \ {f}) \cup {g}]

-------------------------------------------------------------------------------
(* StreamReceiver::accept under retry_until *)

Verdict(f, want) == LET d == DecodeFrame(f, FALSE)
                    IN  IF d # "ok" THEN d
                        ELSE IF f.seq = want THEN "ok"
                        ELSE IF f.seq < want THEN "Duplicate"
                        ELSE "OutOfOrder"

\* One call of op; on a Retry-class error the expected frame is sent again, until the budget is spent.
Receive(r) ==
  /\ r \notin down
  /\ \E f \in net[r] :
       LET v == Verdict(f, expected[r])
           d == Disposition(v)
           again == d = "Retry" /\ tries[r] + 1 < MaxAttempts
           resent == IF again /\ expected[r] < Len(txlog[r]) THEN {txlog[r][expected[r] + 1]} ELSE {}
       IN  /\ net' = [net EXCEPT ![r] = (@ \ {f}) \cup resent]
           /\ inbox' = IF v = "ok" THEN Append(inbox, f) ELSE inbox
           /\ expected' = IF v = "ok" THEN [expected EXCEPT ![r] = @ + 1] ELSE expected
           /\ tries' = [tries EXCEPT ![r] = IF again THEN @ + 1 ELSE 0]
           /\ down' = IF v = "ok" \/ again \/ d = "DropIdempotent" THEN down ELSE down \cup {r}
  /\ UNCHANGED <<probe, client, asked, txlog, faults>>

-------------------------------------------------------------------------------
(* The codec on its own *)

\* The buffer the encoders write into: room for the largest request.
Buffer == RequestRow * MaxRows

\* A request the encoders build, and the same frame with one field wrong.
Sample(n, topk) ==
  LET experts == [j \in 1..n * topk |-> j % 2]
      hid == [t \in 1..n |-> [size |-> HiddenRow, data |-> Partial(1, 1, t - 1, 0)]]
  IN  EncodeMeta(Buffer, 1, 1, 0, 0, experts, topk, hid)
Wrong(f) == Damage(f) \cup
  {[f EXCEPT !.version = 2], [f EXCEPT !.hlen = @ + 1], [f EXCEPT !.kind = "return"], [f EXCEPT !.dim = @ + 1],
   [f EXCEPT !.dtype = "Bf16"], [f EXCEPT !.dtype = "?"], [f EXCEPT !.sk = "?"], [f EXCEPT !.status = "?"],
   [f EXCEPT !.routes = @ + 1], [f EXCEPT !.descBytes = @ + 1], [f EXCEPT !.routeBytes = @ + 1],
   [f EXCEPT !.payload = @ + 1], [f EXCEPT !.wire = @ + 1], [f EXCEPT !.stride = 0], [f EXCEPT !.stride = @ + 1],
   [f EXCEPT !.rows = 0], [f EXCEPT !.descs[1].cnt = @ + 1], [f EXCEPT !.descs[1].off = @ + 1],
   [f EXCEPT !.descs[1].sk = "?"], [f EXCEPT !.entries[1].row = @ + 2]}

Probe == /\ probe = <<>> /\ nextId = 1
         /\ \E n \in 1..MaxRows, topk \in 1..TopK, off \in BOOLEAN :
              \E f \in Wrong(Sample(n, topk)) \cup {Sample(n, topk)} :
                 \E g \in {f, Seal(f, off)} : probe' = [f |-> g, off |-> off, n |-> n, topk |-> topk]
         /\ UNCHANGED <<nextId, pending, asked, stream, inbox, busy, results, faults>>

\* Bound: the row counts of a request follow its id.
Next == \/ Probe
        \/ /\ probe = <<>>
           /\ \/ \E k \in 1..Sparks : Submit(1 + (nextId % MaxRows), k)
              \/ \E id \in 1..MaxTickets : CollectStart(id) \/ Retire(id)
              \/ CollectFrame \/ CollectEnd
              \/ \E r \in Ranks : (\E s \in Statuses : Answer(r, s)) \/ Lose(r) \/ Twice(r) \/ Harm(r) \/ Receive(r)

Spec == Init /\ [][Next]_vars

-------------------------------------------------------------------------------
(* Properties *)

\* What the three request encoders write for the same rows is the same frame, and the copying
\* decoder and the in-place view give every frame, damaged or not, checksummed or not, the same
\* answer; one they accept names no route and no row outside its body (frame.rs).
FrameTwins ==
  probe # <<>> =>
    LET f == probe.f
        whole == Sample(probe.n, probe.topk)
        fr == [req |-> 1, layer |-> 1, exec |-> 0, sk |-> "Decode", rows |-> whole.descs, routes |-> whole.entries,
               hidden |-> whole.hid]
    IN  /\ EncodeRequest(fr, 0, TRUE) = whole
        /\ EncodeDesc(Buffer, 1, 1, 0, 0, probe.n, probe.topk, whole.entries, whole.hid) = whole
        /\ (ParseView(f, probe.off) = "ok") = (f.kind = "request" /\ DecodeFrame(f, probe.off) = "ok")
        /\ ParseView(f, probe.off) = "ok" =>
             /\ HeaderLen + Len(f.descs) * DescLen + Len(f.entries) * RouteLen + Len(f.hid) * f.stride = f.len
             /\ \A i \in DOMAIN f.descs : f.descs[i].off + f.descs[i].cnt <= Len(f.entries)
             /\ \A j \in DOMAIN f.entries : f.entries[j].row < Len(f.descs)

\* Whatever is lost, repeated, reordered or damaged on the way, a sum collect hands out has every
\* Spark's partial of every row of that request once, in rank order (l4.rs, async_api.rs).
SumExact == \A x \in results : \A t \in 0..x.rows - 1 :
              x.acc[t] = [i \in 1..Sparks |-> Partial(x.id, 1, t, i - 1)]
===============================================================================
