----------------------------- MODULE Scheduler -----------------------------
(***************************************************************************)
(* The batching scheduler's loop (api.rs, fn scheduler) and the connection *)
(* threads around it.  A loop iteration admits jobs while there are slots, *)
(* prefills (short prompts in one batch, then segments in turn until the   *)
(* round's time is spent), retires cancelled requests and runs one step    *)
(* for every active request.  Connection threads send jobs and go away at  *)
(* any moment.                                                             *)
(*                                                                         *)
(* What a slot holds is SlotPool's subject: here a request needs a slot    *)
(* and Size units of memory (retained slots can always be evicted, so only *)
(* running requests count), and its prompt has rows left to prefill, fewer *)
(* when it resumes at a snapshot.  A slot or a message is taken to be      *)
(* handled in the step that decides it.                                    *)
(***************************************************************************)
EXTENDS Integers, Sequences, FiniteSets, FiniteSetsExt, SequencesExt

CONSTANTS
  Jobs,        \* what a connection asks for; it may ask again
  Extends,     \* <<j, k>>: j's prompt starts with k's, and k's is long enough
  Rows,        \* rows of each prompt
  MaxTokens,   \* token budget of each job
  Size,        \* memory of each job
  ImageJobs,   \* jobs whose prompts hold images
  Slots,       \* number of KV slots
  Memory,      \* device memory for running requests
  BatchRows,   \* BATCH_ROWS
  SegRows,     \* SEG_QUANTUM: least rows of a segment that is not the last
  Run,         \* most tokens of one step for one request
  SlowShort,   \* TRUE: one short prompt's pass can take the whole round's time
  MaxQueue,    \* bound of the model: jobs in the channel (the queue's depth)
  None

ASSUME SchedulerAssumption ==
  /\ IsFiniteSet(Jobs) /\ None \notin Jobs /\ ImageJobs \subseteq Jobs
  /\ Extends \subseteq Jobs \X Jobs
  /\ {Rows, MaxTokens, Size} \subseteq [Jobs -> Nat \ {0}]
  /\ {Slots, BatchRows, SegRows, Run, MaxQueue} \subseteq Nat \ {0}
  /\ BatchRows <= SegRows /\ Memory \in Nat
  /\ SlowShort \in BOOLEAN

VARIABLES
  pc,          \* where the loop is
  chan,        \* the job channel
  deferred,    \* jobs waiting for a prefill they extend
  stalled,     \* the job waiting for running requests' memory
  prefilling,  \* requests being prefilled, in turn
  active,      \* requests being decoded
  rem,         \* rows left to prefill
  sent,        \* tokens sent
  cancel,      \* cancel flags
  pending      \* jobs sent and not yet answered to the end

vars == <<pc, chan, deferred, stalled, prefilling, active, rem, sent, cancel, pending>>

MaxRows == Max(Range(Rows))
Running == Range(prefilling) \cup active

Init ==
  /\ pc = "admit"
  /\ chan = <<>> /\ deferred = <<>> /\ stalled = None
  /\ prefilling = <<>> /\ active = {}
  /\ rem = [j \in Jobs |-> 0] /\ sent = [j \in Jobs |-> 0]
  /\ cancel = [j \in Jobs |-> FALSE]
  /\ pending = {}
-----------------------------------------------------------------------------
(* Connection threads.                                                     *)

\* generate sends a job.
Submit(j) ==
  /\ j \notin pending /\ Len(chan) < MaxQueue
  /\ chan' = Append(chan, j)
  /\ pending' = pending \cup {j}
  /\ UNCHANGED <<pc, deferred, stalled, prefilling, active, rem, sent, cancel>>

\* The client is gone, or has what it wants (CancelOnDrop): the receiver goes
\* with the flag, so a send to it may fail.
Cancel(j) ==
  /\ j \in pending /\ ~cancel[j]
  /\ cancel' = [cancel EXCEPT ![j] = TRUE]
  /\ UNCHANGED <<pc, chan, deferred, stalled, prefilling, active, rem, sent, pending>>
-----------------------------------------------------------------------------
(* Admission.                                                              *)

\* The jobs E are answered to the end: nothing of them is left.
End(E) ==
  /\ pending' = pending \ E
  /\ cancel' = [j \in Jobs |-> cancel[j] /\ j \notin E]

Cleared(f, E) == [j \in Jobs |-> IF j \in E THEN 0 ELSE f[j]]

\* Mutant: a budget of one is not looked at.
Start_NoBudget(J, E) ==
  /\ E \subseteq J
  /\ active' = active \cup (J \ E)
  /\ rem' = Cleared(rem, J)
  /\ sent' = [j \in Jobs |-> IF j \in E THEN 0 ELSE IF j \in J THEN 1 ELSE sent[j]]
  /\ End(E)

\* The requests J start with their first token, and those of E end with it (end
\* of text, a budget of one, or the client gone).
Start(J, E) ==
  /\ E \subseteq J /\ \A j \in J : MaxTokens[j] = 1 => j \in E
  /\ active' = active \cup (J \ E)
  /\ rem' = Cleared(rem, J)
  /\ sent' = [j \in Jobs |-> IF j \in E THEN 0 ELSE IF j \in J THEN 1 ELSE sent[j]]
  /\ End(E)

\* A prefill in flight whose prompt job j extends.
Waits(j) == \E i \in 1..Len(prefilling) : <<j, prefilling[i]>> \in Extends

\* Mutant: deferred jobs are not looked at again once nothing prefills.
Ready_Unseen == {i \in 1..Len(deferred) : prefilling # <<>> /\ ~Waits(deferred[i])}

Ready == {i \in 1..Len(deferred) : ~Waits(deferred[i])}
Room == Cardinality(Running) < Slots
Idle == Running = {}

\* The job the loop takes next, and where from.
Takes ==
  IF stalled # None THEN <<"stalled", stalled>>
  ELSE IF Ready # {} THEN <<"deferred", deferred[Min(Ready)]>>
  ELSE IF chan # <<>> THEN <<"chan", Head(chan)>>
  ELSE <<"none", None>>

\* It is taken from there.
Taken ==
  /\ pc = "admit" /\ Room /\ Takes[1] # "none"
  /\ chan' = IF Takes[1] = "chan" THEN Tail(chan) ELSE chan

DeferredLeft == IF Takes[1] = "deferred" THEN RemoveAt(deferred, Min(Ready)) ELSE deferred
StalledLeft == IF Takes[1] = "stalled" THEN None ELSE stalled

\* A job whose client is gone is dropped.
DropCancelled ==
  LET j == Takes[2]
  IN  /\ Taken /\ cancel[j]
      /\ deferred' = DeferredLeft /\ stalled' = StalledLeft
      /\ End({j})
      /\ UNCHANGED <<pc, prefilling, active, rem, sent>>

\* A job that extends a prefill in flight waits for it.
Defer ==
  LET j == Takes[2]
  IN  /\ Taken /\ ~cancel[j] /\ Waits(j)
      /\ deferred' = Append(DeferredLeft, j) /\ stalled' = StalledLeft
      /\ UNCHANGED <<pc, prefilling, active, rem, sent, cancel, pending>>

\* A job that admission looks at.
Candidate(j) == Taken /\ ~cancel[j] /\ ~Waits(j)

Fits(j) == Size[j] + MapThenSumSet(LAMBDA r : Size[r], Running) <= Memory

\* Admitted at a snapshot with r rows left: its prefill joins the others.
AdmitPrefill(r) ==
  LET j == Takes[2]
  IN  /\ Candidate(j) /\ Fits(j) /\ r \in 1..Rows[j]
      /\ deferred' = DeferredLeft /\ stalled' = StalledLeft
      /\ prefilling' = Append(prefilling, j)
      /\ rem' = [rem EXCEPT ![j] = r]
      /\ UNCHANGED <<pc, active, sent, cancel, pending>>

\* Admitted at an exact snapshot: it starts at once.
AdmitExact(E) ==
  LET j == Takes[2]
  IN  /\ Candidate(j) /\ Fits(j)
      /\ deferred' = DeferredLeft /\ stalled' = StalledLeft
      /\ Start({j}, E)
      /\ UNCHANGED <<pc, prefilling>>

\* Admitted, then refused: no SWA working set, or no first token.
AdmitFails ==
  LET j == Takes[2]
  IN  /\ Candidate(j) /\ Fits(j)
      /\ deferred' = DeferredLeft /\ stalled' = StalledLeft
      /\ End({j})
      /\ UNCHANGED <<pc, prefilling, active, rem, sent>>

\* It does not fit (or the device refuses) while others run: it waits for them,
\* and nothing else is admitted.
Stall ==
  LET j == Takes[2]
  IN  /\ Candidate(j) /\ ~Idle
      /\ deferred' = DeferredLeft /\ stalled' = j
      /\ pc' = "batch"
      /\ UNCHANGED <<prefilling, active, rem, sent, cancel, pending>>

\* It does not fit though nothing runs: it is refused.
Refuse ==
  LET j == Takes[2]
  IN  /\ Candidate(j) /\ Idle
      /\ deferred' = DeferredLeft /\ stalled' = StalledLeft
      /\ End({j})
      /\ UNCHANGED <<pc, prefilling, active, rem, sent>>

\* No slot, or nothing to take and something to run.  (With nothing to run the
\* loop blocks on the channel.)
AdmitDone ==
  /\ pc = "admit"
  /\ ~Room \/ (Takes[1] = "none" /\ ~Idle)
  /\ pc' = "batch"
  /\ UNCHANGED <<chan, deferred, stalled, prefilling, active, rem, sent, cancel, pending>>
-----------------------------------------------------------------------------
(* Prefill.                                                                *)

\* The elements of s at the positions P, in order.
At(s, P) ==
  [k \in 1..Cardinality(P) |-> s[CHOOSE i \in P : Cardinality({x \in P : x <= i}) = k]]

RowsAt(P) == MapThenSumSet(LAMBDA i : rem[prefilling[i]], P)

\* P are the positions of the first n that the scan for short prompts takes: in
\* order, while they fit in one pass.
Scanned(P, n) ==
  \A i \in 1..n : i \in P <=> /\ ~cancel[prefilling[i]]
                              /\ prefilling[i] \notin ImageJobs
                              /\ RowsAt({k \in P : k < i}) + rem[prefilling[i]] <= BatchRows

BatchAt == CHOOSE P \in SUBSET (1..Len(prefilling)) : Scanned(P, Len(prefilling))

Batch == At(prefilling, BatchAt)
Others == At(prefilling, (1..Len(prefilling)) \ BatchAt)

\* They prefill together and start.
PrefillBatch(E) ==
  /\ pc = "batch" /\ Len(prefilling) >= 2 /\ Len(Batch) >= 2
  /\ Start(Range(Batch), E)
  /\ prefilling' = Others
  /\ pc' = "round"
  /\ UNCHANGED <<chan, deferred, stalled>>

\* The batch fails: each of its requests gets the error.
BatchFails ==
  /\ pc = "batch" /\ Len(prefilling) >= 2 /\ Len(Batch) >= 2
  /\ End(Range(Batch))
  /\ rem' = Cleared(rem, Range(Batch))
  /\ prefilling' = Others
  /\ pc' = "round"
  /\ UNCHANGED <<chan, deferred, stalled, active, sent>>

\* Mutant: the one short prompt is not put back.
NoBatch_Drops ==
  /\ pc = "batch" /\ (Len(prefilling) < 2 \/ Len(Batch) < 2)
  /\ prefilling' = IF Len(prefilling) >= 2 THEN Others ELSE prefilling
  /\ pc' = "round"
  /\ UNCHANGED <<chan, deferred, stalled, active, rem, sent, cancel, pending>>

\* Too few for a batch: the one short prompt, if any, goes to the front.
NoBatch ==
  /\ pc = "batch" /\ (Len(prefilling) < 2 \/ Len(Batch) < 2)
  /\ prefilling' = IF Len(prefilling) >= 2 THEN Batch \o Others ELSE prefilling
  /\ pc' = "round"
  /\ UNCHANGED <<chan, deferred, stalled, active, rem, sent, cancel, pending>>

First == Head(prefilling)
Turn == pc = "round" /\ prefilling # <<>>

\* Mutant: any pass may end the round.
AfterPass_Always == pc' \in {"round", "reap"}

\* After First's pass the round's time may be spent.
AfterPass ==
  \/ pc' = "round"
  \/ /\ SlowShort \/ rem[First] > BatchRows \/ First \in ImageJobs
     /\ pc' = "reap"

\* An abandoned prefill is parked.
ParkCancelled ==
  /\ Turn /\ cancel[First]
  /\ prefilling' = Tail(prefilling)
  /\ rem' = Cleared(rem, {First})
  /\ End({First})
  /\ UNCHANGED <<pc, chan, deferred, stalled, active, sent>>

\* The images do not encode: the request gets the error, the round goes on.
ImagesFail ==
  /\ Turn /\ ~cancel[First] /\ First \in ImageJobs
  /\ prefilling' = Tail(prefilling)
  /\ rem' = Cleared(rem, {First})
  /\ End({First})
  /\ UNCHANGED <<pc, chan, deferred, stalled, active, sent>>

\* A segment that leaves r rows: the prompt goes to the back.
Segment(r) ==
  /\ Turn /\ ~cancel[First] /\ r \in 1..(rem[First] - SegRows)
  /\ prefilling' = Append(Tail(prefilling), First)
  /\ rem' = [rem EXCEPT ![First] = r]
  /\ AfterPass
  /\ UNCHANGED <<chan, deferred, stalled, active, sent, cancel, pending>>

\* The last segment: the request starts.
LastSegment(E) ==
  /\ Turn /\ ~cancel[First]
  /\ prefilling' = Tail(prefilling)
  /\ Start({First}, E)
  /\ AfterPass
  /\ UNCHANGED <<chan, deferred, stalled>>

\* The forward or the first token fails.
SegmentFails ==
  /\ Turn /\ ~cancel[First]
  /\ prefilling' = Tail(prefilling)
  /\ rem' = Cleared(rem, {First})
  /\ End({First})
  /\ AfterPass
  /\ UNCHANGED <<chan, deferred, stalled, active, sent>>

RoundDone ==
  /\ pc = "round" /\ prefilling = <<>>
  /\ pc' = "reap"
  /\ UNCHANGED <<chan, deferred, stalled, prefilling, active, rem, sent, cancel, pending>>
-----------------------------------------------------------------------------
(* Decode.                                                                 *)

\* Cancelled requests retire; the rest get a step, if there is any.
Reap ==
  LET gone == {j \in active : cancel[j]}
  IN  /\ pc = "reap"
      /\ active' = active \ gone
      /\ sent' = Cleared(sent, gone)
      /\ End(gone)
      /\ pc' = IF active = gone THEN "admit" ELSE "decode"
      /\ UNCHANGED <<chan, deferred, stalled, prefilling, rem>>

\* One step: n[j] tokens for each active j, never past its budget; those of E
\* end (the budget is spent, end of text, or the client is gone).
Decode(n, E) ==
  /\ pc = "decode"
  /\ \A j \in active : n[j] <= MaxTokens[j] - sent[j]
  /\ \A j \in active : n[j] = MaxTokens[j] - sent[j] => j \in E
  /\ active' = active \ E
  /\ sent' = [j \in Jobs |-> IF j \in E THEN 0
                             ELSE IF j \in active THEN sent[j] + n[j] ELSE sent[j]]
  /\ End(E)
  /\ pc' = "admit"
  /\ UNCHANGED <<chan, deferred, stalled, prefilling, rem>>

\* The step fails for all of them.
DecodeFails ==
  /\ pc = "decode"
  /\ active' = {}
  /\ sent' = Cleared(sent, active)
  /\ End(active)
  /\ pc' = "admit"
  /\ UNCHANGED <<chan, deferred, stalled, prefilling, rem>>

Loop ==
  \/ DropCancelled \/ Defer \/ AdmitFails \/ Stall \/ Refuse \/ AdmitDone
  \/ \E r \in 1..MaxRows : AdmitPrefill(r) \/ Segment(r)
  \/ \E E \in SUBSET Jobs : AdmitExact(E) \/ PrefillBatch(E) \/ LastSegment(E)
  \/ BatchFails \/ NoBatch \/ ParkCancelled \/ ImagesFail \/ SegmentFails \/ RoundDone
  \/ Reap \/ DecodeFails
  \/ \E n \in [active -> 1..Run], E \in SUBSET active : Decode(n, E)

Next == Loop \/ \E j \in Jobs : Submit(j) \/ Cancel(j)

Spec == Init /\ [][Next]_vars

\* Jobs do not come faster than the admission loop takes them: it does not go
\* on for ever while requests run.
ArrivalsPause == []<>(pc # "admit" \/ Idle)

\* The scheduler's thread keeps running: device and wire calls return.
FairSpec == Spec /\ WF_vars(Loop) /\ ArrivalsPause
-----------------------------------------------------------------------------
(* Type correctness of the loop's lists and counters.                      *)
TypeOK ==
  /\ pc \in {"admit", "batch", "round", "reap", "decode"}
  /\ Range(chan) \cup Range(deferred) \cup Range(prefilling) \subseteq Jobs
  /\ active \subseteq Jobs /\ pending \subseteq Jobs
  /\ stalled \in Jobs \cup {None}
  /\ rem \in [Jobs -> Nat] /\ (\A j \in Jobs : rem[j] <= Rows[j])
  /\ sent \in [Jobs -> Nat] /\ cancel \in [Jobs -> BOOLEAN]

\* The places job j is in, counted.
Places(j) ==
  LET In(s) == Cardinality({i \in 1..Len(s) : s[i] = j})
  IN  In(chan) + In(deferred) + In(prefilling)
        + (IF j \in active THEN 1 ELSE 0) + (IF stalled = j THEN 1 ELSE 0)

(* No job is lost and none is served twice: a job that was sent and not    *)
(* answered to the end is in exactly one of the scheduler's hands, any     *)
(* other in none, through deferrals, stalls, batches and failures.         *)
NoJobLost == \A j \in Jobs : Places(j) = IF j \in pending THEN 1 ELSE 0

(* A running request has budget left: the next step computes               *)
(* `max - generated - 1` on unsigned integers, which must not go below 0.  *)
BudgetLeft == \A j \in active : sent[j] \in 1..(MaxTokens[j] - 1)

(* Prompts that extend one still prefilling wait "instead of prefilling    *)
(* the same tokens again": of two prompts in the prefill list that extend  *)
(* one another at most one is there.                                       *)
NoTwins ==
  \A x, y \in Range(prefilling) :
    x # y => ~(<<x, y>> \in Extends /\ <<y, x>> \in Extends)

(* Every job is in exactly one of the scheduler's hands, and in the        *)
(* prefill list without its twin.                                          *)
JobsKept == TypeOK /\ NoJobLost /\ NoTwins

(* Every job that is sent is answered to its end, whatever arrives, stalls *)
(* or waits around it and however often others ask again.                  *)
JobEnds == \A j \in Jobs : j \in pending ~> j \notin pending

(* "Segments round robin over the prompts in flight": a prompt being       *)
(* prefilled, whose client waits, gets its turn.                           *)
PrefillTurns ==
  \A j \in Jobs :
    j \in Range(prefilling) /\ ~cancel[j] ~>
      \/ j \notin Range(prefilling) \/ cancel[j]
      \/ Turn /\ First = j
=============================================================================
