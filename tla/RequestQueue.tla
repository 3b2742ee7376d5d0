---------------------------- MODULE RequestQueue ----------------------------
(***************************************************************************)
(* The bounded request queue in front of the batching scheduler (api.rs,   *)
(* Queue, Engine::admit and QueuePlace).  A connection thread takes a      *)
(* place under the mutex, waits on the condition variable while `Depth`    *)
(* places are out, or is answered 429.  A place travels with the request   *)
(* into the scheduler's channel and is given back when the scheduler takes *)
(* the job or when anything before that drops it.  Giving back is two      *)
(* steps: the count goes down under the mutex, then, after the unlock,     *)
(* notify_one.                                                             *)
(***************************************************************************)
EXTENDS Integers, FiniteSets, Sequences

CONSTANTS
  Callers,  \* connection threads
  Depth     \* MIMO26_QUEUE_DEPTH, at least 1

ASSUME QueueAssumption == IsFiniteSet(Callers) /\ Depth \in Nat \ {0}

VARIABLES
  pc,       \* where each caller is
  expired,  \* callers whose wait budget is spent
  queued,   \* Queue.queued
  waiters,  \* Queue.waiters
  jobs,     \* the scheduler's channel, oldest first
  sched     \* the scheduler thread: in its loop, before a notify, or ended

vars == <<pc, expired, queued, waiters, jobs, sched>>

(* "idle": no request; "asleep": in wait_timeout; "awake": returned from    *)
(* wait_timeout and not yet holding the mutex; "held": owns a place;        *)
(* "dropping": its place is being dropped; "notify": counted back, before   *)
(* notify_one; "sent": the job is in the channel; "taken": past the queue.  *)
States ==
  {"idle", "asleep", "awake", "held", "dropping", "notify", "sent", "taken"}

Asleep == {c \in Callers : pc[c] = "asleep"}
Awake == {c \in Callers : pc[c] = "awake"}
Holders == {c \in Callers : pc[c] \in {"held", "dropping", "sent"}}

\* The notify_one calls still to come.
Owed == Cardinality({c \in Callers : pc[c] = "notify"})
          + IF sched = "notify" THEN 1 ELSE 0

Goto(c, s) == pc' = [pc EXCEPT ![c] = s]

Init ==
  /\ pc = [c \in Callers |-> "idle"]
  /\ expired = {}
  /\ queued = 0 /\ waiters = 0
  /\ jobs = <<>>
  /\ sched = "loop"

\* admit with a free place: newcomers take it ahead of any waiter.
AdmitNow(c) ==
  /\ pc[c] = "idle"
  /\ queued < Depth
  /\ queued' = queued + 1
  /\ Goto(c, "held")
  /\ UNCHANGED <<expired, waiters, jobs, sched>>

\* admit with the queue and its waiters full: 429.
AdmitRefuse(c) ==
  /\ pc[c] = "idle"
  /\ queued >= Depth /\ waiters >= Depth
  /\ UNCHANGED vars

\* Mutant: the waiter count is not bounded.
AdmitWait_Unbounded(c) ==
  /\ pc[c] = "idle"
  /\ queued >= Depth
  /\ waiters' = waiters + 1
  /\ Goto(c, "asleep")
  /\ UNCHANGED <<expired, queued, jobs, sched>>

\* admit with the queue full: counted as a waiter, then asleep on `freed`.
AdmitWait(c) ==
  /\ pc[c] = "idle"
  /\ queued >= Depth /\ waiters < Depth
  /\ waiters' = waiters + 1
  /\ Goto(c, "asleep")
  /\ UNCHANGED <<expired, queued, jobs, sched>>

\* The wait budget of a waiting caller runs out.
Expire(c) ==
  /\ pc[c] \in {"asleep", "awake"} /\ c \notin expired
  /\ expired' = expired \cup {c}
  /\ UNCHANGED <<pc, queued, waiters, jobs, sched>>

\* wait_timeout returns on its own: the time is up, or a spurious wakeup.
WakeUp(c) ==
  /\ pc[c] = "asleep"
  /\ Goto(c, "awake")
  /\ UNCHANGED <<expired, queued, waiters, jobs, sched>>

\* Mutant: the loop never looks at the budget.
Recheck_NoBudget(c) ==
  /\ pc[c] = "awake"
  /\ \/ /\ queued < Depth
        /\ waiters' = waiters - 1 /\ expired' = expired \ {c}
        /\ queued' = queued + 1
        /\ Goto(c, "held")
     \/ /\ queued >= Depth
        /\ Goto(c, "asleep") /\ UNCHANGED <<queued, waiters, expired>>
  /\ UNCHANGED <<jobs, sched>>

\* The woken caller has the mutex again: it takes a free place, else gives up
\* when its budget is spent (429), else sleeps on.
Recheck(c) ==
  /\ pc[c] = "awake"
  /\ \/ /\ queued < Depth
        /\ waiters' = waiters - 1 /\ expired' = expired \ {c}
        /\ queued' = queued + 1
        /\ Goto(c, "held")
     \/ /\ queued >= Depth /\ c \in expired
        /\ waiters' = waiters - 1 /\ expired' = expired \ {c}
        /\ Goto(c, "idle") /\ UNCHANGED queued
     \/ /\ queued >= Depth /\ c \notin expired
        /\ Goto(c, "asleep") /\ UNCHANGED <<queued, waiters, expired>>
  /\ UNCHANGED <<jobs, sched>>

\* generate: the job with its place goes into the channel; a failed send
\* drops it.
Send(c) ==
  /\ pc[c] = "held"
  /\ IF sched # "ended" THEN jobs' = Append(jobs, c) /\ Goto(c, "sent")
              ELSE Goto(c, "dropping") /\ UNCHANGED jobs
  /\ UNCHANGED <<expired, queued, waiters, sched>>

\* The request ends before it is sent: bad sampling or images, or the client
\* is gone when the head is written.  Its parameters drop the place.
Abandon(c) ==
  /\ pc[c] = "held"
  /\ Goto(c, "dropping")
  /\ UNCHANGED <<expired, queued, waiters, jobs, sched>>

\* QueuePlace::drop on a connection thread: the count under the mutex.
DropPlace(c) ==
  /\ pc[c] = "dropping"
  /\ queued' = queued - 1
  /\ Goto(c, "notify")
  /\ UNCHANGED <<expired, waiters, jobs, sched>>

\* Mutant: the place is forgotten.
TakeJob_KeepsPlace ==
  /\ sched = "loop" /\ jobs # <<>>
  /\ jobs' = Tail(jobs)
  /\ pc' = [pc EXCEPT ![Head(jobs)] = "taken"]
  /\ UNCHANGED <<expired, queued, waiters, sched>>

\* The scheduler takes the oldest job; its place is counted back at once.
TakeJob ==
  /\ sched = "loop" /\ jobs # <<>>
  /\ jobs' = Tail(jobs)
  /\ pc' = [pc EXCEPT ![Head(jobs)] = "taken"]
  /\ queued' = queued - 1
  /\ sched' = "notify"
  /\ UNCHANGED <<expired, waiters>>

\* Mutant: no notify.
Woken_Nobody(next) == {next}

\* notify_one: one sleeping caller wakes; without one nothing happens.
\* `next` is the caller states the notifying thread leaves behind.
Woken(next) ==
  IF Asleep = {} THEN {next}
  ELSE {[next EXCEPT ![c] = "awake"] : c \in Asleep}

\* The second half of a drop, on a connection thread or on the scheduler.
NotifyCaller(c) ==
  /\ pc[c] = "notify"
  /\ pc' \in Woken([pc EXCEPT ![c] = "idle"])
  /\ UNCHANGED <<expired, queued, waiters, jobs, sched>>

NotifySched ==
  /\ sched = "notify"
  /\ sched' = "loop"
  /\ pc' \in Woken(pc)
  /\ UNCHANGED <<expired, queued, waiters, jobs>>

\* The scheduler ends; the channel drops its jobs, and with them their places.
SchedulerStops ==
  /\ sched = "loop"
  /\ sched' = "ended"
  /\ pc' = [c \in Callers |-> IF pc[c] = "sent" THEN "dropping" ELSE pc[c]]
  /\ jobs' = <<>>
  /\ UNCHANGED <<expired, queued, waiters>>

\* The connection's next request (keep-alive).
NextRequest(c) ==
  /\ pc[c] = "taken"
  /\ Goto(c, "idle")
  /\ UNCHANGED <<expired, queued, waiters, jobs, sched>>

Next ==
  \/ \E c \in Callers :
       \/ AdmitNow(c) \/ AdmitRefuse(c) \/ AdmitWait(c)
       \/ Expire(c) \/ WakeUp(c) \/ Recheck(c)
       \/ Send(c) \/ Abandon(c) \/ DropPlace(c) \/ NotifyCaller(c)
       \/ NextRequest(c)
  \/ TakeJob \/ NotifySched \/ SchedulerStops

Spec == Init /\ [][Next]_vars

\* What the threads do on their own once they can: the clock runs, an expired
\* sleeper returns, a woken caller gets the mutex, places are dropped and
\* notified, and the scheduler comes back to its channel.
Fairness ==
  /\ \A c \in Callers :
       /\ WF_vars(Expire(c))
       /\ WF_vars(c \in expired /\ WakeUp(c))
       /\ WF_vars(Recheck(c))
       /\ WF_vars(Send(c) \/ Abandon(c))
       /\ WF_vars(DropPlace(c))
       /\ WF_vars(NotifyCaller(c))
  /\ WF_vars(TakeJob) /\ WF_vars(NotifySched)

FairSpec == Spec /\ Fairness
-----------------------------------------------------------------------------
(* Type correctness of the counters, the caller states and the channel.    *)
TypeOK ==
  /\ pc \in [Callers -> States]
  /\ expired \subseteq Callers
  /\ queued \in Nat /\ waiters \in Nat
  /\ jobs \in Seq(Callers)
  /\ sched \in {"loop", "notify", "ended"}

(* "at most `depth` jobs sent to the scheduler and not yet taken": the     *)
(* count is the places really out, on every drop path, and never over      *)
(* Depth (a place counted back twice, or never, would break it).           *)
PlacesCounted ==
  /\ queued = Cardinality(Holders)
  /\ queued <= Depth

(* "at most `depth` more callers wait": Queue.waiters is the callers in    *)
(* the wait loop.                                                          *)
WaitersCounted ==
  /\ waiters = Cardinality(Asleep \cup Awake)
  /\ waiters <= Depth

(* No lost wakeup: while callers sleep, every free place has a notify      *)
(* still to come or an awake caller on its way to it, so nobody sleeps     *)
(* beside a place nobody is going for.                                     *)
NoLostWakeup ==
  Asleep # {} => Depth - queued <= Owed + Cardinality(Awake)

(* Every request gets through the queue: it is turned away or its job is   *)
(* taken, and a place it held is given back, whatever happens to it.       *)
RequestEnds == \A c \in Callers : pc[c] \notin {"idle", "taken"}
                                    ~> pc[c] \in {"idle", "taken"}
=============================================================================
