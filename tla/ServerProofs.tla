---------------------------- MODULE ServerProofs ----------------------------
(***************************************************************************)
(* Proofs about the API server: its bounded queue (RequestQueue), for any  *)
(* finite set of callers and any depth, and the token stream of one        *)
(* connection (Stream), for any tokens, stop sequences and lengths.        *)
(*                                                                         *)
(* The counters of the queue are cardinalities of sets of callers; a step  *)
(* of one caller moves it from one state to another, and Move says what    *)
(* that does to every such cardinality.  The rest is arithmetic.           *)
(*                                                                         *)
(* A text is a sequence of letters, and what the stream's operators say of *)
(* one is put letter by letter first: where a word stands, what a text     *)
(* ends with, what is left when it is cut.                                 *)
(***************************************************************************)
EXTENDS RequestQueue, Connection, Integers, Sequences, FiniteSets, FiniteSetTheorems, SequenceTheorems,
        NaturalsInduction, TLAPS

-----------------------------------------------------------------------------
(* The queue *)

\* The callers that f puts in one of the states S, and how many they are.
At(f, S) == {c \in Callers : f[c] \in S}
Count(f, S) == Cardinality(At(f, S))

HoldStates == {"held", "dropping", "sent"}
WaitStates == {"asleep", "awake"}

\* 1 while the scheduler has a notify_one to run.
SchedOwes == IF sched = "notify" THEN 1 ELSE 0

\* Every job in the channel is a sent caller's, and no caller is there twice.
JobsMatch ==
  /\ \A i \in 1..Len(jobs) : pc[jobs[i]] = "sent"
  /\ \A i, j \in 1..Len(jobs) : jobs[i] = jobs[j] => i = j

\* NoLostWakeup in counts.
Covered ==
  Count(pc, {"asleep"}) > 0 =>
    Depth - queued <= Count(pc, {"notify"}) + SchedOwes + Count(pc, {"awake"})

IInv ==
  /\ TypeOK
  /\ JobsMatch
  /\ queued = Count(pc, HoldStates) /\ queued <= Depth
  /\ waiters = Count(pc, WaitStates) /\ waiters <= Depth
  /\ Covered
-----------------------------------------------------------------------------
\* Every count is a natural number.
LEMMA CountNat ==
  ASSUME NEW f, NEW S
  PROVE  IsFiniteSet(At(f, S)) /\ Count(f, S) \in Nat
<1>1. At(f, S) \subseteq Callers  BY DEF At
<1>2. IsFiniteSet(At(f, S))  BY <1>1, QueueAssumption, FS_Subset
<1> QED  BY <1>2, FS_CardinalityType DEF Count

\* A caller is counted when its state is, and then the count is positive.
LEMMA CountPositive ==
  ASSUME NEW f, NEW S, NEW c \in Callers, f[c] \in S
  PROVE  Count(f, S) > 0
<1>1. c \in At(f, S)  BY DEF At
<1>2. At(f, S) # {}  BY <1>1
<1>3. Count(f, S) # 0  BY <1>2, CountNat, FS_EmptySet DEF Count
<1> QED  BY <1>3, CountNat

\* 1 when state s is one of S.
In(s, S) == IF s \in S THEN 1 ELSE 0

\* From f to g only caller c moves, to state s.
Moves(f, g, c, s) ==
  /\ f \in [Callers -> States] /\ c \in Callers /\ s \in States
  /\ g = [f EXCEPT ![c] = s]

\* What the move of one caller does to a count.
LEMMA Move ==
  ASSUME NEW f, NEW g, NEW c, NEW s, Moves(f, g, c, s), NEW S
  PROVE  Count(g, S) = Count(f, S) + In(s, S) - In(f[c], S)
<1>1. c \in Callers /\ \A d \in Callers : g[d] = IF d = c THEN s ELSE f[d]
  BY DEF Moves
<1>2. IsFiniteSet(At(f, S)) /\ Count(f, S) \in Nat  BY CountNat
<1>3. CASE s \in S /\ f[c] \notin S
  <2>1. At(g, S) = At(f, S) \cup {c} /\ c \notin At(f, S)  BY <1>1, <1>3 DEF At
  <2>2. Count(g, S) = Count(f, S) + 1  BY <2>1, <1>2, FS_AddElement DEF Count
  <2> QED  BY <2>2, <1>2, <1>3 DEF In
<1>4. CASE s \notin S /\ f[c] \in S
  <2>1. At(g, S) = At(f, S) \ {c} /\ c \in At(f, S)  BY <1>1, <1>4 DEF At
  <2>2. Count(g, S) = Count(f, S) - 1  BY <2>1, <1>2, FS_RemoveElement DEF Count
  <2> QED  BY <2>2, <1>2, <1>4 DEF In
<1>5. CASE s \in S <=> f[c] \in S
  <2>1. At(g, S) = At(f, S)  BY <1>1, <1>5 DEF At
  <2>2. Count(g, S) = Count(f, S)  BY <2>1 DEF Count
  <2> QED  BY <2>2, <1>2, <1>5 DEF In
<1> QED  BY <1>3, <1>4, <1>5

\* Move for the five counts of the invariant.
LEMMA Counts ==
  ASSUME NEW f, NEW g, NEW c, NEW s, Moves(f, g, c, s)
  PROVE  /\ Count(g, HoldStates) = Count(f, HoldStates)
                                     + In(s, HoldStates) - In(f[c], HoldStates)
         /\ Count(g, WaitStates) = Count(f, WaitStates)
                                     + In(s, WaitStates) - In(f[c], WaitStates)
         /\ Count(g, {"asleep"}) = Count(f, {"asleep"})
                                     + In(s, {"asleep"}) - In(f[c], {"asleep"})
         /\ Count(g, {"awake"}) = Count(f, {"awake"})
                                     + In(s, {"awake"}) - In(f[c], {"awake"})
         /\ Count(g, {"notify"}) = Count(f, {"notify"})
                                     + In(s, {"notify"}) - In(f[c], {"notify"})
         /\ g \in [Callers -> States]
<1>1. ASSUME NEW S  PROVE Count(g, S) = Count(f, S) + In(s, S) - In(f[c], S)
  BY Move
<1>2. g \in [Callers -> States]  BY DEF Moves
<1> QED  BY <1>1, <1>2

\* The channel still matches when the only caller moved is not a sent one.
LEMMA JobsKept ==
  ASSUME TypeOK, JobsMatch, NEW c \in Callers, NEW s, pc[c] # "sent",
         pc' = [pc EXCEPT ![c] = s], jobs' = jobs
  PROVE  JobsMatch'
<1>1. \A i \in 1..Len(jobs) : jobs[i] \in Callers  BY DEF TypeOK
<1>2. \A i \in 1..Len(jobs) : jobs[i] # c  BY DEF JobsMatch
<1>3. \A i \in 1..Len(jobs) : pc'[jobs[i]] = pc[jobs[i]]  BY <1>1, <1>2 DEF TypeOK
<1> QED  BY <1>3 DEF JobsMatch

\* notify_one on the caller states f: at most one caller wakes.
LEMMA WokenCounts ==
  ASSUME NEW f \in [Callers -> States], TypeOK,
         \A d \in Callers : pc[d] = "asleep" => f[d] = "asleep",
         NEW g \in Woken(f)
  PROVE  /\ g \in [Callers -> States]
         /\ Count(g, HoldStates) = Count(f, HoldStates)
         /\ Count(g, WaitStates) = Count(f, WaitStates)
         /\ Count(g, {"notify"}) = Count(f, {"notify"})
         /\ \/ g = f /\ Asleep = {}
            \/ /\ Count(g, {"awake"}) = Count(f, {"awake"}) + 1
               /\ Count(g, {"asleep"}) = Count(f, {"asleep"}) - 1
         /\ \A d \in Callers : f[d] = "sent" <=> g[d] = "sent"
<1>0. \A S : Count(f, S) \in Nat  BY CountNat
<1>1. CASE Asleep = {}
  <2>1. g = f  BY <1>1 DEF Woken
  <2> QED  BY <2>1, <1>1
<1>2. CASE Asleep # {}
  <2>1. PICK c \in Asleep : g = [f EXCEPT ![c] = "awake"]  BY <1>2 DEF Woken
  <2>2. c \in Callers /\ f[c] = "asleep"  BY <2>1 DEF Asleep
  <2>3. "awake" \in States  BY DEF States
  <2>6. Moves(f, g, c, "awake")  BY <2>1, <2>2, <2>3 DEF Moves
  <2>4. /\ Count(g, HoldStates) = Count(f, HoldStates)
        /\ Count(g, WaitStates) = Count(f, WaitStates)
        /\ Count(g, {"asleep"}) = Count(f, {"asleep"}) - 1
        /\ Count(g, {"awake"}) = Count(f, {"awake"}) + 1
        /\ Count(g, {"notify"}) = Count(f, {"notify"})
        /\ g \in [Callers -> States]
    BY <2>2, <2>6, <1>0, Counts DEF HoldStates, WaitStates, In
  <2>5. \A d \in Callers : f[d] = "sent" <=> g[d] = "sent"  BY <2>1, <2>2
  <2> QED  BY <2>4, <2>5, <1>0
<1> QED  BY <1>1, <1>2

(* The queue starts with nobody in it.                                     *)
LEMMA InitInv == Init => IInv
<1> SUFFICES ASSUME Init  PROVE IInv  OBVIOUS
<1>1. TypeOK  BY DEF Init, TypeOK, States
<1>2. JobsMatch  BY DEF Init, JobsMatch
<1>3. \A S : "idle" \notin S => At(pc, S) = {}  BY DEF Init, At
<1>4. \A S : "idle" \notin S => Count(pc, S) = 0  BY <1>3, FS_EmptySet DEF Count
<1>5. /\ Count(pc, HoldStates) = 0 /\ Count(pc, WaitStates) = 0
      /\ Count(pc, {"asleep"}) = 0
  BY <1>4 DEF HoldStates, WaitStates
<1> QED  BY <1>1, <1>2, <1>5, QueueAssumption DEF IInv, Init, Covered

\* A step of one caller that leaves the channel and the scheduler alone.
LEMMA CallerStep ==
  ASSUME IInv, NEW c \in Callers,
         \/ AdmitNow(c) \/ AdmitRefuse(c) \/ AdmitWait(c) \/ Expire(c)
         \/ WakeUp(c) \/ Recheck(c) \/ Abandon(c) \/ DropPlace(c)
         \/ NextRequest(c)
  PROVE  IInv'
<1> USE QueueAssumption
<1>0. TypeOK /\ JobsMatch  BY DEF IInv
<1>1. \A f, S : Count(f, S) \in Nat  BY CountNat
<1>2. ASSUME NEW s \in States, pc' = [pc EXCEPT ![c] = s], pc[c] # "sent",
             jobs' = jobs
      PROVE  Moves(pc, pc', c, s) /\ JobsMatch'
  BY <1>0, <1>2, JobsKept DEF Moves, TypeOK
<1>3. CASE AdmitNow(c)
  <2>1. Moves(pc, pc', c, "held") /\ JobsMatch'
    BY <1>2, <1>3 DEF AdmitNow, Goto, States
  <2>2. /\ Count(pc', HoldStates) = Count(pc, HoldStates) + 1
        /\ Count(pc', WaitStates) = Count(pc, WaitStates)
        /\ Count(pc', {"asleep"}) = Count(pc, {"asleep"})
        /\ Count(pc', {"awake"}) = Count(pc, {"awake"})
        /\ Count(pc', {"notify"}) = Count(pc, {"notify"})
        /\ pc' \in [Callers -> States]
    BY <2>1, <1>1, <1>3, Counts DEF HoldStates, WaitStates, In, AdmitNow
  <2> QED  BY <1>1, <1>3, <2>1, <2>2 DEF IInv, TypeOK, Covered, SchedOwes, AdmitNow
<1>4. CASE AdmitRefuse(c)
  <2>1. UNCHANGED vars  BY <1>4 DEF AdmitRefuse
  <2> QED  BY <2>1 DEF IInv, TypeOK, Covered, SchedOwes, JobsMatch, vars
<1>5. CASE AdmitWait(c)
  <2>1. Moves(pc, pc', c, "asleep") /\ JobsMatch'
    BY <1>2, <1>5 DEF AdmitWait, Goto, States
  <2>2. /\ Count(pc', HoldStates) = Count(pc, HoldStates)
        /\ Count(pc', WaitStates) = Count(pc, WaitStates) + 1
        /\ Count(pc', {"awake"}) = Count(pc, {"awake"})
        /\ Count(pc', {"notify"}) = Count(pc, {"notify"})
        /\ pc' \in [Callers -> States]
    BY <2>1, <1>1, <1>5, Counts DEF HoldStates, WaitStates, In, AdmitWait
  <2> QED  BY <1>1, <1>5, <2>1, <2>2 DEF IInv, TypeOK, Covered, SchedOwes, AdmitWait
<1>6. CASE Expire(c)
  BY <1>6 DEF IInv, TypeOK, Covered, SchedOwes, JobsMatch, Expire
<1>7. CASE WakeUp(c)
  <2>1. Moves(pc, pc', c, "awake") /\ JobsMatch'
    BY <1>2, <1>7 DEF WakeUp, Goto, States
  <2>2. /\ Count(pc', HoldStates) = Count(pc, HoldStates)
        /\ Count(pc', WaitStates) = Count(pc, WaitStates)
        /\ Count(pc', {"asleep"}) = Count(pc, {"asleep"}) - 1
        /\ Count(pc', {"awake"}) = Count(pc, {"awake"}) + 1
        /\ Count(pc', {"notify"}) = Count(pc, {"notify"})
        /\ pc' \in [Callers -> States]
    BY <2>1, <1>1, <1>7, Counts DEF HoldStates, WaitStates, In, WakeUp
  <2>3. /\ queued' = queued /\ waiters' = waiters /\ jobs' = jobs /\ sched' = sched
        /\ expired' \subseteq Callers
    BY <1>7 DEF IInv, TypeOK, WakeUp
  <2>4. SchedOwes' = SchedOwes /\ SchedOwes \in Nat
    BY <2>3 DEF SchedOwes
  <2>5. Covered'
    <3>1. PICK a, n, up \in Nat : /\ a = Count(pc, {"asleep"}) /\ n = Count(pc, {"notify"})
                               /\ up = Count(pc, {"awake"})
      BY CountNat
    <3>2. a > 0 => Depth - queued <= n + SchedOwes + up
      BY <3>1 DEF IInv, Covered
    <3>3. a - 1 > 0 => Depth - queued <= n + SchedOwes + (up + 1)
      BY <2>4, <3>2 DEF IInv, TypeOK
    <3>4. QED
      BY <2>2, <2>3, <2>4, <3>1, <3>3 DEF Covered
  <2> QED  BY <2>1, <2>2, <2>3, <2>5 DEF IInv, TypeOK
<1>8. CASE Recheck(c)
  <2>0. Count(pc, WaitStates) > 0
    BY <1>8, CountPositive DEF Recheck, WaitStates
  <2>1. CASE pc' = [pc EXCEPT ![c] = "held"] /\ queued < Depth
             /\ waiters' = waiters - 1 /\ queued' = queued + 1
    <3>1. Moves(pc, pc', c, "held") /\ JobsMatch'
      BY <1>2, <1>8, <2>1 DEF Recheck, States
    <3>2. /\ Count(pc', HoldStates) = Count(pc, HoldStates) + 1
          /\ Count(pc', WaitStates) = Count(pc, WaitStates) - 1
          /\ Count(pc', {"asleep"}) = Count(pc, {"asleep"})
          /\ Count(pc', {"awake"}) = Count(pc, {"awake"}) - 1
          /\ Count(pc', {"notify"}) = Count(pc, {"notify"})
          /\ pc' \in [Callers -> States]
      BY <3>1, <1>1, <1>8, Counts DEF HoldStates, WaitStates, In, Recheck
    <3>3. UNCHANGED <<jobs, sched>> /\ expired' \subseteq Callers
      BY <1>0, <1>8 DEF Recheck, TypeOK
    <3>4. SchedOwes' = SchedOwes /\ SchedOwes \in Nat  BY <3>3 DEF SchedOwes
    <3>6. queued \in Nat /\ Depth \in Nat  BY <1>0 DEF TypeOK
    <3>7. Count(pc, {"asleep"}) > 0 =>
            Depth - queued <= Count(pc, {"notify"}) + SchedOwes + Count(pc, {"awake"})
      BY DEF IInv, Covered
    <3>8. Count(pc', {"asleep"}) > 0 =>
            Depth - queued' <= Count(pc', {"notify"}) + SchedOwes'
                                + Count(pc', {"awake"})
      BY <1>1, <2>1, <3>2, <3>4, <3>6, <3>7
    <3>5. Covered'  BY <3>8 DEF Covered
    <3>9. queued' \in Nat /\ waiters' \in Nat /\ queued' <= Depth /\ waiters' <= Depth
      BY <2>0, <2>1, <3>6 DEF IInv, TypeOK
    <3>10. queued' = Count(pc', HoldStates) /\ waiters' = Count(pc', WaitStates)
      BY <2>1, <3>2 DEF IInv
    <3>11. TypeOK'
      BY <3>2, <3>3, <3>9 DEF IInv, TypeOK
    <3> QED  BY <3>1, <3>5, <3>9, <3>10, <3>11 DEF IInv
  <2>2. CASE pc' = [pc EXCEPT ![c] = "idle"] /\ queued >= Depth
             /\ waiters' = waiters - 1 /\ queued' = queued
    <3>1. Moves(pc, pc', c, "idle") /\ JobsMatch'
      BY <1>2, <1>8, <2>2 DEF Recheck, States
    <3>2. /\ Count(pc', HoldStates) = Count(pc, HoldStates)
          /\ Count(pc', WaitStates) = Count(pc, WaitStates) - 1
          /\ pc' \in [Callers -> States]
      BY <3>1, <1>1, <1>8, Counts DEF HoldStates, WaitStates, In, Recheck
    <3> QED  BY <1>1, <1>8, <2>0, <2>2, <3>1, <3>2
              DEF IInv, TypeOK, Covered, SchedOwes, Recheck
  <2>3. CASE pc' = [pc EXCEPT ![c] = "asleep"] /\ queued >= Depth
             /\ waiters' = waiters /\ queued' = queued /\ expired' = expired
    <3>1. Moves(pc, pc', c, "asleep") /\ JobsMatch'
      BY <1>2, <1>8, <2>3 DEF Recheck, States
    <3>2. /\ Count(pc', HoldStates) = Count(pc, HoldStates)
          /\ Count(pc', WaitStates) = Count(pc, WaitStates)
          /\ pc' \in [Callers -> States]
      BY <3>1, <1>1, <1>8, Counts DEF HoldStates, WaitStates, In, Recheck
    <3> QED  BY <1>1, <1>8, <2>0, <2>3, <3>1, <3>2
              DEF IInv, TypeOK, Covered, SchedOwes, Recheck
  <2> QED  BY <1>8, <2>1, <2>2, <2>3 DEF Recheck, Goto
<1>9. CASE Abandon(c)
  <2>1. Moves(pc, pc', c, "dropping") /\ JobsMatch'
    BY <1>2, <1>9 DEF Abandon, Goto, States
  <2>2. /\ Count(pc', HoldStates) = Count(pc, HoldStates)
        /\ Count(pc', WaitStates) = Count(pc, WaitStates)
        /\ Count(pc', {"asleep"}) = Count(pc, {"asleep"})
        /\ Count(pc', {"awake"}) = Count(pc, {"awake"})
        /\ Count(pc', {"notify"}) = Count(pc, {"notify"})
        /\ pc' \in [Callers -> States]
    BY <2>1, <1>1, <1>9, Counts DEF HoldStates, WaitStates, In, Abandon
  <2> QED  BY <1>1, <1>9, <2>1, <2>2 DEF IInv, TypeOK, Covered, SchedOwes, Abandon
<1>10. CASE DropPlace(c)
  <2>0. Count(pc, HoldStates) > 0
    BY <1>10, CountPositive DEF DropPlace, HoldStates
  <2>1. Moves(pc, pc', c, "notify") /\ JobsMatch'
    BY <1>2, <1>10 DEF DropPlace, Goto, States
  <2>2. /\ Count(pc', HoldStates) = Count(pc, HoldStates) - 1
        /\ Count(pc', WaitStates) = Count(pc, WaitStates)
        /\ Count(pc', {"asleep"}) = Count(pc, {"asleep"})
        /\ Count(pc', {"awake"}) = Count(pc, {"awake"})
        /\ Count(pc', {"notify"}) = Count(pc, {"notify"}) + 1
        /\ pc' \in [Callers -> States]
    BY <2>1, <1>1, <1>10, Counts DEF HoldStates, WaitStates, In, DropPlace
  <2>a. /\ queued' = queued - 1 /\ waiters' = waiters /\ expired' = expired
        /\ jobs' = jobs /\ sched' = sched
    BY <1>10 DEF DropPlace
  <2>b. queued - 1 \in Nat /\ queued - 1 = Count(pc', HoldStates) /\ queued - 1 <= Depth
    BY <1>1, <2>0, <2>2 DEF IInv, TypeOK
  <2>3. TypeOK'
    BY <2>2, <2>a, <2>b DEF IInv, TypeOK
  <2>4. Covered' /\ queued' = Count(pc', HoldStates) /\ queued' <= Depth
    <3>1. SchedOwes' = SchedOwes /\ SchedOwes \in Nat
      BY <2>a DEF SchedOwes
    <3>2. PICK a, n, up \in Nat : /\ a = Count(pc, {"asleep"}) /\ n = Count(pc, {"notify"})
                               /\ up = Count(pc, {"awake"})
      BY CountNat
    <3>3. a > 0 => Depth - queued <= n + SchedOwes + up
      BY <3>2 DEF IInv, Covered
    <3>4. a > 0 => Depth - (queued - 1) <= (n + 1) + SchedOwes + up
      BY <2>b, <3>1, <3>3 DEF IInv, TypeOK
    <3>5. QED
      BY <2>2, <2>a, <2>b, <3>1, <3>2, <3>4 DEF Covered
  <2> QED  BY <1>1, <1>10, <2>1, <2>2, <2>3, <2>4 DEF IInv, DropPlace
<1>11. CASE NextRequest(c)
  <2>1. Moves(pc, pc', c, "idle") /\ JobsMatch'
    BY <1>2, <1>11 DEF NextRequest, Goto, States
  <2>2. /\ Count(pc', HoldStates) = Count(pc, HoldStates)
        /\ Count(pc', WaitStates) = Count(pc, WaitStates)
        /\ Count(pc', {"asleep"}) = Count(pc, {"asleep"})
        /\ Count(pc', {"awake"}) = Count(pc, {"awake"})
        /\ Count(pc', {"notify"}) = Count(pc, {"notify"})
        /\ pc' \in [Callers -> States]
    BY <2>1, <1>1, <1>11, Counts DEF HoldStates, WaitStates, In, NextRequest
  <2> QED  BY <1>1, <1>11, <2>1, <2>2
            DEF IInv, TypeOK, Covered, SchedOwes, NextRequest
<1> QED
  BY <1>3, <1>4, <1>5, <1>6, <1>7, <1>8, <1>9, <1>10, <1>11

\* generate's send appends its own caller, which was not in the channel.
LEMMA SendStep == ASSUME IInv, NEW c \in Callers, Send(c)  PROVE IInv'
<1> USE QueueAssumption
<1>0. TypeOK /\ JobsMatch  BY DEF IInv
<1>1. \A f, S : Count(f, S) \in Nat  BY CountNat
<1>2. PICK s \in {"sent", "dropping"} : Moves(pc, pc', c, s)
  BY <1>0 DEF Send, Goto, Moves, TypeOK, States
<1>3. /\ Count(pc', HoldStates) = Count(pc, HoldStates)
      /\ Count(pc', WaitStates) = Count(pc, WaitStates)
      /\ Count(pc', {"asleep"}) = Count(pc, {"asleep"})
      /\ Count(pc', {"awake"}) = Count(pc, {"awake"})
      /\ Count(pc', {"notify"}) = Count(pc, {"notify"})
      /\ pc' \in [Callers -> States]
  <2>1. pc[c] = "held"  BY DEF Send
  <2>2. CASE s = "sent"
    BY <1>1, <1>2, <2>1, <2>2, Counts DEF HoldStates, WaitStates, In
  <2>3. CASE s = "dropping"
    BY <1>1, <1>2, <2>1, <2>3, Counts DEF HoldStates, WaitStates, In
  <2> QED  BY <2>2, <2>3
<1>4. jobs' \in Seq(Callers)  BY <1>0 DEF Send, TypeOK
<1>5. JobsMatch'
  <2>1. CASE sched = "ended"  BY <1>0, <2>1, JobsKept DEF Send, Goto
  <2>2. CASE sched # "ended"
    <3>1. jobs' = Append(jobs, c) /\ pc' = [pc EXCEPT ![c] = "sent"]
      BY <2>2 DEF Send, Goto
    <3>2. \A i \in 1..Len(jobs) : jobs[i] \in Callers /\ pc[jobs[i]] = "sent"
      BY <1>0 DEF TypeOK, JobsMatch
    <3>3. \A i \in 1..Len(jobs) : jobs[i] # c  BY <3>2 DEF Send
    <3>4. Len(jobs') = Len(jobs) + 1 /\ Len(jobs) \in Nat
      BY <1>0, <3>1 DEF TypeOK
    <3>5. \A i \in 1..Len(jobs') :
            jobs'[i] = IF i = Len(jobs) + 1 THEN c ELSE jobs[i]
      BY <1>0, <3>1, <3>4 DEF TypeOK
    <3>6. \A i \in 1..Len(jobs') : pc'[jobs'[i]] = "sent"
      BY <1>0, <3>1, <3>2, <3>4, <3>5 DEF TypeOK
    <3>7. \A i, j \in 1..Len(jobs') : jobs'[i] = jobs'[j] => i = j
      BY <1>0, <3>3, <3>4, <3>5 DEF JobsMatch
    <3> QED  BY <3>6, <3>7 DEF JobsMatch
  <2> QED  BY <2>1, <2>2
<1> QED  BY <1>1, <1>3, <1>4, <1>5 DEF IInv, TypeOK, Covered, SchedOwes, Send

\* The scheduler takes a job: one place fewer, one notify more to come.
LEMMA TakeStep == ASSUME IInv, TakeJob  PROVE IInv'
<1> USE QueueAssumption
<1>0. TypeOK /\ JobsMatch  BY DEF IInv
<1>1. \A f, S : Count(f, S) \in Nat  BY CountNat
<1>2. PICK c \in Callers :
        /\ jobs \in Seq(Callers) /\ jobs # <<>> /\ Len(jobs) \in Nat \ {0}
        /\ c = Head(jobs) /\ c = jobs[1] /\ pc[c] = "sent"
  BY <1>0 DEF TakeJob, TypeOK, JobsMatch
<1>3. pc' = [pc EXCEPT ![c] = "taken"]  BY <1>2 DEF TakeJob
<1>4. jobs' = Tail(jobs)  BY DEF TakeJob
<1>5. Moves(pc, pc', c, "taken")  BY <1>0, <1>2, <1>3 DEF Moves, TypeOK, States
<1>6. /\ Count(pc', HoldStates) = Count(pc, HoldStates) - 1
      /\ Count(pc', WaitStates) = Count(pc, WaitStates)
      /\ Count(pc', {"asleep"}) = Count(pc, {"asleep"})
      /\ Count(pc', {"awake"}) = Count(pc, {"awake"})
      /\ Count(pc', {"notify"}) = Count(pc, {"notify"})
      /\ pc' \in [Callers -> States]
  <2>1. pc[c] = "sent"  BY <1>2
  <2> QED  BY <1>1, <1>5, <2>1, Counts DEF HoldStates, WaitStates, In
<1>7. Count(pc, HoldStates) > 0  BY <1>2, CountPositive DEF HoldStates
<1>8. /\ jobs' \in Seq(Callers) /\ Len(jobs') = Len(jobs) - 1
      /\ \A i \in 1..Len(jobs') : jobs'[i] = jobs[i + 1] /\ i + 1 \in 1..Len(jobs)
  BY <1>2, <1>4
<1>9. JobsMatch'
  <2>1. \A i \in 1..Len(jobs') : jobs'[i] # c
    BY <1>0, <1>2, <1>8 DEF JobsMatch
  <2>2. \A i \in 1..Len(jobs') : jobs'[i] \in Callers /\ pc[jobs'[i]] = "sent"
    BY <1>0, <1>2, <1>8 DEF JobsMatch
  <2>3. \A i \in 1..Len(jobs') : pc'[jobs'[i]] = "sent"
    BY <1>0, <1>3, <2>1, <2>2 DEF TypeOK
  <2>4. \A i, j \in 1..Len(jobs') : jobs'[i] = jobs'[j] => i = j
    BY <1>0, <1>2, <1>8 DEF JobsMatch
  <2> QED  BY <2>3, <2>4 DEF JobsMatch
<1>10. /\ queued' = queued - 1 /\ waiters' = waiters /\ expired' = expired
       /\ sched = "loop" /\ sched' = "notify"
  BY DEF TakeJob
<1>11. queued - 1 \in Nat /\ queued - 1 = Count(pc', HoldStates) /\ queued - 1 <= Depth
  BY <1>1, <1>6, <1>7 DEF IInv, TypeOK
<1>12. TypeOK' /\ queued' = Count(pc', HoldStates) /\ queued' <= Depth
  BY <1>6, <1>8, <1>10, <1>11 DEF IInv, TypeOK
<1>13. Covered'
  <2>1. SchedOwes = 0 /\ SchedOwes' = 1
    BY <1>10 DEF SchedOwes
  <2>2. PICK a, n, up \in Nat : /\ a = Count(pc, {"asleep"}) /\ n = Count(pc, {"notify"})
                             /\ up = Count(pc, {"awake"})
    BY CountNat
  <2>3. a > 0 => Depth - queued <= n + 0 + up
    BY <2>1, <2>2 DEF IInv, Covered
  <2>4. a > 0 => Depth - (queued - 1) <= n + 1 + up
    BY <1>11, <2>3 DEF IInv, TypeOK
  <2>5. QED
    BY <1>6, <1>10, <2>1, <2>2, <2>4 DEF Covered
<1> QED
  BY <1>6, <1>9, <1>10, <1>12, <1>13 DEF IInv

\* notify_one hands the free place's promise from the notifier to a sleeper.
LEMMA NotifyStep ==
  ASSUME IInv, NotifySched \/ \E c \in Callers : NotifyCaller(c)
  PROVE  IInv'
<1> USE QueueAssumption
<1>0. TypeOK /\ JobsMatch  BY DEF IInv
<1>1. \A f, S : Count(f, S) \in Nat  BY CountNat
<1>a. queued \in Nat /\ Depth \in Nat  BY <1>0 DEF TypeOK
<1>b. Count(pc, {"asleep"}) > 0 =>
        Depth - queued <= Count(pc, {"notify"}) + SchedOwes + Count(pc, {"awake"})
  BY DEF IInv, Covered
<1>2. PICK f \in [Callers -> States] :
        /\ pc' \in Woken(f)
        /\ \A d \in Callers : pc[d] = "asleep" => f[d] = "asleep"
        /\ \A d \in Callers : pc[d] = "sent" => f[d] = "sent"
        /\ Count(f, HoldStates) = Count(pc, HoldStates)
        /\ Count(f, WaitStates) = Count(pc, WaitStates)
        /\ Count(f, {"asleep"}) = Count(pc, {"asleep"})
        /\ Count(f, {"awake"}) = Count(pc, {"awake"})
        /\ Count(f, {"notify"}) + SchedOwes' = Count(pc, {"notify"}) + SchedOwes - 1
        /\ UNCHANGED <<expired, queued, waiters, jobs>>
        /\ sched' \in {"loop", "notify", "ended"}
  <2>1. CASE NotifySched
    <3>1. pc' \in Woken(pc)  BY <2>1 DEF NotifySched
    <3>2. SchedOwes = 1 /\ SchedOwes' = 0  BY <2>1 DEF NotifySched, SchedOwes
    <3>3. pc \in [Callers -> States]  BY <1>0 DEF TypeOK
    <3>4. Count(pc, {"notify"}) + SchedOwes' = Count(pc, {"notify"}) + SchedOwes - 1
      BY <1>1, <3>2
    <3>5. UNCHANGED <<expired, queued, waiters, jobs>> /\ sched' = "loop"
      BY <2>1 DEF NotifySched
    <3> QED  BY <3>1, <3>3, <3>4, <3>5
  <2>2. ASSUME NEW c \in Callers, NotifyCaller(c)
        PROVE  \E f \in [Callers -> States] :
        /\ pc' \in Woken(f)
        /\ \A d \in Callers : pc[d] = "asleep" => f[d] = "asleep"
        /\ \A d \in Callers : pc[d] = "sent" => f[d] = "sent"
        /\ Count(f, HoldStates) = Count(pc, HoldStates)
        /\ Count(f, WaitStates) = Count(pc, WaitStates)
        /\ Count(f, {"asleep"}) = Count(pc, {"asleep"})
        /\ Count(f, {"awake"}) = Count(pc, {"awake"})
        /\ Count(f, {"notify"}) + SchedOwes' = Count(pc, {"notify"}) + SchedOwes - 1
        /\ UNCHANGED <<expired, queued, waiters, jobs>>
        /\ sched' \in {"loop", "notify", "ended"}
    <3> DEFINE f == [pc EXCEPT ![c] = "idle"]
    <3>1. pc' \in Woken(f)  BY <2>2 DEF NotifyCaller
    <3>2. Moves(pc, f, c, "idle")  BY <1>0 DEF Moves, TypeOK, States
    <3>3. pc[c] = "notify"  BY <2>2 DEF NotifyCaller
    <3>4. /\ \A d \in Callers : pc[d] = "asleep" => f[d] = "asleep"
          /\ \A d \in Callers : pc[d] = "sent" => f[d] = "sent"
      BY <1>0, <3>3 DEF TypeOK
    <3> HIDE DEF f
    <3>5. /\ Count(f, HoldStates) = Count(pc, HoldStates)
          /\ Count(f, WaitStates) = Count(pc, WaitStates)
          /\ Count(f, {"asleep"}) = Count(pc, {"asleep"})
          /\ Count(f, {"awake"}) = Count(pc, {"awake"})
          /\ Count(f, {"notify"}) = Count(pc, {"notify"}) - 1
          /\ f \in [Callers -> States]
      BY <1>1, <3>2, <3>3, Counts DEF HoldStates, WaitStates, In
    <3>6. SchedOwes' = SchedOwes /\ SchedOwes \in Nat
      BY <2>2 DEF NotifyCaller, SchedOwes
    <3>7. Count(f, {"notify"}) + SchedOwes' = Count(pc, {"notify"}) + SchedOwes - 1
      BY <1>1, <3>5, <3>6
    <3>8. /\ UNCHANGED <<expired, queued, waiters, jobs>>
          /\ sched' \in {"loop", "notify", "ended"}
      BY <1>0, <2>2 DEF NotifyCaller, TypeOK
    <3> QED  BY <3>1, <3>4, <3>5, <3>7, <3>8
  <2> QED  BY <2>1, <2>2
<1>3. /\ pc' \in [Callers -> States]
      /\ Count(pc', HoldStates) = Count(f, HoldStates)
      /\ Count(pc', WaitStates) = Count(f, WaitStates)
      /\ Count(pc', {"notify"}) = Count(f, {"notify"})
      /\ \/ pc' = f /\ Asleep = {}
         \/ /\ Count(pc', {"awake"}) = Count(f, {"awake"}) + 1
            /\ Count(pc', {"asleep"}) = Count(f, {"asleep"}) - 1
      /\ \A d \in Callers : f[d] = "sent" <=> pc'[d] = "sent"
  BY <1>0, <1>2, WokenCounts
<1>4. JobsMatch'
  <2>1. \A i \in 1..Len(jobs) : jobs[i] \in Callers  BY <1>0 DEF TypeOK
  <2>2. jobs' = jobs  BY <1>2
  <2> QED  BY <1>0, <1>2, <1>3, <2>1, <2>2 DEF JobsMatch
<1>5. SchedOwes \in Nat /\ SchedOwes' \in Nat  BY DEF SchedOwes
<1>6. Covered'
  <2>1. CASE pc' = f /\ Asleep = {}
    <3>1. At(pc, {"asleep"}) = Asleep  BY DEF At, Asleep
    <3>2. Count(pc, {"asleep"}) = 0  BY <2>1, <3>1, FS_EmptySet DEF Count
    <3>3. Count(pc', {"asleep"}) = 0  BY <1>2, <2>1, <3>2
    <3> QED  BY <3>3 DEF Covered
  <2>2. CASE /\ Count(pc', {"awake"}) = Count(f, {"awake"}) + 1
             /\ Count(pc', {"asleep"}) = Count(f, {"asleep"}) - 1
    <3>1. Count(pc, {"asleep"}) > 0
      BY <1>1, <1>2, <2>2
    <3>2. Depth - queued' <= Count(pc', {"notify"}) + SchedOwes'
                              + Count(pc', {"awake"})
      BY <1>1, <1>2, <1>3, <1>5, <1>a, <1>b, <2>2, <3>1
    <3> QED  BY <3>2 DEF Covered
  <2> QED  BY <1>3, <2>1, <2>2
<1> QED  BY <1>2, <1>3, <1>4, <1>6 DEF IInv, TypeOK

\* Dropping the channel moves its callers within the places still out.
LEMMA StopStep == ASSUME IInv, SchedulerStops  PROVE IInv'
<1>1. TypeOK  BY DEF IInv
<1>2. \A S \in {HoldStates, WaitStates, {"asleep"}, {"awake"}, {"notify"}} :
        At(pc', S) = At(pc, S)
  BY <1>1 DEF SchedulerStops, At, HoldStates, WaitStates, TypeOK
<1>3. /\ Count(pc', HoldStates) = Count(pc, HoldStates)
      /\ Count(pc', WaitStates) = Count(pc, WaitStates)
      /\ Count(pc', {"asleep"}) = Count(pc, {"asleep"})
      /\ Count(pc', {"awake"}) = Count(pc, {"awake"})
      /\ Count(pc', {"notify"}) = Count(pc, {"notify"})
  BY <1>2 DEF Count
<1>4. pc' \in [Callers -> States]  BY <1>1 DEF SchedulerStops, TypeOK, States
<1>5. JobsMatch' /\ jobs' \in Seq(Callers)  BY DEF SchedulerStops, JobsMatch
<1> QED
  BY <1>3, <1>4, <1>5 DEF IInv, TypeOK, Covered, SchedOwes, SchedulerStops

(* A step of the queue keeps IInv.                                         *)
LEMMA NextInv == IInv /\ [Next]_vars => IInv'
<1> SUFFICES ASSUME IInv, [Next]_vars  PROVE IInv'  OBVIOUS
<1>1. CASE UNCHANGED vars
  BY <1>1 DEF IInv, TypeOK, Covered, SchedOwes, JobsMatch, vars
<1>2. CASE Next
  BY <1>2, CallerStep, SendStep, TakeStep, NotifyStep, StopStep DEF Next
<1> QED  BY <1>1, <1>2

(* IInv holds of every state of the queue.                                 *)
LEMMA InvHolds == Spec => []IInv
BY InitInv, NextInv, PTL DEF Spec
-----------------------------------------------------------------------------
(* The counters never go below zero and only callers are in the channel    *)
(* (Queue's counters are unsigned), for any callers and depth.             *)
THEOREM QueueTypeCorrect == Spec => []TypeOK
<1>1. IInv => TypeOK  BY DEF IInv
<1> QED  BY <1>1, InvHolds, PTL

(* The count of the queue is the places really out, never over the depth,  *)
(* on every path a place can take (Queue, admit, QueuePlace::drop).        *)
THEOREM PlacesAlwaysCounted == Spec => []PlacesCounted
<1>1. IInv => PlacesCounted
  <2>1. Holders = At(pc, HoldStates)  BY DEF Holders, At, HoldStates
  <2> QED  BY <2>1 DEF IInv, PlacesCounted, Count
<1> QED  BY <1>1, InvHolds, PTL

(* The waiters are counted exactly and never more than the depth (admit).  *)
THEOREM WaitersAlwaysCounted == Spec => []WaitersCounted
<1>1. IInv => WaitersCounted
  <2>1. Asleep \cup Awake = At(pc, WaitStates)
    BY DEF Asleep, Awake, At, WaitStates
  <2> QED  BY <2>1 DEF IInv, WaitersCounted, Count
<1> QED  BY <1>1, InvHolds, PTL

(* While callers sleep on `freed`, every free place has a notify_one to    *)
(* come or an awake caller about to look at the count (admit and the drop  *)
(* closure, which notifies after it has released the mutex).               *)
THEOREM NoWakeupIsLost == Spec => []NoLostWakeup
<1>1. IInv => NoLostWakeup
  <2> SUFFICES ASSUME IInv, Asleep # {}
               PROVE  Depth - queued <= Owed + Cardinality(Awake)
    BY DEF NoLostWakeup
  <2>1. PICK c \in Callers : pc[c] = "asleep"  BY DEF Asleep
  <2>2. Count(pc, {"asleep"}) > 0  BY <2>1, CountPositive
  <2>3. Awake = At(pc, {"awake"})  BY DEF Awake, At
  <2>4. {d \in Callers : pc[d] = "notify"} = At(pc, {"notify"})  BY DEF At
  <2>5. Owed = Count(pc, {"notify"}) + SchedOwes
    BY <2>4 DEF Owed, Count, SchedOwes
  <2> QED  BY <2>2, <2>3, <2>5 DEF IInv, Covered, Count
<1> QED  BY <1>1, InvHolds, PTL

-----------------------------------------------------------------------------
(* Every set of naturals has a least element.                              *)
LEMMA LeastNat ==
  ASSUME NEW B, B \subseteq Nat, B # {}
  PROVE  \E n \in B : \A m \in B : n <= m
<1> DEFINE R == OpToRel(<, Nat)
<1>1. IsWellFoundedOn(R, Nat)
  BY NatLessThanWellFounded
<1> HIDE DEF R
<1>2. PICK n \in B : \A m \in B : ~(<<m, n>> \in R)
  BY <1>1, WFMin
<1>3. \A m \in B : m < n => <<m, n>> \in R
  BY <1>2 DEF R, OpToRel
<1>4. \A m \in B : m \in Nat /\ n \in Nat /\ ~(m < n)
  BY <1>2, <1>3
<1>5. QED
  BY <1>4

-----------------------------------------------------------------------------
(* Texts *)

\* What a text is written with; the decoder's and the tags' own letters are strings too.
Letters == STRING \cup {"u", "?", "<", "think>", "/think>", "tool_call>"}
Text == Seq(Letters)

(* A token is a text, and so is a stop sequence.                           *)
LEMMA StringText ==
  ASSUME NEW s \in Seq(STRING)
  PROVE  s \in Text
<1>1. Len(s) \in Nat /\ s \in [1..Len(s) -> STRING]
  BY LenProperties
<1>2. s \in [1..Len(s) -> Letters]
  BY <1>1 DEF Letters
<1>3. QED
  BY <1>1, <1>2, SeqDef DEF Text

(* The letters of a text.                                                  *)
LEMMA TextLetters ==
  ASSUME NEW s \in Text
  PROVE  Len(s) \in Nat /\ DOMAIN s = 1..Len(s) /\ \A i \in 1..Len(s) : s[i] \in Letters
BY LenProperties, ElementOfSeq DEF Text

\* t stands in s from place i on.
Stands(s, i, t) == i + Len(t) - 1 <= Len(s) /\ \A m \in 1..Len(t) : s[i + m - 1] = t[m]

(* The letters of a text joined from two.                                  *)
LEMMA Joined ==
  ASSUME NEW s \in Text, NEW t \in Text
  PROVE  /\ s \o t \in Text /\ Len(s) \in Nat /\ Len(t) \in Nat /\ Len(s \o t) = Len(s) + Len(t)
         /\ \A i \in 1..Len(s) : (s \o t)[i] = s[i]
         /\ \A i \in 1..Len(t) : (s \o t)[Len(s) + i] = t[i]
<1>1. /\ s \o t \in Text /\ Len(s) \in Nat /\ Len(t) \in Nat /\ Len(s \o t) = Len(s) + Len(t)
      /\ \A i \in 1..Len(s) + Len(t) : (s \o t)[i] = IF i <= Len(s) THEN s[i] ELSE t[i - Len(s)]
  BY ConcatProperties, LenProperties DEF Text
<1> DEFINE n == Len(s)
           k == Len(t)
<1> HIDE DEF n, k
<1>2. n \in Nat /\ k \in Nat
  BY <1>1 DEF n, k
<1>3. \A i \in 1..n : i \in 1..n + k /\ i <= n
  BY <1>2
<1>4. \A i \in 1..k : n + i \in 1..n + k /\ ~(n + i <= n) /\ n + i - n = i
  BY <1>2
<1>5. QED
  BY <1>1, <1>3, <1>4 DEF n, k

(* A sequence of one.                                                      *)
LEMMA OneLetter ==
  ASSUME NEW S, NEW x \in S
  PROVE  <<x>> \in Seq(S) /\ Len(<<x>>) = 1 /\ 1 \in 1..Len(<<x>>) /\ <<x>>[1] = x
OBVIOUS

(* The letters of a part of a text.                                        *)
LEMMA Cut ==
  ASSUME NEW s \in Text, NEW a \in Nat \ {0}, NEW b \in Nat, b <= Len(s)
  PROVE  /\ SubSeq(s, a, b) \in Text
         /\ Len(SubSeq(s, a, b)) = IF a <= b THEN b - a + 1 ELSE 0
         /\ \A i \in 1..Len(SubSeq(s, a, b)) : a + i - 1 \in 1..Len(s) /\ SubSeq(s, a, b)[i] = s[a + i - 1]
<1>1. Len(s) \in Nat /\ \A i \in 1..Len(s) : s[i] \in Letters
  BY LenProperties, ElementOfSeq DEF Text
<1> DEFINE n == Len(s)
<1> HIDE DEF n
<1>2. \A i \in a..b : i \in 1..n
  BY <1>1 DEF n
<1>3. /\ SubSeq(s, a, b) \in Text
      /\ Len(SubSeq(s, a, b)) = IF a <= b THEN b - a + 1 ELSE 0
      /\ \A i \in 1..(b - a + 1) : SubSeq(s, a, b)[i] = s[a + i - 1]
  BY <1>1, <1>2, SubSeqProperties DEF n, Text
<1> DEFINE k == Len(SubSeq(s, a, b))
<1> HIDE DEF k
<1>4. \A i \in 1..k : i \in 1..(b - a + 1) /\ a + i - 1 \in a..b
  <2>1. k = IF a <= b THEN b - a + 1 ELSE 0
    BY <1>3 DEF k
  <2>2. QED
    BY <2>1
<1>5. QED
  BY <1>2, <1>3, <1>4 DEF k, n

\* p is the part of s from a to b.
IsCut(p, s, a, b) ==
  /\ p \in Text
  /\ Len(p) = IF a <= b THEN b - a + 1 ELSE 0
  /\ \A i \in 1..Len(p) : p[i] = s[a + i - 1]

(* The same, as one predicate.                                             *)
LEMMA CutIs ==
  ASSUME NEW s \in Text, NEW a \in Nat \ {0}, NEW b \in Nat, b <= Len(s)
  PROVE  IsCut(SubSeq(s, a, b), s, a, b)
BY Cut DEF IsCut

(* At, letter by letter.                                                   *)
LEMMA AtMeans ==
  ASSUME NEW s \in Text, NEW t \in Text, NEW i \in Nat \ {0}
  PROVE  Str!At(s, i, t) <=> Stands(s, i, t)
<1> DEFINE k == Len(t)
           b == i + k - 1
<1>1. k \in Nat /\ Len(s) \in Nat
  BY LenProperties DEF Text
<1> HIDE DEF k
<1>2. ASSUME b <= Len(s) PROVE SubSeq(s, i, b) = t <=> \A m \in 1..k : s[i + m - 1] = t[m]
  <2>1. /\ SubSeq(s, i, b) \in Text /\ Len(SubSeq(s, i, b)) = k
        /\ \A m \in 1..k : SubSeq(s, i, b)[m] = s[i + m - 1]
    <3>1. b \in Nat /\ (IF i <= b THEN b - i + 1 ELSE 0) = k
      BY <1>1
    <3>2. QED
      BY <3>1, <1>2, Cut
  <2>2. ASSUME \A m \in 1..k : s[i + m - 1] = t[m] PROVE SubSeq(s, i, b) = t
    BY <2>1, <2>2, SeqEqual DEF Text, k
  <2>3. QED
    BY <2>1, <2>2
<1>3. QED
  BY <1>2 DEF Str!At, Stands, k

(* A set of naturals has a Min.                                            *)
LEMMA MinHas ==
  ASSUME NEW B, B \subseteq Nat, B # {}
  PROVE  Str!Min(B) \in B /\ \A m \in B : Str!Min(B) <= m
<1>1. PICK n \in B : \A m \in B : n <= m
  BY LeastNat
<1>2. QED
  BY <1>1 DEF Str!Min

(* The first place of t in s from i on, or 0.                              *)
LEMMA FindHas ==
  ASSUME NEW s \in Text, NEW t \in Text, NEW i \in Nat \ {0}
  PROVE  LET p == Str!FindFrom(s, i, t)
         IN  /\ p \in Nat
             /\ p = 0 => \A k \in i..Len(s) : ~Stands(s, k, t)
             /\ p # 0 => p \in i..Len(s) /\ Stands(s, p, t) /\ \A k \in i..p - 1 : ~Stands(s, k, t)
<1> DEFINE B == {k \in i..Len(s) : Str!At(s, k, t)}
           p == Str!FindFrom(s, i, t)
           n == Len(s)
<1>1. n \in Nat
  BY LenProperties DEF Text
<1> HIDE DEF n
<1>2. \A k \in i..n : k \in Nat \ {0} /\ (k \in B <=> Stands(s, k, t))
  <2>1. \A k \in i..n : k \in Nat \ {0}
    BY <1>1
  <2>2. QED
    BY <2>1, AtMeans DEF n
<1>3. p = IF B = {} THEN 0 ELSE Str!Min(B)
  BY DEF Str!FindFrom
<1>3a. B \subseteq i..n
  BY DEF n
<1> HIDE DEF B, p
<1>4. CASE B = {}
  BY <1>2, <1>3, <1>4 DEF p, n
<1>5. CASE B # {}
  <2>1. B \subseteq Nat /\ B \subseteq i..n
    BY <1>2, <1>3a
  <2>2. p \in B /\ \A m \in B : p <= m
    BY <1>3, <1>5, <2>1, MinHas
  <2>3. p \in i..n /\ p \in Nat \ {0} /\ Stands(s, p, t)
    BY <2>1, <2>2, <1>2
  <2>4. \A k \in i..p - 1 : k \in i..n /\ ~(p <= k)
    BY <2>3, <1>1
  <2>5. \A k \in i..p - 1 : ~Stands(s, k, t)
    BY <2>4, <2>2, <1>2
  <2>6. QED
    BY <2>3, <2>5 DEF p, n
<1>6. QED
  BY <1>4, <1>5

(* A stop sequence is in a text when it stands somewhere in it.            *)
LEMMA HasMeans ==
  ASSUME NEW s \in Text, NEW t \in Text
  PROVE  Str!Has(s, t) <=> \E k \in 1..Len(s) : Stands(s, k, t)
<1> DEFINE p == Str!FindFrom(s, 1, t)
<1>1. /\ p \in Nat
      /\ p = 0 => \A k \in 1..Len(s) : ~Stands(s, k, t)
      /\ p # 0 => p \in 1..Len(s) /\ Stands(s, p, t)
  BY FindHas
<1> HIDE DEF p
<1>2. Str!Has(s, t) <=> p > 0
  BY DEF Str!Has, p
<1>3. p > 0 <=> p # 0
  BY <1>1
<1>4. QED
  BY <1>1, <1>2, <1>3

(* What ends in p.                                                         *)
LEMMA SuffixMeans ==
  ASSUME NEW p \in Text, NEW t \in Text
  PROVE  Str!IsSuffix(p, t) <=>
           Len(p) <= Len(t) /\ \A m \in 1..Len(p) : t[Len(t) - Len(p) + m] = p[m]
<1> DEFINE a == Len(p)
           b == Len(t)
           rp == Str!Reverse(p)
           rt == Str!Reverse(t)
<1>1. a \in Nat /\ b \in Nat /\ \A i \in 1..a : p[i] \in Letters
  BY LenProperties, ElementOfSeq DEF Text
<1>1b. \A i \in 1..b : t[i] \in Letters
  BY LenProperties, ElementOfSeq DEF Text
<1>2. rp = [i \in 1..a |-> p[(a - i) + 1]] /\ rt = [i \in 1..b |-> t[(b - i) + 1]]
  BY DEF Str!Reverse
<1> HIDE DEF a, b, rp, rt
<1>3. rp \in Text /\ Len(rp) = a /\ \A i \in 1..a : rp[i] = p[a - i + 1]
  <2>1. \A i \in 1..a : (a - i) + 1 \in 1..a
    BY <1>1
  <2>2. rp \in [1..a -> Letters]
    BY <2>1, <1>1, <1>2
  <2>3. rp \in Text /\ DOMAIN rp = 1..a
    BY <2>2, <1>1, SeqDef DEF Text
  <2>4. Len(rp) = a
    BY <2>3, <1>1, LenProperties DEF Text
  <2>5. QED
    BY <2>3, <2>4, <1>2
<1>4. rt \in Text /\ Len(rt) = b /\ \A i \in 1..b : rt[i] = t[b - i + 1]
  <2>1. \A i \in 1..b : (b - i) + 1 \in 1..b
    BY <1>1
  <2>2. rt \in [1..b -> Letters]
    BY <2>1, <1>1b, <1>2
  <2>3. rt \in Text /\ DOMAIN rt = 1..b
    BY <2>2, <1>1, SeqDef DEF Text
  <2>4. Len(rt) = b
    BY <2>3, <1>1, LenProperties DEF Text
  <2>5. QED
    BY <2>3, <2>4, <1>2
<1>5. Str!IsSuffix(p, t) <=> a <= b /\ SubSeq(rp, 1, a) = SubSeq(rt, 1, a)
  BY <1>3, <1>4 DEF Str!IsSuffix, Str!IsPrefix, rp, rt
<1>6. ASSUME a <= b
      PROVE  SubSeq(rp, 1, a) = SubSeq(rt, 1, a) <=> \A m \in 1..a : t[b - a + m] = p[m]
  <2>1. SubSeq(rp, 1, a) = rp
    BY <1>3, SubSeqFull DEF Text
  <2>2. /\ SubSeq(rt, 1, a) \in Text /\ Len(SubSeq(rt, 1, a)) = a
        /\ \A i \in 1..a : SubSeq(rt, 1, a)[i] = rt[i]
    <3>1. (IF 1 <= a THEN a - 1 + 1 ELSE 0) = a /\ \A i \in 1..a : 1 + i - 1 = i
      BY <1>1
    <3>2. QED
      BY <3>1, <1>1, <1>4, <1>6, Cut
  <2>3. SubSeq(rt, 1, a) = rp <=> \A i \in 1..a : rt[i] = rp[i]
    BY <2>2, <1>3, SeqEqual DEF Text
  <2>4. (\A i \in 1..a : rt[i] = rp[i]) <=> \A i \in 1..a : t[b - i + 1] = p[a - i + 1]
    <3>1. \A i \in 1..a : i \in 1..b
      BY <1>1, <1>6
    <3>2. QED
      BY <3>1, <1>3, <1>4
  <2>5. (\A i \in 1..a : t[b - i + 1] = p[a - i + 1]) <=> \A m \in 1..a : t[b - a + m] = p[m]
    <3>1. ASSUME NEW m \in 1..a, \A i \in 1..a : t[b - i + 1] = p[a - i + 1]
          PROVE  t[b - a + m] = p[m]
      <4>1. a - m + 1 \in 1..a /\ b - (a - m + 1) + 1 = b - a + m /\ a - (a - m + 1) + 1 = m
        BY <1>1
      <4>2. QED
        BY <4>1, <3>1
    <3>2. ASSUME NEW i \in 1..a, \A m \in 1..a : t[b - a + m] = p[m]
          PROVE  t[b - i + 1] = p[a - i + 1]
      <4>1. a - i + 1 \in 1..a /\ b - a + (a - i + 1) = b - i + 1
        BY <1>1
      <4>2. QED
        BY <4>1, <3>2
    <3>3. QED
      BY <3>1, <3>2
  <2>6. QED
    BY <2>1, <2>3, <2>4, <2>5
<1>7. QED
  BY <1>5, <1>6 DEF a, b

-----------------------------------------------------------------------------
(* Pieces in a row *)

(* FlattenSeq adds piece by piece.                                         *)
LEMMA FlattenBy ==
  ASSUME NEW ps \in Seq(Text), Len(ps) # 0
  PROVE  \E f \in [1..Len(ps) -> Text] :
           /\ Str!FlattenSeq(ps) = f[Len(ps)] /\ f[1] = ps[1]
           /\ \A i \in 2..Len(ps) : f[i] = f[i - 1] \o ps[i]
<1> DEFINE n == Len(ps)
<1>0. n \in Nat \ {0} /\ \A i \in 1..n : ps[i] \in Text
  BY LenProperties, ElementOfSeq
<1> HIDE DEF n
<1>0a. Len(ps) = n
  BY DEF n
<1> USE <1>0
<1> DEFINE Folds(f, k) == f = [i \in 1..k |-> IF i = 1 THEN ps[i] ELSE f[i - 1] \o ps[i]]
           Typed(f, k) == f \in [1..k -> Text]
<1> HIDE DEF Folds, Typed
<1> DEFINE Short == {k \in 1..n : ~ \E f : Folds(f, k) /\ Typed(f, k)}
<1>1. Short = {}
  <2>1. SUFFICES ASSUME Short # {} PROVE FALSE
    OBVIOUS
  <2>2. Short \subseteq Nat
    OBVIOUS
  <2>3. PICK k \in Short : \A j \in Short : k <= j
    BY <2>1, <2>2, LeastNat
  <2>4. k \in 1..n /\ ~ \E f : Folds(f, k) /\ Typed(f, k)
    BY <2>3
  <2>5. CASE k = 1
    <3> DEFINE g == [i \in 1..1 |-> ps[1]]
    <3>1. Folds(g, 1)
      BY SMT DEF Folds
    <3>2. Typed(g, 1)
      BY DEF Typed
    <3>3. QED
      BY <3>1, <3>2, <2>4, <2>5
  <2>6. CASE k # 1
    <3>1. k - 1 \in 1..n /\ ~(k <= k - 1)
      BY <2>4, <2>6
    <3>2. k - 1 \notin Short
      BY <3>1, <2>3
    <3>3. PICK f : Folds(f, k - 1) /\ Typed(f, k - 1)
      BY <3>1, <3>2
    <3> DEFINE x == f[k - 1] \o ps[k]
               g == [i \in 1..k |-> IF i = k THEN x ELSE f[i]]
    <3>4. k - 1 \in 1..k - 1 /\ f[k - 1] \in Text
      BY <3>1, <3>3 DEF Typed
    <3>5. x \in Text
      BY <3>4, <2>4, Joined
    <3>6. /\ \A i \in 1..k : i = k \/ i \in 1..k - 1
          /\ \A i \in 1..k - 1 : i \in 1..k /\ i # k /\ (i # 1 => i - 1 \in 1..k - 1)
      BY <2>4
    <3> HIDE DEF x
    <3>7. Typed(g, k)
      BY <3>3, <3>5, <3>6 DEF Typed
    <3>8. ASSUME NEW i \in 1..k PROVE g[i] = IF i = 1 THEN ps[i] ELSE g[i - 1] \o ps[i]
      <4>1. CASE i = k
        <5>1. g[i] = x /\ i # 1
          BY <4>1, <2>6
        <5>2. g[i - 1] = f[k - 1]
          BY <4>1, <3>6, <3>4
        <5>3. QED
          BY <5>1, <5>2, <4>1 DEF x
      <4>2. CASE i # k
        <5>1. i \in 1..k - 1 /\ g[i] = f[i]
          BY <4>2, <3>6
        <5>2. i # 1 => g[i - 1] = f[i - 1]
          BY <5>1, <3>6
        <5>3. f[i] = IF i = 1 THEN ps[i] ELSE f[i - 1] \o ps[i]
          BY <5>1, <3>3 DEF Folds
        <5>4. QED
          BY <5>1, <5>2, <5>3
      <4>3. QED
        BY <4>1, <4>2
    <3>9. Folds(g, k)
      <4>1. g = [i \in 1..k |-> g[i]]
        OBVIOUS
      <4> HIDE DEF g
      <4>2. QED
        BY <4>1, <3>8 DEF Folds
    <3>10. QED
      BY <3>7, <3>9, <2>4
  <2>7. QED
    BY <2>5, <2>6
<1>2. \E f : Folds(f, n) /\ Typed(f, n)
  <2>1. n \in 1..n
    OBVIOUS
  <2>2. QED
    BY <1>1, <2>1
<1>3. \A f, g : Folds(f, n) /\ Folds(g, n) => f = g
  <2>1. SUFFICES ASSUME NEW f, NEW g, Folds(f, n), Folds(g, n) PROVE f = g
    OBVIOUS
  <2> DEFINE Apart == {k \in 1..n : f[k] # g[k]}
  <2>2. Apart = {}
    <3>1. SUFFICES ASSUME Apart # {} PROVE FALSE
      OBVIOUS
    <3>2. Apart \subseteq Nat
      OBVIOUS
    <3>3. PICK k \in Apart : \A j \in Apart : k <= j
      BY <3>1, <3>2, LeastNat
    <3>4. k \in 1..n /\ f[k] # g[k]
      BY <3>3
    <3>5. /\ f[k] = IF k = 1 THEN ps[k] ELSE f[k - 1] \o ps[k]
          /\ g[k] = IF k = 1 THEN ps[k] ELSE g[k - 1] \o ps[k]
      BY <3>4, <2>1 DEF Folds
    <3>6. k # 1 /\ f[k - 1] # g[k - 1]
      BY <3>4, <3>5
    <3>7. k - 1 \in 1..n /\ ~(k <= k - 1)
      BY <3>4, <3>6
    <3>8. QED
      BY <3>3, <3>6, <3>7
  <2>3. f = [i \in 1..n |-> f[i]] /\ g = [i \in 1..n |-> g[i]]
    BY <2>1 DEF Folds
  <2>4. QED
    BY <2>2, <2>3
<1>4. PICK f : Folds(f, n) /\ Typed(f, n)
  BY <1>2
<1>5. Str!FlattenSeq(ps) = f[n]
  <2>1. Str!FlattenSeq(ps) = (CHOOSE g : Folds(g, n))[n]
    BY <1>0a DEF Str!FlattenSeq, Folds
  <2>2. Folds(CHOOSE g : Folds(g, n), n)
    BY <1>4
  <2>3. QED
    BY <2>1, <2>2, <1>3, <1>4
<1>6. f[1] = ps[1] /\ \A i \in 2..n : f[i] = f[i - 1] \o ps[i]
  <2>1. 1 \in 1..n /\ \A i \in 2..n : i \in 1..n /\ i # 1
    OBVIOUS
  <2>2. QED
    BY <2>1, <1>4 DEF Folds
<1>7. QED
  BY <1>4, <1>5, <1>6, <1>0a DEF Typed

(* Joining is associative.                                                 *)
LEMMA Regroup ==
  /\ \A p, q, x \in Text : (p \o q) \o x = p \o (q \o x)
  /\ \A p, q, x \in Seq(Text) : (p \o q) \o x = p \o (q \o x)
<1>1. \A p, q, x \in Text : (p \o q) \o x = p \o (q \o x)
  BY ConcatAssociative DEF Text
<1>2. \A p, q, x \in Seq(Text) : (p \o q) \o x = p \o (q \o x)
  BY ConcatAssociative
<1>3. QED
  BY <1>1, <1>2

(* No pieces make no text; one more piece comes at the end.                *)
LEMMA FlattenAppend ==
  ASSUME NEW ps \in Seq(Text), NEW x \in Text
  PROVE  /\ Str!FlattenSeq(ps) \in Text
         /\ Str!FlattenSeq(Append(ps, x)) = Str!FlattenSeq(ps) \o x
         /\ ps = <<>> => Str!FlattenSeq(ps) = <<>>
<1> DEFINE n == Len(ps)
           qs == Append(ps, x)
<1>1. /\ n \in Nat /\ ps = [i \in 1..n |-> ps[i]] /\ \A i \in 1..n : ps[i] \in Text
      /\ qs \in Seq(Text) /\ Len(qs) = n + 1 /\ qs[n + 1] = x /\ \A i \in 1..n : qs[i] = ps[i]
  <2>1. n \in Nat /\ ps \in [1..n -> Text]
    BY LenProperties
  <2>2. qs \in Seq(Text) /\ Len(qs) = n + 1 /\ qs[n + 1] = x /\ \A i \in 1..n : qs[i] = ps[i]
    BY AppendProperties
  <2>3. QED
    BY <2>1, <2>2
<1>1a. n \in Nat
  BY <1>1
<1> HIDE DEF n, qs
<1>3. PICK g \in [1..n + 1 -> Text] :
        /\ Str!FlattenSeq(qs) = g[n + 1] /\ g[1] = qs[1]
        /\ \A i \in 2..n + 1 : g[i] = g[i - 1] \o qs[i]
  <2>1. n + 1 # 0
    BY <1>1a
  <2>2. qs \in Seq(Text) /\ Len(qs) # 0
    BY <2>1, <1>1
  <2>3. PICK g \in [1..Len(qs) -> Text] :
          /\ Str!FlattenSeq(qs) = g[Len(qs)] /\ g[1] = qs[1]
          /\ \A i \in 2..Len(qs) : g[i] = g[i - 1] \o qs[i]
    BY <2>2, FlattenBy
  <2>4. Len(qs) = n + 1
    BY <1>1
  <2>5. QED
    BY <2>3, <2>4
<1>4. CASE n = 0
  <2>1. ps = <<>>
    BY <1>1, <1>4, EmptySeq DEF n
  <2>2. Str!FlattenSeq(ps) = <<>>
    BY <2>1, <1>4 DEF Str!FlattenSeq, n
  <2>3. Str!FlattenSeq(qs) = x
    BY <1>1, <1>3, <1>4
  <2>4. QED
    BY <2>2, <2>3, ConcatEmptySeq, EmptySeq DEF qs, Text
<1>5. CASE n # 0
  <2>1. n \in Nat \ {0} /\ ps # <<>>
    BY <1>1, <1>5, EmptySeq DEF n
  <2>2. PICK f \in [1..n -> Text] :
          /\ Str!FlattenSeq(ps) = f[n] /\ f[1] = ps[1]
          /\ \A i \in 2..n : f[i] = f[i - 1] \o ps[i]
    BY <1>5, FlattenBy DEF n
  <2> DEFINE Apart == {k \in 1..n : f[k] # g[k]}
  <2>2a. Apart \subseteq Nat /\ \A k : k \in Apart <=> k \in 1..n /\ f[k] # g[k]
    BY <1>1a
  <2> HIDE DEF Apart
  <2>3. \A k \in 1..n : f[k] = g[k]
    <3>1. SUFFICES ASSUME Apart # {} PROVE FALSE
      BY <2>2a
    <3>3. PICK k \in Apart : \A j \in Apart : k <= j
      BY <3>1, <2>2a, LeastNat
    <3>4. k \in 1..n /\ f[k] # g[k]
      BY <3>3, <2>2a
    <3>5. k # 1
      BY <3>4, <2>2, <1>3, <1>1
    <3>6. k \in 2..n /\ k \in 2..n + 1 /\ k - 1 \in 1..n /\ ~(k <= k - 1)
      <4>1. k \in 1..n
        BY <3>4
      <4>2. QED
        BY <4>1, <3>5, <1>1a
    <3>7. f[k - 1] = g[k - 1]
      BY <3>6, <3>3, <2>2a
    <3>8. QED
      BY <3>4, <3>6, <3>7, <2>2, <1>3, <1>1
  <2>4. n \in 1..n /\ n + 1 \in 2..n + 1 /\ n + 1 - 1 = n
    BY <2>1
  <2>5. f[n] = g[n] /\ g[n + 1] = g[n] \o x
    <3>1. qs[n + 1] = x
      BY <1>1
    <3> DEFINE k == n + 1
    <3>2. k \in 2..n + 1 /\ k - 1 = n
      BY <2>4
    <3> HIDE DEF k
    <3>3. g[k] = g[k - 1] \o qs[k]
      BY <3>2, <1>3
    <3>4. QED
      BY <2>3, <2>4, <3>1, <3>2, <3>3 DEF k
  <2>6. QED
    BY <2>1, <2>2, <2>4, <2>5, <1>3 DEF qs
<1>6. QED
  BY <1>4, <1>5

(* One more piece, after two lists.                                        *)
LEMMA FlattenMore ==
  ASSUME NEW ps \in Seq(Text), NEW a \in Seq(Text), NEW x \in Text,
         Str!FlattenSeq(ps \o a) = Str!FlattenSeq(ps) \o Str!FlattenSeq(a)
  PROVE  Str!FlattenSeq(ps \o Append(a, x)) = Str!FlattenSeq(ps) \o Str!FlattenSeq(Append(a, x))
<1>1. ps \o Append(a, x) = Append(ps \o a, x) /\ ps \o a \in Seq(Text)
  <2>1. Append(a, x) = a \o <<x>> /\ Append(ps \o a, x) = (ps \o a) \o <<x>> /\ ps \o a \in Seq(Text)
    BY ConcatProperties, AppendIsConcat
  <2>2. <<x>> \in Seq(Text)
    OBVIOUS
  <2>3. QED
    BY <2>1, <2>2, Regroup
<1>2. Str!FlattenSeq(ps \o Append(a, x)) = (Str!FlattenSeq(ps) \o Str!FlattenSeq(a)) \o x
  BY <1>1, FlattenAppend
<1>3. /\ Str!FlattenSeq(Append(a, x)) = Str!FlattenSeq(a) \o x
      /\ Str!FlattenSeq(a) \in Text /\ Str!FlattenSeq(ps) \in Text
  BY FlattenAppend
<1> DEFINE p == Str!FlattenSeq(ps)
           q == Str!FlattenSeq(a)
<1>4. p \in Text /\ q \in Text
  BY <1>3
<1> HIDE DEF p, q
<1>5. (p \o q) \o x = p \o (q \o x)
  BY <1>4, Regroup
<1>6. QED
  BY <1>2, <1>3, <1>5 DEF p, q

(* The pieces of two lists, one after the other.                           *)
LEMMA FlattenCat ==
  ASSUME NEW ps \in Seq(Text), NEW qs \in Seq(Text)
  PROVE  Str!FlattenSeq(ps \o qs) = Str!FlattenSeq(ps) \o Str!FlattenSeq(qs)
<1> DEFINE n == Len(qs)
           Front(k) == SubSeq(qs, 1, k)
           Fits(k) == Str!FlattenSeq(ps \o Front(k)) = Str!FlattenSeq(ps) \o Str!FlattenSeq(Front(k))
<1>1. n \in Nat /\ \A i \in 1..n : qs[i] \in Text
  BY LenProperties, ElementOfSeq
<1>2. \A k \in 0..n : Front(k) \in Seq(Text)
  <2>1. SUFFICES ASSUME NEW k \in 0..n PROVE Front(k) \in Seq(Text)
    OBVIOUS
  <2>2. k \in Int /\ \A i \in 1..k : qs[i] \in Text
    <3>1. k \in Int /\ \A i \in 1..k : i \in 1..n
      BY <1>1
    <3>2. QED
      BY <3>1, <1>1
  <2>3. QED
    BY <2>2, SubSeqProperties
<1>3. Front(0) = <<>> /\ Front(n) = qs
  BY <1>1, SubSeqEmpty, SubSeqFull
<1>4. \A k \in 1..n : Front(k) = Append(Front(k - 1), qs[k])
  <2>1. SUFFICES ASSUME NEW k \in 1..n PROVE Front(k) = Append(Front(k - 1), qs[k])
    OBVIOUS
  <2>2. k \in 1..n /\ 1 \in 1..n /\ k \in 1..n /\ k \in 1..Len(qs) /\ 1 \in 1..Len(qs) /\ k - 1 \in 0..n
    BY <1>1
  <2>3. SubSeq(qs, 1, k) = SubSeq(qs, 1, k - 1) \o <<qs[k]>>
    BY <2>2, SubSeqRecursiveSecond
  <2>4. Append(Front(k - 1), qs[k]) = Front(k - 1) \o <<qs[k]>>
    BY <2>2, <1>1, <1>2, AppendIsConcat
  <2>5. QED
    BY <2>3, <2>4
<1> HIDE DEF n, Front
<1>5. Fits(0)
  <2>1. ps \o <<>> = ps
    BY ConcatEmptySeq
  <2>2. Str!FlattenSeq(ps) \in Text
    <3>1. <<>> \in Text
      BY EmptySeq DEF Text
    <3>2. QED
      BY <3>1, FlattenAppend
  <2>3. <<>> \in Seq(Text) /\ <<>> \in Text
    BY EmptySeq DEF Text
  <2>4. Str!FlattenSeq(<<>>) = <<>>
    BY <2>3, FlattenAppend
  <2>5. Str!FlattenSeq(ps) \o <<>> = Str!FlattenSeq(ps)
    BY <2>2, ConcatEmptySeq DEF Text
  <2>6. QED
    BY <2>1, <2>4, <2>5, <1>3
<1>6. \A k \in 1..n : Fits(k - 1) => Fits(k)
  <2>1. SUFFICES ASSUME NEW k \in 1..n, Fits(k - 1) PROVE Fits(k)
    OBVIOUS
  <2> DEFINE a == Front(k - 1)
             x == qs[k]
  <2>2. a \in Seq(Text) /\ x \in Text /\ Front(k) = Append(a, x)
    BY <1>1, <1>2, <1>4
  <2>3. Str!FlattenSeq(ps \o a) = Str!FlattenSeq(ps) \o Str!FlattenSeq(a)
    BY <2>1
  <2> HIDE DEF a, x
  <2>4. Str!FlattenSeq(ps \o Append(a, x)) = Str!FlattenSeq(ps) \o Str!FlattenSeq(Append(a, x))
    BY <2>2, <2>3, FlattenMore
  <2>5. QED
    BY <2>2, <2>4
<1> HIDE DEF Fits
<1> DEFINE Bad == {k \in 0..n : ~Fits(k)}
<1>7. Bad = {}
  <2>1. SUFFICES ASSUME Bad # {} PROVE FALSE
    OBVIOUS
  <2>2. Bad \subseteq Nat
    BY <1>1
  <2>3. PICK k \in Bad : \A j \in Bad : k <= j
    BY <2>1, <2>2, LeastNat
  <2>4. k \in 0..n /\ ~Fits(k)
    BY <2>3
  <2>5. k # 0
    BY <2>4, <1>5
  <2>6. k \in 1..n /\ k - 1 \in 0..n /\ ~(k <= k - 1)
    BY <2>4, <2>5, <1>1
  <2>7. QED
    BY <2>3, <2>4, <2>6, <1>6
<1>8. Fits(n)
  <2>1. n \in 0..n
    BY <1>1
  <2>2. QED
    BY <2>1, <1>7
<1>9. QED
  BY <1>8, <1>3 DEF Fits

(* What from_utf8_lossy makes of bytes: a text, which ends in U+FFFD if    *)
(* the bytes end inside a character.                                       *)
LEMMA LossyText ==
  ASSUME NEW b \in Text
  PROVE  /\ Str!Lossy(b) \in Text
         /\ b = <<>> => Str!Lossy(b) = <<>>
         /\ Str!Incomplete(b) => Len(Str!Lossy(b)) > 0 /\ Str!Lossy(b)[Len(Str!Lossy(b))] = "?"
<1> DEFINE n == Len(b)
           Piece(i) == CASE b[i] = "u1" -> IF Str!At(b, i, <<"u1", "u2">>) THEN <<"u">> ELSE <<"?">>
                         [] b[i] = "u2" -> IF i > 1 /\ b[i - 1] = "u1" THEN <<>> ELSE <<"?">>
                         [] OTHER -> <<b[i]>>
           ps == [i \in 1..n |-> Piece(i)]
<1>1. n \in Nat /\ \A i \in 1..n : b[i] \in Letters
  BY LenProperties, ElementOfSeq DEF Text
<1>2. \A i \in 1..n : Piece(i) \in Text
  <2>1. SUFFICES ASSUME NEW i \in 1..n PROVE Piece(i) \in Text
    OBVIOUS
  <2>1a. b[i] \in Letters
    BY <1>1
  <2>2. <<"u">> \in Text /\ <<"?">> \in Text /\ <<>> \in Text /\ <<b[i]>> \in Text
    <3>0. "u" \in Letters /\ "?" \in Letters
      BY DEF Letters
    <3>1. <<"u">> \in Text /\ <<"?">> \in Text /\ <<b[i]>> \in Text
      BY <2>1a, <3>0, OneLetter DEF Text
    <3>2. <<>> \in Text
      BY EmptySeq DEF Text
    <3>3. QED
      BY <3>1, <3>2
  <2>3. CASE b[i] = "u1"
    BY <2>2, <2>3
  <2>4. CASE b[i] = "u2"
    BY <2>2, <2>4
  <2>5. CASE b[i] # "u1" /\ b[i] # "u2"
    BY <2>2, <2>5
  <2>6. QED
    BY <2>3, <2>4, <2>5
<1>3. Str!Lossy(b) = Str!FlattenSeq(ps)
  BY DEF Str!Lossy
<1>4. Str!Incomplete(b) => n # 0 /\ Piece(n) = <<"?">>
  <2>1. SUFFICES ASSUME Str!Incomplete(b) PROVE n # 0 /\ Piece(n) = <<"?">>
    OBVIOUS
  <2>2. n > 0 /\ b[n] = "u1"
    BY <2>1 DEF Str!Incomplete
  <2>3. ~Str!At(b, n, <<"u1", "u2">>)
    BY <1>1 DEF Str!At
  <2>4. QED
    BY <1>1, <2>2, <2>3
<1> HIDE DEF Piece
<1>5. ps \in [1..n -> Text] /\ DOMAIN ps = 1..n
  BY <1>2
<1>6. ps \in Seq(Text) /\ Len(ps) = n /\ ps = [i \in 1..n |-> ps[i]]
  <2>1. ps \in Seq(Text)
    BY <1>1, <1>5, SeqDef
  <2>2. QED
    BY <2>1, <1>1, <1>5, LenProperties
<1>7. Str!FlattenSeq(ps) \in Text /\ (n = 0 => Str!FlattenSeq(ps) = <<>>)
  <2> HIDE DEF ps
  <2>1. n = 0 => Str!FlattenSeq(ps) = <<>>
    BY <1>6 DEF Str!FlattenSeq
  <2>2. <<>> \in Text
    BY EmptySeq DEF Text
  <2>3. n # 0 => Str!FlattenSeq(ps) \in Text
    <3>1. SUFFICES ASSUME n # 0 PROVE Str!FlattenSeq(ps) \in Text
      OBVIOUS
    <3>2. ps \in Seq(Text) /\ Len(ps) # 0
      BY <3>1, <1>6
    <3>3. PICK f \in [1..Len(ps) -> Text] : Str!FlattenSeq(ps) = f[Len(ps)]
      BY <3>2, FlattenBy
    <3>4. Len(ps) \in 1..Len(ps)
      BY <3>1, <1>1, <1>6
    <3>5. QED
      BY <3>3, <3>4 DEF Text
  <2>4. QED
    BY <2>1, <2>2, <2>3
<1> HIDE DEF n
<1>8. ASSUME n # 0, Piece(n) = <<"?">>
      PROVE  Len(Str!FlattenSeq(ps)) > 0 /\ Str!FlattenSeq(ps)[Len(Str!FlattenSeq(ps))] = "?"
  <2>1. n \in Nat \ {0} /\ n \in 1..n /\ ps[n] = <<"?">>
    BY <1>1, <1>8
  <2>2. \A i \in 1..n : ps[i] \in Text
    BY <1>5 DEF Text
  <2> HIDE DEF ps
  <2>3. PICK f \in [1..n -> Text] :
          /\ Str!FlattenSeq(ps) = f[n] /\ f[1] = ps[1]
          /\ \A i \in 2..n : f[i] = f[i - 1] \o ps[i]
    <3>1. ps \in Seq(Text) /\ Len(ps) = n /\ Len(ps) # 0
      BY <1>8, <1>6
    <3>2. QED
      BY <3>1, FlattenBy
  <2>4. CASE n = 1
    BY <2>1, <2>3, <2>4
  <2>5. CASE n # 1
    <3>1. n \in 2..n /\ n - 1 \in 1..n
      BY <2>1, <2>5
    <3>2. f[n] = f[n - 1] \o <<"?">> /\ f[n - 1] \in Text
      BY <3>1, <2>1, <2>3 DEF Text
    <3>3. <<"?">> \in Text /\ Len(<<"?">>) = 1 /\ 1 \in 1..Len(<<"?">>) /\ <<"?">>[1] = "?"
      <4>1. "?" \in Letters
        BY DEF Letters
      <4>2. QED
        BY <4>1, OneLetter DEF Text
    <3> DEFINE u == f[n - 1]
               q == <<"?">>
    <3>3a. u \in Text /\ q \in Text /\ Len(q) = 1 /\ 1 \in 1..Len(q) /\ q[1] = "?" /\ f[n] = u \o q
      BY <3>2, <3>3
    <3> HIDE DEF u, q
    <3>3b. Len(u \o q) = Len(u) + 1 /\ (u \o q)[Len(u) + 1] = "?" /\ Len(u) \in Nat
      <4>1. /\ Len(u) \in Nat /\ Len(u \o q) = Len(u) + Len(q)
            /\ \A i \in 1..Len(q) : (u \o q)[Len(u) + i] = q[i]
        BY <3>3a, Joined
      <4>2. QED
        BY <3>3a, <4>1
    <3>4. Len(f[n]) = Len(f[n - 1]) + 1 /\ f[n][Len(f[n - 1]) + 1] = "?" /\ Len(f[n - 1]) \in Nat
      BY <3>3a, <3>3b DEF u
    <3>5. QED
      BY <3>4, <2>3
  <2>6. QED
    BY <2>4, <2>5
<1>9. b = <<>> => n = 0
  BY DEF n
<1>10. QED
  BY <1>3, <1>4, <1>7, <1>8, <1>9
-----------------------------------------------------------------------------
(* Stop sequences in a text *)

\* No stop sequence stands in t.
Clean(t) == \A s \in Stops : \A k \in 1..Len(t) : ~Stands(t, k, s)

\* t ends with the first n letters of s.
EndsWith(t, s, n) == n <= Len(t) /\ \A m \in 1..n : t[Len(t) - n + m] = s[m]

\* No stop sequence has begun at the end of t.
Settled(t) == \A s \in Stops : \A n \in 1..Len(s) - 1 : ~EndsWith(t, s, n)

(* A stop sequence is a text.                                              *)
LEMMA StopText == Stops \subseteq Text
BY StreamAssumption, StringText

(* EndsInPrefix, letter by letter.                                         *)
LEMMA SettledMeans ==
  ASSUME NEW t \in Text
  PROVE  Str!EndsInPrefix(t) <=> ~Settled(t)
<1>1. ASSUME NEW s \in Stops, NEW n \in 1..Len(s) - 1
      PROVE  Str!IsSuffix(SubSeq(s, 1, n), t) <=> EndsWith(t, s, n)
  <2>1. s \in Text /\ Len(s) \in Nat
    BY StopText, TextLetters
  <2>2. n \in Nat /\ n <= Len(s) /\ 1 \in Nat \ {0} /\ 1 <= n
    BY <2>1, <1>1
  <2> DEFINE p == SubSeq(s, 1, n)
  <2>3. p \in Text /\ Len(p) = n /\ \A m \in 1..n : p[m] = s[m]
    <3>1. /\ p \in Text /\ Len(p) = IF 1 <= n THEN n - 1 + 1 ELSE 0
          /\ \A i \in 1..Len(p) : p[i] = s[1 + i - 1]
      BY <2>1, <2>2, Cut
    <3> HIDE DEF p
    <3>2. Len(p) = n /\ \A i \in 1..n : 1 + i - 1 = i
      BY <3>1, <2>2
    <3>3. QED
      BY <3>1, <3>2
  <2> HIDE DEF p
  <2>4. Str!IsSuffix(p, t) <=> n <= Len(t) /\ \A m \in 1..n : t[Len(t) - n + m] = p[m]
    BY <2>3, SuffixMeans
  <2>5. QED
    BY <2>3, <2>4 DEF EndsWith, p
<1>2. QED
  BY <1>1 DEF Str!EndsInPrefix, Settled

(* Nothing stands in no text, and nothing has begun.                       *)
LEMMA NoText == Clean(<<>>) /\ Settled(<<>>) /\ <<>> \in Text /\ Len(<<>>) = 0
<1>1. <<>> \in Text /\ Len(<<>>) = 0
  BY EmptySeq DEF Text
<1>2. \A s \in Stops : Len(s) \in Nat
  BY StopText, TextLetters
<1>3. QED
  BY <1>1, <1>2 DEF Clean, Settled, EndsWith

(* A stop sequence that stands in two texts joined stands in one of them,  *)
(* or the first ends in a part of it.                                      *)
LEMMA JoinClean ==
  ASSUME NEW a \in Text, NEW b \in Text, Clean(a), Clean(b), Settled(a)
  PROVE  Clean(a \o b)
<1> DEFINE x == Len(a)
           y == Len(b)
           c == a \o b
<1>1. /\ x \in Nat /\ y \in Nat /\ Len(c) = x + y
      /\ \A i \in 1..x : c[i] = a[i]
      /\ \A i \in 1..y : c[x + i] = b[i]
  BY Joined
<1> HIDE DEF x, y, c
<1>2. SUFFICES ASSUME NEW s \in Stops, NEW k \in 1..x + y, Stands(c, k, s)
               PROVE  FALSE
  BY <1>1 DEF Clean, c
<1> DEFINE l == Len(s)
<1>3. l \in Nat
  BY StopText, TextLetters
<1>4. k + l - 1 <= x + y /\ \A m \in 1..l : c[k + m - 1] = s[m]
  BY <1>1, <1>2 DEF Stands
<1> HIDE DEF l
<1>5. CASE k <= x /\ k + l - 1 <= x
  <2>1. k \in 1..x /\ \A m \in 1..l : k + m - 1 \in 1..x
    BY <1>1, <1>3, <1>5
  <2>2. Stands(a, k, s)
    BY <1>1, <1>4, <1>5, <2>1 DEF Stands, x, l
  <2>3. QED
    BY <2>1, <2>2 DEF Clean, x
<1>6. CASE k > x
  <2>1. k - x \in 1..y /\ \A m \in 1..l : k - x + m - 1 \in 1..y /\ x + (k - x + m - 1) = k + m - 1
    BY <1>1, <1>3, <1>4, <1>6
  <2>2. \A m \in 1..l : b[k - x + m - 1] = s[m]
    BY <1>1, <1>4, <2>1
  <2>3. k - x + l - 1 <= y
    BY <1>1, <1>3, <1>4
  <2>4. Stands(b, k - x, s)
    BY <2>2, <2>3 DEF Stands, y, l
  <2>5. QED
    BY <2>1, <2>4 DEF Clean, y
<1>7. CASE k <= x /\ k + l - 1 > x
  <2> DEFINE n == x - k + 1
  <2>1. n \in 1..l - 1 /\ n <= x /\ \A m \in 1..n : m \in 1..l /\ x - n + m \in 1..x /\ x - n + m = k + m - 1
    BY <1>1, <1>3, <1>7
  <2> HIDE DEF n
  <2>2. \A m \in 1..n : a[x - n + m] = s[m]
    BY <1>1, <1>4, <2>1
  <2>3. EndsWith(a, s, n)
    BY <2>1, <2>2 DEF EndsWith, x
  <2>4. QED
    BY <2>1, <2>3 DEF Settled, l
<1>8. QED
  BY <1>1, <1>3, <1>5, <1>6, <1>7

(* Two settled texts joined are settled.                                   *)
LEMMA JoinSettled ==
  ASSUME NEW a \in Text, NEW b \in Text, Settled(a), Settled(b)
  PROVE  Settled(a \o b)
<1> DEFINE x == Len(a)
           y == Len(b)
           c == a \o b
<1>1. /\ x \in Nat /\ y \in Nat /\ Len(c) = x + y
      /\ \A i \in 1..x : c[i] = a[i]
      /\ \A i \in 1..y : c[x + i] = b[i]
  BY Joined
<1> HIDE DEF x, y, c
<1>2. SUFFICES ASSUME NEW s \in Stops, NEW n \in 1..Len(s) - 1, EndsWith(c, s, n)
               PROVE  FALSE
  BY DEF Settled, c
<1> DEFINE l == Len(s)
<1>3. l \in Nat /\ n \in 1..l - 1
  BY StopText, TextLetters
<1>4. n <= x + y /\ \A m \in 1..n : c[x + y - n + m] = s[m]
  BY <1>1, <1>2 DEF EndsWith
<1> HIDE DEF l
<1>5. CASE n <= y
  <2>1. \A m \in 1..n : y - n + m \in 1..y /\ x + (y - n + m) = x + y - n + m
    BY <1>1, <1>3, <1>5
  <2>2. \A m \in 1..n : b[y - n + m] = s[m]
    BY <1>1, <1>4, <2>1
  <2>3. EndsWith(b, s, n)
    BY <1>5, <2>2 DEF EndsWith, y
  <2>4. QED
    BY <1>3, <2>3 DEF Settled, l
<1>6. CASE n > y
  <2> DEFINE k == n - y
  <2>1. k \in 1..l - 1 /\ k <= x
    BY <1>1, <1>3, <1>4, <1>6
  <2>2. \A m \in 1..k : m \in 1..n /\ x - k + m \in 1..x /\ x - k + m = x + y - n + m
    BY <1>1, <1>3, <1>4, <1>6
  <2> HIDE DEF k
  <2>3. \A m \in 1..k : a[x - k + m] = s[m]
    BY <1>1, <1>4, <2>2
  <2>4. EndsWith(a, s, k)
    BY <2>1, <2>3 DEF EndsWith, x
  <2>5. QED
    BY <2>1, <2>4 DEF Settled, l
<1>7. QED
  BY <1>1, <1>3, <1>5, <1>6

(* Where flush_pending cuts: no stop sequence stands before that place,    *)
(* or in the whole text if there is none.                                  *)
LEMMA StopCut ==
  ASSUME NEW t \in Text
  PROVE  LET p == Str!StopAt(t)
         IN  /\ p \in Nat
             /\ p = 0 => Clean(t)
             /\ p # 0 => Str!Before(t, p) \in Text /\ Clean(Str!Before(t, p))
<1> DEFINE at == {Str!FindFrom(t, 1, s) : s \in Stops} \ {0}
           p == Str!StopAt(t)
           n == Len(t)
<1>1. n \in Nat
  BY TextLetters
<1>2. p = IF at = {} THEN 0 ELSE Str!Min(at)
  BY DEF Str!StopAt
<1>3. \A s \in Stops : LET q == Str!FindFrom(t, 1, s)
                       IN  /\ q \in Nat
                           /\ q = 0 => \A k \in 1..n : ~Stands(t, k, s)
                           /\ q # 0 => q \in 1..n /\ \A k \in 1..q - 1 : ~Stands(t, k, s)
  BY StopText, FindHas
<1>4. \A q \in at : q \in Nat /\ q \in 1..n
  BY <1>3
<1>5. \A s \in Stops : Str!FindFrom(t, 1, s) = 0 \/ Str!FindFrom(t, 1, s) \in at
  OBVIOUS
<1> HIDE DEF at, n
<1>6. CASE at = {}
  <2>1. p = 0
    BY <1>2, <1>6
  <2>2. \A s \in Stops : \A k \in 1..n : ~Stands(t, k, s)
    BY <1>3, <1>5, <1>6
  <2>3. QED
    BY <2>1, <2>2 DEF Clean, n
<1>7. CASE at # {}
  <2> HIDE DEF p
  <2>1. at \subseteq Nat
    BY <1>4
  <2>2. p \in at /\ \A m \in at : p <= m
    BY <1>2, <1>7, <2>1, MinHas
  <2>3. p \in 1..n /\ p # 0 /\ p \in Nat /\ p - 1 \in Nat /\ p - 1 <= n /\ p - 1 < p
    BY <1>1, <1>4, <2>2
  <2> DEFINE u == Str!Before(t, p)
  <2>4. u \in Text /\ Len(u) = p - 1 /\ \A i \in 1..p - 1 : u[i] = t[i]
    <3>1. u = SubSeq(t, 1, p - 1)
      BY DEF Str!Before
    <3> HIDE DEF u
    <3>2. /\ u \in Text /\ Len(u) = IF 1 <= p - 1 THEN p - 1 - 1 + 1 ELSE 0
          /\ \A i \in 1..Len(u) : u[i] = t[1 + i - 1]
      <4>1. 1 \in Nat \ {0} /\ p - 1 <= Len(t)
        BY <2>3 DEF n
      <4>2. QED
        BY <2>3, <3>1, <4>1, Cut
    <3>3. Len(u) = p - 1 /\ \A i \in 1..p - 1 : 1 + i - 1 = i
      BY <2>3, <3>2
    <3>4. QED
      BY <3>2, <3>3
  <2> HIDE DEF u
  <2>5. ASSUME NEW s \in Stops, NEW k \in 1..p - 1, Stands(u, k, s) PROVE FALSE
    <3> DEFINE q == Str!FindFrom(t, 1, s)
               l == Len(s)
    <3>1. l \in Nat
      BY StopText, TextLetters
    <3>2. k + l - 1 <= p - 1 /\ \A m \in 1..l : u[k + m - 1] = s[m]
      BY <2>4, <2>5 DEF Stands
    <3> HIDE DEF l
    <3>3. k \in 1..n /\ k + l - 1 <= n /\ \A m \in 1..l : k + m - 1 \in 1..p - 1
      BY <1>1, <2>3, <3>1, <3>2
    <3>4. Stands(t, k, s)
      BY <2>4, <3>2, <3>3 DEF Stands, n, l
    <3>5. q \in Nat /\ q # 0 /\ q \in at
      BY <1>3, <1>5, <3>3, <3>4
    <3>6. p <= q /\ q \in Nat
      BY <2>2, <3>5
    <3> HIDE DEF q
    <3>7. k \in 1..q - 1
      BY <2>3, <3>6
    <3>8. QED
      BY <1>3, <3>4, <3>5, <3>7 DEF q
  <2>6. Clean(u)
    BY <2>4, <2>5 DEF Clean
  <2>7. QED
    BY <2>3, <2>4, <2>6 DEF p, u
<1>8. QED
  BY <1>6, <1>7

(* What flush_pending gives out: a text no stop sequence stands in, and,   *)
(* unless one was hit, in whose end none has begun; bytes it keeps are     *)
(* incomplete or hold no stop sequence.                                    *)
LEMMA FlushSafe ==
  ASSUME NEW b \in Text
  PROVE  LET f == Str!Flush(b)
         IN  /\ f.emit \in Text /\ f.left \in Text /\ f.stop \in BOOLEAN
             /\ Clean(f.emit)
             /\ ~f.stop => Settled(f.emit)
             /\ f.stop => f.left = <<>>
             /\ f.left # <<>> => Str!Incomplete(f.left) \/ Clean(Str!Lossy(f.left))
<1> DEFINE f == Str!Flush(b)
           t == Str!Lossy(b)
           p == Str!StopAt(t)
<1>1. t \in Text
  BY LossyText
<1>2. /\ p \in Nat /\ (p = 0 => Clean(t))
      /\ (p # 0 => Str!Before(t, p) \in Text /\ Clean(Str!Before(t, p)))
  BY <1>1, StopCut
<1>3. Str!EndsInPrefix(t) <=> ~Settled(t)
  BY <1>1, SettledMeans
<1>4. f = IF b = <<>> \/ Str!Incomplete(b) THEN [emit |-> <<>>, stop |-> FALSE, left |-> b]
          ELSE IF p > 0 THEN [emit |-> Str!Before(t, p), stop |-> TRUE, left |-> <<>>]
          ELSE IF Str!EndsInPrefix(t) THEN [emit |-> <<>>, stop |-> FALSE, left |-> b]
          ELSE [emit |-> t, stop |-> FALSE, left |-> <<>>]
  BY DEF Str!Flush
<1>4a. p > 0 <=> p # 0
  BY <1>2
<1> HIDE DEF f, p
<1>5. CASE b = <<>> \/ Str!Incomplete(b)
  <2>1. f.emit = <<>> /\ f.stop = FALSE /\ f.left = b
    BY <1>4, <1>5
  <2>2. QED
    BY <2>1, <1>5, NoText DEF f
<1>6. CASE ~(b = <<>> \/ Str!Incomplete(b)) /\ p # 0
  <2>1. f.emit = Str!Before(t, p) /\ f.stop = TRUE /\ f.left = <<>>
    BY <1>4, <1>4a, <1>6
  <2>2. QED
    BY <2>1, <1>2, <1>6, NoText DEF f
<1>7. CASE ~(b = <<>> \/ Str!Incomplete(b)) /\ p = 0 /\ Str!EndsInPrefix(t)
  <2>1. f.emit = <<>> /\ f.stop = FALSE /\ f.left = b
    BY <1>4, <1>4a, <1>7
  <2>2. QED
    BY <2>1, <1>2, <1>7, NoText DEF f
<1>8. CASE ~(b = <<>> \/ Str!Incomplete(b)) /\ p = 0 /\ ~Str!EndsInPrefix(t)
  <2>1. f.emit = t /\ f.stop = FALSE /\ f.left = <<>>
    BY <1>4, <1>4a, <1>8
  <2>2. QED
    BY <2>1, <1>1, <1>2, <1>3, <1>8, NoText DEF f
<1>9. QED
  BY <1>5, <1>6, <1>7, <1>8
-----------------------------------------------------------------------------
(* The connection's thread *)

\* Generating, or handing the client what a token gave.
Giving == thread \in {"idle", "handle", "wait", "check", "tail"} \/ (thread = "push" /\ back = "check")

\* While the text grows no stop sequence stands in it; only the end of a
\* generation may add one, after U+FFFD.
StopInv ==
  /\ DOMAIN req = {"stream", "max", "usage", "vocab"} /\ req.vocab \subseteq Text
  /\ text \in Text /\ pending \in Text
  /\ back \in {"check", "finish"}
  /\ thread \in {"idle", "handle", "wait"} => fin = ""
  /\ thread = "tail" => fin # ""
  /\ Giving => /\ Clean(text)
               /\ fin = "" \/ pending # <<>> => Settled(text)
               /\ pending # <<>> => Str!Incomplete(pending) \/ Clean(Str!Lossy(pending))
  /\ Clean(text) \/ (~Giving /\ fin # "" /\ text[Len(text)] = "?")

(* A connection starts with no text.                                       *)
LEMMA StopInit ==
  ASSUME Str!Init
  PROVE  StopInv
<1>1. /\ thread = "idle" /\ req = Str!NoRequest /\ pending = <<>> /\ fin = "" /\ text = <<>> /\ back = "check"
  BY DEF Str!Init
<1>2. DOMAIN req = {"stream", "max", "usage", "vocab"} /\ req.vocab = {}
  BY <1>1 DEF Str!NoRequest
<1>3. QED
  BY <1>1, <1>2, NoText DEF StopInv, Giving

(* So does the next request.                                               *)
LEMMA StopFresh ==
  ASSUME Str!Fresh
  PROVE  StopInv'
<1>1. /\ thread' = "idle" /\ req' = Str!NoRequest /\ pending' = <<>> /\ fin' = "" /\ text' = <<>> /\ back' = "check"
  BY DEF Str!Fresh
<1>2. DOMAIN req' = {"stream", "max", "usage", "vocab"} /\ req'.vocab = {}
  BY <1>1 DEF Str!NoRequest
<1>3. QED
  BY <1>1, <1>2, NoText DEF StopInv, Giving, Clean, Settled, EndsWith

(* A step that leaves the text and what decides it alone.                  *)
LEMMA StopKept ==
  ASSUME StopInv, UNCHANGED <<req, text, pending, fin, back>>,
         thread' \in {"idle", "handle", "wait"} => fin = "",
         thread' = "tail" => fin # "",
         Giving' => Giving
  PROVE  StopInv'
<1>1. Clean(text)' <=> Clean(text)
  BY DEF Clean
<1>2. Settled(text)' <=> Settled(text)
  BY DEF Settled, EndsWith
<1>3. (Str!Incomplete(pending))' <=> Str!Incomplete(pending)
  BY DEF Str!Incomplete, Str!BadByte, Str!At
<1>4. Clean(Str!Lossy(pending))' <=> Clean(Str!Lossy(pending))
  BY DEF Clean, Str!Lossy, Str!At
<1>5. QED
  BY <1>1, <1>2, <1>3, <1>4 DEF StopInv

(* A token: the text grows by what flush_pending lets out.                 *)
LEMMA StopToken ==
  ASSUME StopInv, Str!Token
  PROVE  StopInv'
<1>1. /\ thread = "wait" /\ fin = "" /\ Giving /\ req' = req
  BY DEF Str!Token, StopInv, Giving
<1>2. CASE fin' = "stop" /\ thread' = "tail" /\ UNCHANGED <<pending, text, back>>
  BY <1>1, <1>2 DEF StopInv, Giving
<1>3. CASE \E t \in req.vocab :
             LET f == Str!Flush(pending \o t)
             IN  /\ pending' = f.left
                 /\ fin' = IF f.stop THEN "stop" ELSE ""
                 /\ Str!Emit(f.emit, "check")
  <2>1. PICK t \in req.vocab :
             LET f == Str!Flush(pending \o t)
             IN  /\ pending' = f.left
                 /\ fin' = IF f.stop THEN "stop" ELSE ""
                 /\ Str!Emit(f.emit, "check")
    BY <1>3
  <2>2. pending \o t \in Text
    <3>1. pending \in Text /\ t \in Text
      BY <2>1 DEF StopInv
    <3>2. QED
      BY <3>1, Joined
  <2> DEFINE f == Str!Flush(pending \o t)
             e == f.emit
  <2>3. /\ e \in Text /\ f.left \in Text /\ f.stop \in BOOLEAN
        /\ Clean(e)
        /\ ~f.stop => Settled(e)
        /\ f.stop => f.left = <<>>
        /\ f.left # <<>> => Str!Incomplete(f.left) \/ Clean(Str!Lossy(f.left))
    BY <2>2, FlushSafe
  <2>4. /\ pending' = f.left /\ fin' = IF f.stop THEN "stop" ELSE ""
        /\ Str!Emit(e, "check")
    BY <2>1
  <2> HIDE DEF f, e
  <2>5. /\ text' = text \o e
        /\ \/ thread' = "check" /\ back' = back
           \/ thread' = "push" /\ back' = "check"
    BY <2>4 DEF Str!Emit, Str!split
  <2>6. text \in Text /\ Clean(text) /\ Settled(text)
    BY <1>1 DEF StopInv
  <2>7. text' \in Text /\ Clean(text')
    <3>1. text \o e \in Text /\ Clean(text \o e)
      BY <2>3, <2>6, Joined, JoinClean
    <3>2. QED
      BY <2>5, <3>1
  <2>8. ~f.stop => Settled(text')
    BY <2>3, <2>5, <2>6, JoinSettled
  <2>9. QED
    BY <1>1, <2>3, <2>4, <2>5, <2>7, <2>8 DEF StopInv, Giving
<1>4. QED
  BY <1>2, <1>3 DEF Str!Token, Str!split

(* The tail: what is pending is text after all.                            *)
LEMMA StopTail ==
  ASSUME StopInv, Str!FlushTail
  PROVE  StopInv'
<1> DEFINE e == Str!Lossy(pending)
<1>1. /\ thread = "tail" /\ fin # "" /\ fin' = fin /\ Giving /\ req' = req /\ pending' = <<>>
      /\ Str!Emit(e, "finish")
  BY DEF Str!FlushTail, StopInv, Giving
<1>2. pending \in Text /\ text \in Text /\ Clean(text) /\ (pending # <<>> => Settled(text))
  BY <1>1 DEF StopInv
<1>3. /\ e \in Text
      /\ pending = <<>> => e = <<>>
      /\ Str!Incomplete(pending) => Len(e) > 0 /\ e[Len(e)] = "?"
  BY <1>2, LossyText
<1>4. pending = <<>> \/ Str!Incomplete(pending) \/ Clean(e)
  BY <1>1 DEF StopInv
<1> HIDE DEF e
<1>5. /\ text' = text \o e
      /\ \/ thread' = "finish" /\ back' = back
         \/ thread' = "push" /\ back' = "finish"
  BY <1>1 DEF Str!Emit, Str!split
<1>6. text' \in Text
  BY <1>2, <1>3, <1>5, Joined
<1>7. Clean(text') \/ text'[Len(text')] = "?"
  <2>1. CASE pending = <<>>
    BY <2>1, <1>2, <1>3, <1>5, ConcatEmptySeq DEF Text
  <2>2. CASE pending # <<>> /\ Clean(e)
    BY <2>2, <1>2, <1>3, <1>5, JoinClean
  <2>3. CASE Str!Incomplete(pending)
    <3>1. /\ Len(text \o e) = Len(text) + Len(e) /\ Len(e) \in Nat
          /\ \A i \in 1..Len(e) : (text \o e)[Len(text) + i] = e[i]
      BY <1>2, <1>3, Joined
    <3>2. Len(e) \in 1..Len(e) /\ e[Len(e)] = "?"
      BY <2>3, <3>1, <1>3
    <3>3. QED
      BY <3>1, <3>2, <1>5
  <2>4. QED
    BY <1>4, <2>1, <2>2, <2>3
<1>8. ~Giving'
  BY <1>5 DEF Giving
<1>9. <<>> \in Text
  BY NoText
<1>10. QED
  BY <1>1, <1>5, <1>6, <1>7, <1>8, <1>9 DEF StopInv

(* Every step of the connection's thread keeps it.                         *)
LEMMA GivenStep ==
  ASSUME StopInv, Str!Next
  PROVE  StopInv'
<1>1. CASE Str!ReadRequest
  <2>1. /\ thread = "idle" /\ thread' = "handle" /\ UNCHANGED <<text, pending, fin, back>>
        /\ \E s, u \in BOOLEAN, m \in MaxTokens, v \in Vocabs :
              req' = [stream |-> s, max |-> m, usage |-> u, vocab |-> v]
    BY <1>1 DEF Str!ReadRequest, Str!split
  <2>2. DOMAIN req' = {"stream", "max", "usage", "vocab"} /\ req'.vocab \in Vocabs
    BY <2>1
  <2>3. req'.vocab \subseteq Text
    BY <2>2, StreamAssumption, StringText
  <2>4. QED
    BY <2>1, <2>2, <2>3 DEF StopInv, Giving, Clean, Settled, EndsWith
<1>2. CASE Str!Refuse
  BY <1>2, StopKept DEF Str!Refuse, Giving, Str!split
<1>3. CASE Str!Begin
  <2>1. /\ thread = "handle" /\ thread' \in {"gone", "wait"} /\ UNCHANGED <<text, pending, fin, back>>
        /\ req' = [req EXCEPT !.max = Str!Max({req.max, 1})]
    BY <1>3 DEF Str!Begin, Str!split
  <2>2. DOMAIN req' = DOMAIN req /\ req'.vocab = req.vocab
    BY <2>1 DEF StopInv
  <2>3. QED
    BY <2>1, <2>2 DEF StopInv, Giving
<1>4. CASE Str!EngineFails
  BY <1>4, StopKept DEF Str!EngineFails, Str!Failed, Giving, Str!split
<1>5. CASE Str!Keepalive
  BY <1>5, StopKept DEF Str!Keepalive, Str!Failed, Giving, Str!split, StopInv
<1>6. CASE Str!Token
  BY <1>6, StopToken
<1>7. CASE Str!Check
  <2>1. thread = "check" /\ UNCHANGED <<req, text, pending, back>>
    BY <1>7 DEF Str!Check, Str!split
  <2>2. CASE fin = "stop" /\ thread' = "tail" /\ fin' = fin
    BY <2>1, <2>2, StopKept DEF Giving
  <2>3. CASE fin = "" /\ fin' = "length" /\ thread' = "tail"
    BY <2>1, <2>3 DEF StopInv, Giving
  <2>4. CASE Str!Failed /\ fin' = fin
    BY <2>1, <2>4, StopKept DEF Str!Failed, Giving
  <2>5. CASE fin = "" /\ thread' = "wait" /\ fin' = fin
    BY <2>1, <2>5, StopKept DEF Giving
  <2>6. QED
    BY <1>7, <2>2, <2>3, <2>4, <2>5 DEF Str!Check
<1>8. CASE Str!FlushTail
  BY <1>8, StopTail
<1>9. CASE Str!Push
  <2>1. thread = "push" /\ UNCHANGED <<req, text, pending, fin, back>> /\ thread' \in {thread, back}
    BY <1>9 DEF Str!Push, Str!split
  <2>2. back \in {"check", "finish"}
    BY DEF StopInv
  <2>3. QED
    BY <2>1, <2>2, StopKept DEF Giving
<1>10. CASE Str!Finish
  BY <1>10, StopKept DEF Str!Finish, Giving, Str!split
<1>11. CASE Str!ParseTop \/ Str!ParseCall
  BY <1>11, StopKept DEF Str!ParseTop, Str!ParseCall, Giving, Str!split
<1>12. CASE Str!Parsed
  BY <1>12, StopKept DEF Str!Parsed, Giving, Str!split
<1>13. CASE Str!Write
  BY <1>13, StopKept DEF Str!Write, Giving, Str!split
<1>14. CASE Str!KeepAlive \/ Str!Accept
  BY <1>14, StopFresh DEF Str!KeepAlive, Str!Accept
<1>15. CASE Str!Leave
  BY <1>15, StopKept DEF Str!Leave, Giving, Str!split, StopInv
<1>16. QED
  BY <1>1, <1>2, <1>3, <1>4, <1>5, <1>6, <1>7, <1>8, <1>9, <1>10, <1>11, <1>12, <1>13, <1>14, <1>15
     DEF Str!Next, Str!Handler

(* StopInv holds of every state of a connection.                           *)
LEMMA StopAlways == Str!Spec => []StopInv
<1>1. Str!Init => StopInv
  BY StopInit
<1>2. StopInv /\ [Str!Next]_(Str!vars) => StopInv'
  <2>1. SUFFICES ASSUME StopInv, [Str!Next]_(Str!vars) PROVE StopInv'
    OBVIOUS
  <2>2. CASE Str!Next
    BY <2>1, <2>2, GivenStep
  <2>3. CASE UNCHANGED stream
    <3>1. UNCHANGED <<thread, req, text, pending, fin, back>>
      BY <2>3 DEF stream
    <3>2. Giving' <=> Giving
      BY <3>1 DEF Giving
    <3>3. QED
      BY <2>1, <3>1, <3>2, StopKept DEF StopInv
  <2>4. QED
    BY <2>1, <2>2, <2>3 DEF Str!vars, stream
<1>3. QED
  BY <1>1, <1>2, PTL DEF Str!Spec

(* "A stop sequence is never emitted early" (generate): whatever the       *)
(* tokens, the stop sequences and the lengths, the text given out contains *)
(* one only at the end of a generation that ended inside a character.      *)
THEOREM NoStopAlwaysShown == Str!Spec => []NoStopShown
<1>1. StopInv => NoStopShown
  <2>1. SUFFICES ASSUME StopInv, NEW s \in Stops, Str!Has(text, s) PROVE fin # "" /\ Str!Last(text) = "?"
    BY DEF NoStopShown, Str!NoStopShown
  <2>2. text \in Text /\ s \in Text
    BY <2>1, StopText DEF StopInv
  <2>3. \E k \in 1..Len(text) : Stands(text, k, s)
    BY <2>1, <2>2, HasMeans
  <2>4. ~Clean(text)
    BY <2>1, <2>3 DEF Clean
  <2>5. QED
    BY <2>1, <2>4 DEF StopInv, Str!Last
<1>2. QED
  BY <1>1, StopAlways, PTL
-----------------------------------------------------------------------------
(* Tags *)

Names == {"think>", "/think>", "tool_call>"}

\* The tag of that name stands in s at i.
Marked(s, i, x) == i + 1 <= Len(s) /\ s[i] = "<" /\ s[i + 1] = x

(* A sequence of two.                                                      *)
LEMMA TwoLetters ==
  ASSUME NEW S, NEW x \in S, NEW y \in S
  PROVE  <<x, y>> \in Seq(S) /\ Len(<<x, y>>) = 2 /\ <<x, y>>[1] = x /\ <<x, y>>[2] = y
OBVIOUS

(* A tag is a text of two letters.                                         *)
LEMMA TagText ==
  ASSUME NEW x \in Names
  PROVE  Str!Tag(x) \in Text /\ Len(Str!Tag(x)) = 2 /\ Str!Tag(x)[1] = "<" /\ Str!Tag(x)[2] = x
<1>1. "<" \in Letters /\ x \in Letters
  BY DEF Letters, Names
<1> DEFINE a == "<"
<1>2. <<a, x>> \in Text /\ Len(<<a, x>>) = 2 /\ <<a, x>>[1] = a /\ <<a, x>>[2] = x
  <2> HIDE DEF a
  <2>1. a \in Letters /\ x \in Letters
    BY <1>1 DEF a
  <2>2. QED
    BY <2>1, TwoLetters DEF Text
<1>3. QED
  BY <1>2 DEF Str!Tag

(* A tag stands where its two letters are.                                 *)
LEMMA TagStands ==
  ASSUME NEW s \in Text, NEW i \in Nat \ {0}, NEW x \in Names
  PROVE  /\ Stands(s, i, Str!Tag(x)) <=> Marked(s, i, x)
         /\ Str!At(s, i, Str!Tag(x)) <=> Marked(s, i, x)
<1> DEFINE t == Str!Tag(x)
<1>1. t \in Text /\ Len(t) = 2 /\ t[1] = "<" /\ t[2] = x
  BY TagText
<1> HIDE DEF t
<1>2. i + Len(t) - 1 = i + 1 /\ i + 1 - 1 = i /\ i + 2 - 1 = i + 1 /\ \A m \in 1..Len(t) : m = 1 \/ m = 2
  BY <1>1
<1>3. 1 \in 1..Len(t) /\ 2 \in 1..Len(t)
  BY <1>1
<1>4. Stands(s, i, t) => Marked(s, i, x)
  <2>1. SUFFICES ASSUME Stands(s, i, t) PROVE Marked(s, i, x)
    OBVIOUS
  <2>2. s[i + 1 - 1] = t[1] /\ s[i + 2 - 1] = t[2] /\ i + Len(t) - 1 <= Len(s)
    BY <2>1, <1>3 DEF Stands
  <2>3. QED
    BY <2>2, <1>1, <1>2 DEF Marked
<1>5. Marked(s, i, x) => Stands(s, i, t)
  <2>1. SUFFICES ASSUME Marked(s, i, x) PROVE Stands(s, i, t)
    OBVIOUS
  <2>2. s[i + 1 - 1] = t[1] /\ s[i + 2 - 1] = t[2] /\ i + Len(t) - 1 <= Len(s)
    BY <2>1, <1>1, <1>2 DEF Marked
  <2>3. \A m \in 1..Len(t) : s[i + m - 1] = t[m]
    <3>1. SUFFICES ASSUME NEW m \in 1..Len(t) PROVE s[i + m - 1] = t[m]
      OBVIOUS
    <3>2. CASE m = 1
      BY <3>2, <2>2
    <3>3. CASE m = 2
      BY <3>3, <2>2
    <3>4. QED
      BY <3>2, <3>3, <1>2
  <2>4. QED
    BY <2>2, <2>3 DEF Stands
<1>6. Str!At(s, i, t) <=> Stands(s, i, t)
  BY <1>1, AtMeans
<1>7. QED
  BY <1>4, <1>5, <1>6 DEF t

(* The first place of a tag from i on, or 0.                               *)
LEMMA FindTag ==
  ASSUME NEW s \in Text, NEW i \in Nat \ {0}, NEW x \in Names
  PROVE  LET p == Str!FindFrom(s, i, Str!Tag(x))
         IN  /\ p \in Nat
             /\ p = 0 => \A k \in i..Len(s) : ~Marked(s, k, x)
             /\ p # 0 => p \in i..Len(s) /\ Marked(s, p, x) /\ \A k \in i..p - 1 : ~Marked(s, k, x)
<1> DEFINE t == Str!Tag(x)
           p == Str!FindFrom(s, i, t)
<1>1. t \in Text
  BY TagText
<1>2. /\ p \in Nat
      /\ p = 0 => \A k \in i..Len(s) : ~Stands(s, k, t)
      /\ p # 0 => p \in i..Len(s) /\ Stands(s, p, t) /\ \A k \in i..p - 1 : ~Stands(s, k, t)
  BY <1>1, FindHas
<1>3. \A k \in Nat \ {0} : Stands(s, k, t) <=> Marked(s, k, x)
  BY TagStands
<1> HIDE DEF t, p
<1>4. Len(s) \in Nat
  BY TextLetters
<1>5. \A k \in i..Len(s) : k \in Nat \ {0}
  BY <1>4
<1>6. p # 0 => \A k \in i..p - 1 : k \in Nat \ {0}
  BY <1>2
<1>7. p # 0 => p \in Nat \ {0}
  BY <1>2
<1>8. QED
  BY <1>2, <1>3, <1>5, <1>6, <1>7 DEF t, p

(* A text has a tag when it stands in it.                                  *)
LEMMA HasTag ==
  ASSUME NEW s \in Text, NEW x \in Names
  PROVE  Str!Has(s, Str!Tag(x)) <=> \E k \in 1..Len(s) : Marked(s, k, x)
<1>1. Str!Tag(x) \in Text
  BY TagText
<1>2. \A k \in 1..Len(s) : Stands(s, k, Str!Tag(x)) <=> Marked(s, k, x)
  <2>1. \A k \in 1..Len(s) : k \in Nat \ {0}
    OBVIOUS
  <2>2. QED
    BY <2>1, TagStands
<1>3. QED
  BY <1>1, <1>2, HasMeans

(* The three tags, and no two are the same.                                *)
LEMMA TagNames ==
  /\ Str!ThinkOpen = Str!Tag("think>") /\ Str!ThinkClose = Str!Tag("/think>") /\ Str!ToolOpen = Str!Tag("tool_call>")
  /\ "think>" \in Names /\ "/think>" \in Names /\ "tool_call>" \in Names
BY DEF Str!ThinkOpen, Str!ThinkClose, Str!ToolOpen, Names

(* What begins with p.                                                     *)
LEMMA PrefixMeans ==
  ASSUME NEW p \in Text, NEW t \in Text
  PROVE  Str!IsPrefix(p, t) <=> Len(p) <= Len(t) /\ \A m \in 1..Len(p) : p[m] = t[m]
<1> DEFINE a == Len(p)
           b == Len(t)
<1>1. a \in Nat /\ b \in Nat
  BY TextLetters
<1>2. SubSeq(p, 1, a) = p
  BY SubSeqFull DEF Text
<1> HIDE DEF a, b
<1>3. Str!IsPrefix(p, t) <=> a <= b /\ SubSeq(p, 1, a) = SubSeq(t, 1, a)
  BY DEF Str!IsPrefix, a, b
<1>4. ASSUME a <= b
      PROVE  SubSeq(t, 1, a) = p <=> \A m \in 1..a : p[m] = t[m]
  <2> DEFINE u == SubSeq(t, 1, a)
  <2>1. u \in Text /\ Len(u) = a /\ \A i \in 1..a : u[i] = t[i]
    <3>1. 1 \in Nat \ {0} /\ (IF 1 <= a THEN a - 1 + 1 ELSE 0) = a /\ \A i \in 1..a : 1 + i - 1 = i
      BY <1>1
    <3>2. a <= Len(t)
      BY <1>4 DEF b
    <3>3. QED
      BY <3>1, <3>2, <1>1, Cut
  <2> HIDE DEF u
  <2>2. ASSUME \A m \in 1..a : p[m] = t[m] PROVE u = p
    BY <2>1, <2>2, SeqEqual DEF Text, a
  <2>3. QED
    BY <2>1, <2>2 DEF u
<1>5. QED
  BY <1>2, <1>3, <1>4 DEF a, b

(* What held_suffix keeps of a text in which none of the tags stands: a    *)
(* "<" at its end.                                                         *)
LEMMA HeldMeans ==
  ASSUME NEW s \in Text, NEW X, X \subseteq Names, X # {},
         \A x \in X : \A k \in 1..Len(s) : ~Marked(s, k, x)
  PROVE  LET n == Str!HeldSuffix(s, {Str!Tag(x) : x \in X})
         IN  /\ n = 0 \/ n = 1
             /\ n <= Len(s)
             /\ n = 1 <=> Len(s) # 0 /\ s[Len(s)] = "<"
<1> DEFINE l == Len(s)
           B == {k \in 1..l : \E t \in {Str!Tag(x) : x \in X} : Str!IsPrefix(Str!From(s, l - k + 1), t)}
           n == Str!HeldSuffix(s, {Str!Tag(x) : x \in X})
<1>1. l \in Nat
  BY TextLetters
<1>2. n = IF B = {} THEN 0 ELSE Str!Max(B)
  BY DEF Str!HeldSuffix
<1> HIDE DEF n
<1>3. ASSUME NEW k \in 1..l, NEW x \in X
      PROVE  Str!IsPrefix(Str!From(s, l - k + 1), Str!Tag(x)) <=> k = 1 /\ s[l] = "<"
  <2> DEFINE u == Str!From(s, l - k + 1)
             t == Str!Tag(x)
  <2>1. l - k + 1 \in Nat \ {0} /\ l - k + 1 <= l /\ l - (l - k + 1) + 1 = k
    BY <1>1
  <2>2. u \in Text /\ Len(u) = k /\ \A i \in 1..k : u[i] = s[l - k + i]
    <3>1. u = SubSeq(s, l - k + 1, l)
      BY DEF Str!From
    <3> DEFINE a == l - k + 1
    <3> HIDE DEF u
    <3>2. a \in Nat \ {0} /\ l \in Nat /\ l <= Len(s) /\ (IF a <= l THEN l - a + 1 ELSE 0) = k /\ u = SubSeq(s, a, l)
      BY <1>1, <2>1, <3>1
    <3>3. \A i \in 1..k : a + i - 1 = l - k + i
      BY <1>1
    <3> HIDE DEF a, l
    <3>4. u \in Text /\ Len(u) = k /\ \A i \in 1..k : u[i] = s[a + i - 1]
      BY <3>2, Cut
    <3>5. QED
      BY <3>3, <3>4
  <2>3. x \in Names
    OBVIOUS
  <2>4. t \in Text /\ Len(t) = 2 /\ t[1] = "<" /\ t[2] = x
    BY <2>3, TagText
  <2> HIDE DEF u, t
  <2>5. Str!IsPrefix(u, t) <=> k <= 2 /\ \A m \in 1..k : u[m] = t[m]
    BY <2>2, <2>4, PrefixMeans
  <2>6. CASE k = 1
    <3>1. 1 \in 1..k /\ l - k + 1 = l /\ k <= 2 /\ \A m \in 1..k : m = 1
      BY <1>1, <2>6
    <3>2. u[1] = s[l]
      BY <2>2, <3>1
    <3> HIDE DEF l
    <3>3. QED
      BY <2>4, <2>5, <2>6, <3>1, <3>2 DEF u, t
  <2>7. CASE k = 2
    <3>1. 1 \in 1..k /\ 2 \in 1..k /\ l - k + 1 = l - 1 /\ l - k + 2 = l /\ l - 1 \in 1..l /\ l - 1 + 1 = l
      BY <1>1, <2>7
    <3>2. u[1] = s[l - 1] /\ u[2] = s[l]
      BY <2>2, <3>1
    <3>3. ~(s[l - 1] = "<" /\ s[l] = x)
      <4>1. ~Marked(s, l - 1, x)
        BY <3>1
      <4> HIDE DEF l
      <4>2. QED
        BY <4>1, <1>1, <3>1 DEF Marked, l
    <3> HIDE DEF l
    <3>4. ~(u[1] = t[1] /\ u[2] = t[2])
      BY <3>2, <3>3, <2>4
    <3>5. QED
      BY <3>1, <3>4, <2>5, <2>7 DEF u, t
  <2>8. CASE k > 2
    BY <2>5, <2>8, <1>1 DEF u, t
  <2>9. QED
    BY <2>6, <2>7, <2>8, <1>1
<1>4. \A k : k \in B <=> k = 1 /\ l # 0 /\ s[l] = "<"
  <2>1. \A k \in 1..l : k \in B <=> \E x \in X : Str!IsPrefix(Str!From(s, l - k + 1), Str!Tag(x))
    OBVIOUS
  <2>2. \A k \in 1..l : k \in B <=> k = 1 /\ s[l] = "<"
    BY <2>1, <1>3
  <2>3. B \subseteq 1..l
    OBVIOUS
  <2> HIDE DEF B, l
  <2>4. l # 0 => 1 \in 1..l
    BY <1>1
  <2>5. \A k \in 1..l : l # 0
    BY <1>1
  <2>6. QED
    BY <2>2, <2>3, <2>4, <2>5
<1> HIDE DEF B, l
<1>5. CASE l # 0 /\ s[l] = "<"
  <2>1. B = {1}
    BY <1>4, <1>5
  <2>2. Str!Max(B) = 1
    BY <2>1 DEF Str!Max
  <2>3. QED
    BY <1>1, <1>2, <1>5, <2>1, <2>2 DEF l, n
<1>6. CASE ~(l # 0 /\ s[l] = "<")
  <2>1. B = {}
    BY <1>4, <1>6
  <2>2. QED
    BY <1>1, <1>2, <1>6, <2>1 DEF l, n
<1>7. QED
  BY <1>5, <1>6

-----------------------------------------------------------------------------
(* How a text is read *)

\* No tag of that name stands at i nor, unless the text has ended, may begin there.
Free(T, e, i, x) == i <= Len(T) /\ ~Marked(T, i, x) /\ (e \/ i < Len(T) \/ T[i] # "<")

\* The letter at i is content.
Plain(T, e, i) == Free(T, e, i, "think>") /\ Free(T, e, i, "tool_call>")

\* The first closing tag from i on stands at k.
Shut(T, i, k) == Marked(T, k, "/think>") /\ \A m \in i..k - 1 : ~Marked(T, m, "/think>")

\* One step of reading T from y = <<place, content, blocks>>; e says that the text has ended.
Goes(T, e, y, x) ==
  /\ y[1] \in Nat \ {0}
  /\ \/ Plain(T, e, y[1]) /\ x = <<y[1] + 1, Append(y[2], T[y[1]]), y[3]>>
     \/ /\ Marked(T, y[1], "think>")
        /\ \E k \in y[1] + 2..Len(T) : /\ Shut(T, y[1] + 2, k)
                                       /\ x = <<k + 2, y[2], Append(y[3], SubSeq(T, y[1] + 2, k - 1))>>
     \/ /\ e
        /\ Marked(T, y[1], "think>")
        /\ \A m \in y[1] + 2..Len(T) : ~Marked(T, m, "/think>")
        /\ x = <<Len(T) + 1, y[2], Append(y[3], SubSeq(T, y[1] + 2, Len(T)))>>

Closed(T, e, S) == \A a \in S : \A b : Goes(T, e, a, b) => b \in S

\* Reading T from y comes to x.
Leads(T, e, y, x) == \A S : Closed(T, e, S) /\ y \in S => x \in S

Origin == <<1, <<>>, <<>>>>

(* Reading comes to where it is, and further.                              *)
LEMMA LeadsOn ==
  ASSUME NEW T, NEW e, NEW y, NEW x, NEW d
  PROVE  /\ Leads(T, e, y, y)
         /\ Leads(T, e, y, x) /\ Leads(T, e, x, d) => Leads(T, e, y, d)
         /\ Leads(T, e, y, x) /\ Goes(T, e, x, d) => Leads(T, e, y, d)
BY DEF Leads, Closed

(* A tag that stands in a text, or that cannot begin there any more, is so *)
(* whatever follows.                                                       *)
LEMMA MarkedGrow ==
  ASSUME NEW T \in Text, NEW t \in Text, NEW i \in Nat \ {0}, NEW x
  PROVE  /\ i + 1 <= Len(T) => (Marked(T \o t, i, x) <=> Marked(T, i, x))
         /\ Marked(T, i, x) => Marked(T \o t, i, x) /\ i + 1 <= Len(T)
         /\ Free(T, FALSE, i, x) => \A e \in BOOLEAN : Free(T \o t, e, i, x)
         /\ Free(T, FALSE, i, x) => (T \o t)[i] = T[i]
<1> DEFINE a == Len(T)
           s == T \o t
<1>1. a \in Nat /\ Len(s) \in Nat /\ Len(s) >= a /\ \A m \in 1..a : s[m] = T[m]
  BY Joined
<1> HIDE DEF s, a
<1>2. i + 1 <= a => /\ i \in 1..a /\ i + 1 \in 1..a /\ i + 1 <= Len(s)
  BY <1>1
<1>3. i + 1 <= a => (Marked(s, i, x) <=> Marked(T, i, x))
  <2>1. SUFFICES ASSUME i + 1 <= a PROVE Marked(s, i, x) <=> Marked(T, i, x)
    OBVIOUS
  <2>2. s[i] = T[i] /\ s[i + 1] = T[i + 1] /\ i + 1 <= Len(s)
    BY <2>1, <1>1, <1>2
  <2>3. QED
    BY <2>1, <2>2 DEF Marked, a
<1>4. Marked(T, i, x) => i + 1 <= a
  BY DEF Marked, a
<1>5. ASSUME Free(T, FALSE, i, x) PROVE s[i] = T[i] /\ \A e \in BOOLEAN : Free(s, e, i, x)
  <2>1. i \in 1..a /\ i <= a /\ ~Marked(T, i, x) /\ (i < a \/ T[i] # "<")
    BY <1>1, <1>5 DEF Free, a
  <2>2. s[i] = T[i] /\ i <= Len(s)
    BY <2>1, <1>1
  <2>3. ~Marked(s, i, x)
    <3>1. CASE i < a
      BY <3>1, <2>1, <1>1, <1>3
    <3>2. CASE T[i] # "<"
      BY <3>2, <2>2 DEF Marked
    <3>3. QED
      BY <2>1, <3>1, <3>2
  <2>4. i < Len(s) \/ s[i] # "<"
    BY <2>1, <2>2, <1>1
  <2>5. QED
    BY <2>2, <2>3, <2>4 DEF Free
<1>6. QED
  BY <1>3, <1>4, <1>5 DEF s, a

(* A part of a text is the same part of any longer one.                    *)
LEMMA CutGrow ==
  ASSUME NEW T \in Text, NEW t \in Text, NEW i \in Nat \ {0}, NEW k \in Nat, k <= Len(T)
  PROVE  SubSeq(T \o t, i, k) = SubSeq(T, i, k)
<1> DEFINE s == T \o t
           p == SubSeq(s, i, k)
           q == SubSeq(T, i, k)
           a == Len(T)
<1>1. a \in Nat /\ s \in Text /\ Len(s) \in Nat /\ Len(s) >= a /\ \A m \in 1..a : s[m] = T[m]
  <2>1. /\ s \in Text /\ a \in Nat /\ Len(t) \in Nat /\ Len(s) = a + Len(t)
        /\ \A m \in 1..a : s[m] = T[m]
    BY Joined
  <2> HIDE DEF s, a
  <2>2. QED
    BY <2>1
<1>2. /\ q \in Text /\ Len(q) = IF i <= k THEN k - i + 1 ELSE 0
      /\ \A m \in 1..Len(q) : i + m - 1 \in 1..a /\ q[m] = T[i + m - 1]
  BY Cut
<1> HIDE DEF s
<1>3. k <= Len(s)
  BY <1>1
<1>4. /\ p \in Text /\ Len(p) = IF i <= k THEN k - i + 1 ELSE 0
      /\ \A m \in 1..Len(p) : p[m] = s[i + m - 1]
  BY <1>1, <1>3, Cut
<1> HIDE DEF p, q, a
<1>5. Len(p) = Len(q) /\ \A m \in 1..Len(p) : p[m] = q[m]
  BY <1>1, <1>2, <1>4
<1>6. p = q
  BY <1>2, <1>4, <1>5, SeqEqual DEF Text
<1>7. QED
  BY <1>6 DEF p, q, s

(* What has been read stays read as the text grows.                        *)
LEMMA GoesGrow ==
  ASSUME NEW T \in Text, NEW t \in Text, NEW e \in BOOLEAN, NEW y, NEW x, Goes(T, FALSE, y, x)
  PROVE  Goes(T \o t, e, y, x)
<1> DEFINE s == T \o t
           i == y[1]
           a == Len(T)
<1>1. i \in Nat \ {0} /\ a \in Nat /\ Len(s) \in Nat /\ Len(s) >= a
  BY Joined DEF Goes
<1>2. CASE Plain(T, FALSE, i) /\ x = <<i + 1, Append(y[2], T[i]), y[3]>>
  <2>1. s[i] = T[i] /\ Free(s, e, i, "think>") /\ Free(s, e, i, "tool_call>")
    <3> HIDE DEF i
    <3>1. Free(T, FALSE, i, "think>") /\ Free(T, FALSE, i, "tool_call>")
      BY <1>2 DEF Plain
    <3>2. QED
      BY <1>1, <3>1, MarkedGrow
  <2>2. QED
    BY <1>1, <1>2, <2>1 DEF Goes, Plain
<1>3. CASE /\ Marked(T, i, "think>")
           /\ \E k \in i + 2..a : /\ Shut(T, i + 2, k)
                                  /\ x = <<k + 2, y[2], Append(y[3], SubSeq(T, i + 2, k - 1))>>
  <2>1. PICK k \in i + 2..a : /\ Shut(T, i + 2, k)
                              /\ x = <<k + 2, y[2], Append(y[3], SubSeq(T, i + 2, k - 1))>>
    BY <1>3
  <2>2. Marked(s, i, "think>")
    BY <1>1, <1>3, MarkedGrow
  <2>3. k \in Nat \ {0} /\ k - 1 \in Nat /\ k - 1 <= a /\ k \in i + 2..Len(s) /\ i + 2 \in Nat \ {0}
    BY <1>1, <2>1
  <2>4. Shut(s, i + 2, k)
    <3>1. Marked(s, k, "/think>")
      BY <2>1, <2>3, MarkedGrow DEF Shut
    <3>2. \A m \in i + 2..k - 1 : m \in Nat \ {0} /\ m + 1 <= a
      BY <1>1, <2>1
    <3>3. \A m \in i + 2..k - 1 : ~Marked(s, m, "/think>")
      BY <2>1, <3>2, MarkedGrow DEF Shut
    <3>4. QED
      BY <3>1, <3>3 DEF Shut
  <2>5. SubSeq(s, i + 2, k - 1) = SubSeq(T, i + 2, k - 1)
    BY <2>3, CutGrow
  <2> HIDE DEF s, i
  <2>6. QED
    BY <1>1, <2>1, <2>2, <2>3, <2>4, <2>5 DEF Goes, i, s
<1>4. QED
  BY <1>2, <1>3 DEF Goes

(* What the reading of a text leads to, it leads to in a longer one.       *)
LEMMA LeadsGrow ==
  ASSUME NEW T \in Text, NEW t \in Text, NEW e \in BOOLEAN, NEW y, NEW x, Leads(T, FALSE, y, x)
  PROVE  Leads(T \o t, e, y, x)
<1>1. ASSUME NEW S, Closed(T \o t, e, S) PROVE Closed(T, FALSE, S)
  BY <1>1, GoesGrow DEF Closed
<1>2. QED
  BY <1>1 DEF Leads

(* A part of a text is a text.                                             *)
LEMMA CutText ==
  ASSUME NEW T \in Text
  PROVE  \A i \in Nat \ {0}, k \in Nat : k <= Len(T) => SubSeq(T, i, k) \in Text
BY Cut

(* Two parts in a row, and a part and the letter after it.                 *)
LEMMA CutJoin ==
  ASSUME NEW T \in Text, NEW i \in Nat \ {0}, NEW j \in Nat, NEW k \in Nat, i <= j + 1, j <= k, k <= Len(T)
  PROVE  SubSeq(T, i, j) \o SubSeq(T, j + 1, k) = SubSeq(T, i, k)
<1> DEFINE p == SubSeq(T, i, j)
           q == SubSeq(T, j + 1, k)
           s == SubSeq(T, i, k)
<1>1. Len(T) \in Nat /\ j <= Len(T) /\ j + 1 \in Nat \ {0}
  BY TextLetters
<1>a. IsCut(p, T, i, j) /\ IsCut(q, T, j + 1, k) /\ IsCut(s, T, i, k)
  BY <1>1, CutIs
<1> HIDE DEF p, q, s
<1>2. p \in Text /\ Len(p) = (IF i <= j THEN j - i + 1 ELSE 0) /\ \A m \in 1..Len(p) : p[m] = T[i + m - 1]
  BY <1>a DEF IsCut
<1>3. q \in Text /\ Len(q) = (IF j + 1 <= k THEN k - (j + 1) + 1 ELSE 0) /\ \A m \in 1..Len(q) : q[m] = T[j + 1 + m - 1]
  BY <1>a DEF IsCut
<1>4. s \in Text /\ Len(s) = (IF i <= k THEN k - i + 1 ELSE 0) /\ \A m \in 1..Len(s) : s[m] = T[i + m - 1]
  BY <1>a DEF IsCut
<1>5. /\ p \o q \in Text /\ Len(p) \in Nat /\ Len(q) \in Nat /\ Len(p \o q) = Len(p) + Len(q)
      /\ \A m \in 1..Len(p) : (p \o q)[m] = p[m]
      /\ \A m \in 1..Len(q) : (p \o q)[Len(p) + m] = q[m]
  BY <1>2, <1>3, Joined
<1>6. Len(p) = j - i + 1 /\ Len(q) = k - j /\ Len(s) = k - i + 1 /\ Len(p \o q) = Len(s)
  BY <1>2, <1>3, <1>4, <1>5
<1>7. ASSUME NEW m \in 1..Len(s) PROVE (p \o q)[m] = s[m]
  <2>1. s[m] = T[i + m - 1] /\ m \in Nat
    BY <1>4, <1>6
  <2>2. CASE m <= Len(p)
    <3>1. m \in 1..Len(p)
      BY <2>1, <2>2, <1>5
    <3>2. QED
      BY <3>1, <2>1, <1>2, <1>5
  <2>3. CASE m > Len(p)
    <3> DEFINE n == m - Len(p)
    <3>1. n \in 1..Len(q) /\ Len(p) + n = m /\ j + 1 + n - 1 = i + m - 1
      BY <2>1, <2>3, <1>5, <1>6
    <3> HIDE DEF n
    <3>2. (p \o q)[Len(p) + n] = q[n] /\ q[n] = T[j + 1 + n - 1]
      BY <3>1, <1>3, <1>5
    <3>3. QED
      BY <3>1, <3>2, <2>1
  <2>4. m <= Len(p) \/ m > Len(p)
    BY <2>1, <1>6
  <2>5. QED
    BY <2>2, <2>3, <2>4
<1>8. p \o q = s
  BY <1>4, <1>5, <1>6, <1>7, SeqEqual DEF Text
<1>9. QED
  BY <1>8 DEF p, q, s

(* The next letter of a text joins what was cut from it before.            *)
LEMMA CutNext ==
  ASSUME NEW T \in Text, NEW i \in Nat \ {0}, NEW k \in Nat, i <= k, k <= Len(T), NEW c \in Text
  PROVE  Append(c \o SubSeq(T, i, k - 1), T[k]) = c \o SubSeq(T, i, k)
<1> DEFINE p == SubSeq(T, i, k - 1)
           x == T[k]
<1>1. k \in 1..Len(T) /\ k - 1 \in Nat /\ k - 1 <= Len(T) /\ Len(T) \in Nat /\ i \in 1..Len(T)
  BY TextLetters
<1>2. x \in Letters /\ p \in Text
  BY <1>1, TextLetters, Cut
<1>3. SubSeq(T, i, k) = p \o <<x>>
  BY <1>1, TextLetters, SubSeqRecursiveSecond DEF Text
<1>4. <<x>> \in Text
  BY <1>2, OneLetter DEF Text
<1> HIDE DEF p, x
<1>5. c \o p \in Text
  BY <1>2, Joined
<1>6. Append(c \o p, x) = (c \o p) \o <<x>>
  BY <1>2, <1>5, AppendIsConcat DEF Text
<1>7. (c \o p) \o <<x>> = c \o (p \o <<x>>)
  BY <1>2, <1>4, Regroup
<1>8. QED
  BY <1>3, <1>6, <1>7 DEF p, x

(* A stretch without tags is content.                                      *)
LEMMA LeadsPlain ==
  ASSUME NEW T \in Text, NEW e \in BOOLEAN, NEW i \in Nat \ {0}, NEW j \in Nat, i <= j, NEW c \in Text, NEW rs,
         \A k \in i..j - 1 : Plain(T, e, k)
  PROVE  Leads(T, e, <<i, c, rs>>, <<j, c \o SubSeq(T, i, j - 1), rs>>)
<1> DEFINE Reach(k) == Leads(T, e, <<i, c, rs>>, <<k, c \o SubSeq(T, i, k - 1), rs>>)
           Bad == {k \in i..j : ~Reach(k)}
<1>0. Len(T) \in Nat
  BY TextLetters
<1>1. Reach(i)
  <2>1. SubSeq(T, i, i - 1) = <<>>
    BY <1>0, SubSeqEmpty DEF Text
  <2>2. c \o <<>> = c
    BY ConcatEmptySeq DEF Text
  <2>3. QED
    BY <2>1, <2>2, LeadsOn
<1>2. ASSUME NEW k \in i..j, k # i, Reach(k - 1) PROVE Reach(k)
  <2>1. k - 1 \in i..j - 1 /\ k - 1 \in Nat \ {0} /\ (k - 1) + 1 = k
    BY <1>2
  <2> DEFINE n == k - 1
  <2> HIDE DEF n
  <2>2. n \in i..j - 1 /\ n \in Nat \ {0} /\ n + 1 = k /\ n = k - 1
    BY <2>1 DEF n
  <2>3. Plain(T, e, n)
    BY <2>2
  <2>4. i <= n /\ n <= Len(T)
    BY <2>2, <2>3 DEF Plain, Free
  <2>5. Append(c \o SubSeq(T, i, n - 1), T[n]) = c \o SubSeq(T, i, n)
    BY <2>2, <2>4, CutNext
  <2>6. Goes(T, e, <<n, c \o SubSeq(T, i, n - 1), rs>>, <<n + 1, c \o SubSeq(T, i, n), rs>>)
    BY <2>2, <2>3, <2>5 DEF Goes
  <2>7. Reach(n)
    BY <2>2, <1>2
  <2> HIDE DEF Reach
  <2>8. Leads(T, e, <<i, c, rs>>, <<n, c \o SubSeq(T, i, n - 1), rs>>)
    BY <2>7 DEF Reach
  <2>9. Leads(T, e, <<i, c, rs>>, <<n + 1, c \o SubSeq(T, i, n), rs>>)
    BY <2>6, <2>8, LeadsOn
  <2>10. QED
    BY <2>2, <2>9 DEF Reach
<1> HIDE DEF Reach
<1>3. Bad = {}
  <2>1. SUFFICES ASSUME Bad # {} PROVE FALSE
    OBVIOUS
  <2>2. Bad \subseteq Nat
    OBVIOUS
  <2>3. PICK k \in Bad : \A m \in Bad : k <= m
    BY <2>1, <2>2, LeastNat
  <2>4. k \in i..j /\ ~Reach(k)
    BY <2>3
  <2>5. k # i
    BY <2>4, <1>1
  <2>6. k - 1 \in i..j /\ ~(k <= k - 1)
    BY <2>4, <2>5
  <2>7. Reach(k - 1)
    BY <2>3, <2>6
  <2>8. QED
    BY <2>4, <2>5, <2>7, <1>2
<1>4. j \in i..j
  OBVIOUS
<1>5. Reach(j)
  BY <1>3, <1>4
<1>6. QED
  BY <1>5 DEF Reach

(* Reading does one thing at a time: from anywhere but its end it goes on  *)
(* to the end, and where it cannot go on it has come to the end.           *)
LEMMA LeadsNext ==
  ASSUME NEW T, NEW e, NEW y, NEW x, NEW z, Leads(T, e, y, z), y # z,
         \A d : Goes(T, e, y, d) => d = x
  PROVE  Leads(T, e, x, z) /\ \E d : Goes(T, e, y, d)
<1>1. Leads(T, e, x, z)
  <2>1. SUFFICES ASSUME NEW S, Closed(T, e, S), x \in S PROVE z \in S
    BY DEF Leads
  <2>2. Closed(T, e, S \cup {y})
    BY <2>1 DEF Closed
  <2>3. z \in S \cup {y}
    BY <2>2 DEF Leads
  <2>4. QED
    BY <2>3
<1>2. \E d : Goes(T, e, y, d)
  <2>1. SUFFICES ASSUME \A d : ~Goes(T, e, y, d) PROVE FALSE
    OBVIOUS
  <2>2. Closed(T, e, {y})
    BY <2>1 DEF Closed
  <2>3. z \in {y}
    BY <2>2 DEF Leads
  <2>4. QED
    BY <2>3
<1>3. QED
  BY <1>1, <1>2

\* What of T lies before p has been given to the client: C of content, and R of reasoning in n think blocks.
Read(T, sp, p, n, C, R) ==
  \E rs \in Seq(Text) :
     \/ /\ sp = "content"
        /\ Leads(T, FALSE, Origin, <<p, C, rs>>)
        /\ n = Len(rs) /\ R = Str!FlattenSeq(rs)
     \/ /\ sp = "tool"
        /\ Leads(T, FALSE, Origin, <<p, C, rs>>)
        /\ n = Len(rs) /\ R = Str!FlattenSeq(rs)
        /\ Marked(T, p, "tool_call>")
     \/ /\ sp = "think"
        /\ \E o \in 1..p - 2 :
              /\ Leads(T, FALSE, Origin, <<o, C, rs>>)
              /\ Marked(T, o, "think>")
              /\ \A k \in o + 2..p - 1 : Free(T, FALSE, k, "/think>")
              /\ n = Len(rs) + 1 /\ R = Str!FlattenSeq(rs) \o SubSeq(T, o + 2, p - 1)

\* Reading the whole of T gives the client that much, up to the first call.
Ended(T, z, n, C, R) ==
  /\ Leads(T, TRUE, Origin, z)
  /\ z[1] = Len(T) + 1 \/ Marked(T, z[1], "tool_call>")
  /\ z[1] \in Nat \ {0} /\ z[2] = C /\ z[3] \in Seq(Text) /\ n = Len(z[3]) /\ R = Str!FlattenSeq(z[3])

(* A stretch of content.                                                   *)
LEMMA ReadPlain ==
  ASSUME NEW T \in Text, NEW p \in Nat \ {0}, NEW j \in Nat, p <= j, NEW n, NEW C \in Text, NEW R,
         Read(T, "content", p, n, C, R), \A k \in p..j - 1 : Plain(T, FALSE, k)
  PROVE  Read(T, "content", j, n, C \o SubSeq(T, p, j - 1), R)
<1>1. PICK rs \in Seq(Text) : Leads(T, FALSE, Origin, <<p, C, rs>>) /\ n = Len(rs) /\ R = Str!FlattenSeq(rs)
  BY DEF Read
<1>2. Leads(T, FALSE, <<p, C, rs>>, <<j, C \o SubSeq(T, p, j - 1), rs>>)
  BY LeadsPlain
<1>3. Leads(T, FALSE, Origin, <<j, C \o SubSeq(T, p, j - 1), rs>>)
  BY <1>1, <1>2, LeadsOn
<1>4. QED
  BY <1>1, <1>3 DEF Read

(* A think block opens.                                                    *)
LEMMA ReadOpen ==
  ASSUME NEW T \in Text, NEW p \in Nat \ {0}, NEW n, NEW C \in Text, NEW R,
         Read(T, "content", p, n, C, R), Marked(T, p, "think>")
  PROVE  Read(T, "think", p + 2, n + 1, C, R)
<1>1. PICK rs \in Seq(Text) : Leads(T, FALSE, Origin, <<p, C, rs>>) /\ n = Len(rs) /\ R = Str!FlattenSeq(rs)
  BY DEF Read
<1>2. SubSeq(T, p + 2, p + 1) = <<>>
  <2>1. p + 2 \in Nat \ {0} /\ p + 1 \in Nat /\ p + 1 < p + 2 /\ p + 1 <= Len(T) /\ Len(T) \in Nat
    BY TextLetters DEF Marked
  <2>2. Len(SubSeq(T, p + 2, p + 1)) = 0 /\ SubSeq(T, p + 2, p + 1) \in Text
    BY <2>1, Cut
  <2>3. QED
    BY <2>2, EmptySeq DEF Text
<1>3. R \o <<>> = R
  <2>1. <<>> \in Text
    BY NoText
  <2>2. R \in Text
    BY <1>1, <2>1, FlattenAppend
  <2>3. QED
    BY <2>2, ConcatEmptySeq DEF Text
<1> DEFINE j == p + 2
<1>4. p \in 1..j - 2 /\ (\A k \in p + 2..j - 1 : Free(T, FALSE, k, "/think>")) /\ p + 1 = j - 1
  <2>1. p \in 1..j - 2 /\ p + 1 = j - 1
    OBVIOUS
  <2>2. \A k \in p + 2..j - 1 : FALSE
    OBVIOUS
  <2>3. QED
    BY <2>1, <2>2
<1> HIDE DEF j
<1>5. R = Str!FlattenSeq(rs) \o SubSeq(T, p + 2, j - 1)
  BY <1>1, <1>2, <1>3, <1>4
<1>6. Read(T, "think", j, n + 1, C, R)
  BY <1>1, <1>4, <1>5 DEF Read
<1>7. QED
  BY <1>6 DEF j

(* The first call's tag.                                                   *)
LEMMA ReadTool ==
  ASSUME NEW T \in Text, NEW p \in Nat \ {0}, NEW n, NEW C \in Text, NEW R,
         Read(T, "content", p, n, C, R), Marked(T, p, "tool_call>")
  PROVE  Read(T, "tool", p, n, C, R)
<1>1. PICK rs \in Seq(Text) : Leads(T, FALSE, Origin, <<p, C, rs>>) /\ n = Len(rs) /\ R = Str!FlattenSeq(rs)
  BY DEF Read
<1>2. QED
  BY <1>1 DEF Read

(* A stretch of reasoning.                                                 *)
LEMMA ReadThink ==
  ASSUME NEW T \in Text, NEW p \in Nat \ {0}, NEW j \in Nat, p <= j, j <= Len(T) + 1, NEW n, NEW C \in Text, NEW R,
         Read(T, "think", p, n, C, R), \A k \in p..j - 1 : Free(T, FALSE, k, "/think>")
  PROVE  Read(T, "think", j, n, C, R \o SubSeq(T, p, j - 1))
<1>1. PICK rs \in Seq(Text), o \in 1..p - 2 :
        /\ Leads(T, FALSE, Origin, <<o, C, rs>>)
        /\ Marked(T, o, "think>")
        /\ \A k \in o + 2..p - 1 : Free(T, FALSE, k, "/think>")
        /\ n = Len(rs) + 1 /\ R = Str!FlattenSeq(rs) \o SubSeq(T, o + 2, p - 1)
  BY DEF Read
<1>2. o \in 1..j - 2 /\ \A k \in o + 2..j - 1 : k \in o + 2..p - 1 \/ k \in p..j - 1
  OBVIOUS
<1>3. \A k \in o + 2..j - 1 : Free(T, FALSE, k, "/think>")
  BY <1>1, <1>2
<1> DEFINE a == Str!FlattenSeq(rs)
           b == SubSeq(T, o + 2, p - 1)
           d == SubSeq(T, p, j - 1)
<1>4. /\ Len(T) \in Nat /\ o + 2 \in Nat \ {0} /\ p - 1 \in Nat /\ j - 1 \in Nat /\ o + 2 <= p - 1 + 1
      /\ p - 1 <= j - 1 /\ j - 1 <= Len(T) /\ p - 1 + 1 = p /\ p - 1 <= Len(T)
  BY TextLetters
<1>5. b \o d = SubSeq(T, o + 2, j - 1)
  <2> DEFINE i0 == o + 2
             j0 == p - 1
             k0 == j - 1
  <2>1. i0 \in Nat \ {0} /\ j0 \in Nat /\ k0 \in Nat /\ i0 <= j0 + 1 /\ j0 <= k0 /\ k0 <= Len(T) /\ j0 + 1 = p
    BY <1>4
  <2> HIDE DEF i0, j0, k0
  <2>2. SubSeq(T, i0, j0) \o SubSeq(T, j0 + 1, k0) = SubSeq(T, i0, k0)
    BY <2>1, CutJoin
  <2>3. QED
    BY <2>1, <2>2 DEF i0, j0, k0
<1>6. a \in Text /\ b \in Text /\ d \in Text
  BY <1>4, NoText, FlattenAppend, Cut
<1> HIDE DEF a, b, d
<1>7. (a \o b) \o d = a \o (b \o d)
  BY <1>6, Regroup
<1>8. R \o d = a \o SubSeq(T, o + 2, j - 1)
  BY <1>1, <1>5, <1>7 DEF a, b
<1>9. QED
  BY <1>1, <1>2, <1>3, <1>8 DEF Read, a, d

(* The think block closes.                                                 *)
LEMMA ReadClose ==
  ASSUME NEW T \in Text, NEW p \in Nat \ {0}, NEW n, NEW C \in Text, NEW R,
         Read(T, "think", p, n, C, R), Marked(T, p, "/think>")
  PROVE  Read(T, "content", p + 2, n, C, R)
<1>1. PICK rs \in Seq(Text), o \in 1..p - 2 :
        /\ Leads(T, FALSE, Origin, <<o, C, rs>>)
        /\ Marked(T, o, "think>")
        /\ \A k \in o + 2..p - 1 : Free(T, FALSE, k, "/think>")
        /\ n = Len(rs) + 1 /\ R = Str!FlattenSeq(rs) \o SubSeq(T, o + 2, p - 1)
  BY DEF Read
<1> DEFINE b == SubSeq(T, o + 2, p - 1)
           qs == Append(rs, b)
<1>2. Len(T) \in Nat /\ o + 2 \in Nat \ {0} /\ p - 1 \in Nat /\ p <= Len(T) /\ p - 1 <= Len(T) /\ p \in o + 2..Len(T) /\ o \in Nat \ {0}
  BY TextLetters DEF Marked
<1>3. b \in Text
  BY <1>2, Cut
<1>4. Shut(T, o + 2, p)
  BY <1>1 DEF Shut, Free
<1>5. Goes(T, FALSE, <<o, C, rs>>, <<p + 2, C, qs>>)
  <2> HIDE DEF qs
  <2>1. qs = Append(rs, SubSeq(T, o + 2, p - 1))
    BY DEF qs
  <2>2. \E k \in o + 2..Len(T) : Shut(T, o + 2, k) /\ <<p + 2, C, qs>> = <<k + 2, C, Append(rs, SubSeq(T, o + 2, k - 1))>>
    BY <1>2, <1>4, <2>1
  <2>3. QED
    BY <1>1, <1>2, <2>2 DEF Goes
<1>6. Leads(T, FALSE, Origin, <<p + 2, C, qs>>)
  BY <1>1, <1>5, LeadsOn
<1> HIDE DEF b
<1>7. qs \in Seq(Text) /\ Len(qs) = Len(rs) + 1 /\ Str!FlattenSeq(qs) = Str!FlattenSeq(rs) \o b
  BY <1>3, AppendProperties, FlattenAppend
<1> HIDE DEF qs
<1>8. n = Len(qs) /\ R = Str!FlattenSeq(qs)
  BY <1>1, <1>7 DEF b
<1>9. QED
  BY <1>6, <1>7, <1>8 DEF Read

(* What has been read stays read as the text grows, and when it has ended. *)
LEMMA ReadGrow ==
  ASSUME NEW T \in Text, NEW t \in Text, NEW p \in 1..Len(T) + 1, NEW sp, NEW n, NEW C, NEW R,
         Read(T, sp, p, n, C, R)
  PROVE  Read(T \o t, sp, p, n, C, R)
<1>0. p \in Nat \ {0} /\ p <= Len(T) + 1 /\ Len(T) \in Nat
  BY TextLetters
<1>1. PICK rs \in Seq(Text) :
     \/ /\ sp = "content"
        /\ Leads(T, FALSE, Origin, <<p, C, rs>>)
        /\ n = Len(rs) /\ R = Str!FlattenSeq(rs)
     \/ /\ sp = "tool"
        /\ Leads(T, FALSE, Origin, <<p, C, rs>>)
        /\ n = Len(rs) /\ R = Str!FlattenSeq(rs)
        /\ Marked(T, p, "tool_call>")
     \/ /\ sp = "think"
        /\ \E o \in 1..p - 2 :
              /\ Leads(T, FALSE, Origin, <<o, C, rs>>)
              /\ Marked(T, o, "think>")
              /\ \A k \in o + 2..p - 1 : Free(T, FALSE, k, "/think>")
              /\ n = Len(rs) + 1 /\ R = Str!FlattenSeq(rs) \o SubSeq(T, o + 2, p - 1)
  BY DEF Read
<1>2. \A x : Leads(T, FALSE, Origin, x) => Leads(T \o t, FALSE, Origin, x)
  BY LeadsGrow
<1>3. \A k \in Nat \ {0} : \A x : /\ Marked(T, k, x) => Marked(T \o t, k, x)
                                  /\ Free(T, FALSE, k, x) => Free(T \o t, FALSE, k, x)
  BY MarkedGrow
<1>4. CASE sp = "content" /\ Leads(T, FALSE, Origin, <<p, C, rs>>) /\ n = Len(rs) /\ R = Str!FlattenSeq(rs)
  BY <1>2, <1>4 DEF Read
<1>5. CASE sp = "tool" /\ Leads(T, FALSE, Origin, <<p, C, rs>>) /\ n = Len(rs) /\ R = Str!FlattenSeq(rs)
           /\ Marked(T, p, "tool_call>")
  BY <1>0, <1>2, <1>3, <1>5 DEF Read
<1>6. CASE /\ sp = "think"
           /\ \E o \in 1..p - 2 :
              /\ Leads(T, FALSE, Origin, <<o, C, rs>>)
              /\ Marked(T, o, "think>")
              /\ \A k \in o + 2..p - 1 : Free(T, FALSE, k, "/think>")
              /\ n = Len(rs) + 1 /\ R = Str!FlattenSeq(rs) \o SubSeq(T, o + 2, p - 1)
  <2>1. PICK o \in 1..p - 2 :
              /\ Leads(T, FALSE, Origin, <<o, C, rs>>)
              /\ Marked(T, o, "think>")
              /\ \A k \in o + 2..p - 1 : Free(T, FALSE, k, "/think>")
              /\ n = Len(rs) + 1 /\ R = Str!FlattenSeq(rs) \o SubSeq(T, o + 2, p - 1)
    BY <1>6
  <2>2. o \in Nat \ {0} /\ \A k \in o + 2..p - 1 : k \in Nat \ {0}
    BY <1>0
  <2>3. SubSeq(T \o t, o + 2, p - 1) = SubSeq(T, o + 2, p - 1)
    <3>1. o + 2 \in Nat \ {0} /\ p - 1 \in Nat /\ p - 1 <= Len(T)
      BY <1>0, <2>2
    <3>2. QED
      BY <3>1, CutGrow
  <2>4. /\ Leads(T \o t, FALSE, Origin, <<o, C, rs>>)
        /\ Marked(T \o t, o, "think>")
        /\ \A k \in o + 2..p - 1 : Free(T \o t, FALSE, k, "/think>")
        /\ n = Len(rs) + 1 /\ R = Str!FlattenSeq(rs) \o SubSeq(T \o t, o + 2, p - 1)
    BY <2>1, <2>2, <2>3, <1>2, <1>3
  <2>5. QED
    BY <1>6, <2>4 DEF Read
<1>7. QED
  BY <1>1, <1>4, <1>5, <1>6

(* What is found without the end of the text is found with it.             *)
LEMMA ReadWhole ==
  ASSUME NEW T \in Text, NEW x
  PROVE  /\ Leads(T, FALSE, Origin, x) => Leads(T, TRUE, Origin, x)
         /\ \A k \in Nat \ {0} : Free(T, FALSE, k, x) => Free(T, TRUE, k, x)
<1>1. T \o <<>> = T /\ <<>> \in Text
  BY NoText, ConcatEmptySeq DEF Text
<1>2. Leads(T, FALSE, Origin, x) => Leads(T \o <<>>, TRUE, Origin, x)
  BY <1>1, LeadsGrow
<1>3. \A k \in Nat \ {0} : Free(T, FALSE, k, x) => Free(T \o <<>>, TRUE, k, x)
  BY <1>1, MarkedGrow
<1>4. QED
  BY <1>1, <1>2, <1>3

(* The end of a text outside a call: what is held is given as it is.       *)
LEMMA ReadEnd ==
  ASSUME NEW T \in Text, NEW p \in 1..Len(T) + 1, NEW n, NEW C \in Text, NEW R,
         p = Len(T) + 1 \/ (p = Len(T) /\ T[p] = "<")
  PROVE  /\ Read(T, "content", p, n, C, R) => \E z : Ended(T, z, n, C \o SubSeq(T, p, Len(T)), R)
         /\ Read(T, "think", p, n, C, R) => \E z : Ended(T, z, n, C, R \o SubSeq(T, p, Len(T)))
         /\ Read(T, "tool", p, n, C, R) => \E z : Ended(T, z, n, C, R)
<1> DEFINE l == Len(T)
           d == SubSeq(T, p, l)
<1>1. l \in Nat /\ p \in Nat \ {0} /\ p <= l + 1 /\ l + 1 \in Nat \ {0}
  BY TextLetters
<1>2. \A k \in p..l : k = l /\ k = p /\ \A x : ~Marked(T, k, x)
  <2>1. \A k \in p..l : k = l /\ k = p
    BY <1>1
  <2>2. \A x : ~Marked(T, l, x)
    BY <1>1 DEF Marked
  <2>3. QED
    BY <2>1, <2>2
<1>3. ASSUME Read(T, "content", p, n, C, R) PROVE \E z : Ended(T, z, n, C \o d, R)
  <2>1. PICK rs \in Seq(Text) : Leads(T, FALSE, Origin, <<p, C, rs>>) /\ n = Len(rs) /\ R = Str!FlattenSeq(rs)
    BY <1>3 DEF Read
  <2>2. Leads(T, TRUE, Origin, <<p, C, rs>>)
    BY <2>1, ReadWhole
  <2>3. \A k \in p..l : Plain(T, TRUE, k)
    BY <1>1, <1>2 DEF Plain, Free
  <2> DEFINE j == l + 1
  <2>3a. j \in Nat /\ p <= j /\ j - 1 = l
    BY <1>1
  <2>4. j \in Nat /\ p <= j /\ j - 1 = l /\ \A k \in p..j - 1 : Plain(T, TRUE, k)
    BY <2>3, <2>3a
  <2> HIDE DEF l, j
  <2>5. Leads(T, TRUE, <<p, C, rs>>, <<j, C \o SubSeq(T, p, j - 1), rs>>)
    BY <1>1, <2>4, LeadsPlain
  <2>6. Leads(T, TRUE, Origin, <<j, C \o d, rs>>)
    BY <2>2, <2>4, <2>5, LeadsOn
  <2> HIDE DEF d
  <2>7. Ended(T, <<j, C \o d, rs>>, n, C \o d, R)
    BY <1>1, <2>1, <2>6 DEF Ended, l, j
  <2>8. QED
    BY <2>7
<1>4. ASSUME Read(T, "think", p, n, C, R) PROVE \E z : Ended(T, z, n, C, R \o d)
  <2>1. PICK rs \in Seq(Text), o \in 1..p - 2 :
        /\ Leads(T, FALSE, Origin, <<o, C, rs>>)
        /\ Marked(T, o, "think>")
        /\ \A k \in o + 2..p - 1 : Free(T, FALSE, k, "/think>")
        /\ n = Len(rs) + 1 /\ R = Str!FlattenSeq(rs) \o SubSeq(T, o + 2, p - 1)
    BY <1>4 DEF Read
  <2> DEFINE a == Str!FlattenSeq(rs)
             b == SubSeq(T, o + 2, p - 1)
             x == SubSeq(T, o + 2, l)
             qs == Append(rs, x)
  <2>2. /\ o \in Nat \ {0} /\ o + 2 \in Nat \ {0} /\ p - 1 \in Nat /\ o + 2 <= p - 1 + 1 /\ p - 1 <= l /\ p - 1 + 1 = p
    BY <1>1
  <2>3. b \o d = x
    <3> DEFINE i0 == o + 2
               j0 == p - 1
    <3>1. i0 \in Nat \ {0} /\ j0 \in Nat /\ i0 <= j0 + 1 /\ j0 <= l /\ j0 + 1 = p /\ l <= Len(T) /\ l \in Nat
      BY <1>1, <2>2
    <3> HIDE DEF i0, j0, l
    <3>2. SubSeq(T, i0, j0) \o SubSeq(T, j0 + 1, l) = SubSeq(T, i0, l)
      BY <3>1, CutJoin
    <3>3. QED
      BY <3>1, <3>2 DEF i0, j0
  <2>4. a \in Text /\ b \in Text /\ d \in Text /\ x \in Text
    <3>1. a \in Text
      BY NoText, FlattenAppend
    <3>2. b \in Text /\ d \in Text /\ x \in Text
      BY <1>1, <2>2, CutText
    <3>3. QED
      BY <3>1, <3>2
  <2>5. \A m \in o + 2..l : ~Marked(T, m, "/think>")
    <3>1. \A m \in o + 2..l : m \in o + 2..p - 1 \/ m \in p..l
      BY <1>1, <2>2
    <3>2. QED
      BY <3>1, <2>1, <1>2 DEF Free
  <2>6. Goes(T, TRUE, <<o, C, rs>>, <<l + 1, C, qs>>)
    BY <2>1, <2>2, <2>5 DEF Goes
  <2>7. Leads(T, TRUE, Origin, <<l + 1, C, qs>>)
    BY <2>1, <2>6, ReadWhole, LeadsOn
  <2> HIDE DEF a, b, d, x
  <2>8. qs \in Seq(Text) /\ Len(qs) = Len(rs) + 1 /\ Str!FlattenSeq(qs) = a \o x
    BY <2>4, AppendProperties, FlattenAppend DEF a
  <2> HIDE DEF qs, l
  <2>9. (a \o b) \o d = a \o (b \o d)
    BY <2>4, Regroup
  <2>10. R \o d = Str!FlattenSeq(qs) /\ n = Len(qs)
    BY <2>1, <2>3, <2>8, <2>9 DEF a, b
  <2>11. Ended(T, <<l + 1, C, qs>>, n, C, R \o d)
    BY <1>1, <2>7, <2>8, <2>10 DEF Ended, l
  <2>12. QED
    BY <2>11
<1>5. ASSUME Read(T, "tool", p, n, C, R) PROVE \E z : Ended(T, z, n, C, R)
  <2>1. PICK rs \in Seq(Text) : /\ Leads(T, FALSE, Origin, <<p, C, rs>>) /\ n = Len(rs) /\ R = Str!FlattenSeq(rs)
                                /\ Marked(T, p, "tool_call>")
    BY <1>5 DEF Read
  <2>2. Leads(T, TRUE, Origin, <<p, C, rs>>)
    BY <2>1, ReadWhole
  <2>3. Ended(T, <<p, C, rs>>, n, C, R)
    BY <1>1, <2>1, <2>2 DEF Ended
  <2>4. QED
    BY <2>3
<1>6. QED
  BY <1>3, <1>4, <1>5

-----------------------------------------------------------------------------
(* One turn of push *)

(* A part of a part of a text, and the tags that stand in a part.          *)
LEMMA CutCut ==
  ASSUME NEW T \in Text, NEW i \in Nat \ {0}, NEW k \in Nat, k <= Len(T), i <= k + 1,
         NEW m \in Nat \ {0}, NEW n \in Nat, m <= n + 1, i + n - 1 <= k
  PROVE  SubSeq(SubSeq(T, i, k), m, n) = SubSeq(T, i + m - 1, i + n - 1)
<1> DEFINE s == SubSeq(T, i, k)
           a == i + m - 1
           b == i + n - 1
           p == SubSeq(s, m, n)
           q == SubSeq(T, a, b)
<1>a. IsCut(s, T, i, k)
  BY CutIs
<1> HIDE DEF s
<1>1. s \in Text /\ Len(s) = (IF i <= k THEN k - i + 1 ELSE 0) /\ \A x \in 1..Len(s) : s[x] = T[i + x - 1]
  BY <1>a DEF IsCut
<1>2. Len(s) = k - i + 1 /\ n <= Len(s)
  BY <1>1
<1>3. a \in Nat \ {0} /\ b \in Nat /\ b <= Len(T) /\ a <= b + 1 /\ b - a = n - m /\ Len(T) \in Nat
  BY TextLetters
<1>4. /\ p \in Text /\ Len(p) = (IF m <= n THEN n - m + 1 ELSE 0)
      /\ \A x \in 1..Len(p) : m + x - 1 \in 1..Len(s) /\ p[x] = s[m + x - 1]
  BY <1>1, <1>2, Cut
<1> HIDE DEF p
<1>5. a + 1 - 1 = a /\ \A x \in Nat : a + x - 1 = i + (m + x - 1) - 1
  OBVIOUS
<1> HIDE DEF a, b
<1>6. /\ q \in Text /\ Len(q) = (IF a <= b THEN b - a + 1 ELSE 0)
      /\ \A x \in 1..Len(q) : q[x] = T[a + x - 1]
  BY <1>3, Cut
<1> HIDE DEF q
<1>7. Len(p) = n - m + 1 /\ Len(q) = n - m + 1 /\ Len(p) \in Nat
  BY <1>3, <1>4, <1>6
<1>8. \A x \in 1..Len(p) : p[x] = q[x]
  <2>1. SUFFICES ASSUME NEW x \in 1..Len(p) PROVE p[x] = q[x]
    OBVIOUS
  <2>2. m + x - 1 \in 1..Len(s) /\ p[x] = s[m + x - 1] /\ x \in 1..Len(q) /\ x \in Nat
    BY <1>4, <1>7
  <2>3. s[m + x - 1] = T[i + (m + x - 1) - 1] /\ q[x] = T[a + x - 1]
    BY <2>2, <1>1, <1>6
  <2>4. QED
    BY <2>2, <2>3, <1>5
<1>9. p = q
  BY <1>4, <1>6, <1>7, <1>8, SeqEqual DEF Text
<1>10. QED
  BY <1>9 DEF p, q, a, b, s

(* The tags of a part of a text.                                           *)
LEMMA CutMarked ==
  ASSUME NEW T \in Text, NEW i \in Nat \ {0}, NEW k \in Nat, k <= Len(T), i <= k + 1, NEW x
  PROVE  /\ \A m \in Nat \ {0} : Marked(SubSeq(T, i, k), m, x) <=> i + m <= k /\ Marked(T, i + m - 1, x)
         /\ (\A m \in i..k : ~Marked(T, m, x)) => \A m \in Nat \ {0} : ~Marked(SubSeq(T, i, k), m, x)
<1> DEFINE s == SubSeq(T, i, k)
<1>1. s \in Text /\ Len(s) = (IF i <= k THEN k - i + 1 ELSE 0) /\ \A m \in 1..Len(s) : s[m] = T[i + m - 1]
  BY Cut
<1> HIDE DEF s
<1>2. Len(T) \in Nat /\ Len(s) = k - i + 1
  BY <1>1, TextLetters
<1>3. ASSUME NEW m \in Nat \ {0} PROVE Marked(s, m, x) <=> i + m <= k /\ Marked(T, i + m - 1, x)
  <2>1. m + 1 <= Len(s) <=> i + m <= k
    BY <1>2
  <2>2. CASE i + m <= k
    <3>1. m \in 1..Len(s) /\ m + 1 \in 1..Len(s) /\ i + (m + 1) - 1 = i + m - 1 + 1 /\ i + m - 1 + 1 <= Len(T)
      BY <1>2, <2>2
    <3>2. s[m] = T[i + m - 1] /\ s[m + 1] = T[i + m - 1 + 1]
      BY <3>1, <1>1
    <3>3. QED
      BY <2>1, <2>2, <3>1, <3>2 DEF Marked
  <2>3. CASE ~(i + m <= k)
    BY <2>1, <2>3 DEF Marked
  <2>4. QED
    BY <2>2, <2>3
<1>4. ASSUME \A m \in i..k : ~Marked(T, m, x), NEW m \in Nat \ {0} PROVE ~Marked(s, m, x)
  <2>1. i + m <= k => i + m - 1 \in i..k
    BY <1>2
  <2>2. QED
    BY <2>1, <1>3, <1>4
<1>5. QED
  BY <1>3, <1>4 DEF s

(* The hold, which is the end of the text from p on.                       *)
LEMMA HoldMeans ==
  ASSUME NEW T \in Text, NEW p \in 1..Len(T) + 1
  PROVE  LET hd == SubSeq(T, p, Len(T))
         IN  /\ hd \in Text /\ Len(hd) = Len(T) - p + 1
             /\ \A q \in 1..Len(hd) : hd[q] = T[p + q - 1]
             /\ \A q \in 1..Len(hd) + 1 : /\ Str!From(hd, q) = SubSeq(T, p + q - 1, Len(T))
                                          /\ Str!Before(hd, q) = SubSeq(T, p, p + q - 2)
             /\ \A q \in Nat \ {0}, x \in Names : Marked(hd, q, x) <=> Marked(T, p + q - 1, x)
<1> DEFINE l == Len(T)
           hd == SubSeq(T, p, l)
<1>1. l \in Nat /\ p \in Nat \ {0} /\ p <= l + 1 /\ l <= Len(T)
  BY TextLetters
<1>2. hd \in Text /\ Len(hd) = (IF p <= l THEN l - p + 1 ELSE 0) /\ \A q \in 1..Len(hd) : hd[q] = T[p + q - 1]
  <2> HIDE DEF l
  <2>1. QED
    BY <1>1, Cut
<1> HIDE DEF hd
<1>3. Len(hd) = l - p + 1
  <2> HIDE DEF l
  <2>1. QED
    BY <1>1, <1>2
<1>4. ASSUME NEW q \in 1..Len(hd) + 1
      PROVE  Str!From(hd, q) = SubSeq(T, p + q - 1, l) /\ Str!Before(hd, q) = SubSeq(T, p, p + q - 2)
  <2> DEFINE n == Len(hd)
             m == q - 1
  <2>0. n = Len(hd) /\ n = l - p + 1
    BY <1>3
  <2> HIDE DEF l, n
  <2>1. q \in Nat \ {0} /\ n \in Nat /\ q <= n + 1 /\ p + n - 1 = l /\ m \in Nat /\ 1 <= m + 1 /\ p + m - 1 <= l
        /\ p + 1 - 1 = p /\ p + m - 1 = p + q - 2
    BY <1>1, <2>0
  <2>2. Str!From(hd, q) = SubSeq(hd, q, n) /\ Str!Before(hd, q) = SubSeq(hd, 1, m)
    BY <2>0 DEF Str!From, Str!Before
  <2>3. SubSeq(hd, q, n) = SubSeq(T, p + q - 1, p + n - 1)
    BY <1>1, <2>1, CutCut DEF hd
  <2> HIDE DEF m
  <2>4. SubSeq(hd, 1, m) = SubSeq(T, p + 1 - 1, p + m - 1)
    <3> DEFINE one == 1
    <3>1. one \in Nat \ {0} /\ one <= m + 1
      BY <2>1
    <3> HIDE DEF one
    <3>2. SubSeq(hd, one, m) = SubSeq(T, p + one - 1, p + m - 1)
      BY <1>1, <2>1, <3>1, CutCut DEF hd
    <3>3. QED
      BY <3>2 DEF one
  <2>5. QED
    BY <2>1, <2>2, <2>3, <2>4
<1>5. ASSUME NEW q \in Nat \ {0}, NEW x \in Names PROVE Marked(hd, q, x) <=> Marked(T, p + q - 1, x)
  <2> HIDE DEF l
  <2>1. Marked(hd, q, x) <=> p + q <= l /\ Marked(T, p + q - 1, x)
    BY <1>1, CutMarked DEF hd
  <2>2. Marked(T, p + q - 1, x) => p + q <= l
    BY <1>1 DEF Marked, l
  <2>3. QED
    BY <2>1, <2>2
<1>6. QED
  BY <1>2, <1>3, <1>4, <1>5 DEF hd, l

\* None of the tags X stands in hd.
Barren(hd, X) == \A x \in X : \A k \in 1..Len(hd) : ~Marked(hd, k, x)

\* From p on f letters can be given: none of the tags X begins there.
Giveable(T, p, hd, X, f) ==
  /\ f \in Nat /\ f + 1 \in 1..Len(hd) + 1
  /\ \A k \in p..p + f - 1 : \A x \in X : Free(T, FALSE, k, x)
  /\ p + f = Len(T) + 1 \/ (p + f = Len(T) /\ T[p + f] = "<")

(* What flush gives out when none of the tags stands in the hold.          *)
LEMMA HoldFlush ==
  ASSUME NEW T \in Text, NEW p \in 1..Len(T) + 1, NEW hd, hd = SubSeq(T, p, Len(T)), NEW X, X \subseteq Names, X # {},
         Barren(hd, X),
         NEW Y, Y = {Str!Tag(x) : x \in X}, NEW f, f = Len(hd) - Str!HeldSuffix(hd, Y)
  PROVE  Giveable(T, p, hd, X, f)
<1> DEFINE n == Len(hd)
           g == Str!HeldSuffix(hd, {Str!Tag(x) : x \in X})
           l == Len(T)
<1>1. /\ hd \in Text /\ n = l - p + 1
      /\ \A q \in 1..n : hd[q] = T[p + q - 1]
      /\ \A q \in Nat \ {0}, x \in Names : Marked(hd, q, x) <=> Marked(T, p + q - 1, x)
  BY HoldMeans
<1>2. (g = 0 \/ g = 1) /\ g <= n /\ (g = 1 <=> n # 0 /\ hd[n] = "<")
  <2>1. \A x \in X : \A k \in 1..Len(hd) : ~Marked(hd, k, x)
    BY DEF Barren
  <2>2. QED
    BY <1>1, <2>1, HeldMeans
<1>3. l \in Nat /\ n \in Nat /\ p \in Nat \ {0} /\ p + n = l + 1
  <2>1. l \in Nat /\ n \in Nat
    BY <1>1, TextLetters
  <2> HIDE DEF l, n
  <2>2. QED
    BY <1>1, <2>1
<1>4. n # 0 => n \in 1..n /\ p + n - 1 = l /\ hd[n] = T[l]
  <2> HIDE DEF n, l
  <2>1. n # 0 => n \in 1..n /\ p + n - 1 = l
    BY <1>3
  <2>2. QED
    BY <2>1, <1>1
<1>4a. f = n - g
  OBVIOUS
<1> HIDE DEF n, g, l
<1>5. f \in Nat /\ f + 1 \in 1..n + 1
  BY <1>2, <1>3, <1>4a
<1>6. p + f = l + 1 \/ (p + f = l /\ T[p + f] = "<")
  <2>1. CASE g = 0
    <3>1. p + f = l + 1
      BY <2>1, <1>3, <1>4a, <1>5
    <3>2. QED
      BY <3>1
  <2>2. CASE g = 1
    <3>1. p + f = l
      BY <2>2, <1>3, <1>4a, <1>5
    <3>2. n # 0 /\ hd[n] = "<"
      BY <2>2, <1>2
    <3>3. T[l] = "<"
      BY <3>2, <1>4
    <3>4. QED
      BY <3>1, <3>3
  <2>3. QED
    BY <2>1, <2>2, <1>2
<1>7. ASSUME NEW k \in p..p + f - 1, NEW x \in X PROVE Free(T, FALSE, k, x)
  <2> DEFINE q == k - p + 1
  <2>1. q \in 1..n /\ q \in Nat \ {0} /\ p + q - 1 = k /\ k <= l
    BY <1>2, <1>3, <1>4a
  <2> HIDE DEF q
  <2>2. ~Marked(T, k, x)
    BY <2>1, <1>1 DEF n, Barren
  <2>3. k < l \/ T[k] # "<"
    <3>1. SUFFICES ASSUME k = l PROVE T[k] # "<"
      BY <2>1, <1>3
    <3>2. g = 0 /\ n # 0
      BY <3>1, <2>1, <1>2, <1>3, <1>4a
    <3>3. g # 1
      BY <3>2
    <3>4. hd[n] # "<" /\ hd[n] = T[l]
      BY <3>2, <3>3, <1>2, <1>4
    <3>5. QED
      BY <3>1, <3>4
  <2>4. QED
    BY <2>1, <2>2, <2>3 DEF Free, l
<1>8. QED
  BY <1>5, <1>6, <1>7 DEF n, g, l, Giveable

(* The first place of a tag in the hold, or 0.                             *)
LEMMA FirstTag ==
  ASSUME NEW s \in Text, NEW x \in Names, NEW q, q = Str!FindFrom(s, 1, Str!Tag(x))
  PROVE  /\ q \in Nat
         /\ q = 0 => Barren(s, {x})
         /\ q # 0 => q \in 1..Len(s) /\ Marked(s, q, x) /\ \A k \in 1..q - 1 : ~Marked(s, k, x)
<1> DEFINE one == 1
           p == Str!FindFrom(s, one, Str!Tag(x))
<1>1. one \in Nat \ {0} /\ p = q
  OBVIOUS
<1> HIDE DEF one
<1>2. /\ p \in Nat
      /\ p = 0 => \A k \in one..Len(s) : ~Marked(s, k, x)
      /\ p # 0 => p \in one..Len(s) /\ Marked(s, p, x) /\ \A k \in one..p - 1 : ~Marked(s, k, x)
  BY <1>1, FindTag
<1> HIDE DEF p
<1>3. QED
  BY <1>1, <1>2 DEF one, Barren

\* No tag that would end a span of that kind stands in x.
Untagged(d, x) == \A m \in Nat \ {0} : IF d = "content" THEN ~Marked(x, m, "think>") /\ ~Marked(x, m, "tool_call>")
                                       ELSE ~Marked(x, m, "/think>")

\* A turn t gives x as d and is then at j.
Gives(T, t, d, x, j, n, C, R) ==
  /\ t.ev = Str!Delta(d, x) /\ x \in Text /\ Untagged(d, x)
  /\ j \in 1..Len(T) + 1 /\ t.hold = SubSeq(T, j, Len(T)) /\ t.block \in {0, 1}
  /\ d \in {"content", "reasoning"}
  /\ Read(T, t.span, j, n + t.block, IF d = "content" THEN C \o x ELSE C, IF d = "reasoning" THEN R \o x ELSE R)
  /\ t.again \in BOOLEAN
  /\ t.again \/ t.span = "tool" \/ j = Len(T) + 1 \/ (j = Len(T) /\ T[j] = "<")

(* After the first call's tag nothing is given any more.                   *)
LEMMA TurnTool ==
  ASSUME text \in Text, NEW p \in 1..Len(text) + 1, hold = SubSeq(text, p, Len(text)),
         NEW n \in Nat, NEW C \in Text, NEW R \in Text, Read(text, "tool", p, n, C, R), span = "tool"
  PROVE  Gives(text, Str!Turn, "content", <<>>, p, n, C, R)
<1>1. Str!Turn = [ev |-> <<>>, hold |-> hold, span |-> span, block |-> 0, again |-> FALSE]
  BY DEF Str!Turn
<1> DEFINE t == Str!Turn
<1>2. t.ev = <<>> /\ t.hold = hold /\ t.span = "tool" /\ t.block = 0 /\ t.again = FALSE
  BY <1>1
<1> HIDE DEF t
<1>3. Str!Delta("content", <<>>) = <<>>
  BY DEF Str!Delta
<1>4. C \o <<>> = C /\ n + 0 = n
  BY ConcatEmptySeq DEF Text
<1>5. Untagged("content", <<>>)
  BY NoText DEF Untagged, Marked
<1>6. <<>> \in Text
  BY NoText
<1>7. Read(text, t.span, p, n + t.block, C \o <<>>, R)
  BY <1>2, <1>4
<1>8. Gives(text, t, "content", <<>>, p, n, C, R)
  BY <1>2, <1>3, <1>5, <1>6, <1>7 DEF Gives
<1>9. QED
  BY <1>8 DEF t

(* The hold up to place q, as a part of the text.                          *)
LEMMA TurnPart ==
  ASSUME NEW T \in Text, NEW p \in 1..Len(T) + 1, NEW hd, hd = SubSeq(T, p, Len(T)), NEW q \in 1..Len(hd) + 1
  PROVE  /\ Str!Before(hd, q) \in Text
         /\ Str!Before(hd, q) = SubSeq(T, p, p + q - 2)
         /\ \A x : (\A m \in p..p + q - 2 : ~Marked(T, m, x)) => \A m \in Nat \ {0} : ~Marked(Str!Before(hd, q), m, x)
<1>1. hd \in Text /\ Len(hd) = Len(T) - p + 1 /\ Str!Before(hd, q) = SubSeq(T, p, p + q - 2)
  BY HoldMeans
<1>2. Len(T) \in Nat
  BY TextLetters
<1> DEFINE k == p + q - 2
<1>3. k \in Nat /\ k <= Len(T) /\ p <= k + 1 /\ p \in Nat \ {0}
  BY <1>1, <1>2
<1> HIDE DEF k
<1>4. SubSeq(T, p, k) \in Text
  BY <1>3, CutText
<1>5. \A x : (\A m \in p..k : ~Marked(T, m, x)) => \A m \in Nat \ {0} : ~Marked(SubSeq(T, p, k), m, x)
  BY <1>3, CutMarked
<1>6. QED
  BY <1>1, <1>4, <1>5 DEF k

(* In a think block: up to the closing tag, or as much as can be given.    *)
LEMMA TurnThink ==
  ASSUME text \in Text, NEW p \in 1..Len(text) + 1, hold = SubSeq(text, p, Len(text)),
         NEW n \in Nat, NEW C \in Text, NEW R \in Text, Read(text, "think", p, n, C, R), span = "think"
  PROVE  \E x, j : Gives(text, Str!Turn, "reasoning", x, j, n, C, R)
<1> DEFINE T == text
           hd == hold
           l == Len(T)
           close == Str!FindFrom(hd, 1, Str!ThinkClose)
           f == Len(hd) - Str!HeldSuffix(hd, {Str!ThinkClose})
           t == Str!Turn
<1>0. Str!ThinkClose = Str!Tag("/think>") /\ "/think>" \in Names
  BY TagNames
<1>1. /\ hd \in Text /\ Len(hd) = l - p + 1
      /\ \A q \in 1..Len(hd) + 1 : Str!From(hd, q) = SubSeq(T, p + q - 1, l)
      /\ \A q \in Nat \ {0} : Marked(hd, q, "/think>") <=> Marked(T, p + q - 1, "/think>")
  BY <1>0, HoldMeans
<1>2. l \in Nat /\ p \in Nat \ {0} /\ p <= l + 1
  BY TextLetters
<1>3. /\ close \in Nat
      /\ close = 0 => Barren(hd, {"/think>"})
      /\ close # 0 => /\ close \in 1..Len(hd) /\ Marked(hd, close, "/think>")
                      /\ \A k \in 1..close - 1 : ~Marked(hd, k, "/think>")
  BY <1>0, <1>1, FirstTag
<1>4. CASE close # 0
  <2> DEFINE j == p + close - 1
             x == Str!Before(hd, close)
  <2>1. t = [ev |-> Str!Delta("reasoning", Str!Before(hold, close)), hold |-> Str!From(hold, close + 2), span |-> "content",
             block |-> 0, again |-> TRUE]
    BY <1>3, <1>4 DEF Str!Turn
  <2>2. t.ev = Str!Delta("reasoning", x) /\ t.hold = Str!From(hd, close + 2) /\ t.span = "content" /\ t.block = 0 /\ t.again = TRUE
    BY <2>1
  <2> HIDE DEF t, close
  <2>3. close \in 1..Len(hd) /\ Marked(T, j, "/think>") /\ \A k \in p..j - 1 : ~Marked(T, k, "/think>")
    <3>1. close \in 1..Len(hd) /\ close \in Nat \ {0} /\ Marked(T, j, "/think>")
      BY <1>1, <1>3, <1>4
    <3>2. ASSUME NEW k \in p..j - 1 PROVE ~Marked(T, k, "/think>")
      <4> DEFINE q == k - p + 1
      <4>1. q \in 1..close - 1 /\ q \in Nat \ {0} /\ p + q - 1 = k
        BY <1>2, <3>1
      <4> HIDE DEF q
      <4>2. QED
        BY <4>1, <1>1, <1>3, <1>4
    <3>3. QED
      BY <3>1, <3>2
  <2>4. j \in Nat \ {0} /\ p <= j /\ j + 1 <= l /\ j <= l + 1
    BY <1>2, <2>3 DEF Marked
  <2>5. \A k \in p..j - 1 : Free(T, FALSE, k, "/think>")
    <3>1. \A k \in p..j - 1 : k <= l /\ k < l
      BY <1>2, <2>4
    <3>2. QED
      BY <3>1, <2>3 DEF Free
  <2>6. Read(T, "think", j, n, C, R \o SubSeq(T, p, j - 1))
    <3> HIDE DEF j
    <3>1. QED
      BY <1>2, <2>4, <2>5, ReadThink
  <2>7. p + close - 2 = j - 1 /\ close \in 1..Len(hd) + 1 /\ p + (close + 2) - 1 = j + 2 /\ close + 2 \in 1..Len(hd) + 1
        /\ j + 2 \in 1..l + 1
    BY <1>1, <1>2, <2>3, <2>4
  <2>8. x \in Text /\ x = SubSeq(T, p, j - 1) /\ \A m \in Nat \ {0} : ~Marked(x, m, "/think>")
    <3>1. /\ x \in Text /\ x = SubSeq(T, p, p + close - 2)
          /\ \A y : (\A m \in p..p + close - 2 : ~Marked(T, m, y)) => \A m \in Nat \ {0} : ~Marked(x, m, y)
      BY <2>7, TurnPart
    <3>2. QED
      BY <3>1, <2>3, <2>7
  <2>9. t.hold = SubSeq(T, j + 2, l)
    BY <1>1, <2>2, <2>7
  <2> HIDE DEF x, j
  <2>10. Read(T, "content", j + 2, n, C, R \o x)
    BY <2>3, <2>4, <2>6, <2>8, ReadClose
  <2>11. Untagged("reasoning", x)
    BY <2>8 DEF Untagged
  <2>12. n + 0 = n
    OBVIOUS
  <2>13. Gives(T, t, "reasoning", x, j + 2, n, C, R)
    BY <2>2, <2>7, <2>8, <2>9, <2>10, <2>11, <2>12 DEF Gives
  <2>14. QED
    BY <2>13 DEF t
<1>5. CASE close = 0
  <2> DEFINE x == Str!Before(hd, f + 1)
             j == p + f
  <2>1. t = [ev |-> Str!Delta("reasoning", Str!Before(hold, f + 1)), hold |-> Str!From(hold, f + 1), span |-> span,
             block |-> 0, again |-> FALSE]
    BY <1>3, <1>5 DEF Str!Turn
  <2>2. t.ev = Str!Delta("reasoning", x) /\ t.hold = Str!From(hd, f + 1) /\ t.span = "think" /\ t.block = 0 /\ t.again = FALSE
    BY <2>1
  <2> HIDE DEF t, close
  <2>3. /\ f \in Nat /\ f + 1 \in 1..Len(hd) + 1
        /\ \A k \in p..p + f - 1 : Free(T, FALSE, k, "/think>")
        /\ p + f = l + 1 \/ (p + f = l /\ T[p + f] = "<")
    <3> DEFINE X == {"/think>"}
               Y == {Str!ThinkClose}
    <3>1. Y = {Str!Tag(y) : y \in X}
      BY <1>0
    <3>2. X \subseteq Names /\ X # {} /\ Barren(hd, X)
      BY <1>0, <1>3, <1>5
    <3>2a. "/think>" \in X /\ f = Len(hd) - Str!HeldSuffix(hd, Y)
      OBVIOUS
    <3> HIDE DEF X, Y, f
    <3>3. Giveable(T, p, hd, X, f)
      BY <3>1, <3>2, <3>2a, HoldFlush
    <3>4. QED
      BY <3>2a, <3>3 DEF Giveable
  <2> HIDE DEF f
  <2>4. f \in Int /\ j \in Nat \ {0} /\ p <= j /\ j <= l + 1 /\ p + (f + 1) - 2 = j - 1 /\ p + (f + 1) - 1 = j /\ j \in 1..l + 1
        /\ p + f - 1 = j - 1
    <3> HIDE DEF l
    <3>1. QED
      BY <1>1, <1>2, <2>3
  <2>5. Read(T, "think", j, n, C, R \o SubSeq(T, p, j - 1))
    <3> HIDE DEF j
    <3>1. QED
      BY <1>2, <2>3, <2>4, ReadThink
  <2>6. x \in Text /\ x = SubSeq(T, p, j - 1) /\ \A m \in Nat \ {0} : ~Marked(x, m, "/think>")
    <3>1. /\ x \in Text /\ x = SubSeq(T, p, p + (f + 1) - 2)
          /\ \A y : (\A m \in p..p + (f + 1) - 2 : ~Marked(T, m, y)) => \A m \in Nat \ {0} : ~Marked(x, m, y)
      BY <2>3, TurnPart
    <3>2. QED
      BY <3>1, <2>3, <2>4 DEF Free
  <2>7. t.hold = SubSeq(T, j, l)
    BY <1>1, <2>2, <2>3, <2>4
  <2>8. Untagged("reasoning", x)
    BY <2>6 DEF Untagged
  <2>9. (j = l + 1 \/ (j = l /\ T[j] = "<")) /\ n + 0 = n
    BY <2>3
  <2> HIDE DEF x, j
  <2>10. Gives(T, t, "reasoning", x, j, n, C, R)
    BY <2>2, <2>4, <2>5, <2>6, <2>7, <2>8, <2>9 DEF Gives
  <2>11. QED
    BY <2>10 DEF t
<1>6. QED
  BY <1>4, <1>5

\* The tag y stands at place q of the hold, which is place j of the text, and x does not begin between p and j.
UpTo(T, p, hd, q, j, y, x) ==
  /\ j \in Nat \ {0} /\ p <= j /\ j + 1 <= Len(T) /\ Marked(T, j, y) /\ p + q - 2 = j - 1
  /\ q + 2 \in 1..Len(hd) + 1 /\ p + (q + 2) - 1 = j + 2
  /\ \A k \in p..j - 1 : Free(T, FALSE, k, x)

(* Up to a tag in the hold before which another does not stand.            *)
LEMMA BeforeTag ==
  ASSUME NEW T \in Text, NEW p \in 1..Len(T) + 1, NEW hd, hd = SubSeq(T, p, Len(T)), NEW y \in Names, NEW x \in Names,
         NEW q \in 1..Len(hd), Marked(hd, q, y), \A k \in 1..q - 1 : ~Marked(hd, k, x), NEW j, j = p + q - 1
  PROVE  UpTo(T, p, hd, q, j, y, x)
<1> DEFINE l == Len(T)
<1>1. /\ hd \in Text /\ Len(hd) = l - p + 1
      /\ \A m \in Nat \ {0}, z \in Names : Marked(hd, m, z) <=> Marked(T, p + m - 1, z)
  BY HoldMeans
<1>2. l \in Nat /\ p \in Nat \ {0} /\ q \in Nat \ {0} /\ Len(hd) \in Nat
  BY <1>1, TextLetters
<1>3. Marked(T, j, y)
  BY <1>1, <1>2
<1>4. j + 1 <= l /\ q + 1 <= Len(hd)
  BY <1>3 DEF Marked
<1>5. /\ j \in Nat \ {0} /\ p <= j /\ p + q - 2 = j - 1
      /\ q + 2 \in 1..Len(hd) + 1 /\ p + (q + 2) - 1 = j + 2
  <2> HIDE DEF l
  <2>1. QED
    BY <1>2, <1>4
<1>6. ASSUME NEW k \in p..j - 1 PROVE Free(T, FALSE, k, x)
  <2> DEFINE m == k - p + 1
  <2>1. m \in 1..q - 1 /\ m \in Nat \ {0} /\ p + m - 1 = k /\ k <= l /\ k < l
    <3> HIDE DEF l
    <3>1. QED
      BY <1>2, <1>4, <1>5
  <2> HIDE DEF m
  <2>2. ~Marked(T, k, x)
    BY <1>1, <2>1
  <2>3. QED
    BY <2>1, <2>2 DEF Free
<1>7. QED
  BY <1>3, <1>4, <1>5, <1>6 DEF UpTo

(* In content: up to the first tag, or as much as can be given.            *)
LEMMA TurnContent ==
  ASSUME text \in Text, NEW p \in 1..Len(text) + 1, hold = SubSeq(text, p, Len(text)),
         NEW n \in Nat, NEW C \in Text, NEW R \in Text, Read(text, "content", p, n, C, R), span = "content"
  PROVE  \E x, j : Gives(text, Str!Turn, "content", x, j, n, C, R)
<1> DEFINE T == text
           hd == hold
           l == Len(T)
           think == Str!FindFrom(hd, 1, Str!ThinkOpen)
           tool == Str!FindFrom(hd, 1, Str!ToolOpen)
           f == Len(hd) - Str!HeldSuffix(hd, {Str!ThinkOpen, Str!ToolOpen})
           t == Str!Turn
<1>0. /\ Str!ThinkOpen = Str!Tag("think>") /\ "think>" \in Names
      /\ Str!ToolOpen = Str!Tag("tool_call>") /\ "tool_call>" \in Names
  BY TagNames
<1>1. /\ hd \in Text /\ Len(hd) = l - p + 1
      /\ \A q \in 1..Len(hd) + 1 : Str!From(hd, q) = SubSeq(T, p + q - 1, l)
  BY HoldMeans
<1>2. l \in Nat /\ p \in Nat \ {0} /\ p <= l + 1
  BY TextLetters
<1>3. /\ think \in Nat
      /\ think = 0 => Barren(hd, {"think>"})
      /\ think # 0 => /\ think \in 1..Len(hd) /\ Marked(hd, think, "think>")
                      /\ \A k \in 1..think - 1 : ~Marked(hd, k, "think>")
  BY <1>0, <1>1, FirstTag
<1>4. /\ tool \in Nat
      /\ tool = 0 => Barren(hd, {"tool_call>"})
      /\ tool # 0 => /\ tool \in 1..Len(hd) /\ Marked(hd, tool, "tool_call>")
                     /\ \A k \in 1..tool - 1 : ~Marked(hd, k, "tool_call>")
  BY <1>0, <1>1, FirstTag
\* A stretch of content, as it is given.
<1>5. ASSUME NEW q \in 1..Len(hd) + 1, NEW j \in Nat, p + q - 2 = j - 1, p <= j, j <= l + 1,
             \A k \in p..j - 1 : Free(T, FALSE, k, "think>") /\ Free(T, FALSE, k, "tool_call>")
      PROVE  /\ Str!Before(hd, q) \in Text /\ Untagged("content", Str!Before(hd, q))
             /\ Read(T, "content", j, n, C \o Str!Before(hd, q), R)
  <2> DEFINE x == Str!Before(hd, q)
  <2>1. /\ x \in Text /\ x = SubSeq(T, p, j - 1)
        /\ \A y : (\A m \in p..j - 1 : ~Marked(T, m, y)) => \A m \in Nat \ {0} : ~Marked(x, m, y)
    <3>1. /\ x \in Text /\ x = SubSeq(T, p, p + q - 2)
          /\ \A y : (\A m \in p..p + q - 2 : ~Marked(T, m, y)) => \A m \in Nat \ {0} : ~Marked(x, m, y)
      BY TurnPart
    <3>2. QED
      BY <3>1, <1>5
  <2> HIDE DEF x
  <2>2. Untagged("content", x)
    BY <2>1, <1>5 DEF Untagged, Free
  <2>3. \A k \in p..j - 1 : Plain(T, FALSE, k)
    BY <1>5 DEF Plain
  <2>4. Read(T, "content", j, n, C \o SubSeq(T, p, j - 1), R)
    BY <1>2, <1>5, <2>3, ReadPlain
  <2>5. QED
    BY <2>1, <2>2, <2>4 DEF x
<1>6. CASE think # 0 /\ (tool = 0 \/ think < tool)
  <2> DEFINE j == p + think - 1
             x == Str!Before(hd, think)
  <2>1. t = [ev |-> Str!Delta("content", Str!Before(hold, think)), hold |-> Str!From(hold, think + 2), span |-> "think",
             block |-> 1, again |-> TRUE]
    BY <1>3, <1>4, <1>6 DEF Str!Turn
  <2>2. t.ev = Str!Delta("content", x) /\ t.hold = Str!From(hd, think + 2) /\ t.span = "think" /\ t.block = 1 /\ t.again = TRUE
    BY <2>1
  <2> HIDE DEF t
  <2>3. think \in 1..Len(hd) /\ Marked(hd, think, "think>") /\ \A k \in 1..think - 1 : ~Marked(hd, k, "think>")
    BY <1>3, <1>6
  <2>4. \A k \in 1..think - 1 : ~Marked(hd, k, "tool_call>")
    <3>1. \A k \in 1..think - 1 : k \in 1..Len(hd) /\ (think < tool => k \in 1..tool - 1)
      <4> HIDE DEF l, hd, think, tool
      <4>1. Len(hd) \in Nat
        BY <1>1, TextLetters
      <4>2. QED
        BY <2>3, <4>1, <1>3, <1>4
    <3>2. QED
      BY <3>1, <1>3, <1>4, <1>6 DEF Barren
  <2> HIDE DEF think
  <2>5. /\ j \in Nat \ {0} /\ p <= j /\ j + 1 <= l /\ Marked(T, j, "think>") /\ p + think - 2 = j - 1
        /\ think + 2 \in 1..Len(hd) + 1 /\ p + (think + 2) - 1 = j + 2
        /\ \A k \in p..j - 1 : Free(T, FALSE, k, "think>")
    <3>1. UpTo(T, p, hd, think, j, "think>", "think>")
      BY <1>0, <2>3, BeforeTag
    <3>2. QED
      BY <3>1 DEF UpTo
  <2>6. \A k \in p..j - 1 : Free(T, FALSE, k, "tool_call>")
    <3>1. UpTo(T, p, hd, think, j, "think>", "tool_call>")
      BY <1>0, <2>3, <2>4, BeforeTag
    <3>2. QED
      BY <3>1 DEF UpTo
  <2> HIDE DEF j
  <2>7. think \in 1..Len(hd) + 1 /\ j \in Nat /\ j <= l + 1 /\ j + 2 \in 1..l + 1
    <3>1. Len(hd) \in Nat
      BY <1>1, TextLetters
    <3> HIDE DEF l, hd
    <3>2. QED
      BY <3>1, <2>3, <2>5, <1>2
  <2>8. x \in Text /\ Untagged("content", x) /\ Read(T, "content", j, n, C \o x, R)
    BY <1>5, <2>5, <2>6, <2>7
  <2>9. t.hold = SubSeq(T, j + 2, l)
    BY <1>1, <2>2, <2>5
  <2> HIDE DEF x
  <2>10. C \o x \in Text
    BY <2>8, Joined
  <2>11. Read(T, "think", j + 2, n + 1, C \o x, R)
    BY <2>5, <2>8, <2>10, ReadOpen
  <2>12. Gives(T, t, "content", x, j + 2, n, C, R)
    BY <2>2, <2>7, <2>8, <2>9, <2>11 DEF Gives
  <2>13. QED
    BY <2>12 DEF t
<1>7. CASE tool # 0 /\ (think = 0 \/ tool < think)
  <2> DEFINE j == p + tool - 1
             x == Str!Before(hd, tool)
  <2>1. t = [ev |-> Str!Delta("content", Str!Before(hold, tool)), hold |-> Str!From(hold, tool), span |-> "tool",
             block |-> 0, again |-> TRUE]
    BY <1>3, <1>4, <1>7 DEF Str!Turn
  <2>2. t.ev = Str!Delta("content", x) /\ t.hold = Str!From(hd, tool) /\ t.span = "tool" /\ t.block = 0 /\ t.again = TRUE
    BY <2>1
  <2> HIDE DEF t
  <2>3. tool \in 1..Len(hd) /\ Marked(hd, tool, "tool_call>") /\ \A k \in 1..tool - 1 : ~Marked(hd, k, "tool_call>")
    BY <1>4, <1>7
  <2>4. \A k \in 1..tool - 1 : ~Marked(hd, k, "think>")
    <3>1. \A k \in 1..tool - 1 : k \in 1..Len(hd) /\ (tool < think => k \in 1..think - 1)
      <4> HIDE DEF l, hd, think, tool
      <4>1. Len(hd) \in Nat
        BY <1>1, TextLetters
      <4>2. QED
        BY <2>3, <4>1, <1>3, <1>4
    <3>2. QED
      BY <3>1, <1>3, <1>4, <1>7 DEF Barren
  <2> HIDE DEF tool
  <2>5. /\ j \in Nat \ {0} /\ p <= j /\ j + 1 <= l /\ Marked(T, j, "tool_call>") /\ p + tool - 2 = j - 1
        /\ \A k \in p..j - 1 : Free(T, FALSE, k, "tool_call>")
    <3>1. UpTo(T, p, hd, tool, j, "tool_call>", "tool_call>")
      BY <1>0, <2>3, BeforeTag
    <3>2. QED
      BY <3>1 DEF UpTo
  <2>6. \A k \in p..j - 1 : Free(T, FALSE, k, "think>")
    <3>1. UpTo(T, p, hd, tool, j, "tool_call>", "think>")
      BY <1>0, <2>3, <2>4, BeforeTag
    <3>2. QED
      BY <3>1 DEF UpTo
  <2>6a. p + tool - 1 = j
    OBVIOUS
  <2> HIDE DEF j
  <2>7. tool \in 1..Len(hd) + 1 /\ j \in Nat /\ j <= l + 1 /\ j \in 1..l + 1
    <3>1. Len(hd) \in Nat
      BY <1>1, TextLetters
    <3> HIDE DEF l, hd
    <3>2. QED
      BY <3>1, <2>3, <2>5, <1>2
  <2>8. x \in Text /\ Untagged("content", x) /\ Read(T, "content", j, n, C \o x, R)
    BY <1>5, <2>5, <2>6, <2>7
  <2>9. t.hold = SubSeq(T, j, l)
    BY <1>1, <2>2, <2>6a, <2>7
  <2> HIDE DEF x
  <2>10. C \o x \in Text
    BY <2>8, Joined
  <2>11. Read(T, "tool", j, n, C \o x, R) /\ n + 0 = n
    BY <2>5, <2>8, <2>10, ReadTool
  <2>12. Gives(T, t, "content", x, j, n, C, R)
    BY <2>2, <2>7, <2>8, <2>9, <2>11 DEF Gives
  <2>13. QED
    BY <2>12 DEF t
<1>8. CASE think = 0 /\ tool = 0
  <2> DEFINE j == p + f
             x == Str!Before(hd, f + 1)
  <2>1. t = [ev |-> Str!Delta("content", Str!Before(hold, f + 1)), hold |-> Str!From(hold, f + 1), span |-> span,
             block |-> 0, again |-> FALSE]
    BY <1>8 DEF Str!Turn
  <2>2. t.ev = Str!Delta("content", x) /\ t.hold = Str!From(hd, f + 1) /\ t.span = "content" /\ t.block = 0 /\ t.again = FALSE
    BY <2>1
  <2> HIDE DEF t
  <2>3. /\ f \in Nat /\ f + 1 \in 1..Len(hd) + 1
        /\ \A k \in p..p + f - 1 : Free(T, FALSE, k, "think>") /\ Free(T, FALSE, k, "tool_call>")
        /\ p + f = l + 1 \/ (p + f = l /\ T[p + f] = "<")
    <3> DEFINE X == {"think>", "tool_call>"}
               Y == {Str!ThinkOpen, Str!ToolOpen}
    <3>1. Y = {Str!Tag(y) : y \in X}
      BY <1>0
    <3>2. X \subseteq Names /\ X # {} /\ Barren(hd, X)
      BY <1>0, <1>3, <1>4, <1>8 DEF Barren
    <3>2a. "think>" \in X /\ "tool_call>" \in X /\ f = Len(hd) - Str!HeldSuffix(hd, Y)
      OBVIOUS
    <3> HIDE DEF X, Y, f
    <3>3. Giveable(T, p, hd, X, f)
      BY <3>1, <3>2, <3>2a, HoldFlush
    <3>4. QED
      BY <3>2a, <3>3 DEF Giveable
  <2> HIDE DEF f
  <2>4. /\ j \in Nat \ {0} /\ p <= j /\ j <= l + 1 /\ p + (f + 1) - 2 = j - 1 /\ p + (f + 1) - 1 = j /\ j \in 1..l + 1
        /\ p + f - 1 = j - 1
    <3> HIDE DEF l
    <3>1. QED
      BY <1>1, <1>2, <2>3
  <2>5. (j = l + 1 \/ (j = l /\ T[j] = "<")) /\ n + 0 = n
    BY <2>3
  <2>6. x \in Text /\ Untagged("content", x) /\ Read(T, "content", j, n, C \o x, R)
    <3>1. \A k \in p..j - 1 : Free(T, FALSE, k, "think>") /\ Free(T, FALSE, k, "tool_call>")
      BY <2>3, <2>4
    <3> HIDE DEF j
    <3>2. QED
      BY <1>5, <2>3, <2>4, <3>1
  <2>7. t.hold = SubSeq(T, j, l)
    BY <1>1, <2>2, <2>3, <2>4
  <2> HIDE DEF x, j
  <2>8. Gives(T, t, "content", x, j, n, C, R)
    BY <2>2, <2>4, <2>5, <2>6, <2>7 DEF Gives
  <2>9. QED
    BY <2>8 DEF t
<1>9. think # 0 /\ tool # 0 => think # tool
  BY <1>3, <1>4 DEF Marked
<1>10. QED
  <2> HIDE DEF think, tool, t, T
  <2>1. think < tool \/ tool < think \/ think = tool
    BY <1>3, <1>4
  <2>2. QED
    BY <2>1, <1>6, <1>7, <1>8, <1>9 DEF t, T

-----------------------------------------------------------------------------
(* Events *)

Kinds == {"role", "content", "reasoning", "call", "finish", "usage", "done", "message", "error"}
Spoken == {"content", "reasoning"}
Reasons == {"", "stop", "length", "tool_calls", "error"}

\* What the client may get: no markup in what it is told.
Event == {e \in [k : Kinds, v : Text \cup Nat \cup Reasons] : e.k \in Spoken => e.v \in Text /\ Untagged(e.k, e.v)}

SaidList(es, d) == [i \in 1..Len(es) |-> IF es[i].k = d THEN es[i].v ELSE <<>>]
SaidOf(es, d) == Str!FlattenSeq(SaidList(es, d))

(* What the events of a list say is a text.                                *)
LEMMA SaidText ==
  ASSUME NEW es \in Seq(Event), NEW d \in Spoken
  PROVE  SaidList(es, d) \in Seq(Text) /\ Len(SaidList(es, d)) = Len(es) /\ SaidOf(es, d) \in Text
<1> DEFINE n == Len(es)
           ps == SaidList(es, d)
<1>1. n \in Nat /\ \A i \in 1..n : es[i] \in Event
  BY LenProperties, ElementOfSeq
<1> HIDE DEF n
<1>2. \A i \in 1..n : (IF es[i].k = d THEN es[i].v ELSE <<>>) \in Text
  BY <1>1, NoText DEF Event
<1>3. ps = [i \in 1..n |-> IF es[i].k = d THEN es[i].v ELSE <<>>]
  BY DEF SaidList, n
<1> HIDE DEF ps
<1>4. ps \in [1..n -> Text] /\ DOMAIN ps = 1..n
  BY <1>2, <1>3
<1>5. ps \in Seq(Text)
  BY <1>1, <1>4, SeqDef
<1>6. Len(ps) = n
  BY <1>1, <1>4, <1>5, LenProperties
<1>7. Str!FlattenSeq(ps) \in Text
  BY <1>5, NoText, FlattenAppend
<1>8. QED
  BY <1>5, <1>6, <1>7 DEF ps, n, SaidOf

(* Two lists of events say what one says and then what the other says.     *)
LEMMA SaidCat ==
  ASSUME NEW es \in Seq(Event), NEW fs \in Seq(Event), NEW d \in Spoken
  PROVE  SaidOf(es \o fs, d) = SaidOf(es, d) \o SaidOf(fs, d)
<1> DEFINE a == Len(es)
           b == Len(fs)
           gs == es \o fs
           p == SaidList(es, d)
           q == SaidList(fs, d)
           r == SaidList(gs, d)
<1>1. /\ gs \in Seq(Event) /\ a \in Nat /\ b \in Nat /\ Len(gs) = a + b
      /\ \A i \in 1..a + b : gs[i] = IF i <= a THEN es[i] ELSE fs[i - a]
  BY ConcatProperties, LenProperties
<1>2. p \in Seq(Text) /\ Len(p) = a /\ q \in Seq(Text) /\ Len(q) = b
  BY SaidText
<1>3. r \in Seq(Text) /\ Len(r) = a + b
  <2>1. gs \in Seq(Event) /\ Len(gs) = a + b
    BY <1>1
  <2> HIDE DEF gs, a, b
  <2>2. QED
    BY <2>1, SaidText
<1>4. /\ p \o q \in Seq(Text) /\ Len(p \o q) = a + b
      /\ \A i \in 1..a + b : (p \o q)[i] = IF i <= a THEN p[i] ELSE q[i - a]
  <2>1. /\ p \o q \in Seq(Text) /\ Len(p \o q) = Len(p) + Len(q)
        /\ \A i \in 1..Len(p) + Len(q) : (p \o q)[i] = IF i <= Len(p) THEN p[i] ELSE q[i - Len(p)]
    BY <1>2, ConcatProperties
  <2> HIDE DEF p, q, a, b
  <2>2. QED
    BY <2>1, <1>2
<1>5. /\ \A i \in 1..a : p[i] = IF es[i].k = d THEN es[i].v ELSE <<>>
      /\ \A i \in 1..b : q[i] = IF fs[i].k = d THEN fs[i].v ELSE <<>>
      /\ \A i \in 1..a + b : r[i] = IF gs[i].k = d THEN gs[i].v ELSE <<>>
  <2>1. Len(gs) = a + b
    BY <1>1
  <2> HIDE DEF gs
  <2>2. QED
    BY <2>1 DEF SaidList
<1> HIDE DEF a, b, gs, p, q, r
<1>6. ASSUME NEW i \in 1..a + b PROVE r[i] = (p \o q)[i]
  <2>1. CASE i <= a
    <3>1. i \in 1..a
      BY <1>1, <2>1
    <3>2. gs[i] = es[i] /\ (p \o q)[i] = p[i]
      BY <2>1, <1>1, <1>4
    <3>3. QED
      BY <3>1, <3>2, <1>5
  <2>2. CASE ~(i <= a)
    <3>1. i - a \in 1..b
      BY <1>1, <2>2
    <3>2. gs[i] = fs[i - a] /\ (p \o q)[i] = q[i - a]
      BY <2>2, <1>1, <1>4
    <3>3. QED
      BY <3>1, <3>2, <1>5
  <2>3. QED
    BY <2>1, <2>2
<1>7. r = p \o q
  BY <1>3, <1>4, <1>6, SeqEqual
<1>8. Str!FlattenSeq(p \o q) = Str!FlattenSeq(p) \o Str!FlattenSeq(q)
  BY <1>2, FlattenCat
<1>9. QED
  BY <1>7, <1>8 DEF SaidOf, p, q, r, gs

(* One piece is its own text, and empty pieces are no text.                *)
LEMMA FlattenOne ==
  ASSUME NEW x \in Text
  PROVE  Str!FlattenSeq(<<x>>) = x /\ <<x>> \in Seq(Text)
<1>1. <<>> \in Seq(Text) /\ Append(<<>>, x) = <<x>> /\ <<x>> \in Seq(Text)
  BY EmptySeq
<1>2. Str!FlattenSeq(Append(<<>>, x)) = Str!FlattenSeq(<<>>) \o x /\ Str!FlattenSeq(<<>>) = <<>>
  BY <1>1, FlattenAppend
<1>3. <<>> \o x = x
  BY ConcatEmptySeq DEF Text
<1>4. QED
  BY <1>1, <1>2, <1>3

(* Joining empty texts gives no text.                                      *)
LEMMA FlattenNone ==
  ASSUME NEW ps \in Seq(Text), \A i \in 1..Len(ps) : ps[i] = <<>>
  PROVE  Str!FlattenSeq(ps) = <<>>
<1> DEFINE n == Len(ps)
<1>1. n \in Nat
  BY LenProperties
<1>2. CASE n = 0
  <2>1. ps = <<>>
    BY <1>2, EmptySeq
  <2>2. QED
    BY <2>1, NoText, FlattenAppend
<1>3. CASE n # 0
  <2>1. PICK f \in [1..n -> Text] :
           /\ Str!FlattenSeq(ps) = f[n] /\ f[1] = ps[1]
           /\ \A i \in 2..n : f[i] = f[i - 1] \o ps[i]
    BY <1>3, FlattenBy
  <2>1a. \A i \in 1..n : ps[i] = <<>>
    OBVIOUS
  <2> HIDE DEF n
  <2> DEFINE Bad == {k \in 1..n : f[k] # <<>>}
  <2>2. Bad = {}
    <3>1. SUFFICES ASSUME Bad # {} PROVE FALSE
      OBVIOUS
    <3>2. Bad \subseteq Nat
      OBVIOUS
    <3>3. PICK k \in Bad : \A m \in Bad : k <= m
      BY <3>1, <3>2, LeastNat
    <3>4. k \in 1..n /\ f[k] # <<>>
      BY <3>3
    <3>5. k # 1
      <4>1. 1 \in 1..n
        BY <1>1, <1>3
      <4>2. QED
        BY <4>1, <3>4, <2>1, <2>1a
    <3>6. k \in 2..n /\ k - 1 \in 1..n /\ ~(k <= k - 1)
      BY <3>4, <3>5, <1>1
    <3>7. f[k - 1] = <<>>
      BY <3>3, <3>6
    <3>8. f[k] = <<>> \o <<>>
      BY <3>4, <3>6, <3>7, <2>1, <2>1a
    <3>9. <<>> \o <<>> = <<>>
      BY NoText, ConcatEmptySeq DEF Text
    <3>10. QED
      BY <3>4, <3>8, <3>9
  <2>3. n \in 1..n
    BY <1>1, <1>3
  <2>4. QED
    BY <2>1, <2>2, <2>3
<1>4. QED
  BY <1>2, <1>3

(* Events of other kinds say nothing.                                      *)
LEMMA SaidNone ==
  ASSUME NEW es \in Seq(Event), NEW d \in Spoken, \A i \in 1..Len(es) : es[i].k # d
  PROVE  SaidOf(es, d) = <<>>
<1> DEFINE ps == SaidList(es, d)
<1>1. ps \in Seq(Text) /\ Len(ps) = Len(es)
  BY SaidText
<1>2. \A i \in 1..Len(es) : ps[i] = <<>>
  BY DEF SaidList
<1> HIDE DEF ps
<1>3. Str!FlattenSeq(ps) = <<>>
  BY <1>1, <1>2, FlattenNone
<1>4. QED
  BY <1>3 DEF ps, SaidOf

(* One event.                                                              *)
LEMMA SaidOne ==
  ASSUME NEW e \in Event, NEW d \in Spoken
  PROVE  <<e>> \in Seq(Event) /\ SaidOf(<<e>>, d) = IF e.k = d THEN e.v ELSE <<>>
<1> DEFINE es == <<e>>
<1>1. es \in Seq(Event) /\ Len(es) = 1 /\ es[1] = e
  OBVIOUS
<1> HIDE DEF es
<1>2. CASE e.k # d
  <2>1. \A i \in 1..Len(es) : es[i].k # d
    <3>1. \A i \in 1..Len(es) : i = 1
      BY <1>1
    <3>2. QED
      BY <3>1, <1>1, <1>2
  <2>2. QED
    BY <2>1, <1>1, <1>2, SaidNone DEF es
<1>3. CASE e.k = d
  <2> DEFINE ps == SaidList(es, d)
             x == e.v
  <2>1. ps \in Seq(Text) /\ Len(ps) = 1
    BY <1>1, SaidText
  <2>2. x \in Text
    BY <1>3 DEF Event
  <2>3. ps[1] = x
    <3>1. 1 \in 1..Len(es)
      BY <1>1
    <3>2. QED
      BY <3>1, <1>1, <1>3 DEF SaidList
  <2> HIDE DEF ps, x
  <2>4. ps = <<x>>
    <3>1. <<x>> \in Seq(Text) /\ Len(<<x>>) = 1 /\ <<x>>[1] = x
      BY <2>2
    <3> DEFINE q == <<x>>
    <3>2. q \in Seq(Text) /\ Len(q) = 1 /\ q[1] = x
      BY <3>1
    <3> HIDE DEF q
    <3>3. \A i \in 1..Len(ps) : ps[i] = q[i]
      <4>1. \A i \in 1..Len(ps) : i = 1
        BY <2>1
      <4>2. QED
        BY <4>1, <3>2, <2>3
    <3>4. ps = q
      BY <2>1, <3>2, <3>3, SeqEqual
    <3>5. QED
      BY <3>4 DEF q
  <2>5. SaidOf(es, d) = x
    BY <2>2, <2>4, FlattenOne DEF SaidOf, ps
  <2>6. QED
    BY <1>1, <1>3, <2>5 DEF es, x
<1>4. QED
  BY <1>2, <1>3

-----------------------------------------------------------------------------
(* parser::parse *)

(* Reading does one thing.                                                 *)
LEMMA GoesOnce ==
  ASSUME NEW T \in Text, NEW e \in BOOLEAN, NEW y, NEW a, NEW b, Goes(T, e, y, a), Goes(T, e, y, b)
  PROVE  a = b
<1> DEFINE i == y[1]
           Block(x, k) == Shut(T, i + 2, k) /\ x = <<k + 2, y[2], Append(y[3], SubSeq(T, i + 2, k - 1))>>
           First(x) == Plain(T, e, i) /\ x = <<i + 1, Append(y[2], T[i]), y[3]>>
           Second(x) == Marked(T, i, "think>") /\ \E k \in i + 2..Len(T) : Block(x, k)
           Third(x) == /\ e /\ Marked(T, i, "think>")
                       /\ \A m \in i + 2..Len(T) : ~Marked(T, m, "/think>")
                       /\ x = <<Len(T) + 1, y[2], Append(y[3], SubSeq(T, i + 2, Len(T)))>>
<1>1. i \in Nat \ {0} /\ (First(a) \/ Second(a) \/ Third(a)) /\ (First(b) \/ Second(b) \/ Third(b))
  BY DEF Goes
<1>2. Len(T) \in Nat
  BY TextLetters
<1> HIDE DEF i
<1>3. \A x : First(x) => ~Marked(T, i, "think>")
  BY DEF Plain, Free
<1>4. \A x, z : Second(x) /\ Third(z) => FALSE
  BY DEF Shut
<1>5. ASSUME Second(a), Second(b) PROVE a = b
  <2>1. PICK k \in i + 2..Len(T) : Block(a, k)
    BY <1>5
  <2>2. PICK m \in i + 2..Len(T) : Block(b, m)
    BY <1>5
  <2>3. ~(k < m)
    <3>1. SUFFICES ASSUME k < m PROVE FALSE
      OBVIOUS
    <3>2. k \in i + 2..m - 1
      BY <3>1, <1>1, <1>2
    <3>3. QED
      BY <3>2, <2>1, <2>2 DEF Shut
  <2>4. ~(m < k)
    <3>1. SUFFICES ASSUME m < k PROVE FALSE
      OBVIOUS
    <3>2. m \in i + 2..k - 1
      BY <3>1, <1>1, <1>2
    <3>3. QED
      BY <3>2, <2>1, <2>2 DEF Shut
  <2>5. k = m
    BY <2>3, <2>4, <1>1, <1>2
  <2>6. QED
    BY <2>1, <2>2, <2>5
<1>6. First(a) /\ First(b) => a = b
  OBVIOUS
<1>7. Third(a) /\ Third(b) => a = b
  OBVIOUS
<1>8. \A x : Second(x) \/ Third(x) => Marked(T, i, "think>")
  OBVIOUS
<1> HIDE DEF First, Second, Third
<1>9. QED
  BY <1>1, <1>3, <1>4, <1>5, <1>6, <1>7, <1>8

(* Where a search ends.                                                    *)
LEMMA FindNat ==
  ASSUME NEW s \in Text, NEW i \in Nat \ {0}, NEW t
  PROVE  LET p == Str!FindFrom(s, i, t) IN p \in Nat /\ (p = 0 \/ p \in i..Len(s))
<1> DEFINE B == {k \in i..Len(s) : Str!At(s, k, t)}
<1>1. Len(s) \in Nat
  BY TextLetters
<1>2. B \subseteq Nat /\ B \subseteq i..Len(s)
  BY <1>1
<1>3. Str!FindFrom(s, i, t) = IF B = {} THEN 0 ELSE Str!Min(B)
  BY DEF Str!FindFrom
<1> HIDE DEF B
<1>4. B # {} => Str!Min(B) \in B
  BY <1>2, MinHas
<1>5. CASE B = {}
  BY <1>3, <1>5
<1>6. CASE B # {}
  BY <1>2, <1>3, <1>4, <1>6
<1>7. QED
  BY <1>5, <1>6

(* Where a ">" is looked for.                                              *)
LEMMA GtNat ==
  ASSUME text \in Text, NEW i \in Nat \ {0}
  PROVE  Str!GtFrom(i) \in Nat
<1> DEFINE B == {k \in i..Len(text) : text[k] \in Str!Gt}
<1>1. Len(text) \in Nat
  BY TextLetters
<1>2. B \subseteq Nat
  BY <1>1
<1>3. Str!GtFrom(i) = IF B = {} THEN 0 ELSE Str!Min(B)
  BY DEF Str!GtFrom
<1> HIDE DEF B
<1>4. B # {} => Str!Min(B) \in B
  BY <1>2, MinHas
<1>5. CASE B = {}
  BY <1>3, <1>5
<1>6. CASE B # {}
  BY <1>2, <1>3, <1>4, <1>6
<1>7. QED
  BY <1>5, <1>6

\* What the parser's record holds.
ParTyped ==
  /\ DOMAIN par = {"i", "at", "c", "content", "reasons", "calls", "err"}
  /\ par.i \in Nat \ {0} /\ par.c \in Nat \ {0} /\ par.at \in {"top", "call"}
  /\ par.content \in Text /\ par.reasons \in Seq(Text) /\ par.calls \in Nat /\ par.err \in BOOLEAN
  /\ \A m \in 1..Len(par.reasons) : Untagged("reasoning", par.reasons[m])

\* Where the parser is, outside a call.
Place == <<par.i, par.content, par.reasons>>

\* What a step of the parser at the top does: it reads on, or it enters a call.
ReadsOn == /\ par'.at = "top" /\ par'.calls = par.calls /\ par'.err = par.err
           /\ Goes(text, TRUE, Place, Place')
           /\ \/ par'.content = par.content
              \/ \E x \in Letters : par'.content = Append(par.content, x)
           /\ \/ par'.reasons = par.reasons
              \/ \E x \in Text : par'.reasons = Append(par.reasons, x)

EntersCall == /\ Marked(text, par.i, "tool_call>")
              /\ par'.content = par.content /\ par'.reasons = par.reasons /\ par'.calls = par.calls
              /\ par'.at = "call" \/ (par'.at = "top" /\ par'.i = Len(text) + 1)

(* A piece of reasoning more, with no closing tag in it.                   *)
LEMMA MoreReasons ==
  ASSUME NEW ps \in Seq(Text), \A m \in 1..Len(ps) : Untagged("reasoning", ps[m]),
         NEW x \in Text, Untagged("reasoning", x)
  PROVE  /\ Append(ps, x) \in Seq(Text)
         /\ \A m \in 1..Len(Append(ps, x)) : Untagged("reasoning", Append(ps, x)[m])
<1> DEFINE n == Len(ps)
           qs == Append(ps, x)
<1>1. /\ qs \in Seq(Text) /\ Len(qs) = n + 1 /\ qs[n + 1] = x /\ n \in Nat
      /\ \A m \in 1..n : qs[m] = ps[m]
  BY AppendProperties, LenProperties
<1>2. \A m \in 1..n + 1 : m = n + 1 \/ m \in 1..n
  BY <1>1
<1> HIDE DEF qs
<1>3. \A m \in 1..Len(qs) : Untagged("reasoning", qs[m])
  <2>1. SUFFICES ASSUME NEW m \in 1..Len(qs) PROVE Untagged("reasoning", qs[m])
    OBVIOUS
  <2>2. CASE m = n + 1
    BY <2>2, <1>1
  <2>3. CASE m \in 1..n
    <3>1. qs[m] = ps[m]
      BY <2>3, <1>1
    <3>2. QED
      BY <2>3, <3>1
  <2>4. QED
    BY <2>2, <2>3, <1>1, <1>2
<1>4. QED
  BY <1>1, <1>3 DEF qs

(* A step at the top: a think block.                                       *)
LEMMA TopThink ==
  ASSUME text \in Text, ParTyped, par.at = "top", Marked(text, par.i, "think>"),
         NEW close, close = Str!FindFrom(text, par.i, Str!ThinkClose),
         par' = [par EXCEPT !.i = IF close = 0 THEN Str!EndOfText ELSE close + 2,
                            !.reasons = Append(@, IF close = 0 THEN Str!From(text, par.i + 2)
                                                  ELSE SubSeq(text, par.i + 2, close - 1))],
         text' = text
  PROVE  ParTyped' /\ ReadsOn
<1> DEFINE T == text
           i == par.i
           l == Len(T)
           d == IF close = 0 THEN l ELSE close - 1
           j == IF close = 0 THEN l + 1 ELSE close + 2
           x == SubSeq(T, i + 2, d)
           qs == Append(par.reasons, x)
<1>1. i \in Nat \ {0} /\ l \in Nat /\ i + 1 <= l /\ par.reasons \in Seq(Text)
  BY TextLetters DEF ParTyped, Marked
<1>2. /\ close \in Nat
      /\ close = 0 => \A k \in i..l : ~Marked(T, k, "/think>")
      /\ close # 0 => close \in i..l /\ Marked(T, close, "/think>") /\ \A k \in i..close - 1 : ~Marked(T, k, "/think>")
  <2>1. Str!ThinkClose = Str!Tag("/think>") /\ "/think>" \in Names
    BY TagNames
  <2>2. LET p == Str!FindFrom(T, i, Str!Tag("/think>"))
        IN  /\ p \in Nat
            /\ p = 0 => \A k \in i..l : ~Marked(T, k, "/think>")
            /\ p # 0 => p \in i..l /\ Marked(T, p, "/think>") /\ \A k \in i..p - 1 : ~Marked(T, k, "/think>")
    BY <1>1, <2>1, FindTag
  <2>3. close = Str!FindFrom(T, i, Str!Tag("/think>"))
    BY <2>1
  <2>4. QED
    BY <2>2, <2>3
<1>3. close # 0 => close \in i + 2..l /\ close \in Nat \ {0} /\ close + 1 <= l
  <2>1. ~Marked(T, i, "/think>") /\ ~Marked(T, i + 1, "/think>")
    BY DEF Marked
  <2>2. close # 0 => close # i /\ close # i + 1 /\ close + 1 <= l
    BY <2>1, <1>2 DEF Marked
  <2> HIDE DEF i, l
  <2>3. QED
    BY <2>2, <1>1, <1>2
<1>4. par' = [par EXCEPT !.i = j, !.reasons = qs]
  BY DEF Str!EndOfText, Str!From
<1> HIDE DEF qs, j
<1>5. /\ par'.i = j /\ par'.reasons = qs /\ DOMAIN par' = DOMAIN par
      /\ par'.at = par.at /\ par'.c = par.c /\ par'.content = par.content /\ par'.calls = par.calls /\ par'.err = par.err
  BY <1>4 DEF ParTyped
<1>6. j \in Nat \ {0} /\ d \in Nat /\ d <= l /\ i + 2 <= d + 1 /\ i + 2 \in Nat \ {0}
  <2> HIDE DEF i, l
  <2>1. QED
    BY <1>1, <1>2, <1>3 DEF j
<1>7. \A m \in i + 2..d : ~Marked(T, m, "/think>")
  <2> HIDE DEF i, l
  <2>1. \A m \in i + 2..d : IF close = 0 THEN m \in i..l ELSE m \in i..close - 1
    BY <1>1, <1>2
  <2>2. QED
    BY <2>1, <1>2
<1>8. x \in Text /\ \A m \in Nat \ {0} : ~Marked(x, m, "/think>")
  <2> DEFINE i0 == i + 2
  <2>1. i0 \in Nat \ {0} /\ d \in Nat /\ d <= Len(T) /\ i0 <= d + 1 /\ \A m \in i0..d : ~Marked(T, m, "/think>")
    BY <1>6, <1>7
  <2> HIDE DEF i0, d
  <2>2. SubSeq(T, i0, d) \in Text /\ \A m \in Nat \ {0} : ~Marked(SubSeq(T, i0, d), m, "/think>")
    BY <2>1, CutText, CutMarked
  <2>3. QED
    BY <2>2 DEF i0
<1>9. Untagged("reasoning", x)
  BY <1>8 DEF Untagged
<1>10. Goes(T, TRUE, <<i, par.content, par.reasons>>, <<j, par.content, qs>>)
  <2> HIDE DEF i, l, T
  <2>0. Marked(T, i, "think>")
    BY DEF i, T
  <2>1. CASE close = 0
    <3>1. d = l /\ j = l + 1 /\ qs = Append(par.reasons, SubSeq(T, i + 2, l))
      BY <2>1 DEF j, qs
    <3>2. \A m \in i + 2..l : ~Marked(T, m, "/think>")
      BY <3>1, <1>7
    <3>3. QED
      BY <2>0, <3>1, <3>2, <1>1 DEF Goes, l
  <2>2. CASE close # 0
    <3>1. d = close - 1 /\ j = close + 2 /\ qs = Append(par.reasons, SubSeq(T, i + 2, close - 1))
      BY <2>2 DEF j, qs
    <3>2. Shut(T, i + 2, close)
      BY <2>2, <3>1, <1>2, <1>7 DEF Shut
    <3>3. close \in i + 2..l
      BY <2>2, <1>3
    <3>4. QED
      BY <2>0, <3>1, <3>2, <3>3, <1>1 DEF Goes, l
  <2>3. QED
    BY <2>1, <2>2
<1> HIDE DEF x
<1>11. qs \in Seq(Text) /\ \A m \in 1..Len(qs) : Untagged("reasoning", qs[m])
  <2>1. \A m \in 1..Len(par.reasons) : Untagged("reasoning", par.reasons[m])
    BY DEF ParTyped
  <2>2. QED
    BY <2>1, <1>1, <1>8, <1>9, MoreReasons DEF qs
<1>12. ParTyped'
  <2>1. \A m \in 1..Len(par'.reasons) : Untagged("reasoning", par'.reasons[m])
    BY <1>5, <1>11
  <2> HIDE DEF i, l, T
  <2>2. QED
    BY <2>1, <1>5, <1>6, <1>11 DEF ParTyped, Untagged, Marked
<1>13. ReadsOn
  <2>1. Place' = <<j, par.content, qs>> /\ Place = <<i, par.content, par.reasons>>
    BY <1>5 DEF Place
  <2>2. par'.reasons = Append(par.reasons, x) /\ x \in Text
    BY <1>5, <1>8 DEF qs
  <2>3. QED
    BY <2>1, <2>2, <1>5, <1>10 DEF ReadsOn
<1>14. QED
  BY <1>12, <1>13

(* A step at the top: a letter of content.                                 *)
LEMMA TopPlain ==
  ASSUME text \in Text, ParTyped, par.at = "top", par.i < Len(text) + 1,
         ~Marked(text, par.i, "think>"), ~Marked(text, par.i, "tool_call>"),
         par' = [par EXCEPT !.i = @ + 1, !.content = Append(@, text[par.i])], text' = text
  PROVE  ParTyped' /\ ReadsOn
<1> DEFINE i == par.i
           c == Append(par.content, text[i])
<1>1. i \in 1..Len(text) /\ i \in Nat \ {0} /\ i + 1 \in Nat \ {0} /\ i <= Len(text)
  BY TextLetters DEF ParTyped
<1>2. text[i] \in Letters
  BY <1>1, TextLetters
<1>3. c \in Text
  BY <1>2, AppendProperties DEF ParTyped, Text
<1>4. /\ par'.i = i + 1 /\ par'.content = c /\ DOMAIN par' = DOMAIN par
      /\ par'.at = par.at /\ par'.c = par.c /\ par'.reasons = par.reasons /\ par'.calls = par.calls /\ par'.err = par.err
  BY DEF ParTyped
<1>5. Plain(text, TRUE, i)
  BY <1>1 DEF Plain, Free
<1>6. Goes(text, TRUE, Place, Place')
  <2>1. Place = <<i, par.content, par.reasons>> /\ Place' = <<i + 1, c, par.reasons>>
    BY <1>4 DEF Place
  <2> HIDE DEF i
  <2>2. Goes(text, TRUE, <<i, par.content, par.reasons>>, <<i + 1, Append(par.content, text[i]), par.reasons>>)
    BY <1>1, <1>5 DEF Goes
  <2>3. QED
    BY <2>1, <2>2
<1>7. ReadsOn
  BY <1>2, <1>4, <1>6 DEF ReadsOn
<1> HIDE DEF c
<1>8. ParTyped'
  BY <1>1, <1>3, <1>4 DEF ParTyped, Untagged, Marked
<1>9. QED
  BY <1>7, <1>8

\* The rest of the text is lost to the parser, or it enters a call.
ToEnd(b) == par' = [par EXCEPT !.i = Len(text) + 1, !.err = b]
ToCall(k) == par' = [par EXCEPT !.at = "call", !.c = k]

(* A step at the top: a call's tag.                                        *)
LEMMA TopTool ==
  ASSUME text \in Text, ParTyped, par.at = "top", Marked(text, par.i, "tool_call>"), text' = text,
         \/ \E b \in BOOLEAN : ToEnd(b)
         \/ \E k \in Nat \ {0} : ToCall(k)
  PROVE  ParTyped' /\ EntersCall
<1>1. Len(text) + 1 \in Nat \ {0}
  BY TextLetters
<1>2. ASSUME NEW b \in BOOLEAN, ToEnd(b) PROVE ParTyped' /\ EntersCall
  <2>1. /\ par'.i = Len(text) + 1 /\ par'.err = b /\ DOMAIN par' = DOMAIN par
        /\ par'.at = par.at /\ par'.c = par.c /\ par'.content = par.content /\ par'.reasons = par.reasons /\ par'.calls = par.calls
    BY <1>2 DEF ParTyped, ToEnd
  <2>2. QED
    BY <1>1, <2>1 DEF ParTyped, EntersCall, Untagged, Marked
<1>3. ASSUME NEW k \in Nat \ {0}, ToCall(k) PROVE ParTyped' /\ EntersCall
  <2>1. /\ par'.c = k /\ par'.at = "call" /\ DOMAIN par' = DOMAIN par
        /\ par'.i = par.i /\ par'.err = par.err /\ par'.content = par.content /\ par'.reasons = par.reasons /\ par'.calls = par.calls
    BY <1>3 DEF ParTyped, ToCall
  <2>2. QED
    BY <2>1 DEF ParTyped, EntersCall, Untagged, Marked
<1>4. QED
  BY <1>2, <1>3

(* Every step at the top.                                                  *)
LEMMA TopStep ==
  ASSUME text \in Text, ParTyped, Str!ParseTop
  PROVE  par.at = "top" /\ par.i < Len(text) + 1 /\ ParTyped' /\ (ReadsOn \/ EntersCall)
<1> DEFINE close == Str!FindFrom(text, par.i, Str!ThinkClose)
           fn == Str!FindFrom(text, par.i + 2, Str!FnOpen)
           gt == Str!GtFrom(fn + 2)
           pr == Str!FindFrom(text, par.i + 2, Str!ParOpen)
           think == Str!At(text, par.i, Str!ThinkOpen)
           tool == Str!At(text, par.i, Str!ToolOpen)
<1>1. par.i \in Nat \ {0} /\ par.i + 2 \in Nat \ {0}
  BY DEF ParTyped
<1>2. par.at = "top" /\ par.i < Len(text) + 1 /\ text' = text
  BY DEF Str!ParseTop, Str!EndOfText
<1>3. /\ think <=> Marked(text, par.i, "think>")
      /\ tool <=> Marked(text, par.i, "tool_call>")
  <2>1. /\ Str!ThinkOpen = Str!Tag("think>") /\ "think>" \in Names
        /\ Str!ToolOpen = Str!Tag("tool_call>") /\ "tool_call>" \in Names
    BY TagNames
  <2>2. QED
    BY <1>1, <2>1, TagStands
<1>4. ~(think /\ tool)
  BY <1>3 DEF Marked
<1>5. fn \in Nat /\ gt \in Nat
  <2>1. fn \in Nat
    BY <1>1, FindNat
  <2> HIDE DEF fn
  <2>2. fn + 2 \in Nat \ {0}
    BY <2>1
  <2>3. QED
    BY <2>1, <2>2, GtNat
<1>6. CASE think
  <2>1. par' = [par EXCEPT !.i = IF close = 0 THEN Str!EndOfText ELSE close + 2,
                           !.reasons = Append(@, IF close = 0 THEN Str!From(text, par.i + 2)
                                                 ELSE SubSeq(text, par.i + 2, close - 1))]
    BY <1>4, <1>6 DEF Str!ParseTop
  <2>2. QED
    BY <1>2, <1>3, <1>6, <2>1, TopThink
<1>7. CASE tool
  <2>1. \/ par' = [par EXCEPT !.i = Str!EndOfText, !.err = pr > 0]
        \/ Str!Lost
        \/ par' = [par EXCEPT !.i = Str!EndOfText, !.err = TRUE]
        \/ par' = [par EXCEPT !.at = "call", !.c = gt + 1]
    <3>1. ~think
      BY <1>4, <1>7
    <3>2. CASE fn = 0
      BY <1>7, <3>1, <3>2 DEF Str!ParseTop
    <3>3. CASE fn > 0 /\ gt = 0
      BY <1>7, <3>1, <3>3 DEF Str!ParseTop
    <3>4. CASE fn > 0 /\ gt > 0
      BY <1>7, <3>1, <3>4 DEF Str!ParseTop
    <3>5. QED
      BY <1>5, <3>2, <3>3, <3>4
  <2>2. par' = [par EXCEPT !.i = Str!EndOfText, !.err = pr > 0] => ToEnd(pr > 0)
    BY DEF ToEnd, Str!EndOfText
  <2>3. Str!Lost => ToEnd(par.err)
    <3>1. SUFFICES ASSUME Str!Lost PROVE ToEnd(par.err)
      OBVIOUS
    <3>2. par' = [par EXCEPT !.i = Len(text) + 1, !.at = "top"]
      BY <3>1 DEF Str!Lost, Str!EndOfText
    <3>3. [par EXCEPT !.i = Len(text) + 1, !.at = "top"] = [par EXCEPT !.i = Len(text) + 1, !.err = par.err]
      BY <1>2 DEF ParTyped
    <3>4. QED
      BY <3>2, <3>3 DEF ToEnd
  <2>4. par' = [par EXCEPT !.i = Str!EndOfText, !.err = TRUE] => ToEnd(TRUE)
    BY DEF ToEnd, Str!EndOfText
  <2>5. par' = [par EXCEPT !.at = "call", !.c = gt + 1] => ToCall(gt + 1)
    BY DEF ToCall
  <2>6. (pr > 0) \in BOOLEAN /\ par.err \in BOOLEAN /\ gt + 1 \in Nat \ {0}
    BY <1>5 DEF ParTyped
  <2> HIDE DEF gt, pr
  <2>7. (\E b \in BOOLEAN : ToEnd(b)) \/ (\E k \in Nat \ {0} : ToCall(k))
    BY <2>1, <2>2, <2>3, <2>4, <2>5, <2>6
  <2>8. QED
    BY <1>2, <1>3, <1>7, <2>7, TopTool
<1>8. CASE ~think /\ ~tool
  <2>1. par' = [par EXCEPT !.i = @ + 1, !.content = Append(@, text[par.i])]
    BY <1>8 DEF Str!ParseTop
  <2>2. QED
    BY <1>2, <1>3, <1>8, <2>1, TopPlain
<1>9. QED
  BY <1>6, <1>7, <1>8, <1>2

\* What a step of the parser in a call does: it stays in the call, ends it, or loses the rest of the text.
StaysInCall == par'.at = "call" /\ par'.calls = par.calls
EndsCall == par'.at = "top" /\ par'.calls = par.calls + 1
LosesCall == par'.at = "top" /\ par'.i = Len(text) + 1 /\ par'.calls = par.calls
TakesCall == /\ par'.content = par.content /\ par'.reasons = par.reasons
             /\ StaysInCall \/ EndsCall \/ LosesCall

(* The three ways a step in a call changes the parser's record.            *)
LEMMA CallMoves ==
  ASSUME text \in Text, ParTyped, par.at = "call", text' = text, NEW k \in Nat \ {0},
         \/ par' = [par EXCEPT !.c = k]
         \/ par' = [par EXCEPT !.i = k, !.at = "top", !.calls = @ + 1]
         \/ par' = [par EXCEPT !.i = Len(text) + 1, !.at = "top"]
  PROVE  ParTyped' /\ TakesCall
<1>1. Len(text) + 1 \in Nat \ {0}
  BY TextLetters
<1>2. CASE par' = [par EXCEPT !.c = k]
  <2>1. /\ par'.c = k /\ DOMAIN par' = DOMAIN par
        /\ par'.at = par.at /\ par'.i = par.i /\ par'.content = par.content /\ par'.reasons = par.reasons /\ par'.calls = par.calls
        /\ par'.err = par.err
    BY <1>2 DEF ParTyped
  <2>2. QED
    BY <2>1 DEF ParTyped, TakesCall, StaysInCall, Untagged, Marked
<1>3. CASE par' = [par EXCEPT !.i = k, !.at = "top", !.calls = @ + 1]
  <2>1. /\ par'.i = k /\ DOMAIN par' = DOMAIN par
        /\ par'.at = "top" /\ par'.c = par.c /\ par'.content = par.content /\ par'.reasons = par.reasons /\ par'.calls = par.calls + 1
        /\ par'.err = par.err
    BY <1>3 DEF ParTyped
  <2>2. QED
    BY <2>1 DEF ParTyped, TakesCall, EndsCall, Untagged, Marked
<1>4. CASE par' = [par EXCEPT !.i = Len(text) + 1, !.at = "top"]
  <2>1. /\ par'.i = Len(text) + 1 /\ DOMAIN par' = DOMAIN par
        /\ par'.at = "top" /\ par'.c = par.c /\ par'.content = par.content /\ par'.reasons = par.reasons /\ par'.calls = par.calls
        /\ par'.err = par.err
    BY <1>4 DEF ParTyped
  <2>2. QED
    BY <1>1, <2>1 DEF ParTyped, TakesCall, LosesCall, Untagged, Marked
<1>5. QED
  BY <1>2, <1>3, <1>4

(* Every step in a call.                                                   *)
LEMMA CallStep ==
  ASSUME text \in Text, ParTyped, Str!ParseCall
  PROVE  par.at = "call" /\ ParTyped' /\ TakesCall
<1> DEFINE c == par.c
           key == Str!GtFrom(c + 2)
           val == Str!FindFrom(text, key + 1, Str!ParClose)
           lt == Str!FindFrom(text, c, <<"<">>)
           Moved(k) == \/ par' = [par EXCEPT !.c = k]
                       \/ par' = [par EXCEPT !.i = k, !.at = "top", !.calls = @ + 1]
                       \/ par' = [par EXCEPT !.i = Len(text) + 1, !.at = "top"]
<1>1. c \in Nat \ {0} /\ c + 2 \in Nat \ {0} /\ c + 2 + 2 \in Nat \ {0}
  BY DEF ParTyped
<1>2. par.at = "call" /\ text' = text
  BY DEF Str!ParseCall
<1>3. key \in Nat
  BY <1>1, GtNat
<1>4. val \in Nat
  <2> HIDE DEF key
  <2>1. key + 1 \in Nat \ {0}
    BY <1>3
  <2>2. QED
    BY <2>1, FindNat
<1>5. lt \in Nat /\ Len(text) + 1 \in Nat \ {0}
  BY <1>1, FindNat, TextLetters
<1>6. \A k \in Nat \ {0} : Str!Close(k) => Moved(k + 2)
  BY DEF Str!Close, Str!EndOfText
<1>7. Str!Lost => Moved(1)
  BY DEF Str!Lost, Str!EndOfText
<1>8. Str!Resync(c) \in Nat \ {0}
  <2>1. Str!Resync(c) = IF lt = 0 THEN Len(text) + 1 ELSE lt
    BY DEF Str!Resync, Str!EndOfText
  <2> HIDE DEF lt
  <2>2. QED
    BY <2>1, <1>5
<1>9. \/ Str!Close(c + 2) \/ Str!Close(c) \/ Str!Lost
      \/ par' = [par EXCEPT !.c = val + 2]
      \/ par' = [par EXCEPT !.c = c + 2]
      \/ par' = [par EXCEPT !.c = Str!Resync(c)]
  <2> DEFINE g1 == Str!At(text, c, Str!FnClose)
             g2 == Str!At(text, c, Str!ToolClose) \/ c = Str!EndOfText
             g3 == Str!At(text, c, Str!ParOpen)
             g4 == Str!At(text, c, Str!ParClose)
             D1 == Str!Close(c + 2)
             D2 == Str!Close(c)
             D3 == Str!Lost
             D4 == par' = [par EXCEPT !.c = val + 2]
             D5 == par' = [par EXCEPT !.c = c + 2]
             D6 == par' = [par EXCEPT !.c = Str!Resync(c)]
  <2>1. (CASE g1 -> D1
          [] g2 -> D2
          [] g3 /\ key = 0 -> D3
          [] g3 /\ key > 0 /\ val = 0 -> D3
          [] g3 /\ key > 0 /\ val > 0 -> D4
          [] g4 -> D5
          [] OTHER -> D6)
    BY DEF Str!ParseCall
  <2> HIDE DEF g1, g2, g3, g4, D1, D2, D3, D4, D5, D6, key, val
  <2>2. D1 \/ D2 \/ D3 \/ D4 \/ D5 \/ D6
    BY <2>1
  <2>3. QED
    BY <2>2 DEF D1, D2, D3, D4, D5, D6, val, key
<1>10. \E k \in Nat \ {0} : Moved(k)
  <2> HIDE DEF val, key, Moved
  <2>1. val + 2 \in Nat \ {0} /\ 1 \in Nat \ {0}
    BY <1>4
  <2>2. \A k : par' = [par EXCEPT !.c = k] => Moved(k)
    BY DEF Moved
  <2>3. QED
    BY <2>1, <2>2, <1>1, <1>6, <1>7, <1>8, <1>9
<1>11. PICK k \in Nat \ {0} : Moved(k)
  BY <1>10
<1>12. ParTyped' /\ TakesCall
  BY <1>2, <1>11, CallMoves
<1>13. QED
  BY <1>2, <1>12

(* An event of some kind.                                                  *)
LEMMA EventMade ==
  ASSUME NEW d \in Kinds, NEW x \in Text \cup Nat \cup Reasons, d \in Spoken => x \in Text /\ Untagged(d, x)
  PROVE  LET e == [k |-> d, v |-> x] IN e \in Event /\ e.k = d /\ e.v = x
<1> DEFINE e == [k |-> d, v |-> x]
<1> HIDE DEF Kinds, Spoken, Text, Reasons, Untagged
<1>1. e.k = d /\ e.v = x /\ e \in [k : Kinds, v : Text \cup Nat \cup Reasons]
  OBVIOUS
<1> HIDE DEF e
<1>2. e \in Event
  BY <1>1 DEF Event
<1>3. QED
  BY <1>1, <1>2 DEF e

(* What a delta says.                                                      *)
LEMMA DeltaSays ==
  ASSUME NEW d \in Spoken, NEW x \in Text, Untagged(d, x), NEW t, t = Str!Delta(d, x)
  PROVE  /\ t \in Seq(Event) /\ \A i \in 1..Len(t) : t[i].k = d
         /\ \A b \in Spoken : SaidOf(t, b) = IF b = d THEN x ELSE <<>>
<1>1. d \in Kinds
  BY DEF Spoken, Kinds
<1> DEFINE e == [k |-> d, v |-> x]
<1>2. e \in Event /\ e.k = d /\ e.v = x
  BY <1>1, EventMade
<1>3. x = <<>> => t = <<>>
  BY DEF Str!Delta
<1>4. x # <<>> => t = <<e>>
  BY DEF Str!Delta
<1> HIDE DEF e
<1>5. CASE x = <<>>
  <2>1. t \in Seq(Event) /\ Len(t) = 0 /\ \A i \in 1..Len(t) : FALSE
    <3>1. t = <<>>
      BY <1>3, <1>5
    <3>2. QED
      BY <3>1, EmptySeq
  <2>2. \A b \in Spoken : SaidOf(t, b) = <<>>
    <3>1. SUFFICES ASSUME NEW b \in Spoken PROVE SaidOf(t, b) = <<>>
      OBVIOUS
    <3>2. \A i \in 1..Len(t) : t[i].k # b
      BY <2>1
    <3>3. QED
      BY <2>1, <3>2, SaidNone
  <2>3. QED
    BY <2>1, <2>2, <1>5
<1>6. CASE x # <<>>
  <2>1. t \in Seq(Event) /\ \A b \in Spoken : SaidOf(t, b) = IF e.k = b THEN e.v ELSE <<>>
    BY <1>2, <1>4, <1>6, SaidOne
  <2>2. Len(<<e>>) = 1 /\ <<e>>[1] = e
    OBVIOUS
  <2>3. Len(t) = 1 /\ t[1] = e
    BY <2>2, <1>4, <1>6
  <2>4. \A i \in 1..Len(t) : i = 1
    BY <2>3
  <2>5. QED
    BY <2>1, <2>3, <2>4, <1>2
<1>7. QED
  BY <1>5, <1>6

\* gs is es and then fs.
Joins(es, fs, gs) ==
  /\ gs \in Seq(Event) /\ Len(es) \in Nat /\ Len(fs) \in Nat /\ Len(gs) = Len(es) + Len(fs)
  /\ \A i \in 1..Len(es) : gs[i] = es[i]
  /\ \A i \in 1..Len(fs) : gs[Len(es) + i] = fs[i]
  /\ \A i \in 1..Len(gs) : i \in 1..Len(es) \/ (i - Len(es) \in 1..Len(fs) /\ gs[i] = fs[i - Len(es)])

(* Two lists of events, one after the other: place by place.               *)
LEMMA EventCat ==
  ASSUME NEW es \in Seq(Event), NEW fs \in Seq(Event)
  PROVE  Joins(es, fs, es \o fs)
<1> DEFINE a == Len(es)
           b == Len(fs)
           gs == es \o fs
<1>1. /\ gs \in Seq(Event) /\ a \in Nat /\ b \in Nat /\ Len(gs) = a + b
      /\ \A i \in 1..a + b : gs[i] = IF i <= a THEN es[i] ELSE fs[i - a]
  BY ConcatProperties, LenProperties
<1> HIDE DEF a, b, gs
<1>2. \A i \in 1..a : gs[i] = es[i]
  BY <1>1
<1>3. \A i \in 1..b : gs[a + i] = fs[i]
  <2>1. SUFFICES ASSUME NEW i \in 1..b PROVE gs[a + i] = fs[i]
    OBVIOUS
  <2>2. a + i \in 1..a + b /\ ~(a + i <= a) /\ a + i - a = i
    BY <1>1
  <2>3. QED
    BY <2>2, <1>1
<1>4. \A i \in 1..a + b : i \in 1..a \/ (i - a \in 1..b /\ gs[i] = fs[i - a])
  BY <1>1
<1>5. QED
  BY <1>1, <1>2, <1>3, <1>4 DEF a, b, gs, Joins

(* The first event of what is to be written goes to the end of what was.   *)
LEMMA MoveOne ==
  ASSUME NEW es \in Seq(Event), NEW fs \in Seq(Event), fs # <<>>
  PROVE  /\ Append(es, Head(fs)) \in Seq(Event) /\ Tail(fs) \in Seq(Event)
         /\ Append(es, Head(fs)) \o Tail(fs) = es \o fs
<1> DEFINE p == Append(es, Head(fs))
           q == Tail(fs)
           a == Len(es)
           b == Len(fs)
           l == p \o q
           r == es \o fs
<1>1. a \in Nat /\ b \in Nat \ {0} /\ 1 \in 1..b
  BY LenProperties, EmptySeq
<1>2. Head(fs) = fs[1] /\ Head(fs) \in Event
  BY <1>1, ElementOfSeq
<1>3. p \in Seq(Event) /\ Len(p) = a + 1 /\ \A i \in 1..a + 1 : p[i] = IF i <= a THEN es[i] ELSE fs[1]
  BY <1>2, AppendProperties
<1>4. q \in Seq(Event) /\ Len(q) = b - 1 /\ \A i \in 1..b - 1 : q[i] = fs[i + 1]
  BY HeadTailProperties
<1>5. l \in Seq(Event) /\ Len(l) = a + b /\ \A i \in 1..a + b : l[i] = IF i <= a + 1 THEN p[i] ELSE q[i - (a + 1)]
  <2> HIDE DEF p, q
  <2>1. /\ l \in Seq(Event) /\ Len(l) = Len(p) + Len(q)
        /\ \A i \in 1..Len(p) + Len(q) : l[i] = IF i <= Len(p) THEN p[i] ELSE q[i - Len(p)]
    BY <1>3, <1>4, ConcatProperties
  <2> HIDE DEF a, b, l
  <2>2. Len(p) = a + 1 /\ Len(p) + Len(q) = a + b
    BY <1>1, <1>3, <1>4
  <2>3. QED
    BY <2>1, <2>2
<1>6. r \in Seq(Event) /\ Len(r) = a + b /\ \A i \in 1..a + b : r[i] = IF i <= a THEN es[i] ELSE fs[i - a]
  BY ConcatProperties
<1> HIDE DEF p, q, a, b, l, r
<1>7. \A i \in 1..a + b : l[i] = r[i]
  <2>1. SUFFICES ASSUME NEW i \in 1..a + b PROVE l[i] = r[i]
    OBVIOUS
  <2>2. CASE i <= a
    <3>1. i \in 1..a + 1 /\ i <= a + 1
      BY <2>2, <1>1
    <3>2. QED
      BY <2>2, <3>1, <1>3, <1>5, <1>6
  <2>3. CASE i = a + 1
    <3>1. i \in 1..a + 1 /\ i <= a + 1 /\ ~(i <= a) /\ i - a = 1
      BY <2>3, <1>1
    <3>2. QED
      BY <3>1, <1>3, <1>5, <1>6
  <2>4. CASE i > a + 1
    <3>1. i - (a + 1) \in 1..b - 1 /\ ~(i <= a + 1) /\ ~(i <= a) /\ i - (a + 1) + 1 = i - a
      BY <2>4, <1>1
    <3>2. q[i - (a + 1)] = fs[i - a]
      BY <3>1, <1>4
    <3>3. QED
      BY <3>1, <3>2, <1>5, <1>6
  <2>5. QED
    BY <2>2, <2>3, <2>4, <1>1
<1>8. l = r
  BY <1>5, <1>6, <1>7, SeqEqual
<1>9. QED
  BY <1>3, <1>4, <1>8 DEF p, q, l, r

(* The reasoning that was not streamed, as events.                         *)
LEMMA ReasonEvents ==
  ASSUME NEW ms \in Seq(Text), \A i \in 1..Len(ms) : Untagged("reasoning", ms[i]),
         NEW es, es = [i \in 1..Len(ms) |-> [k |-> "reasoning", v |-> ms[i]]]
  PROVE  /\ es \in Seq(Event) /\ \A i \in 1..Len(es) : es[i].k = "reasoning"
         /\ SaidOf(es, "reasoning") = Str!FlattenSeq(ms) /\ SaidOf(es, "content") = <<>>
<1> DEFINE n == Len(ms)
           d == "reasoning"
<1>1. n \in Nat /\ \A i \in 1..n : ms[i] \in Text
  BY LenProperties, ElementOfSeq
<1>2. d \in Kinds /\ d \in Spoken /\ "content" \in Spoken /\ d # "content"
  BY DEF Kinds, Spoken
<1>3. es = [i \in 1..n |-> [k |-> d, v |-> ms[i]]]
  OBVIOUS
<1>4. \A i \in 1..n : Untagged(d, ms[i])
  OBVIOUS
<1> HIDE DEF n, d
<1>5. \A i \in 1..n : es[i] \in Event /\ es[i].k = d /\ es[i].v = ms[i]
  <2>1. SUFFICES ASSUME NEW i \in 1..n PROVE es[i] \in Event /\ es[i].k = d /\ es[i].v = ms[i]
    OBVIOUS
  <2>2. es[i] = [k |-> d, v |-> ms[i]]
    BY <1>3
  <2>3. ms[i] \in Text \cup Nat \cup Reasons
    BY <1>1
  <2>4. QED
    BY <2>2, <2>3, <1>1, <1>2, <1>4, EventMade
<1>6. es \in [1..n -> Event]
  BY <1>3, <1>5
<1>7. es \in Seq(Event) /\ Len(es) = n
  BY <1>1, <1>6, SeqDef, LenProperties
<1>8. SaidOf(es, d) = Str!FlattenSeq(ms)
  <2>1. SaidList(es, d) \in Seq(Text) /\ Len(SaidList(es, d)) = n
    BY <1>2, <1>7, SaidText
  <2>2. \A i \in 1..n : SaidList(es, d)[i] = ms[i]
    BY <1>5, <1>7 DEF SaidList
  <2>3. SaidList(es, d) = ms
    BY <2>1, <2>2, SeqEqual DEF n
  <2>4. QED
    BY <2>3 DEF SaidOf
<1>9. SaidOf(es, "content") = <<>>
  BY <1>2, <1>5, <1>7, SaidNone
<1>10. QED
  BY <1>5, <1>7, <1>8, <1>9 DEF d

\* The parser has read past z, which needs a call; so far it is in one, or it has lost the rest of the text.
Beyond(z) ==
  \E more \in Text, ms \in Seq(Text) :
     /\ par.content = z[2] \o more /\ par.reasons = z[3] \o ms
     /\ par.calls = 0 => more = <<>> /\ (par.at = "call" \/ par.i = Len(text) + 1)

\* Reading from where the parser is comes to z, or it is beyond.
Parsing(z) == (par.at = "top" /\ par.calls = 0 /\ Leads(text, TRUE, Place, z)) \/ Beyond(z)

\* Where the reading of a text ends.
Final(T, z) == /\ z[1] = Len(T) + 1 \/ Marked(T, z[1], "tool_call>")
               /\ z[2] \in Text /\ z[3] \in Seq(Text)

(* Reading does not go on from the end of a text, or from a call's tag.    *)
LEMMA NoGoes ==
  ASSUME NEW T \in Text, NEW y, NEW x, Goes(T, TRUE, y, x)
  PROVE  ~Marked(T, y[1], "tool_call>") /\ y[1] # Len(T) + 1
<1>1. Len(T) \in Nat
  BY TextLetters
<1>2. y[1] \in Nat \ {0} /\ (Plain(T, TRUE, y[1]) \/ Marked(T, y[1], "think>"))
  BY DEF Goes
<1>3. CASE Plain(T, TRUE, y[1])
  BY <1>1, <1>2, <1>3 DEF Plain, Free
<1>4. CASE Marked(T, y[1], "think>")
  BY <1>1, <1>2, <1>4 DEF Marked
<1>5. QED
  BY <1>2, <1>3, <1>4

(* Where the parser is and cannot go on is where reading ends.             *)
LEMMA PlaceEnds ==
  ASSUME text \in Text, ParTyped, NEW z, Final(text, z), Leads(text, TRUE, Place, z),
         Marked(text, par.i, "tool_call>") \/ par.i = Len(text) + 1
  PROVE  par.i = z[1] /\ par.content = z[2] /\ par.reasons = z[3]
<1> DEFINE y == Place
<1>1. y[1] = par.i /\ y[2] = par.content /\ y[3] = par.reasons
  BY DEF Place
<1> HIDE DEF y
<1>2. \A d : ~Goes(text, TRUE, y, d)
  BY <1>1, NoGoes
<1>3. y = z
  <2>1. Leads(text, TRUE, y, z)
    BY DEF y
  <2>2. SUFFICES ASSUME y # z PROVE FALSE
    OBVIOUS
  <2>3. \A d : Goes(text, TRUE, y, d) => d = y
    BY <1>2
  <2>4. \E d : Goes(text, TRUE, y, d)
    BY <2>1, <2>2, <2>3, LeadsNext
  <2>5. QED
    BY <2>4, <1>2
<1>4. QED
  BY <1>1, <1>3

(* Nothing more is nothing added.                                          *)
LEMMA AddNone ==
  /\ \A s \in Text : s \o <<>> = s
  /\ \A s \in Seq(Text) : s \o <<>> = s
  /\ <<>> \in Text /\ <<>> \in Seq(Text)
BY ConcatEmptySeq, NoText DEF Text

(* One letter more of a text, and one more text.                           *)
LEMMA AddOne ==
  /\ \A s, t \in Text, x \in Letters : Append(t, x) \in Text /\ Append(s \o t, x) = s \o Append(t, x)
  /\ \A s, t \in Seq(Text), x \in Text : Append(t, x) \in Seq(Text) /\ Append(s \o t, x) = s \o Append(t, x)
<1>1. ASSUME NEW s \in Text, NEW t \in Text, NEW x \in Letters
      PROVE  Append(t, x) \in Text /\ Append(s \o t, x) = s \o Append(t, x)
  <2>1. (s \o t) \o <<x>> = s \o (t \o <<x>>)
    <3>1. <<x>> \in Text
      BY OneLetter DEF Text
    <3>2. QED
      BY <3>1, Regroup
  <2>2. s \o t \in Text
    BY Joined
  <2>3. Append(s \o t, x) = (s \o t) \o <<x>> /\ Append(t, x) = t \o <<x>>
    BY <2>2, AppendIsConcat DEF Text
  <2>4. Append(t, x) \in Text
    BY AppendProperties DEF Text
  <2>5. QED
    BY <2>1, <2>3, <2>4, Zenon
<1>2. ASSUME NEW s \in Seq(Text), NEW t \in Seq(Text), NEW x \in Text
      PROVE  Append(t, x) \in Seq(Text) /\ Append(s \o t, x) = s \o Append(t, x)
  <2>1. (s \o t) \o <<x>> = s \o (t \o <<x>>)
    <3>1. <<x>> \in Seq(Text)
      BY OneLetter
    <3>2. QED
      BY <3>1, Regroup
  <2>2. s \o t \in Seq(Text) /\ Append(t, x) \in Seq(Text)
    BY ConcatProperties, AppendProperties
  <2>3. Append(s \o t, x) = (s \o t) \o <<x>> /\ Append(t, x) = t \o <<x>>
    BY <2>2, AppendIsConcat
  <2>4. QED
    BY <2>1, <2>2, <2>3, Zenon
<1>3. QED
  BY <1>1, <1>2

(* A step of the parser at the top keeps to the reading.                   *)
LEMMA TopKeeps ==
  ASSUME text \in Text, ParTyped, NEW z, Final(text, z), Parsing(z), Str!ParseTop
  PROVE  Parsing(z)'
<1>1. /\ par.at = "top" /\ par.i < Len(text) + 1 /\ ParTyped' /\ (ReadsOn \/ EntersCall)
      /\ text' = text
  BY TopStep DEF Str!ParseTop
<1>2. z[2] \in Text /\ z[3] \in Seq(Text) /\ (z[1] = Len(text) + 1 \/ Marked(text, z[1], "tool_call>"))
  BY DEF Final
<1>3. CASE par.calls = 0 /\ Leads(text, TRUE, Place, z)
  <2>1. CASE ReadsOn
    <3>1. Goes(text, TRUE, Place, Place') /\ par'.at = "top" /\ par'.calls = 0
      BY <1>3, <2>1 DEF ReadsOn
    <3> DEFINE y == Place
               x == Place'
    <3>2. y # z
      <4>1. ~Marked(text, y[1], "tool_call>") /\ y[1] # Len(text) + 1
        BY <3>1, NoGoes
      <4>2. QED
        BY <4>1, <1>2
    <3>3. \A d : Goes(text, TRUE, y, d) => d = x
      BY <3>1, GoesOnce
    <3>4. Leads(text, TRUE, y, z) /\ Goes(text, TRUE, y, x)
      BY <1>3, <3>1
    <3> HIDE DEF x, y
    <3>5. Leads(text, TRUE, x, z)
      BY <3>2, <3>3, <3>4, LeadsNext
    <3>6. Leads(text, TRUE, Place, z)'
      <4>1. \A a, b : Goes(text, TRUE, a, b)' <=> Goes(text, TRUE, a, b)
        BY <1>1 DEF Goes, Plain, Free, Marked, Shut
      <4>2. \A S : Closed(text, TRUE, S)' <=> Closed(text, TRUE, S)
        BY <4>1 DEF Closed
      <4>3. QED
        BY <3>5, <4>2 DEF x, Leads
    <3>7. QED
      BY <3>1, <3>6 DEF Parsing
  <2>2. CASE EntersCall
    <3>1. /\ par'.content = par.content /\ par'.reasons = par.reasons /\ par'.calls = 0
          /\ par'.at = "call" \/ par'.i = Len(text) + 1
          /\ Marked(text, par.i, "tool_call>")
      BY <1>3, <2>2 DEF EntersCall
    <3>2. par.content = z[2] /\ par.reasons = z[3]
      BY <1>3, <3>1, PlaceEnds
    <3>3. par'.content = z[2] \o <<>> /\ par'.reasons = z[3] \o <<>> /\ <<>> \in Text /\ <<>> \in Seq(Text)
      BY <3>1, <3>2, <1>2, AddNone
    <3>4. Beyond(z)'
      BY <3>1, <3>3, <1>1 DEF Beyond
    <3>5. QED
      BY <3>4 DEF Parsing
  <2>3. QED
    BY <1>1, <2>1, <2>2
<1>4. CASE Beyond(z)
  <2>1. PICK more \in Text, ms \in Seq(Text) :
           /\ par.content = z[2] \o more /\ par.reasons = z[3] \o ms
           /\ par.calls = 0 => more = <<>> /\ (par.at = "call" \/ par.i = Len(text) + 1)
    BY <1>4 DEF Beyond
  <2>2. par.calls # 0 /\ par'.calls = par.calls
    <3>1. Len(text) \in Nat /\ par.i \in Nat
      BY TextLetters DEF ParTyped
    <3>2. par.calls # 0
      BY <1>1, <2>1, <3>1
    <3>3. QED
      BY <1>1, <3>2 DEF ReadsOn, EntersCall
  <2>3. \E a \in Text : par'.content = z[2] \o a
    <3>1. par'.content = par.content \/ \E x \in Letters : par'.content = Append(par.content, x)
      BY <1>1 DEF ReadsOn, EntersCall
    <3>2. CASE par'.content = par.content
      BY <3>2, <2>1
    <3>3. CASE \E x \in Letters : par'.content = Append(par.content, x)
      <4>1. PICK x \in Letters : par'.content = Append(par.content, x)
        BY <3>3
      <4>2. z[2] \in Text /\ more \in Text /\ x \in Letters /\ par.content = z[2] \o more
        BY <2>1, <1>2
      <4>3. Append(more, x) \in Text /\ Append(z[2] \o more, x) = z[2] \o Append(more, x)
        BY <4>2, AddOne
      <4>4. QED
        BY <4>1, <4>2, <4>3
    <3>4. QED
      BY <3>1, <3>2, <3>3
  <2>4. \E a \in Seq(Text) : par'.reasons = z[3] \o a
    <3>1. par'.reasons = par.reasons \/ \E x \in Text : par'.reasons = Append(par.reasons, x)
      BY <1>1 DEF ReadsOn, EntersCall
    <3>2. CASE par'.reasons = par.reasons
      BY <3>2, <2>1
    <3>3. CASE \E x \in Text : par'.reasons = Append(par.reasons, x)
      <4>1. PICK x \in Text : par'.reasons = Append(par.reasons, x)
        BY <3>3
      <4>2. z[3] \in Seq(Text) /\ ms \in Seq(Text) /\ x \in Text /\ par.reasons = z[3] \o ms
        BY <2>1, <1>2
      <4>3. Append(ms, x) \in Seq(Text) /\ Append(z[3] \o ms, x) = z[3] \o Append(ms, x)
        BY <4>2, AddOne
      <4>4. QED
        BY <4>1, <4>2, <4>3
    <3>4. QED
      BY <3>1, <3>2, <3>3
  <2>5. Beyond(z)'
    BY <2>2, <2>3, <2>4 DEF Beyond
  <2>6. QED
    BY <2>5 DEF Parsing
<1>5. QED
  BY <1>3, <1>4 DEF Parsing

(* So does a step in a call.                                               *)
LEMMA CallKeeps ==
  ASSUME text \in Text, ParTyped, NEW z, Parsing(z), Str!ParseCall
  PROVE  Parsing(z)'
<1>1. par.at = "call" /\ ParTyped' /\ TakesCall /\ text' = text
  BY CallStep DEF Str!ParseCall
<1>2. PICK more \in Text, ms \in Seq(Text) :
         /\ par.content = z[2] \o more /\ par.reasons = z[3] \o ms
         /\ par.calls = 0 => more = <<>> /\ (par.at = "call" \/ par.i = Len(text) + 1)
  BY <1>1 DEF Parsing, Beyond
<1>3. par'.content = z[2] \o more /\ par'.reasons = z[3] \o ms
  BY <1>1, <1>2 DEF TakesCall
<1>4. par'.calls = 0 => par.calls = 0 /\ (par'.at = "call" \/ par'.i = Len(text) + 1)
  <2>1. par.calls \in Nat
    BY DEF ParTyped
  <2>2. QED
    BY <1>1, <2>1 DEF TakesCall, StaysInCall, EndsCall, LosesCall
<1>5. Beyond(z)'
  BY <1>1, <1>2, <1>3, <1>4 DEF Beyond
<1>6. QED
  BY <1>5 DEF Parsing

(* What the parser has made of the text when it comes to its end.          *)
LEMMA ParsedMeans ==
  ASSUME text \in Text, ParTyped, NEW z, Final(text, z), Parsing(z), par.at = "top", par.i = Len(text) + 1
  PROVE  \E more \in Text, ms \in Seq(Text) :
            /\ par.content = z[2] \o more /\ par.reasons = z[3] \o ms
            /\ par.calls = 0 => more = <<>>
<1>1. z[2] \in Text /\ z[3] \in Seq(Text)
  BY DEF Final
<1>2. CASE Leads(text, TRUE, Place, z)
  <2>1. par.content = z[2] /\ par.reasons = z[3]
    BY <1>2, PlaceEnds
  <2>2. par.content = z[2] \o <<>> /\ par.reasons = z[3] \o <<>> /\ <<>> \in Text /\ <<>> \in Seq(Text)
    BY <2>1, <1>1, AddNone
  <2>3. QED
    BY <2>2
<1>3. CASE Beyond(z)
  BY <1>3 DEF Beyond
<1>4. QED
  BY <1>2, <1>3 DEF Parsing

\* Events that end nothing.
Open(es) == \A i \in 1..Len(es) : es[i].k \notin {"finish", "done"}

\* The one event that finishes is at f, and the one [DONE] is the last.
OneFinish(es, f) ==
  /\ f \in 1..Len(es)
  /\ \A i \in 1..Len(es) : es[i].k = "finish" <=> i = f
  /\ \A i \in 1..Len(es) : es[i].k = "done" <=> i = Len(es)

\* A stream that was not cut: it ends once, and unless with an error it said what the parser made of the text.
Whole(es, p) ==
  (\E i \in 1..Len(es) : es[i].k = "role") =>
     \E f : /\ OneFinish(es, f)
            /\ es[f].v # "error" => /\ SaidOf(es, "reasoning") = Str!FlattenSeq(p.reasons)
                                    /\ Str!IsPrefix(SaidOf(es, "content"), p.content)
                                    /\ p.calls = 0 => SaidOf(es, "content") = p.content

\* es is one event, which says nothing.
Single(es, d, x) ==
  /\ es \in Seq(Event) /\ Len(es) = 1 /\ 1 \in 1..Len(es) /\ es[1].k = d /\ es[1].v = x
  /\ \A i \in 1..Len(es) : es[i].k = d
  /\ \A b \in Spoken : SaidOf(es, b) = <<>>

(* A list of one event.                                                    *)
LEMMA OneEvent ==
  ASSUME NEW d \in Kinds \ Spoken, NEW x \in Text \cup Nat \cup Reasons
  PROVE  Single(<<[k |-> d, v |-> x]>>, d, x)
<1> DEFINE e == [k |-> d, v |-> x]
           es == <<e>>
<1>1. e \in Event /\ e.k = d /\ e.v = x
  BY EventMade
<1> HIDE DEF e
<1>2. es \in Seq(Event) /\ Len(es) = 1 /\ es[1] = e
  BY <1>1
<1>3. es \in Seq(Event) /\ Len(es) = 1 /\ es[1] = e /\ 1 \in 1..Len(es)
  BY <1>2
<1> HIDE DEF es
<1>4. \A i \in 1..Len(es) : i = 1
  BY <1>3
<1>5. \A i \in 1..Len(es) : es[i].k = d
  BY <1>1, <1>3, <1>4
<1>6. \A b \in Spoken : SaidOf(es, b) = <<>>
  <2>1. SUFFICES ASSUME NEW b \in Spoken PROVE SaidOf(es, b) = <<>>
    OBVIOUS
  <2>2. \A i \in 1..Len(es) : es[i].k # b
    BY <1>5, <2>1
  <2>3. QED
    BY <1>3, <2>2, SaidNone
<1>7. QED
  BY <1>1, <1>3, <1>5, <1>6 DEF Single, es, e

(* The kinds an event may have that says nothing.                          *)
LEMMA Silent == {"role", "call", "finish", "usage", "done", "message", "error"} \subseteq Kinds \ Spoken
BY DEF Kinds, Spoken

(* The calls' events.                                                      *)
LEMMA CallsSay ==
  ASSUME NEW n \in Nat, NEW es, es = Str!CallEvents(n)
  PROVE  /\ es \in Seq(Event) /\ \A i \in 1..Len(es) : es[i].k = "call"
         /\ \A b \in Spoken : SaidOf(es, b) = <<>>
<1> DEFINE d == "call"
<1>1. d \in Kinds /\ d \notin Spoken
  BY DEF Kinds, Spoken
<1>2. es = [i \in 1..n |-> [k |-> d, v |-> i]]
  BY DEF Str!CallEvents
<1> HIDE DEF d
<1>3. \A i \in 1..n : es[i] \in Event /\ es[i].k = d
  <2>1. SUFFICES ASSUME NEW i \in 1..n PROVE es[i] \in Event /\ es[i].k = d
    OBVIOUS
  <2>2. es[i] = [k |-> d, v |-> i] /\ i \in Text \cup Nat \cup Reasons
    BY <1>2
  <2>3. QED
    BY <1>1, <2>2, EventMade
<1>4. es \in [1..n -> Event]
  BY <1>2, <1>3
<1>5. es \in Seq(Event) /\ Len(es) = n
  BY <1>4, SeqDef, LenProperties
<1>6. \A b \in Spoken : SaidOf(es, b) = <<>>
  <2>1. SUFFICES ASSUME NEW b \in Spoken PROVE SaidOf(es, b) = <<>>
    OBVIOUS
  <2>2. \A i \in 1..Len(es) : es[i].k # b
    BY <1>1, <1>3, <1>5, <2>1
  <2>3. QED
    BY <1>5, <2>2, SaidNone
<1>7. QED
  BY <1>3, <1>5, <1>6 DEF d

(* Two lists that end nothing.                                             *)
LEMMA OpenCat ==
  ASSUME NEW es \in Seq(Event), NEW fs \in Seq(Event), Open(es), Open(fs)
  PROVE  es \o fs \in Seq(Event) /\ Open(es \o fs)
<1> DEFINE gs == es \o fs
<1>1. /\ gs \in Seq(Event)
      /\ \A i \in 1..Len(es) : gs[i] = es[i]
      /\ \A i \in 1..Len(gs) : i \in 1..Len(es) \/ (i - Len(es) \in 1..Len(fs) /\ gs[i] = fs[i - Len(es)])
  BY EventCat DEF Joins
<1> HIDE DEF gs
<1>2. Open(gs)
  BY <1>1 DEF Open
<1>3. QED
  BY <1>1, <1>2 DEF gs

\* After es the stream finishes, with what is said after that.
Closing(es, x, us) == ((es \o <<Str!FinishEvent(x)>>) \o us) \o <<Str!DoneEvent>>

\* gs says what es says, and finishes once.
EndsAs(gs, es, x) ==
  /\ gs \in Seq(Event)
  /\ \E f : OneFinish(gs, f) /\ gs[f].v = x
  /\ \A b \in Spoken : SaidOf(gs, b) = SaidOf(es, b)

(* How a stream ends.                                                      *)
LEMMA EndsOnce ==
  ASSUME NEW es \in Seq(Event), Open(es), NEW us \in Seq(Event), Open(us), \A b \in Spoken : SaidOf(us, b) = <<>>,
         NEW x \in Text \cup Nat \cup Reasons, NEW gs,
         gs = Closing(es, x, us)
  PROVE  EndsAs(gs, es, x)
<1> DEFINE a == <<Str!FinishEvent(x)>>
           c == <<Str!DoneEvent>>
           p == es \o a
           q == p \o us
           f == Len(es) + 1
<1>1. Single(a, "finish", x)
  <2>1. a = <<[k |-> "finish", v |-> x]>> /\ "finish" \in Kinds \ Spoken
    BY Silent DEF Str!FinishEvent
  <2>2. QED
    BY <2>1, OneEvent
<1>2. Single(c, "done", <<>>)
  <2>1. c = <<[k |-> "done", v |-> <<>>]>> /\ "done" \in Kinds \ Spoken /\ <<>> \in Text \cup Nat \cup Reasons
    BY Silent, AddNone DEF Str!DoneEvent
  <2>2. QED
    BY <2>1, OneEvent
<1>3. gs = q \o c
  BY DEF Closing
<1> HIDE DEF a, c
<1>4. /\ p \in Seq(Event) /\ Len(es) \in Nat /\ Len(p) = Len(es) + 1
      /\ \A i \in 1..Len(es) : p[i] = es[i]
      /\ p[Len(es) + 1] = a[1]
  <2>1. a \in Seq(Event) /\ Len(a) = 1 /\ 1 \in 1..Len(a)
    BY <1>1 DEF Single
  <2>2. Joins(es, a, p)
    BY <2>1, EventCat
  <2> HIDE DEF p
  <2>3. QED
    BY <2>1, <2>2 DEF Joins
<1> HIDE DEF p
<1>5. /\ q \in Seq(Event) /\ Len(us) \in Nat /\ Len(q) = Len(p) + Len(us)
      /\ \A i \in 1..Len(p) : q[i] = p[i]
      /\ \A i \in 1..Len(q) : i \in 1..Len(p) \/ (i - Len(p) \in 1..Len(us) /\ q[i] = us[i - Len(p)])
  <2>1. Joins(p, us, q)
    BY <1>4, EventCat
  <2> HIDE DEF q
  <2>2. QED
    BY <2>1 DEF Joins
<1> HIDE DEF q
<1>6. /\ gs \in Seq(Event) /\ Len(gs) = Len(q) + 1
      /\ \A i \in 1..Len(q) : gs[i] = q[i]
      /\ gs[Len(q) + 1] = c[1]
  <2>1. c \in Seq(Event) /\ Len(c) = 1 /\ 1 \in 1..Len(c)
    BY <1>2 DEF Single
  <2>2. Joins(q, c, gs)
    BY <1>3, <1>5, <2>1, EventCat
  <2>3. QED
    BY <2>1, <2>2 DEF Joins
<1>7. f \in 1..Len(p) /\ f \in 1..Len(q) /\ f \in 1..Len(gs) /\ Len(gs) = Len(es) + Len(us) + 2
  BY <1>4, <1>5, <1>6
<1>8. gs[f].k = "finish" /\ gs[f].v = x
  BY <1>1, <1>4, <1>5, <1>6, <1>7 DEF Single
<1>9. \A i \in 1..Len(gs) : i # f /\ i # Len(gs) => gs[i].k \notin {"finish", "done"}
  <2>1. SUFFICES ASSUME NEW i \in 1..Len(gs), i # f, i # Len(gs) PROVE gs[i].k \notin {"finish", "done"}
    OBVIOUS
  <2>2. i \in 1..Len(q) /\ gs[i] = q[i]
    <3>1. Len(q) \in Nat /\ Len(gs) = Len(q) + 1 /\ i \in Nat
      BY <2>1, <1>4, <1>5, <1>6
    <3>2. i \in 1..Len(q)
      BY <2>1, <3>1
    <3>3. QED
      BY <3>2, <1>6
  <2>3. CASE i \in 1..Len(p)
    <3>1. i \in 1..Len(es) /\ q[i] = es[i]
      BY <2>1, <2>3, <1>4, <1>5
    <3>2. QED
      BY <2>2, <3>1 DEF Open
  <2>4. CASE i \notin 1..Len(p)
    <3>1. i - Len(p) \in 1..Len(us) /\ q[i] = us[i - Len(p)]
      BY <2>2, <2>4, <1>5
    <3>2. QED
      BY <2>2, <3>1 DEF Open
  <2>5. QED
    BY <2>3, <2>4
<1>10. gs[Len(gs)].k = "done" /\ f # Len(gs)
  BY <1>2, <1>6, <1>4, <1>5 DEF Single
<1> HIDE DEF f
<1>11. OneFinish(gs, f)
  BY <1>7, <1>8, <1>9, <1>10 DEF OneFinish
<1>12. \A b \in Spoken : SaidOf(gs, b) = SaidOf(es, b)
  <2>1. SUFFICES ASSUME NEW b \in Spoken PROVE SaidOf(gs, b) = SaidOf(es, b)
    OBVIOUS
  <2>2. SaidOf(p, b) = SaidOf(es, b) \o <<>>
    <3>1. a \in Seq(Event) /\ SaidOf(a, b) = <<>>
      BY <1>1 DEF Single
    <3>2. SaidOf(es \o a, b) = SaidOf(es, b) \o SaidOf(a, b)
      BY <3>1, SaidCat
    <3>3. QED
      BY <3>1, <3>2 DEF p
  <2>3. SaidOf(q, b) = SaidOf(p, b) \o <<>>
    <3>1. p \in Seq(Event) /\ SaidOf(us, b) = <<>>
      BY <1>4
    <3>2. SaidOf(p \o us, b) = SaidOf(p, b) \o SaidOf(us, b)
      BY <3>1, SaidCat
    <3>3. QED
      BY <3>1, <3>2 DEF q
  <2>4. SaidOf(gs, b) = SaidOf(q, b) \o <<>>
    <3>1. c \in Seq(Event) /\ SaidOf(c, b) = <<>>
      BY <1>2 DEF Single
    <3>2. SaidOf(q \o c, b) = SaidOf(q, b) \o SaidOf(c, b)
      BY <3>1, <1>5, SaidCat
    <3>3. QED
      BY <3>1, <3>2, <1>3
  <2>5. SaidOf(es, b) \in Text /\ SaidOf(p, b) \in Text /\ SaidOf(q, b) \in Text
    BY <1>4, <1>5, SaidText
  <2>6. QED
    BY <2>2, <2>3, <2>4, <2>5, AddNone
<1>13. QED
  BY <1>6, <1>8, <1>11, <1>12 DEF EndsAs

(* A stream with no role event is no stream.                               *)
LEMMA NoRole ==
  ASSUME NEW es, NEW p, \A i \in 1..Len(es) : es[i].k # "role"
  PROVE  Whole(es, p)
BY DEF Whole

(* Three lists of events joined, whichever pair is joined first.           *)
LEMMA EventAssoc ==
  ASSUME NEW p \in Seq(Event), NEW q \in Seq(Event), NEW r \in Seq(Event)
  PROVE  (p \o q) \o r = p \o (q \o r)
BY ConcatAssociative

(* Joining lists of events is associative, and joining none is nothing.    *)
LEMMA EventRegroup ==
  /\ \A p, q, x \in Seq(Event) : p \o q \in Seq(Event) /\ (p \o q) \o x = p \o (q \o x)
  /\ \A p \in Seq(Event) : p \o <<>> = p
  /\ <<>> \in Seq(Event)
<1>1. ASSUME NEW p \in Seq(Event), NEW q \in Seq(Event), NEW x \in Seq(Event)
      PROVE  p \o q \in Seq(Event) /\ (p \o q) \o x = p \o (q \o x)
  BY ConcatProperties, ConcatAssociative
<1>2. ASSUME NEW p \in Seq(Event) PROVE p \o <<>> = p
  BY ConcatEmptySeq
<1>3. QED
  BY <1>1, <1>2, EmptySeq

(* What is said before an ending is said before it.                        *)
LEMMA ClosingCat ==
  ASSUME NEW es \in Seq(Event), NEW fs \in Seq(Event), NEW x \in Text \cup Nat \cup Reasons, NEW us \in Seq(Event)
  PROVE  es \o Closing(fs, x, us) = Closing(es \o fs, x, us) /\ Closing(fs, x, us) \in Seq(Event)
<1> DEFINE a == <<Str!FinishEvent(x)>>
           c == <<Str!DoneEvent>>
<1>1. a \in Seq(Event)
  <2>1. a = <<[k |-> "finish", v |-> x]>> /\ "finish" \in Kinds \ Spoken
    BY Silent DEF Str!FinishEvent
  <2>2. Single(a, "finish", x)
    BY <2>1, OneEvent
  <2>3. QED
    BY <2>2 DEF Single
<1>2. c \in Seq(Event)
  <2>1. c = <<[k |-> "done", v |-> <<>>]>> /\ "done" \in Kinds \ Spoken /\ <<>> \in Text \cup Nat \cup Reasons
    BY Silent, AddNone DEF Str!DoneEvent
  <2>2. Single(c, "done", <<>>)
    BY <2>1, OneEvent
  <2>3. QED
    BY <2>2 DEF Single
<1>3. /\ Closing(fs, x, us) = ((fs \o a) \o us) \o c
      /\ Closing(es \o fs, x, us) = (((es \o fs) \o a) \o us) \o c
  BY DEF Closing
<1> HIDE DEF a, c
<1> DEFINE u == fs \o a
           y == u \o us
<1>4. u \in Seq(Event) /\ es \o fs \in Seq(Event) /\ (es \o fs) \o a = es \o u
  BY <1>1, EventRegroup
<1> HIDE DEF u
<1>5. y \in Seq(Event) /\ (es \o u) \o us = es \o y
  BY <1>4, EventRegroup
<1> HIDE DEF y
<1>6. y \o c \in Seq(Event) /\ (es \o y) \o c = es \o (y \o c)
  <2>1. y \in Seq(Event)
    BY <1>5
  <2>2. y \o c \in Seq(Event)
    BY <1>2, <2>1, ConcatProperties
  <2>3. (es \o y) \o c = es \o (y \o c)
    BY <1>2, <2>1, EventAssoc, Zenon
  <2>4. QED
    BY <2>2, <2>3
<1>7. QED
  BY <1>3, <1>4, <1>5, <1>6 DEF u, y

(* A stream that ends with an error.                                       *)
LEMMA FailWhole ==
  ASSUME NEW es \in Seq(Event), Open(es), NEW p, NEW fs, fs = <<Str!FinishEvent("error"), Str!DoneEvent>>
  PROVE  fs \in Seq(Event) /\ fs # <<>> /\ Whole(es \o fs, p)
<1> DEFINE x == "error"
           us == <<>>
           gs == es \o fs
<1>1. x \in Text \cup Nat \cup Reasons /\ us \in Seq(Event)
  BY EmptySeq DEF Reasons
<1>2. fs = Closing(<<>>, x, us) /\ fs # <<>>
  BY DEF Closing
<1>3. <<>> \in Seq(Event) /\ es \o <<>> = es /\ Open(us)
  BY EventRegroup DEF Open
<1>4. \A b \in Spoken : SaidOf(us, b) = <<>>
  <2>1. SUFFICES ASSUME NEW b \in Spoken PROVE SaidOf(us, b) = <<>>
    OBVIOUS
  <2>2. \A i \in 1..Len(us) : us[i].k # b
    OBVIOUS
  <2>3. QED
    BY <1>1, <2>2, SaidNone
<1> HIDE DEF x, us
<1>5. gs = Closing(es, x, us) /\ fs \in Seq(Event)
  <2> DEFINE e == <<>>
  <2>1. e \in Seq(Event) /\ es \o e = es /\ fs = Closing(e, x, us)
    BY <1>2, <1>3
  <2> HIDE DEF e
  <2>2. es \o Closing(e, x, us) = Closing(es \o e, x, us) /\ Closing(e, x, us) \in Seq(Event)
    BY <1>1, <2>1, ClosingCat
  <2>3. QED
    BY <2>1, <2>2
<1> HIDE DEF gs
<1>6. PICK f : OneFinish(gs, f) /\ gs[f].v = x
  BY <1>1, <1>3, <1>4, <1>5, EndsOnce DEF EndsAs
<1>7. Whole(gs, p)
  BY <1>6 DEF Whole, x
<1>8. QED
  BY <1>2, <1>5, <1>7 DEF gs

(* A response that is one event of another kind than role.                 *)
LEMMA BareWhole ==
  ASSUME NEW d \in Kinds \ Spoken, d # "role", NEW x \in Text \cup Nat \cup Reasons, NEW p, NEW fs, fs = <<[k |-> d, v |-> x]>>
  PROVE  fs \in Seq(Event) /\ fs # <<>> /\ Whole(<<>> \o fs, p)
<1>1. Single(fs, d, x)
  BY OneEvent
<1>2. fs \in Seq(Event) /\ Len(fs) = 1 /\ \A i \in 1..Len(fs) : fs[i].k # "role"
  BY <1>1 DEF Single
<1>3. <<>> \o fs = fs /\ fs # <<>>
  BY <1>2, ConcatEmptySeq
<1>4. Whole(fs, p)
  BY <1>2, NoRole
<1>5. QED
  BY <1>2, <1>3, <1>4

\* ls is what is left of rs after the first n.
Leaves(ls, rs, n) == /\ ls \in Seq(Text) /\ \A m \in 1..Len(ls) : Untagged("reasoning", ls[m])
                     /\ \A a \in Seq(Text), ms \in Seq(Text) : rs = a \o ms /\ n = Len(a) => ls = ms

(* The think blocks not streamed live.                                     *)
LEMMA LeftMeans ==
  ASSUME NEW rs \in Seq(Text), \A m \in 1..Len(rs) : Untagged("reasoning", rs[m]), NEW n \in Nat,
         NEW from, from = n + 1, NEW ls, ls = SubSeq(rs, from, Len(rs))
  PROVE  Leaves(ls, rs, n)
<1> DEFINE l == Len(rs)
           i == n + 1
<1>1. l \in Nat /\ i \in Nat \ {0} /\ \A m \in 1..l : rs[m] \in Text
  BY LenProperties, ElementOfSeq
<1> HIDE DEF l
<1>2. \A m \in i..l : m \in 1..l
  BY <1>1
<1>3. /\ ls \in Seq(Text) /\ Len(ls) = (IF i <= l THEN l - i + 1 ELSE 0)
      /\ \A m \in 1..l - i + 1 : ls[m] = rs[i + m - 1]
  <2>1. \A m \in i..l : rs[m] \in Text
    BY <1>1, <1>2
  <2>2. ls = SubSeq(rs, i, l)
    BY DEF l
  <2> HIDE DEF i
  <2>3. i \in Int /\ l \in Int
    BY <1>1
  <2>4. /\ SubSeq(rs, i, l) \in Seq(Text) /\ Len(SubSeq(rs, i, l)) = (IF i <= l THEN l - i + 1 ELSE 0)
        /\ \A m \in 1..l - i + 1 : SubSeq(rs, i, l)[m] = rs[i + m - 1]
    BY <2>1, <2>3, SubSeqProperties
  <2>5. QED
    BY <2>2, <2>4, Zenon
<1>4. \A m \in 1..Len(ls) : m \in 1..l - i + 1 /\ i + m - 1 \in 1..l
  <2> DEFINE k == Len(ls)
  <2>1. k = IF i <= l THEN l - i + 1 ELSE 0
    BY <1>3
  <2> HIDE DEF i, k
  <2>2. \A m \in 1..k : m \in 1..l - i + 1 /\ i + m - 1 \in 1..l
    BY <1>1, <2>1
  <2>3. QED
    BY <2>2 DEF k
<1>5. \A m \in 1..Len(ls) : Untagged("reasoning", ls[m])
  <2>1. SUFFICES ASSUME NEW m \in 1..Len(ls) PROVE Untagged("reasoning", ls[m])
    OBVIOUS
  <2>2. ls[m] = rs[i + m - 1] /\ i + m - 1 \in 1..Len(rs)
    BY <1>3, <1>4 DEF l
  <2> HIDE DEF i
  <2>3. QED
    BY <2>2
<1>6. ASSUME NEW a \in Seq(Text), NEW ms \in Seq(Text), rs = a \o ms, n = Len(a)
      PROVE  ls = ms
  <2>1. /\ Len(a \o ms) = Len(a) + Len(ms) /\ Len(a) \in Nat /\ Len(ms) \in Nat
        /\ \A k \in 1..Len(a) + Len(ms) : (a \o ms)[k] = IF k <= Len(a) THEN a[k] ELSE ms[k - Len(a)]
    BY ConcatProperties, LenProperties
  <2>2. l = n + Len(ms) /\ \A k \in 1..n + Len(ms) : rs[k] = IF k <= n THEN a[k] ELSE ms[k - n]
    BY <2>1, <1>6 DEF l
  <2> DEFINE b == Len(ms)
  <2>3. b \in Nat /\ l = n + b /\ \A k \in 1..n + b : rs[k] = IF k <= n THEN a[k] ELSE ms[k - n]
    BY <2>1, <2>2
  <2> HIDE DEF b
  <2>4. Len(ls) = b
    BY <1>1, <1>3, <2>3
  <2>5. \A m \in 1..b : ls[m] = ms[m]
    <3>1. SUFFICES ASSUME NEW m \in 1..b PROVE ls[m] = ms[m]
      OBVIOUS
    <3> DEFINE k == n + m
    <3>2. m \in 1..l - i + 1 /\ i + m - 1 = k /\ k \in 1..n + b /\ ~(k <= n) /\ k - n = m
      BY <1>1, <2>3
    <3> HIDE DEF k
    <3>3. ls[m] = rs[k]
      BY <1>3, <3>2
    <3>4. rs[k] = ms[k - n]
      BY <2>3, <3>2
    <3>5. QED
      BY <3>2, <3>3, <3>4, Zenon
  <2>6. QED
    BY <1>3, <2>4, <2>5, SeqEqual DEF b
<1>7. QED
  BY <1>3, <1>5, <1>6 DEF Leaves

\* What generation's outcome makes of the parser's record, after es.
Said(es, fs, x, ms) ==
  /\ fs \in Seq(Event) /\ fs # <<>>
  /\ \E f : OneFinish(es \o fs, f) /\ (es \o fs)[f].v = x
  /\ SaidOf(es \o fs, "reasoning") = SaidOf(es, "reasoning") \o Str!FlattenSeq(ms)
  /\ SaidOf(es \o fs, "content") = SaidOf(es, "content")

(* The events after the parse: reasoning, calls, finish, usage and [DONE]. *)
LEMMA ParsedSays ==
  ASSUME NEW es \in Seq(Event), Open(es), NEW ms \in Seq(Text), \A i \in 1..Len(ms) : Untagged("reasoning", ms[i]),
         NEW n \in Nat, NEW x \in Reasons, NEW us \in Seq(Event), Open(us), \A b \in Spoken : SaidOf(us, b) = <<>>,
         NEW fs, fs = Closing([i \in 1..Len(ms) |-> [k |-> "reasoning", v |-> ms[i]]] \o Str!CallEvents(n), x, us)
  PROVE  Said(es, fs, x, ms)
<1> DEFINE a == [i \in 1..Len(ms) |-> [k |-> "reasoning", v |-> ms[i]]]
           c == Str!CallEvents(n)
           y == a \o c
           q == es \o y
           gs == es \o fs
<1>1. /\ a \in Seq(Event) /\ \A i \in 1..Len(a) : a[i].k = "reasoning"
      /\ SaidOf(a, "reasoning") = Str!FlattenSeq(ms) /\ SaidOf(a, "content") = <<>>
  BY ReasonEvents
<1>2. /\ c \in Seq(Event) /\ \A i \in 1..Len(c) : c[i].k = "call"
      /\ \A b \in Spoken : SaidOf(c, b) = <<>>
  BY CallsSay
<1>3. fs = Closing(y, x, us) /\ x \in Text \cup Nat \cup Reasons /\ "reasoning" \in Spoken /\ "content" \in Spoken
  BY DEF Spoken
<1> HIDE DEF a, c
<1>4. Open(a) /\ Open(c)
  BY <1>1, <1>2 DEF Open
<1>5. y \in Seq(Event) /\ Open(y)
  BY <1>1, <1>2, <1>4, OpenCat
<1>6. SaidOf(y, "reasoning") = Str!FlattenSeq(ms) /\ SaidOf(y, "content") = <<>>
  <2>1. /\ SaidOf(a \o c, "reasoning") = SaidOf(a, "reasoning") \o SaidOf(c, "reasoning")
        /\ SaidOf(a \o c, "content") = SaidOf(a, "content") \o SaidOf(c, "content")
    BY <1>1, <1>2, <1>3, SaidCat
  <2>2. /\ SaidOf(c, "reasoning") = <<>> /\ SaidOf(c, "content") = <<>>
        /\ SaidOf(a, "reasoning") \in Text /\ SaidOf(a, "content") \in Text
    BY <1>1, <1>2, <1>3, SaidText
  <2>3. QED
    BY <1>1, <2>1, <2>2, AddNone
<1> HIDE DEF y
<1>7. q \in Seq(Event) /\ Open(q)
  BY <1>5, OpenCat
<1>8. /\ SaidOf(q, "reasoning") = SaidOf(es, "reasoning") \o Str!FlattenSeq(ms)
      /\ SaidOf(q, "content") = SaidOf(es, "content")
  <2>1. /\ SaidOf(es \o y, "reasoning") = SaidOf(es, "reasoning") \o SaidOf(y, "reasoning")
        /\ SaidOf(es \o y, "content") = SaidOf(es, "content") \o SaidOf(y, "content")
    BY <1>3, <1>5, SaidCat
  <2>2. SaidOf(es, "content") \in Text
    BY <1>3, SaidText
  <2>3. QED
    BY <1>6, <2>1, <2>2, AddNone
<1>9. gs = Closing(q, x, us) /\ fs \in Seq(Event)
  <2>1. es \o Closing(y, x, us) = Closing(es \o y, x, us) /\ Closing(y, x, us) \in Seq(Event)
    BY <1>3, <1>5, ClosingCat
  <2>2. QED
    BY <1>3, <2>1
<1>10. fs # <<>>
  <2>1. PICK f : OneFinish(fs, f)
    <3>1. EndsAs(fs, y, x)
      BY <1>3, <1>5, EndsOnce
    <3>2. QED
      BY <3>1 DEF EndsAs
  <2>2. f \in 1..Len(fs)
    BY <2>1 DEF OneFinish
  <2>3. QED
    BY <2>2
<1> HIDE DEF q, gs
<1>11. /\ \E f : OneFinish(gs, f) /\ gs[f].v = x
       /\ \A b \in Spoken : SaidOf(gs, b) = SaidOf(q, b)
  <2>1. EndsAs(gs, q, x)
    BY <1>3, <1>7, <1>9, EndsOnce
  <2>2. QED
    BY <2>1 DEF EndsAs
<1>12. QED
  BY <1>3, <1>8, <1>9, <1>10, <1>11 DEF Said, gs

(* A whole stream: what was streamed live and what the parser adds.        *)
LEMMA SaidWhole ==
  ASSUME NEW es \in Seq(Event), NEW fs, NEW x, NEW ms \in Seq(Text), Said(es, fs, x, ms),
         NEW p, NEW z, NEW more \in Text, z[2] \in Text, z[3] \in Seq(Text),
         SaidOf(es, "content") = z[2], SaidOf(es, "reasoning") = Str!FlattenSeq(z[3]),
         p.content = z[2] \o more, p.reasons = z[3] \o ms, p.calls = 0 => more = <<>>
  PROVE  Whole(es \o fs, p)
<1> DEFINE gs == es \o fs
<1>1. SaidOf(gs, "reasoning") = Str!FlattenSeq(z[3]) \o Str!FlattenSeq(ms) /\ SaidOf(gs, "content") = z[2]
  BY DEF Said
<1>2. PICK f : OneFinish(gs, f)
  BY DEF Said
<1> HIDE DEF gs
<1>3. SaidOf(gs, "reasoning") = Str!FlattenSeq(p.reasons)
  <2>1. Str!FlattenSeq(z[3] \o ms) = Str!FlattenSeq(z[3]) \o Str!FlattenSeq(ms)
    BY FlattenCat
  <2>2. QED
    BY <1>1, <2>1
<1>4. Str!IsPrefix(z[2], p.content)
  <2> DEFINE s == z[2]
             t == s \o more
  <2>1. s \in Text /\ p.content = t
    OBVIOUS
  <2> HIDE DEF s
  <2>2. t \in Text /\ Len(s) \in Nat /\ Len(more) \in Nat /\ Len(t) = Len(s) + Len(more) /\ \A i \in 1..Len(s) : t[i] = s[i]
    BY <2>1, Joined
  <2> HIDE DEF t
  <2>3. Str!IsPrefix(s, t)
    BY <2>1, <2>2, PrefixMeans
  <2>4. QED
    BY <2>1, <2>3 DEF s
<1>5. p.calls = 0 => p.content = z[2]
  <2>1. SUFFICES ASSUME p.calls = 0 PROVE p.content = z[2]
    OBVIOUS
  <2>2. p.content = z[2] \o <<>>
    BY <2>1
  <2>3. QED
    BY <2>2, AddNone
<1>6. Whole(gs, p)
  BY <1>1, <1>2, <1>3, <1>4, <1>5 DEF Whole
<1>7. QED
  BY <1>6 DEF gs

-----------------------------------------------------------------------------
(* The connection's thread and its events *)

\* Generating and streaming.
Mid == {"wait", "check", "tail", "push", "finish"}

Typed ==
  /\ req.stream \in BOOLEAN /\ req.usage \in BOOLEAN /\ toks \in Nat /\ blocks \in Nat /\ fin \in Reasons
  /\ sent \in Seq(Event) /\ outbox \in Seq(Event) /\ ParTyped

\* No text yet.
Blank == sent = <<>> /\ text = <<>> /\ hold = <<>> /\ span = "content" /\ blocks = 0

\* What is written while the text grows, to a client that asked for a stream.
Spoke(es, s) == /\ \A i \in 1..Len(es) : es[i].k \in {"role", "content", "reasoning"}
                /\ ~s => es = <<>>

\* The client has been told the text up to the hold; settled, no more than the begin of a tag is held.
Told(T, hd, sp, n, es, settled) ==
  \E p \in 1..Len(T) + 1 :
     /\ hd = SubSeq(T, p, Len(T))
     /\ Read(T, sp, p, n, SaidOf(es, "content"), SaidOf(es, "reasoning"))
     /\ settled => sp = "tool" \/ p = Len(T) + 1 \/ (p = Len(T) /\ T[p] = "<")

\* The client has been told the whole text, and the parser is about to find the same.
Agrees == \E z : Ended(text, z, blocks, SaidOf(sent, "content"), SaidOf(sent, "reasoning")) /\ Parsing(z)

\* What has been streamed is what the parser makes of the text, as far as each has come.
StreamInv ==
  /\ Typed
  /\ thread \in {"idle", "handle"} => Blank
  /\ thread \in {"idle", "handle"} \cup Mid => par = Str!NoParse
  /\ thread \in Mid \cup {"parse"} => Spoke(sent, req.stream)
  /\ thread = "push" => req.stream
  /\ thread \in Mid /\ req.stream /\ ~broken => Told(text, hold, span, blocks, sent, thread # "push")
  /\ thread = "parse" /\ req.stream /\ ~broken => Agrees
  /\ thread = "write" => (broken /\ outbox # <<>>) \/ Whole(sent \o outbox, par)
  /\ thread = "done" => Whole(sent, par)

(* The parser's record before it starts.                                   *)
LEMMA NoParseTyped ==
  /\ par = Str!NoParse => ParTyped
  /\ par' = Str!NoParse => ParTyped'
<1> DEFINE np == Str!NoParse
<1>1. /\ DOMAIN np = {"i", "at", "c", "content", "reasons", "calls", "err"}
      /\ np.i = 1 /\ np.c = 1 /\ np.at = "top" /\ np.content = <<>> /\ np.reasons = <<>> /\ np.calls = 0 /\ np.err = FALSE
  BY DEF Str!NoParse
<1>2. /\ DOMAIN np = {"i", "at", "c", "content", "reasons", "calls", "err"}
      /\ np.i \in Nat \ {0} /\ np.c \in Nat \ {0} /\ np.at \in {"top", "call"}
      /\ np.content \in Text /\ np.reasons \in Seq(Text) /\ np.calls \in Nat /\ np.err \in BOOLEAN
      /\ \A m \in 1..Len(np.reasons) : Untagged("reasoning", np.reasons[m])
  <2>1. <<>> \in Text /\ <<>> \in Seq(Text) /\ Len(<<>>) = 0
    BY AddNone, NoText
  <2>2. \A m \in 1..Len(np.reasons) : FALSE
    BY <1>1, <2>1
  <2>3. np.i = 1 /\ np.c = 1 /\ np.calls = 0 /\ np.err = FALSE
    BY DEF Str!NoParse
  <2> HIDE DEF np
  <2>4. \A m \in 1..Len(np.reasons) : Untagged("reasoning", np.reasons[m])
    BY <2>2
  <2>5. np.content \in Text /\ np.reasons \in Seq(Text)
    BY <1>1, <2>1, Zenon
  <2>6. np.i \in Nat \ {0} /\ np.c \in Nat \ {0} /\ np.calls \in Nat /\ np.err \in BOOLEAN
    <3>1. np.err \in BOOLEAN
      BY <2>3, Zenon
    <3>2. np.i \in Nat \ {0} /\ np.c \in Nat \ {0} /\ np.calls \in Nat
      <4>1. np.i = 1 /\ np.c = 1 /\ np.calls = 0
        BY <2>3, Zenon
      <4>2. QED
        BY <4>1
    <3>3. QED
      BY <3>1, <3>2
  <2>7. QED
    BY <1>1, <2>4, <2>5, <2>6, Zenon
<1> HIDE DEF np
<1>3. par = np => ParTyped
  BY <1>2 DEF ParTyped
<1>4. par' = np => ParTyped'
  BY <1>2 DEF ParTyped
<1>5. QED
  BY <1>3, <1>4 DEF np

(* A connection starts with nothing told.                                  *)
LEMMA StreamStart ==
  ASSUME Str!Init
  PROVE  StreamInv
<1>1. /\ thread = "idle" /\ req = Str!NoRequest /\ toks = 0 /\ text = <<>> /\ hold = <<>> /\ span = "content" /\ blocks = 0
      /\ sent = <<>> /\ outbox = <<>> /\ par = Str!NoParse
  BY DEF Str!Init
<1>2. fin \in Reasons
  BY Zenon DEF Str!Init, Reasons
<1>3. req.stream \in BOOLEAN /\ req.usage \in BOOLEAN
  BY <1>1 DEF Str!NoRequest
<1>4. Typed
  BY <1>1, <1>2, <1>3, NoParseTyped, EmptySeq DEF Typed
<1>5. QED
  BY <1>1, <1>4 DEF StreamInv, Blank, Mid

(* So does the next request.                                               *)
LEMMA StreamFresh ==
  ASSUME Str!Fresh
  PROVE  StreamInv'
<1>1. /\ thread' = "idle" /\ req' = Str!NoRequest /\ toks' = 0 /\ text' = <<>> /\ hold' = <<>> /\ span' = "content"
      /\ blocks' = 0 /\ sent' = <<>> /\ outbox' = <<>> /\ par' = Str!NoParse
  BY DEF Str!Fresh
<1>2. fin' \in Reasons
  BY Zenon DEF Str!Fresh, Reasons
<1>3. req'.stream \in BOOLEAN /\ req'.usage \in BOOLEAN
  BY <1>1 DEF Str!NoRequest
<1>4. Typed'
  BY <1>1, <1>2, <1>3, NoParseTyped, EmptySeq DEF Typed
<1>5. QED
  BY <1>1, <1>4 DEF StreamInv, Blank, Mid

(* A request has been read.                                                *)
LEMMA StreamRequest ==
  ASSUME StreamInv, Str!ReadRequest
  PROVE  StreamInv'
<1>1. /\ thread = "idle" /\ thread' = "handle"
      /\ \E s, u \in BOOLEAN, m \in MaxTokens, v \in Vocabs :
            req' = [stream |-> s, max |-> m, usage |-> u, vocab |-> v]
      /\ UNCHANGED <<toks, fin, text, hold, span, blocks, sent, outbox, par>>
  BY DEF Str!ReadRequest, Str!split
<1>2. req'.stream \in BOOLEAN /\ req'.usage \in BOOLEAN
  BY <1>1
<1>3. Typed' /\ Blank' /\ par' = Str!NoParse
  BY <1>1, <1>2 DEF StreamInv, Typed, ParTyped, Blank, Mid
<1>4. QED
  BY <1>1, <1>3 DEF StreamInv, Mid

(* A request that is refused.                                              *)
LEMMA StreamRefuse ==
  ASSUME StreamInv, Str!Refuse
  PROVE  StreamInv'
<1>1. /\ thread = "handle" /\ thread' = "write"
      /\ \E status \in {400, 404, 429} : outbox' = <<Str!ApiError(status)>>
      /\ UNCHANGED <<req, toks, fin, text, hold, span, blocks, sent, par>>
  BY DEF Str!Refuse, Str!split
<1>2. PICK status \in {400, 404, 429} : outbox' = <<Str!ApiError(status)>>
  BY <1>1
<1>3. sent = <<>>
  BY <1>1 DEF StreamInv, Blank
<1>4. outbox' \in Seq(Event) /\ Whole(<<>> \o outbox', par)
  <2>1. outbox' = <<[k |-> "error", v |-> status]>> /\ "error" \in Kinds \ Spoken /\ status \in Text \cup Nat \cup Reasons
    BY <1>2, Silent DEF Str!ApiError
  <2>2. QED
    BY <2>1, BareWhole
<1>5. Typed'
  BY <1>1, <1>4 DEF StreamInv, Typed, ParTyped
<1>6. Whole(sent \o outbox, par)'
  BY <1>1, <1>3, <1>4
<1>7. QED
  BY <1>1, <1>5, <1>6 DEF StreamInv, Mid

(* The client leaves: writes fail from here on.                            *)
LEMMA StreamLeave ==
  ASSUME StreamInv, Str!Leave
  PROVE  StreamInv'
<1>1. broken' /\ thread \notin {"idle", "gone"}
      /\ UNCHANGED <<thread, req, toks, fin, text, hold, span, blocks, sent, outbox, par>>
  BY DEF Str!Leave, Str!split
<1>2. Typed'
  BY <1>1 DEF StreamInv, Typed, ParTyped
<1>3. Blank' <=> Blank
  BY <1>1 DEF Blank
<1>4. thread = "write" => (broken' /\ outbox' # <<>>) \/ Whole(sent \o outbox, par)'
  BY <1>1 DEF StreamInv
<1>5. thread = "done" => Whole(sent, par)'
  BY <1>1 DEF StreamInv
<1>6. QED
  BY <1>1, <1>2, <1>3, <1>4, <1>5 DEF StreamInv

(* Generation fails: CancelOnDrop tells the scheduler, the stream ends.    *)
LEMMA StreamFails ==
  ASSUME StreamInv, thread \in Mid, Str!Failed, UNCHANGED <<req, toks, fin, text, hold, span, blocks, sent, par>>
  PROVE  StreamInv'
<1>1. thread' = "write" /\ outbox' = IF req.stream THEN <<Str!FinishEvent("error"), Str!DoneEvent>> ELSE <<Str!ApiError(500)>>
  BY DEF Str!Failed
<1>2. Spoke(sent, req.stream) /\ Typed /\ sent \in Seq(Event)
  BY DEF StreamInv, Typed
<1>3. outbox' \in Seq(Event) /\ Whole(sent \o outbox', par)
  <2>1. CASE req.stream
    <3>1. Open(sent)
      BY <1>2 DEF Spoke, Open
    <3>2. outbox' = <<Str!FinishEvent("error"), Str!DoneEvent>>
      BY <1>1, <2>1
    <3>3. QED
      BY <1>2, <3>1, <3>2, FailWhole
  <2>2. CASE ~req.stream
    <3>1. outbox' = <<[k |-> "error", v |-> 500]>> /\ "error" \in Kinds \ Spoken /\ 500 \in Text \cup Nat \cup Reasons
      BY <1>1, <2>2, Silent DEF Str!ApiError
    <3>2. outbox' \in Seq(Event) /\ Whole(<<>> \o outbox', par)
      BY <3>1, BareWhole
    <3>3. sent = <<>>
      BY <1>2, <2>2 DEF Spoke
    <3>4. QED
      BY <3>2, <3>3
  <2>3. QED
    BY <2>1, <2>2
<1>4. Typed'
  BY <1>2, <1>3 DEF Typed, ParTyped
<1>5. Whole(sent \o outbox, par)'
  BY <1>3
<1>6. QED
  BY <1>1, <1>4, <1>5 DEF StreamInv, Mid

(* A step that changes neither the text nor what the client was told.      *)
LEMMA StreamWaits ==
  ASSUME StreamInv, thread \in Mid \ {"push"}, thread' \in Mid \ {"push"},
         UNCHANGED <<req, text, hold, span, blocks, broken, sent, outbox, par>>, toks' \in Nat, fin' \in Reasons
  PROVE  StreamInv'
<1>1. Typed'
  BY DEF StreamInv, Typed, ParTyped
<1>2. par' = Str!NoParse /\ Spoke(sent, req.stream)'
  BY DEF StreamInv
<1>3. req'.stream /\ ~broken' => Told(text, hold, span, blocks, sent, thread # "push")'
  <2>1. SUFFICES ASSUME req'.stream, ~broken' PROVE Told(text, hold, span, blocks, sent, thread # "push")'
    OBVIOUS
  <2>2. Told(text, hold, span, blocks, sent, TRUE)
    BY <2>1 DEF StreamInv
  <2>3. (thread # "push")' <=> TRUE
    OBVIOUS
  <2>4. QED
    BY <2>2, <2>3 DEF Told
<1>4. QED
  BY <1>1, <1>2, <1>3 DEF StreamInv, Mid

(* What is given out makes the hold longer.                                *)
LEMMA ToldGrow ==
  ASSUME NEW T \in Text, NEW t \in Text, NEW hd, NEW sp, NEW n, NEW es, Told(T, hd, sp, n, es, TRUE)
  PROVE  Told(T \o t, hd \o t, sp, n, es, FALSE)
<1> DEFINE C == SaidOf(es, "content")
           R == SaidOf(es, "reasoning")
           s == T \o t
<1>1. PICK p \in 1..Len(T) + 1 : hd = SubSeq(T, p, Len(T)) /\ Read(T, sp, p, n, C, R)
  BY DEF Told
<1> HIDE DEF C, R
<1>2. Read(s, sp, p, n, C, R)
  BY <1>1, ReadGrow
<1>3. s \in Text /\ Len(s) = Len(T) + Len(t) /\ Len(T) \in Nat /\ Len(t) \in Nat
  BY Joined
<1>4. hd \o t = SubSeq(s, p, Len(s))
  <2> DEFINE a == Len(T)
             b == Len(s)
  <2>1. a \in Nat /\ b \in Nat /\ a <= b /\ p \in Nat \ {0} /\ p <= a + 1
    BY <1>3
  <2>2. SubSeq(s, p, a) = SubSeq(T, p, a)
    <3>1. a \in Nat /\ a <= Len(T)
      BY <1>3
    <3>2. QED
      BY <2>1, <3>1, CutGrow
  <2>3. SubSeq(s, a + 1, b) = t
    <3>1. /\ SubSeq(s, a + 1, b) \in Text /\ Len(SubSeq(s, a + 1, b)) = (IF a + 1 <= b THEN b - (a + 1) + 1 ELSE 0)
          /\ \A i \in 1..Len(SubSeq(s, a + 1, b)) : SubSeq(s, a + 1, b)[i] = s[a + 1 + i - 1]
      <4> DEFINE k == a + 1
      <4>1. k \in Nat \ {0} /\ b \in Nat /\ b <= Len(s)
        BY <2>1
      <4> HIDE DEF k, a, b, s
      <4>2. /\ SubSeq(s, k, b) \in Text /\ Len(SubSeq(s, k, b)) = (IF k <= b THEN b - k + 1 ELSE 0)
            /\ \A i \in 1..Len(SubSeq(s, k, b)) : SubSeq(s, k, b)[i] = s[k + i - 1]
        BY <1>3, <4>1, Cut
      <4>3. QED
        BY <4>2 DEF k
    <3> DEFINE d == SubSeq(s, a + 1, b)
               m == Len(t)
    <3>2. \A i \in 1..m : s[a + i] = t[i]
      BY Joined
    <3>3. b = a + m /\ m \in Nat
      BY <1>3
    <3> HIDE DEF s, a, b, m
    <3>4. Len(d) = m
      BY <3>1, <3>3, <2>1
    <3>5. \A i \in 1..m : d[i] = s[a + 1 + i - 1]
      BY <3>1, <3>4
    <3> HIDE DEF d
    <3>6. \A i \in 1..m : d[i] = t[i]
      <4>1. \A i \in 1..m : a + 1 + i - 1 = a + i
        BY <2>1
      <4>2. QED
        BY <3>2, <3>5, <4>1
    <3>7. d \in Text
      BY <3>1 DEF d
    <3>8. d = t
      BY <3>4, <3>6, <3>7, SeqEqual DEF m, Text
    <3>9. QED
      BY <3>8 DEF d
  <2>4. SubSeq(s, p, a) \o SubSeq(s, a + 1, b) = SubSeq(s, p, b)
    <3>1. p \in Nat \ {0} /\ a \in Nat /\ b \in Nat /\ p <= a + 1 /\ a <= b /\ b <= Len(s)
      BY <2>1
    <3> HIDE DEF a, b, s
    <3>2. QED
      BY <1>3, <3>1, CutJoin
  <2>5. QED
    BY <1>1, <2>2, <2>3, <2>4
<1>5. p \in 1..Len(s) + 1
  BY <1>3
<1>6. QED
  BY <1>2, <1>4, <1>5 DEF Told, C, R

(* emit_delta: the text grows, and when it is streamed so does the hold.   *)
LEMMA StreamEmit ==
  ASSUME StopInv, StreamInv, thread \in {"wait", "tail"}, NEW t \in Text, NEW to \in {"check", "finish"}, Str!Emit(t, to),
         UNCHANGED <<req, broken, sent, outbox, par>>, toks' \in Nat, fin' \in Reasons
  PROVE  StreamInv'
<1>1. text \in Text /\ text' = text \o t
  BY DEF StopInv, Str!Emit
<1>2. CASE t = <<>> \/ ~req.stream
  <2>1. thread' = to /\ UNCHANGED <<hold, span, blocks>>
    BY <1>2 DEF Str!Emit, Str!split
  <2>2. Typed' /\ par' = Str!NoParse /\ Spoke(sent, req.stream)'
    BY <2>1 DEF StreamInv, Typed, ParTyped, Mid
  <2>3. req'.stream /\ ~broken' => Told(text, hold, span, blocks, sent, thread # "push")'
    <3>1. SUFFICES ASSUME req'.stream, ~broken' PROVE Told(text, hold, span, blocks, sent, thread # "push")'
      OBVIOUS
    <3>2. text' = text
      BY <1>1, <1>2, <3>1, AddNone
    <3>3. Told(text, hold, span, blocks, sent, TRUE)
      BY <3>1 DEF StreamInv, Mid
    <3>4. (thread # "push")' <=> TRUE
      BY <2>1
    <3>5. QED
      BY <2>1, <3>2, <3>3, <3>4 DEF Told
  <2>4. QED
    BY <2>1, <2>2, <2>3 DEF StreamInv, Mid
<1>3. CASE ~(t = <<>> \/ ~req.stream)
  <2>1. thread' = "push" /\ hold' = hold \o t /\ UNCHANGED <<span, blocks>> /\ req'.stream
    BY <1>3 DEF Str!Emit
  <2>2. Typed' /\ par' = Str!NoParse /\ Spoke(sent, req.stream)'
    BY <2>1 DEF StreamInv, Typed, ParTyped, Mid
  <2>3. req'.stream /\ ~broken' => Told(text, hold, span, blocks, sent, thread # "push")'
    <3>1. SUFFICES ASSUME req'.stream, ~broken' PROVE Told(text, hold, span, blocks, sent, thread # "push")'
      OBVIOUS
    <3>2. Told(text, hold, span, blocks, sent, TRUE)
      BY <3>1 DEF StreamInv, Mid
    <3>3. Told(text \o t, hold \o t, span, blocks, sent, FALSE)
      BY <1>1, <3>2, ToldGrow
    <3>4. (thread # "push")' <=> FALSE
      BY <2>1
    <3>5. QED
      BY <1>1, <2>1, <3>3, <3>4 DEF Told
  <2>4. QED
    BY <2>1, <2>2, <2>3 DEF StreamInv, Mid
<1>4. QED
  BY <1>2, <1>3

(* A token, and the tail of what is pending.                               *)
LEMMA StreamToken ==
  ASSUME StopInv, StreamInv, Str!Token
  PROVE  StreamInv'
<1>1. /\ thread = "wait" /\ toks' = toks + 1 /\ UNCHANGED <<req, broken, sent, outbox, par>>
      /\ toks \in Nat /\ pending \in Text
  BY DEF Str!Token, StreamInv, Typed, StopInv
<1>2. "stop" \in Reasons
  BY Zenon DEF Reasons
<1>3. CASE fin' = "stop" /\ thread' = "tail" /\ UNCHANGED <<pending, text, Str!split>>
  <2>1. UNCHANGED <<text, hold, span, blocks>>
    BY <1>3 DEF Str!split
  <2>2. toks' \in Nat /\ fin' \in Reasons
    BY <1>1, <1>2, <1>3
  <2>3. thread \in Mid \ {"push"} /\ thread' \in Mid \ {"push"}
    BY <1>1, <1>3 DEF Mid
  <2>4. QED
    BY <1>1, <2>1, <2>2, <2>3, StreamWaits
<1>4. CASE \E t \in req.vocab :
             LET f == Str!Flush(pending \o t)
             IN  /\ pending' = f.left
                 /\ fin' = IF f.stop THEN "stop" ELSE ""
                 /\ Str!Emit(f.emit, "check")
  <2>1. PICK t \in req.vocab :
           LET f == Str!Flush(pending \o t)
           IN  /\ pending' = f.left
               /\ fin' = IF f.stop THEN "stop" ELSE ""
               /\ Str!Emit(f.emit, "check")
    BY <1>4
  <2>2. pending \o t \in Text
    <3>1. t \in Text
      BY <2>1 DEF StopInv
    <3>2. QED
      BY <1>1, <3>1, Joined
  <2> DEFINE f == Str!Flush(pending \o t)
             e == f.emit
  <2>3. e \in Text
    BY <2>2, FlushSafe
  <2>4. fin' \in Reasons /\ Str!Emit(e, "check")
    BY <2>1, Zenon DEF Reasons
  <2> HIDE DEF e
  <2>5. toks' \in Nat /\ thread \in {"wait", "tail"} /\ "check" \in {"check", "finish"}
    BY <1>1
  <2>6. QED
    BY <1>1, <2>3, <2>4, <2>5, StreamEmit
<1>5. QED
  BY <1>3, <1>4 DEF Str!Token

(* The tail of what is pending.                                            *)
LEMMA StreamTail ==
  ASSUME StopInv, StreamInv, Str!FlushTail
  PROVE  StreamInv'
<1> DEFINE e == Str!Lossy(pending)
<1>1. /\ thread = "tail" /\ Str!Emit(e, "finish") /\ UNCHANGED <<req, toks, fin, broken, sent, outbox, par>>
  BY DEF Str!FlushTail
<1>2. toks \in Nat /\ fin \in Reasons /\ pending \in Text
  BY DEF StreamInv, Typed, StopInv
<1>3. e \in Text
  BY <1>2, LossyText
<1> HIDE DEF e
<1>4. toks' \in Nat /\ fin' \in Reasons /\ thread \in {"wait", "tail"} /\ "finish" \in {"check", "finish"}
  BY <1>1, <1>2
<1>5. QED
  BY <1>1, <1>3, <1>4, StreamEmit

(* After a token: stopped, at the length cap, cancelled or on.             *)
LEMMA StreamCheck ==
  ASSUME StreamInv, Str!Check
  PROVE  StreamInv'
<1>1. thread = "check" /\ UNCHANGED <<req, toks, text, hold, span, blocks, broken, sent, par>> /\ thread \in Mid \ {"push"}
  BY DEF Str!Check, Str!split, Mid
<1>2. toks' \in Nat /\ fin \in Reasons /\ "length" \in Reasons
  <2>1. "length" \in Reasons
    BY Zenon DEF Reasons
  <2>2. QED
    BY <1>1, <2>1 DEF StreamInv, Typed
<1>3. \/ thread' = "tail" /\ UNCHANGED <<fin, outbox>>
      \/ fin' = "length" /\ thread' = "tail" /\ UNCHANGED outbox
      \/ Str!Failed /\ UNCHANGED fin
      \/ thread' = "wait" /\ UNCHANGED <<fin, outbox>>
  BY DEF Str!Check
<1>4. CASE Str!Failed /\ UNCHANGED fin
  BY <1>1, <1>4, StreamFails
<1>5. CASE thread' \in {"tail", "wait"} /\ UNCHANGED outbox /\ fin' \in Reasons
  <2>1. thread' \in Mid \ {"push"}
    BY <1>5 DEF Mid
  <2>2. QED
    BY <1>1, <1>2, <1>5, <2>1, StreamWaits
<1>6. QED
  BY <1>2, <1>3, <1>4, <1>5

(* 15 s without a token.                                                   *)
LEMMA StreamKeepalive ==
  ASSUME StreamInv, Str!Keepalive
  PROVE  StreamInv'
<1>1. thread = "wait" /\ UNCHANGED <<req, toks, fin, text, hold, span, blocks, broken, sent, par>> /\ thread \in Mid \ {"push"}
  BY DEF Str!Keepalive, Str!split, Mid
<1>2. CASE Str!Failed
  BY <1>1, <1>2, StreamFails
<1>3. CASE UNCHANGED <<thread, outbox>>
  <2>1. toks' \in Nat /\ fin' \in Reasons /\ thread' \in Mid \ {"push"}
    BY <1>1, <1>3 DEF StreamInv, Typed
  <2>2. QED
    BY <1>1, <1>3, <2>1, StreamWaits
<1>4. QED
  BY <1>2, <1>3 DEF Str!Keepalive

(* The job begins: a stream's first event is the role.                     *)
LEMMA StreamBegin ==
  ASSUME StopInv, StreamInv, Str!Begin
  PROVE  StreamInv'
<1>1. /\ thread = "handle" /\ req' = [req EXCEPT !.max = Str!Max({req.max, 1})]
      /\ UNCHANGED <<toks, fin, text, hold, span, blocks, broken, outbox, par>>
  BY DEF Str!Begin, Str!split
<1>2. req'.stream = req.stream /\ req'.usage = req.usage
  BY <1>1 DEF StopInv
<1>3. Blank /\ par = Str!NoParse /\ Typed
  BY <1>1 DEF StreamInv
<1>4. CASE thread' = "gone" /\ UNCHANGED sent
  <2>1. Typed'
    BY <1>1, <1>2, <1>3, <1>4 DEF Typed, ParTyped
  <2>2. QED
    BY <1>4, <2>1 DEF StreamInv, Mid
<1>5. CASE thread' = "wait" /\ sent' = IF req.stream THEN <<Str!RoleEvent>> ELSE <<>>
  <2>1. Single(<<Str!RoleEvent>>, "role", <<>>)
    <3>1. <<Str!RoleEvent>> = <<[k |-> "role", v |-> <<>>]>> /\ "role" \in Kinds \ Spoken /\ <<>> \in Text \cup Nat \cup Reasons
      BY Silent, AddNone DEF Str!RoleEvent
    <3>2. QED
      BY <3>1, OneEvent
  <2>2. sent' \in Seq(Event) /\ \A b \in Spoken : SaidOf(sent', b) = <<>>
    <3>1. CASE req.stream
      BY <1>5, <2>1, <3>1 DEF Single
    <3>2. CASE ~req.stream
      <4>1. sent' = <<>>
        BY <1>5, <3>2
      <4>2. sent' \in Seq(Event) /\ Len(sent') = 0
        BY <4>1, EmptySeq
      <4>3. ASSUME NEW b \in Spoken PROVE SaidOf(sent', b) = <<>>
        <5>1. \A i \in 1..Len(sent') : sent'[i].k # b
          BY <4>2
        <5>2. QED
          BY <4>2, <5>1, SaidNone
      <4>4. QED
        BY <4>2, <4>3
    <3>3. QED
      BY <3>1, <3>2
  <2>3. Spoke(sent', req'.stream)
    BY <1>2, <1>5, <2>1 DEF Spoke, Single
  <2>4. Told(<<>>, <<>>, "content", 0, sent', TRUE)
    <3> DEFINE T == <<>>
               one == 1
    <3>1. T \in Text /\ Len(T) = 0 /\ one \in 1..Len(T) + 1 /\ one = Len(T) + 1 /\ SubSeq(T, one, Len(T)) = T
      <4>1. T \in Text /\ Len(T) = 0
        BY AddNone, NoText
      <4>2. SubSeq(T, 1, 0) = <<>>
        BY SubSeqEmpty
      <4>3. QED
        BY <4>1, <4>2
    <3>2. SaidOf(sent', "content") = T /\ SaidOf(sent', "reasoning") = T
      BY <2>2 DEF Spoken
    <3>3. Read(T, "content", one, 0, T, T)
      <4>1. T \in Seq(Text) /\ Len(T) = 0 /\ Str!FlattenSeq(T) = T
        BY AddNone, NoText, FlattenAppend
      <4>2. Leads(T, FALSE, Origin, <<one, T, T>>)
        <5>1. Origin = <<one, T, T>>
          BY DEF Origin
        <5>2. QED
          BY <5>1, LeadsOn
      <4> HIDE DEF T, one
      <4>3. QED
        BY <4>1, <4>2 DEF Read
    <3> HIDE DEF one
    <3>4. Told(T, T, "content", 0, sent', TRUE)
      BY <3>1, <3>2, <3>3 DEF Told
    <3>5. QED
      BY <3>4
  <2>5. Typed'
    BY <1>1, <1>2, <1>3, <2>2 DEF Typed, ParTyped
  <2>6. Told(text, hold, span, blocks, sent, thread # "push")'
    <3>1. text' = <<>> /\ hold' = <<>> /\ span' = "content" /\ blocks' = 0
      BY <1>1, <1>3 DEF Blank
    <3>2. (thread # "push")' <=> TRUE
      BY <1>5
    <3>3. QED
      BY <2>4, <3>1, <3>2 DEF Told
  <2>7. QED
    BY <1>1, <1>3, <1>5, <2>3, <2>5, <2>6 DEF StreamInv, Mid
<1>6. QED
  BY <1>4, <1>5 DEF Str!Begin

(* A turn of push opens at most one think block.                           *)
LEMMA TurnBlock == Str!Turn.block \in {0, 1}
<1> DEFINE close == Str!FindFrom(hold, 1, Str!ThinkClose)
           think == Str!FindFrom(hold, 1, Str!ThinkOpen)
           tool == Str!FindFrom(hold, 1, Str!ToolOpen)
           flush(tags) == Len(hold) - Str!HeldSuffix(hold, tags)
           g1 == span = "tool"
           g2 == span = "think" /\ close > 0
           g3 == span = "think" /\ close = 0
           g4 == span = "content" /\ think > 0 /\ (tool = 0 \/ think < tool)
           g5 == span = "content" /\ tool > 0 /\ (think = 0 \/ tool < think)
           r1 == [ev |-> <<>>, hold |-> hold, span |-> span, block |-> 0, again |-> FALSE]
           r2 == [ev |-> Str!Delta("reasoning", Str!Before(hold, close)), hold |-> Str!From(hold, close + 2),
                  span |-> "content", block |-> 0, again |-> TRUE]
           r3 == [ev |-> Str!Delta("reasoning", Str!Before(hold, flush({Str!ThinkClose}) + 1)),
                  hold |-> Str!From(hold, flush({Str!ThinkClose}) + 1), span |-> span, block |-> 0, again |-> FALSE]
           r4 == [ev |-> Str!Delta("content", Str!Before(hold, think)), hold |-> Str!From(hold, think + 2),
                  span |-> "think", block |-> 1, again |-> TRUE]
           r5 == [ev |-> Str!Delta("content", Str!Before(hold, tool)), hold |-> Str!From(hold, tool),
                  span |-> "tool", block |-> 0, again |-> TRUE]
           r6 == [ev |-> Str!Delta("content", Str!Before(hold, flush({Str!ThinkOpen, Str!ToolOpen}) + 1)),
                  hold |-> Str!From(hold, flush({Str!ThinkOpen, Str!ToolOpen}) + 1), span |-> span, block |-> 0,
                  again |-> FALSE]
           t == Str!Turn
<1>1. t = (CASE g1 -> r1 [] g2 -> r2 [] g3 -> r3 [] g4 -> r4 [] g5 -> r5 [] OTHER -> r6)
  BY DEF Str!Turn
<1>2. r1.block = 0 /\ r2.block = 0 /\ r3.block = 0 /\ r4.block = 1 /\ r5.block = 0 /\ r6.block = 0
  OBVIOUS
<1> HIDE DEF g1, g2, g3, g4, g5, r1, r2, r3, r4, r5, r6, t
<1>3. t \in {r1, r2, r3, r4, r5, r6}
  BY <1>1
<1>4. t.block \in {0, 1}
  BY <1>2, <1>3
<1>5. QED
  BY <1>4 DEF t

(* One more event.                                                         *)
LEMMA SaidNext ==
  ASSUME NEW es \in Seq(Event), NEW e \in Event, NEW b \in Spoken
  PROVE  /\ Append(es, e) \in Seq(Event)
         /\ SaidOf(Append(es, e), b) = SaidOf(es, b) \o (IF e.k = b THEN e.v ELSE <<>>)
<1>1. Append(es, e) \in Seq(Event) /\ Append(es, e) = es \o <<e>>
  BY AppendProperties, AppendIsConcat
<1>2. <<e>> \in Seq(Event) /\ SaidOf(<<e>>, b) = IF e.k = b THEN e.v ELSE <<>>
  BY SaidOne
<1>3. SaidOf(es \o <<e>>, b) = SaidOf(es, b) \o SaidOf(<<e>>, b)
  BY <1>2, SaidCat
<1>4. QED
  BY <1>1, <1>2, <1>3, Zenon

\* What a turn gives keeps what the client was told true.
TurnTells == /\ Str!Turn.ev \in Seq(Event) /\ \A i \in 1..Len(Str!Turn.ev) : Str!Turn.ev[i].k \in Spoken
             /\ Told(text, Str!Turn.hold, Str!Turn.span, blocks + Str!Turn.block, sent \o Str!Turn.ev, ~Str!Turn.again)

(* One turn of push.                                                       *)
LEMMA TurnTold ==
  ASSUME text \in Text, blocks \in Nat, sent \in Seq(Event), Told(text, hold, span, blocks, sent, FALSE)
  PROVE  TurnTells
<1> DEFINE C == SaidOf(sent, "content")
           R == SaidOf(sent, "reasoning")
           t == Str!Turn
<1>1. C \in Text /\ R \in Text
  BY SaidText DEF Spoken
<1>2. PICK p \in 1..Len(text) + 1 : hold = SubSeq(text, p, Len(text)) /\ Read(text, span, p, blocks, C, R)
  BY DEF Told
<1> HIDE DEF C, R
<1>3. span \in {"content", "tool", "think"}
  BY <1>2 DEF Read
<1>4. \E d, x, j : Gives(text, t, d, x, j, blocks, C, R)
  <2>1. CASE span = "tool"
    <3>1. Read(text, "tool", p, blocks, C, R)
      BY <1>2, <2>1
    <3>2. Gives(text, Str!Turn, "content", <<>>, p, blocks, C, R)
      BY <1>1, <1>2, <2>1, <3>1, TurnTool
    <3>3. QED
      BY <3>2
  <2>2. CASE span = "think"
    <3>1. Read(text, "think", p, blocks, C, R)
      BY <1>2, <2>2
    <3>2. \E x, j : Gives(text, Str!Turn, "reasoning", x, j, blocks, C, R)
      BY <1>1, <1>2, <2>2, <3>1, TurnThink
    <3>3. QED
      BY <3>2
  <2>3. CASE span = "content"
    <3>1. Read(text, "content", p, blocks, C, R)
      BY <1>2, <2>3
    <3>2. \E x, j : Gives(text, Str!Turn, "content", x, j, blocks, C, R)
      BY <1>1, <1>2, <2>3, <3>1, TurnContent
    <3>3. QED
      BY <3>2
  <2>4. QED
    BY <1>3, <2>1, <2>2, <2>3
<1>5. PICK d, x, j : Gives(text, t, d, x, j, blocks, C, R)
  BY <1>4
<1> HIDE DEF t
<1>6. d \in Spoken /\ x \in Text /\ Untagged(d, x) /\ t.ev = Str!Delta(d, x) /\ t.again \in BOOLEAN
  BY <1>5 DEF Gives, Spoken
<1> DEFINE ev == t.ev
<1>7. /\ ev \in Seq(Event) /\ \A i \in 1..Len(ev) : ev[i].k = d
      /\ \A b \in Spoken : SaidOf(ev, b) = IF b = d THEN x ELSE <<>>
  BY <1>6, DeltaSays
<1> HIDE DEF ev
<1>8. /\ SaidOf(sent \o ev, "content") = IF d = "content" THEN C \o x ELSE C
      /\ SaidOf(sent \o ev, "reasoning") = IF d = "reasoning" THEN R \o x ELSE R
  <2>1. "content" \in Spoken /\ "reasoning" \in Spoken
    BY DEF Spoken
  <2>2. /\ SaidOf(sent \o ev, "content") = C \o SaidOf(ev, "content")
        /\ SaidOf(sent \o ev, "reasoning") = R \o SaidOf(ev, "reasoning")
    BY <1>7, <2>1, SaidCat DEF C, R
  <2>3. C \o <<>> = C /\ R \o <<>> = R
    BY <1>1, AddNone
  <2>4. /\ SaidOf(ev, "content") = IF d = "content" THEN x ELSE <<>>
        /\ SaidOf(ev, "reasoning") = IF d = "reasoning" THEN x ELSE <<>>
    BY <1>7, <2>1
  <2>5. QED
    BY <2>2, <2>3, <2>4
<1>9. Told(text, t.hold, t.span, blocks + t.block, sent \o ev, ~t.again)
  BY <1>5, <1>8 DEF Told, Gives
<1>10. QED
  BY <1>6, <1>7, <1>9 DEF TurnTells, t, ev

(* push: what it gives is told, and what it holds back is not.             *)
LEMMA StreamPush ==
  ASSUME StopInv, StreamInv, Str!Push
  PROVE  StreamInv'
<1>1. /\ thread = "push" /\ UNCHANGED <<req, toks, fin, text, broken, outbox, par>> /\ back \in {"check", "finish"}
      /\ text \in Text
  BY DEF Str!Push, StopInv
<1>2. Typed /\ req.stream /\ par = Str!NoParse /\ Spoke(sent, req.stream) /\ blocks \in Nat /\ sent \in Seq(Event)
  BY <1>1 DEF StreamInv, Mid, Typed
<1> DEFINE t == Str!Turn
<1>3. CASE broken /\ t.ev # <<>>
  <2>1. thread' = back /\ UNCHANGED <<sent, hold, span, blocks>>
    BY <1>3 DEF Str!Push
  <2>2. Typed'
    BY <1>1, <1>2, <2>1 DEF Typed, ParTyped
  <2>3. QED
    BY <1>1, <1>2, <1>3, <2>1, <2>2 DEF StreamInv, Mid
<1>4. CASE ~(broken /\ t.ev # <<>>)
  <2>1. /\ sent' = sent \o t.ev /\ hold' = t.hold /\ span' = t.span /\ blocks' = blocks + t.block
        /\ thread' = IF t.again THEN thread ELSE back
    BY <1>4 DEF Str!Push
  <2>2. blocks' \in Nat
    <3>1. t.block \in {0, 1}
      BY TurnBlock
    <3> HIDE DEF t
    <3>2. QED
      BY <1>2, <2>1, <3>1
  <2>3. CASE broken
    <3>1. sent' = sent
      BY <1>2, <1>4, <2>1, <2>3, EventRegroup
    <3>2. Typed'
      BY <1>1, <1>2, <2>2, <3>1 DEF Typed, ParTyped
    <3>3. QED
      BY <1>1, <1>2, <2>1, <2>3, <3>1, <3>2 DEF StreamInv, Mid
  <2>4. CASE ~broken
    <3>1. Told(text, hold, span, blocks, sent, FALSE)
      <4>1. Told(text, hold, span, blocks, sent, thread # "push")
        BY <1>1, <1>2, <2>4 DEF StreamInv, Mid
      <4>2. QED
        BY <4>1 DEF Told
    <3>2. TurnTells
      BY <1>1, <1>2, <3>1, TurnTold
    <3> HIDE DEF t
    <3>3. /\ t.ev \in Seq(Event) /\ \A i \in 1..Len(t.ev) : t.ev[i].k \in Spoken
          /\ Told(text, t.hold, t.span, blocks + t.block, sent \o t.ev, ~t.again)
      BY <3>2 DEF TurnTells, t
    <3>4. sent' \in Seq(Event) /\ Spoke(sent', TRUE)
      <4> DEFINE ev == t.ev
                 gs == sent \o ev
      <4>1. /\ gs \in Seq(Event)
            /\ \A i \in 1..Len(sent) : gs[i] = sent[i]
            /\ \A i \in 1..Len(gs) : i \in 1..Len(sent) \/ (i - Len(sent) \in 1..Len(ev) /\ gs[i] = ev[i - Len(sent)])
        BY <1>2, <3>3, EventCat DEF Joins
      <4>2. sent' = gs /\ (\A i \in 1..Len(ev) : ev[i].k \in Spoken) /\ \A i \in 1..Len(sent) : sent[i].k \in {"role", "content", "reasoning"}
        BY <1>2, <2>1, <3>3 DEF Spoke
      <4> HIDE DEF gs, ev
      <4>3. \A i \in 1..Len(gs) : gs[i].k \in {"role", "content", "reasoning"}
        BY <4>1, <4>2 DEF Spoken
      <4>4. QED
        BY <4>1, <4>2, <4>3 DEF Spoke
    <3>5. Typed'
      BY <1>1, <1>2, <2>2, <3>4 DEF Typed, ParTyped
    <3>6. Told(text, hold, span, blocks, sent, thread # "push")'
      <4>1. Told(text', hold', span', blocks', sent', ~t.again)
        BY <1>1, <2>1, <3>3
      <4>2. thread' # "push" => ~t.again
        BY <1>1, <2>1
      <4>3. QED
        BY <4>1, <4>2 DEF Told
    <3>7. Spoke(sent', req'.stream) /\ req'.stream
      BY <1>1, <1>2, <3>4 DEF Spoke
    <3>8. thread' \in {"push", "check", "finish"}
      BY <1>1, <2>1
    <3>9. QED
      BY <1>1, <1>2, <3>5, <3>6, <3>7, <3>8 DEF StreamInv, Mid
  <2>5. QED
    BY <2>3, <2>4
<1>5. QED
  BY <1>3, <1>4

\* The text's end has been told: hd is the last of it, x of kind d.
EndSays(T, hd, sp, n, C, R) ==
  IF sp = "tool" \/ hd = <<>> THEN \E z : Ended(T, z, n, C, R)
  ELSE /\ hd \in Text /\ sp \in {"content", "think"}
       /\ sp = "content" => Untagged("content", hd) /\ \E z : Ended(T, z, n, C \o hd, R)
       /\ sp = "think" => Untagged("reasoning", hd) /\ \E z : Ended(T, z, n, C, R \o hd)

(* A text of one letter has no tag in it.                                  *)
LEMMA ShortUntagged ==
  ASSUME NEW x \in Text, Len(x) <= 1, NEW d
  PROVE  Untagged(d, x)
<1>1. \A m \in Nat \ {0} : ~(m + 1 <= Len(x))
  BY TextLetters
<1>2. QED
  BY <1>1 DEF Untagged, Marked

(* What finish streams of the hold.                                        *)
LEMMA EndTold ==
  ASSUME NEW T \in Text, NEW sp, NEW hd, NEW n, NEW es \in Seq(Event), Told(T, hd, sp, n, es, TRUE)
  PROVE  EndSays(T, hd, sp, n, SaidOf(es, "content"), SaidOf(es, "reasoning"))
<1> DEFINE C == SaidOf(es, "content")
           R == SaidOf(es, "reasoning")
<1>1. C \in Text /\ R \in Text
  BY SaidText DEF Spoken
<1>2. PICK p \in 1..Len(T) + 1 : /\ hd = SubSeq(T, p, Len(T)) /\ Read(T, sp, p, n, C, R)
                                 /\ sp = "tool" \/ p = Len(T) + 1 \/ (p = Len(T) /\ T[p] = "<")
  BY DEF Told
<1> HIDE DEF C, R
<1>3. Len(T) \in Nat /\ sp \in {"content", "tool", "think"}
  BY <1>2, TextLetters DEF Read
<1>4. CASE sp = "tool"
  <2>1. PICK rs \in Seq(Text) : /\ Leads(T, FALSE, Origin, <<p, C, rs>>)
                                /\ n = Len(rs) /\ R = Str!FlattenSeq(rs) /\ Marked(T, p, "tool_call>")
    BY <1>2, <1>4 DEF Read
  <2>2. Leads(T, TRUE, Origin, <<p, C, rs>>)
    BY <2>1, ReadWhole
  <2>3. p \in Nat \ {0}
    BY <1>3
  <2>4. Ended(T, <<p, C, rs>>, n, C, R)
    BY <2>1, <2>2, <2>3 DEF Ended
  <2>5. QED
    BY <1>4, <2>4 DEF EndSays, C, R
<1>5. CASE sp # "tool"
  <2>1. p = Len(T) + 1 \/ (p = Len(T) /\ T[p] = "<")
    BY <1>2, <1>5
  <2>2. hd \in Text /\ Len(hd) = IF p <= Len(T) THEN Len(T) - p + 1 ELSE 0
    <3> DEFINE b == Len(T)
    <3>1. p \in Nat \ {0} /\ b \in Nat /\ b <= Len(T)
      BY <1>3
    <3> HIDE DEF b
    <3>2. SubSeq(T, p, b) \in Text /\ Len(SubSeq(T, p, b)) = IF p <= b THEN b - p + 1 ELSE 0
      BY <3>1, Cut
    <3>3. QED
      BY <1>2, <3>2 DEF b
  <2>3. Len(hd) <= 1
    BY <1>3, <2>1, <2>2
  <2>4. Untagged("content", hd) /\ Untagged("reasoning", hd)
    BY <2>2, <2>3, ShortUntagged
  <2>5. /\ Read(T, "content", p, n, C, R) => \E z : Ended(T, z, n, C \o SubSeq(T, p, Len(T)), R)
        /\ Read(T, "think", p, n, C, R) => \E z : Ended(T, z, n, C, R \o SubSeq(T, p, Len(T)))
    BY <1>1, <2>1, ReadEnd
  <2>6. C \o <<>> = C /\ R \o <<>> = R
    BY <1>1, AddNone
  <2>7. CASE sp = "content"
    <3>1. \E z : Ended(T, z, n, C \o hd, R)
      BY <1>2, <2>5, <2>7
    <3>2. hd = <<>> => \E z : Ended(T, z, n, C, R)
      BY <2>6, <3>1, Zenon
    <3>3. QED
      BY <2>2, <2>4, <2>7, <3>1, <3>2 DEF EndSays, C, R
  <2>8. CASE sp = "think"
    <3>1. \E z : Ended(T, z, n, C, R \o hd)
      BY <1>2, <2>5, <2>8
    <3>2. hd = <<>> => \E z : Ended(T, z, n, C, R)
      BY <2>6, <3>1, Zenon
    <3>3. QED
      BY <2>2, <2>4, <2>8, <3>1, <3>2 DEF EndSays, C, R
  <2>9. QED
    BY <1>3, <1>5, <2>7, <2>8
<1>6. QED
  BY <1>4, <1>5

(* The parser begins where the text does.                                  *)
LEMMA ParseBegins ==
  ASSUME NEW z, NEW n, NEW C, NEW R, par = Str!NoParse, Ended(text, z, n, C, R)
  PROVE  Parsing(z)
<1>1. /\ par.i = 1 /\ par.at = "top" /\ par.content = <<>> /\ par.reasons = <<>> /\ par.calls = 0
  BY DEF Str!NoParse
<1>2. Place = Origin
  BY <1>1 DEF Place, Origin
<1>3. Leads(text, TRUE, Place, z)
  BY <1>2 DEF Ended
<1>4. QED
  BY <1>1, <1>3 DEF Parsing

\* One more event, of kind d with text x.
Adds(es, gs, d, x) ==
  /\ gs \in Seq(Event) /\ \A i \in 1..Len(gs) : (i \in 1..Len(es) /\ gs[i] = es[i]) \/ gs[i].k = d
  /\ SaidOf(gs, "content") = IF d = "content" THEN SaidOf(es, "content") \o x ELSE SaidOf(es, "content")
  /\ SaidOf(gs, "reasoning") = IF d = "reasoning" THEN SaidOf(es, "reasoning") \o x ELSE SaidOf(es, "reasoning")

(* One more event of the text.                                             *)
LEMMA AddsOne ==
  ASSUME NEW es \in Seq(Event), NEW d \in Spoken, NEW x \in Text, Untagged(d, x)
  PROVE  Adds(es, Append(es, [k |-> d, v |-> x]), d, x)
<1> DEFINE e == [k |-> d, v |-> x]
           gs == Append(es, e)
<1>1. e \in Event /\ e.k = d /\ e.v = x
  BY EventMade DEF Spoken, Kinds
<1> HIDE DEF e
<1>2. gs \in Seq(Event) /\ \A b \in Spoken : SaidOf(gs, b) = SaidOf(es, b) \o (IF e.k = b THEN e.v ELSE <<>>)
  BY <1>1, SaidNext
<1>3. \A i \in 1..Len(gs) : (i \in 1..Len(es) /\ gs[i] = es[i]) \/ gs[i].k = d
  <2>1. Len(es) \in Nat /\ Len(gs) = Len(es) + 1 /\ (\A i \in 1..Len(es) : gs[i] = es[i]) /\ gs[Len(es) + 1] = e
    BY <1>1, AppendProperties
  <2> HIDE DEF gs
  <2>2. \A i \in 1..Len(gs) : i \in 1..Len(es) \/ i = Len(es) + 1
    BY <2>1
  <2>3. QED
    BY <1>1, <2>1, <2>2
<1> HIDE DEF gs
<1>4. /\ SaidOf(gs, "content") = SaidOf(es, "content") \o (IF d = "content" THEN x ELSE <<>>)
      /\ SaidOf(gs, "reasoning") = SaidOf(es, "reasoning") \o (IF d = "reasoning" THEN x ELSE <<>>)
  <2>1. "content" \in Spoken /\ "reasoning" \in Spoken
    BY DEF Spoken
  <2>2. QED
    BY <1>1, <1>2, <2>1
<1>5. SaidOf(es, "content") \o <<>> = SaidOf(es, "content") /\ SaidOf(es, "reasoning") \o <<>> = SaidOf(es, "reasoning")
  BY SaidText, AddNone DEF Spoken
<1>6. QED
  BY <1>2, <1>3, <1>4, <1>5 DEF Adds, gs, e

(* finish: what is left of the hold is told, and parsing begins.           *)
LEMMA StreamFinish ==
  ASSUME StopInv, StreamInv, Str!Finish
  PROVE  StreamInv'
<1>1. /\ thread = "finish" /\ UNCHANGED <<req, toks, fin, text, span, blocks, broken, outbox, par>> /\ text \in Text
  BY DEF Str!Finish, StopInv
<1>2. Typed /\ par = Str!NoParse /\ Spoke(sent, req.stream) /\ blocks \in Nat /\ sent \in Seq(Event)
  BY <1>1 DEF StreamInv, Mid, Typed
<1> DEFINE C == SaidOf(sent, "content")
           R == SaidOf(sent, "reasoning")
<1>3. req.stream /\ ~broken => EndSays(text, hold, span, blocks, C, R)
  <2>1. SUFFICES ASSUME req.stream, ~broken PROVE EndSays(text, hold, span, blocks, C, R)
    OBVIOUS
  <2>2. Told(text, hold, span, blocks, sent, TRUE)
    BY <1>1, <2>1 DEF StreamInv, Mid
  <2>3. QED
    BY <1>1, <1>2, <2>2, EndTold
<1>4. CASE ~req.stream \/ span = "tool" \/ hold = <<>>
  <2>1. thread' = "parse" /\ sent' = sent
    BY <1>4 DEF Str!Finish
  <2>2. Typed'
    BY <1>1, <1>2, <2>1 DEF Typed, ParTyped
  <2>3. req'.stream /\ ~broken' => Agrees'
    <3>1. SUFFICES ASSUME req'.stream, ~broken' PROVE Agrees'
      OBVIOUS
    <3>2. PICK z : Ended(text, z, blocks, C, R)
      BY <1>1, <1>3, <1>4, <3>1 DEF EndSays
    <3>3. Parsing(z)
      BY <1>2, <3>2, ParseBegins
    <3>4. Parsing(z)'
      BY <1>1, <3>3 DEF Parsing, Beyond, Place
    <3>5. QED
      BY <1>1, <2>1, <3>2, <3>4 DEF Agrees
  <2>4. QED
    BY <1>1, <1>2, <2>1, <2>2, <2>3 DEF StreamInv, Mid
<1>5. CASE ~(~req.stream \/ span = "tool" \/ hold = <<>>) /\ broken
  <2>1. thread' = "gone" /\ sent' = sent
    BY <1>5 DEF Str!Finish
  <2>2. Typed'
    BY <1>1, <1>2, <2>1 DEF Typed, ParTyped
  <2>3. QED
    BY <1>1, <1>2, <2>1, <2>2 DEF StreamInv, Mid
<1>6. CASE ~(~req.stream \/ span = "tool" \/ hold = <<>>) /\ ~broken
  <2> DEFINE d == IF span = "think" THEN "reasoning" ELSE "content"
  <2>1. thread' = "parse" /\ sent' = Append(sent, [k |-> d, v |-> hold])
    BY <1>6 DEF Str!Finish
  <2>2. /\ hold \in Text /\ d \in Spoken /\ Untagged(d, hold)
        /\ \E z : Ended(text, z, blocks, IF d = "content" THEN C \o hold ELSE C, IF d = "reasoning" THEN R \o hold ELSE R)
    <3>1. /\ hold \in Text /\ span \in {"content", "think"}
          /\ span = "content" => Untagged("content", hold) /\ \E z : Ended(text, z, blocks, C \o hold, R)
          /\ span = "think" => Untagged("reasoning", hold) /\ \E z : Ended(text, z, blocks, C, R \o hold)
      BY <1>3, <1>6 DEF EndSays
    <3> HIDE DEF C, R
    <3>2. CASE span = "content"
      <4>1. d = "content"
        BY <3>2
      <4>2. QED
        BY <3>1, <3>2, <4>1 DEF Spoken
    <3>3. CASE span = "think"
      <4>1. d = "reasoning"
        BY <3>3
      <4>2. QED
        BY <3>1, <3>3, <4>1 DEF Spoken
    <3>4. QED
      BY <3>1, <3>2, <3>3
  <2> HIDE DEF d
  <2>3. Adds(sent, sent', d, hold)
    BY <1>2, <2>1, <2>2, AddsOne
  <2>4. sent' \in Seq(Event) /\ Spoke(sent', TRUE)
    BY <1>2, <2>2, <2>3 DEF Adds, Spoke, Spoken
  <2>5. Typed'
    BY <1>1, <1>2, <2>4 DEF Typed, ParTyped
  <2>6. Agrees'
    <3>1. PICK z : Ended(text, z, blocks, IF d = "content" THEN C \o hold ELSE C, IF d = "reasoning" THEN R \o hold ELSE R)
      BY <2>2
    <3>2. Ended(text, z, blocks, SaidOf(sent', "content"), SaidOf(sent', "reasoning"))
      BY <2>3, <3>1 DEF Adds
    <3>3. Parsing(z)
      BY <1>2, <3>1, ParseBegins
    <3>4. Parsing(z)'
      BY <1>1, <3>3 DEF Parsing, Beyond, Place
    <3>5. QED
      BY <1>1, <3>2, <3>4 DEF Agrees
  <2>7. QED
    BY <1>1, <1>2, <1>6, <2>1, <2>4, <2>5, <2>6 DEF StreamInv, Mid, Spoke
<1>7. QED
  BY <1>4, <1>5, <1>6

(* The parser goes on, and what has been streamed stays what it will find. *)
LEMMA StreamParses ==
  ASSUME StopInv, StreamInv, Str!ParseTop \/ Str!ParseCall
  PROVE  StreamInv'
<1>1. thread = "parse" /\ UNCHANGED <<thread, req, toks, fin, text, blocks, broken, outbox, sent>> /\ text \in Text
  BY DEF Str!ParseTop, Str!ParseCall, StopInv, Str!split
<1>2. Typed /\ ParTyped /\ Spoke(sent, req.stream) /\ sent \in Seq(Event)
  BY <1>1 DEF StreamInv, Mid, Typed
<1>3. ParTyped'
  BY <1>1, <1>2, TopStep, CallStep
<1>4. Typed'
  BY <1>1, <1>2, <1>3 DEF Typed
<1>5. req'.stream /\ ~broken' => Agrees'
  <2>1. SUFFICES ASSUME req'.stream, ~broken' PROVE Agrees'
    OBVIOUS
  <2>2. PICK z : Ended(text, z, blocks, SaidOf(sent, "content"), SaidOf(sent, "reasoning")) /\ Parsing(z)
    BY <1>1, <2>1 DEF StreamInv, Agrees
  <2>3. Final(text, z)
    BY <1>2, <2>2, SaidText DEF Ended, Final, Spoken
  <2>4. Parsing(z)'
    BY <1>1, <1>2, <2>2, <2>3, TopKeeps, CallKeeps
  <2>5. QED
    BY <1>1, <2>2, <2>4 DEF Agrees
<1>6. QED
  BY <1>1, <1>2, <1>4, <1>5 DEF StreamInv, Mid

(* A usage event, if the client asked for one, is none of the text's.      *)
LEMMA UsageQuiet ==
  ASSUME NEW c \in BOOLEAN, NEW n \in Nat, NEW us, us = IF c THEN <<Str!UsageEvent(n)>> ELSE <<>>
  PROVE  us \in Seq(Event) /\ Open(us) /\ \A b \in Spoken : SaidOf(us, b) = <<>>
<1>1. CASE c
  <2>1. us = <<[k |-> "usage", v |-> n]>> /\ "usage" \in Kinds \ Spoken /\ n \in Text \cup Nat \cup Reasons
    BY <1>1 DEF Str!UsageEvent, Kinds, Spoken
  <2>2. Single(us, "usage", n)
    BY <2>1, OneEvent
  <2>3. QED
    BY <2>2 DEF Single, Open
<1>2. CASE ~c
  <2>1. us = <<>>
    BY <1>2
  <2>2. us \in Seq(Event) /\ Len(us) = 0
    BY <2>1, EmptySeq
  <2>3. \A b \in Spoken : SaidOf(us, b) = <<>>
    <3>1. SUFFICES ASSUME NEW b \in Spoken PROVE SaidOf(us, b) = <<>>
      OBVIOUS
    <3>2. \A i \in 1..Len(us) : us[i].k # b
      BY <2>2
    <3>3. QED
      BY <2>2, <3>2, SaidNone
  <2>4. QED
    BY <2>2, <2>3 DEF Open
<1>3. QED
  BY <1>1, <1>2

(* What is said after the text is nothing of it.                           *)
LEMMA SpokeOpen ==
  ASSUME NEW es \in Seq(Event), NEW s, Spoke(es, s)
  PROVE  Open(es)
BY DEF Spoke, Open

(* The text is parsed: what is still to be written ends the response.      *)
LEMMA StreamParsed ==
  ASSUME StopInv, StreamInv, Str!Parsed
  PROVE  StreamInv'
<1> DEFINE us == IF req.usage THEN <<Str!UsageEvent(toks)>> ELSE <<>>
           ls == SubSeq(par.reasons, blocks + 1, Len(par.reasons))
           x == Str!Reason
<1>1. /\ thread = "parse" /\ thread' = "write" /\ par.at = "top" /\ par.i = Len(text) + 1 /\ text \in Text
      /\ UNCHANGED <<req, toks, fin, text, blocks, broken, sent, par>>
  BY DEF Str!Parsed, Str!EndOfText, StopInv, Str!split
<1>2. /\ Typed /\ ParTyped /\ Spoke(sent, req.stream) /\ sent \in Seq(Event) /\ req.usage \in BOOLEAN /\ toks \in Nat
      /\ blocks \in Nat /\ fin \in Reasons /\ req.stream \in BOOLEAN
  BY <1>1 DEF StreamInv, Mid, Typed
<1>3. Open(sent)
  BY <1>2, SpokeOpen
<1>4. outbox' \in Seq(Event) /\ ((broken /\ outbox' # <<>>) \/ Whole(sent \o outbox', par))
  <2>1. CASE ~req.stream
    <3>1. sent = <<>>
      BY <1>2, <2>1 DEF Spoke
    <3>2. \E d \in Kinds \ Spoken, v \in Text \cup Nat \cup Reasons : d # "role" /\ outbox' = <<[k |-> d, v |-> v]>>
      <4>1. CASE par.err
        <5>1. outbox' = <<[k |-> "error", v |-> 400]>>
          BY <2>1, <4>1 DEF Str!Parsed, Str!ApiError
        <5>2. "error" \in Kinds \ Spoken /\ "error" # "role" /\ 400 \in Text \cup Nat \cup Reasons
          BY DEF Kinds, Spoken
        <5>3. QED
          BY <5>1, <5>2
      <4>2. CASE ~par.err
        <5> DEFINE y == IF par.calls > 0 THEN <<>> ELSE par.content
        <5>1. outbox' = <<[k |-> "message", v |-> y]>>
          BY <2>1, <4>2 DEF Str!Parsed, Str!Message
        <5>2. y \in Text
          BY <1>2, AddNone, Zenon DEF ParTyped
        <5> HIDE DEF y
        <5>3. "message" \in Kinds \ Spoken /\ "message" # "role"
          BY DEF Kinds, Spoken
        <5>4. QED
          BY <5>1, <5>2, <5>3
      <4>3. QED
        BY <4>1, <4>2
    <3>3. outbox' \in Seq(Event) /\ Whole(<<>> \o outbox', par)
      BY <3>2, BareWhole
    <3>4. QED
      BY <3>1, <3>3
  <2>2. CASE req.stream /\ par.err
    <3>1. outbox' = <<Str!FinishEvent("error"), Str!DoneEvent>>
      BY <2>2 DEF Str!Parsed
    <3>2. QED
      BY <1>2, <1>3, <3>1, FailWhole
  <2>3. CASE req.stream /\ ~par.err
    <3>1. outbox' = Closing([i \in 1..Len(ls) |-> [k |-> "reasoning", v |-> ls[i]]] \o Str!CallEvents(par.calls), x, us)
      BY <2>3 DEF Str!Parsed, Closing, Str!Left
    <3>2. us \in Seq(Event) /\ Open(us) /\ \A b \in Spoken : SaidOf(us, b) = <<>>
      BY <1>2, UsageQuiet
    <3>3. x \in Reasons
      BY <1>2, Zenon DEF Str!Reason, Reasons
    <3>4. /\ par.calls \in Nat /\ par.reasons \in Seq(Text) /\ par.content \in Text
          /\ \A m \in 1..Len(par.reasons) : Untagged("reasoning", par.reasons[m])
      BY <1>2 DEF ParTyped
    <3> HIDE DEF us, x
    <3> DEFINE rs == par.reasons
               from == blocks + 1
    <3>11. from = blocks + 1 /\ ls = SubSeq(rs, from, Len(rs)) /\ rs \in Seq(Text) /\ \A m \in 1..Len(rs) : Untagged("reasoning", rs[m])
      BY <3>4
    <3> HIDE DEF ls, rs, from
    <3>12. Leaves(ls, rs, blocks)
      BY <1>2, <3>11, LeftMeans
    <3>5. /\ ls \in Seq(Text) /\ \A m \in 1..Len(ls) : Untagged("reasoning", ls[m])
          /\ \A a \in Seq(Text), ms \in Seq(Text) : par.reasons = a \o ms /\ blocks = Len(a) => ls = ms
      BY <3>12 DEF rs, Leaves
    <3>6. Said(sent, outbox', x, ls)
      BY <1>2, <1>3, <3>1, <3>2, <3>3, <3>4, <3>5, ParsedSays
    <3>7. outbox' \in Seq(Event) /\ outbox' # <<>>
      BY <3>6 DEF Said
    <3>8. CASE broken
      BY <3>7, <3>8
    <3>9. CASE ~broken
      <4>1. PICK z : Ended(text, z, blocks, SaidOf(sent, "content"), SaidOf(sent, "reasoning")) /\ Parsing(z)
        BY <1>1, <2>3, <3>9 DEF StreamInv, Agrees
      <4>2. Final(text, z)
        BY <1>2, <4>1, SaidText DEF Ended, Final, Spoken
      <4>3. PICK more \in Text, ms \in Seq(Text) :
               /\ par.content = z[2] \o more /\ par.reasons = z[3] \o ms
               /\ par.calls = 0 => more = <<>>
        BY <1>1, <1>2, <4>1, <4>2, ParsedMeans
      <4>4. /\ z[2] \in Text /\ z[3] \in Seq(Text) /\ blocks = Len(z[3])
            /\ SaidOf(sent, "content") = z[2] /\ SaidOf(sent, "reasoning") = Str!FlattenSeq(z[3])
        BY <4>1, <4>2 DEF Ended, Final
      <4>5. ls = ms
        BY <3>5, <4>3, <4>4
      <4>6. Whole(sent \o outbox', par)
        BY <1>2, <3>6, <4>3, <4>4, <4>5, SaidWhole
      <4>7. QED
        BY <3>7, <4>6
    <3>10. QED
      BY <3>8, <3>9
  <2>4. QED
    BY <1>2, <2>1, <2>2, <2>3
<1>5. Typed'
  BY <1>1, <1>2, <1>4 DEF Typed, ParTyped
<1>6. QED
  BY <1>1, <1>4, <1>5 DEF StreamInv, Mid

(* An event is written, or all of them are, or the connection is gone.     *)
LEMMA StreamWrite ==
  ASSUME StreamInv, Str!Write
  PROVE  StreamInv'
<1>1. thread = "write" /\ UNCHANGED <<req, toks, fin, text, blocks, broken, par>>
  BY DEF Str!Write, Str!split
<1>2. Typed /\ sent \in Seq(Event) /\ outbox \in Seq(Event) /\ ((broken /\ outbox # <<>>) \/ Whole(sent \o outbox, par))
  BY <1>1 DEF StreamInv, Typed
<1>3. CASE outbox # <<>> /\ ~broken /\ sent' = Append(sent, Head(outbox)) /\ outbox' = Tail(outbox) /\ thread' = thread
  <2>1. sent' \in Seq(Event) /\ outbox' \in Seq(Event) /\ sent' \o outbox' = sent \o outbox
    BY <1>2, <1>3, MoveOne
  <2>3. Whole(sent' \o outbox', par)
    BY <1>2, <1>3, <2>1
  <2>4. Typed'
    BY <1>1, <1>2, <2>1 DEF Typed, ParTyped
  <2>5. QED
    BY <1>1, <1>3, <2>3, <2>4 DEF StreamInv, Mid
<1>4. CASE outbox = <<>> /\ thread' = "done" /\ UNCHANGED <<sent, outbox>>
  <2>1. sent \o <<>> = sent
    BY <1>2, EventRegroup
  <2>2. Whole(sent, par)
    BY <1>2, <1>4, <2>1, Zenon
  <2>3. Typed'
    BY <1>1, <1>2, <1>4 DEF Typed, ParTyped
  <2>4. QED
    BY <1>1, <1>4, <2>2, <2>3 DEF StreamInv, Mid
<1>5. CASE thread' = "gone" /\ outbox' = <<>> /\ sent' = sent
  <2>1. outbox' \in Seq(Event)
    BY <1>5, EmptySeq
  <2>2. Typed'
    BY <1>1, <1>2, <1>5, <2>1 DEF Typed, ParTyped
  <2>3. QED
    BY <1>1, <1>5, <2>2 DEF StreamInv, Mid
<1>6. QED
  BY <1>3, <1>4, <1>5 DEF Str!Write

(* A step of the stream keeps StreamInv.                                   *)
LEMMA StreamMoves ==
  ASSUME StopInv, StreamInv, Str!Next
  PROVE  StreamInv'
<1>1. CASE Str!ReadRequest
  BY <1>1, StreamRequest
<1>2. CASE Str!Refuse
  BY <1>2, StreamRefuse
<1>3. CASE Str!Begin
  BY <1>3, StreamBegin
<1>4. CASE Str!EngineFails
  BY <1>4, StreamFails DEF Str!EngineFails, Str!split, Mid
<1>5. CASE Str!Keepalive
  BY <1>5, StreamKeepalive
<1>6. CASE Str!Token
  BY <1>6, StreamToken
<1>7. CASE Str!Check
  BY <1>7, StreamCheck
<1>8. CASE Str!FlushTail
  BY <1>8, StreamTail
<1>9. CASE Str!Push
  BY <1>9, StreamPush
<1>10. CASE Str!Finish
  BY <1>10, StreamFinish
<1>11. CASE Str!ParseTop \/ Str!ParseCall
  BY <1>11, StreamParses
<1>12. CASE Str!Parsed
  BY <1>12, StreamParsed
<1>13. CASE Str!Write
  BY <1>13, StreamWrite
<1>14. CASE Str!KeepAlive \/ Str!Accept
  BY <1>14, StreamFresh DEF Str!KeepAlive, Str!Accept
<1>15. CASE Str!Leave
  BY <1>15, StreamLeave
<1>16. QED
  BY <1>1, <1>2, <1>3, <1>4, <1>5, <1>6, <1>7, <1>8, <1>9, <1>10, <1>11, <1>12, <1>13, <1>14, <1>15
     DEF Str!Next, Str!Handler

(* StreamInv is of the stream's own variables.                             *)
LEMMA StreamStands ==
  ASSUME StreamInv, UNCHANGED stream
  PROVE  StreamInv'
<1>1. UNCHANGED <<thread, req, toks, fin, text, hold, span, blocks, broken, outbox, sent, par>>
  BY DEF stream
<1>2. Typed' /\ (Blank' <=> Blank) /\ (Spoke(sent, req.stream)' <=> Spoke(sent, req.stream)) /\ (Whole(sent, par)' <=> Whole(sent, par))
  BY <1>1 DEF StreamInv, Typed, ParTyped, Blank
<1>3. /\ Told(text, hold, span, blocks, sent, thread # "push")' <=> Told(text, hold, span, blocks, sent, thread # "push")
      /\ Agrees' <=> Agrees
  BY <1>1 DEF Agrees, Parsing, Beyond, Place
<1>4. QED
  BY <1>1, <1>2, <1>3 DEF StreamInv

(* StreamInv holds of every state of the front end.                        *)
LEMMA StreamAlways == Str!Spec => []StreamInv
<1>1. Str!Init => StreamInv
  BY StreamStart
<1>2. StopInv /\ StreamInv /\ [Str!Next]_(Str!vars) => StreamInv'
  <2>1. SUFFICES ASSUME StopInv, StreamInv, [Str!Next]_(Str!vars) PROVE StreamInv'
    OBVIOUS
  <2>2. CASE Str!Next
    BY <2>1, <2>2, StreamMoves
  <2>3. CASE UNCHANGED stream
    BY <2>1, <2>3, StreamStands
  <2>4. QED
    BY <2>1, <2>2, <2>3 DEF Str!vars, stream
<1>3. QED
  BY <1>1, <1>2, StopAlways, PTL DEF Str!Spec

(* An event the client has is of its kind alone.                           *)
LEMMA EventUntagged ==
  ASSUME NEW e \in Event, e.k \in Spoken, NEW tag,
         tag \in IF e.k = "content" THEN {Str!ThinkOpen, Str!ToolOpen} ELSE {Str!ThinkClose}
  PROVE  ~Str!Has(e.v, tag)
<1>1. e.v \in Text /\ Untagged(e.k, e.v)
  BY DEF Event
<1>2. QED
  BY <1>1, HasTag, TagNames DEF Untagged, Spoken

(* What was streamed is what parser::parse makes of the whole text,        *)
(* however the tokens cut it (StreamSplit::push, finish; parse).           *)
THEOREM StreamAlwaysTrue == Str!Spec => []StreamTrue
<1>1. StreamInv => StreamTrue
  <2>1. SUFFICES ASSUME StreamInv PROVE StreamTrue
    OBVIOUS
  <2>2. sent \in Seq(Event) /\ \A i \in 1..Len(sent) : sent[i] \in Event
    BY <2>1, ElementOfSeq DEF StreamInv, Typed
  <2>3. \A i \in 1..Len(sent) : sent[i].k \in {"content", "reasoning"} =>
          \A tag \in IF sent[i].k = "content" THEN {Str!ThinkOpen, Str!ToolOpen} ELSE {Str!ThinkClose} : ~Str!Has(sent[i].v, tag)
    BY <2>2, EventUntagged DEF Spoken
  <2>4. ASSUME thread = "done", Str!Places("role") # {}
        PROVE  /\ Str!Places("done") = {Len(sent)}
               /\ \E f \in 1..Len(sent) :
                    /\ Str!Places("finish") = {f}
                    /\ sent[f].v # "error" =>
                         /\ Str!Said("reasoning") = Str!FlattenSeq(par.reasons)
                         /\ Str!IsPrefix(Str!Said("content"), par.content)
                         /\ par.calls = 0 => Str!Said("content") = par.content
    <3>1. Whole(sent, par)
      BY <2>1, <2>4 DEF StreamInv
    <3>2. \E i \in 1..Len(sent) : sent[i].k = "role"
      BY <2>4 DEF Str!Places
    <3>3. PICK f : /\ OneFinish(sent, f)
                   /\ sent[f].v # "error" => /\ SaidOf(sent, "reasoning") = Str!FlattenSeq(par.reasons)
                                             /\ Str!IsPrefix(SaidOf(sent, "content"), par.content)
                                             /\ par.calls = 0 => SaidOf(sent, "content") = par.content
      BY <3>1, <3>2 DEF Whole
    <3>4. Str!Said("reasoning") = SaidOf(sent, "reasoning") /\ Str!Said("content") = SaidOf(sent, "content")
      BY DEF Str!Said, SaidOf, SaidList
    <3>5. f \in 1..Len(sent) /\ Len(sent) \in 1..Len(sent) /\ Str!Places("finish") = {f} /\ Str!Places("done") = {Len(sent)}
      <4> DEFINE n == Len(sent)
      <4>1. n \in Nat /\ f \in 1..n
        BY <2>2, <3>3, LenProperties DEF OneFinish
      <4>2. n \in 1..n
        <5> HIDE DEF n
        <5>1. QED
          BY <4>1
      <4>3. QED
        BY <3>3, <4>1, <4>2 DEF OneFinish, Str!Places
    <3>6. QED
      BY <3>3, <3>4, <3>5
  <2>5. QED
    BY <2>3, <2>4 DEF StreamTrue, Str!StreamTrue
<1>2. QED
  BY <1>1, StreamAlways, PTL
=============================================================================
