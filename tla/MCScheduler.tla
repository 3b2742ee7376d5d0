---------------------------- MODULE MCScheduler ----------------------------
(***************************************************************************)
(* Scheduler over named jobs: a and b have the same prompt, of which c's   *)
(* is a prefix; d's is long and needs more memory; e is on its own.        *)
(***************************************************************************)
EXTENDS Scheduler

MCExtends ==
  {<<x, y>> \in Jobs \X Jobs :
     x # y /\ (<<x, y>> \in {"a", "b"} \X {"a", "b", "c"})}
MCRows == [j \in Jobs |-> IF j = "d" THEN 3 ELSE 1]
MCTokens == [j \in Jobs |-> IF j = "c" THEN 1 ELSE 3]
MCSize == [j \in Jobs |-> IF j = "d" THEN 2 ELSE 1]
=============================================================================
