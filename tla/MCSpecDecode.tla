---------------------------- MODULE MCSpecDecode ----------------------------
(***************************************************************************)
(* SpecDecode for a greedy request, whose text repeats itself and then     *)
(* does not, and a sampled one, whose draws depend on their position.      *)
(***************************************************************************)
EXTENDS SpecDecode

MCPrompt == [r \in Requests |-> IF r = "g" THEN <<1, 2, 2, 1, 2>> ELSE <<2>>]
MCBudget == [r \in Requests |-> IF r = "g" THEN 10 ELSE 6]
MCSelect(r, ctx, n) ==
  IF r = "g" THEN IF Len(ctx) % 4 = 3 THEN 1 ELSE 2
  ELSE IF n = 4 THEN 3 ELSE IF n % 3 = 0 THEN 1 ELSE 2
=============================================================================
