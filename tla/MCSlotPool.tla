----------------------------- MODULE MCSlotPool -----------------------------
(***************************************************************************)
(* SlotPool over two tokens: a prompt too short to be kept, one that       *)
(* extends it, and one that fits only a slot that has grown; sampled       *)
(* completions leave them.  The greedy next token depends on the history.  *)
(***************************************************************************)
EXTENDS SlotPool, TLC

MCArgmax(h) == IF Len(h) % 2 = 1 THEN "b" ELSE "a"
MCPrompts == {<<"a">>, <<"a", "b">>, <<"a", "b", "a", "b">>}
SlotSymmetry == Permutations(Slots)
=============================================================================
