---------------------------- MODULE MCHostCache ----------------------------
(***************************************************************************)
(* HostCache over two-row pages: histories that share no page, one page    *)
(* and two, with and without a tail.  The slots of an arena are alike.     *)
(***************************************************************************)
EXTENDS HostCache, TLC

MCHistories ==
  { <<1, 2>>, <<1, 2, 1>>, <<1, 2, 1, 1>>, <<1, 2, 2, 2>>, <<2, 2, 1>>,
    <<1, 2, 1, 1, 2, 2, 1>> }

SlotSymmetry == Permutations(PageSlots) \cup Permutations(StateSlots)
=============================================================================
