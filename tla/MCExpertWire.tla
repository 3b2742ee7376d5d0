---------------------------- MODULE MCExpertWire ----------------------------
(***************************************************************************)
(* ExpertWire with two ranks, a dense layer and two MoE layers, and passes *)
(* of one lane and of two unequal ones.                                    *)
(***************************************************************************)
EXTENDS ExpertWire

MCBatches == {<<1>>, <<2, 1>>}
=============================================================================
