------------------------------- MODULE MCGate -------------------------------
(***************************************************************************)
(* A gate with two callers that narrows by quarters.  Four ticks are the   *)
(* least spacing whose quarters are whole; the ceiling is four times that. *)
(***************************************************************************)
EXTENDS Gate, TLC

MCSymmetry == Permutations(Callers)
=============================================================================
