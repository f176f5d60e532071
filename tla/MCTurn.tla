------------------------------- MODULE MCTurn -------------------------------
(* Instances of Turn: tool calls and approvals are model values. *)
EXTENDS Turn

Symmetry == Permutations(Ask)
=============================================================================
