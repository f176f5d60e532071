------------------------------ MODULE MCAdapter ------------------------------
(* Instances of Adapter: prompts are model values. *)
EXTENDS Adapter
=============================================================================
