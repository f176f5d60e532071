----------------------------- MODULE MCClarify -----------------------------
(* An instance of Clarify: one question of the 0.21 form and a batch of two. *)
EXTENDS Clarify

CONSTANTS single, batch, q1, q2

MCQuestions == <<q1, q2>>
=============================================================================
