-------------------------- MODULE ApprovalDecision --------------------------
(* What a turn promises about the approvals Hermes asks for: each one gets at *)
(* most one decision, it is an approval only when the user picked one, and an *)
(* approval that Hermes took back gets none.                                  *)

CONSTANT Ask

VARIABLES
  wish,      \* what the user picked for an approval, "none" before
  decision   \* what Hermes was told

Decisions == {"undecided", "allow", "deny", "withdrawn"}

Init ==
  /\ wish = [a \in Ask |-> "none"]
  /\ decision = [a \in Ask |-> "undecided"]

Undecided(a) == decision[a] = "undecided"

Decide(A, d) == decision' = [a \in Ask |-> IF a \in A THEN d ELSE decision[a]]

(* The user decides: only an offered option that allows is an approval. *)
Picked(a, w) ==
  /\ Undecided(a)
  /\ wish' = [wish EXCEPT ![a] = w]
  /\ Decide({a}, IF w = "allow" THEN "allow" ELSE "deny")

(* Nobody will: the turn ended, or there was nothing to offer. *)
Denied(A) ==
  /\ A # {} /\ \A a \in A : Undecided(a)
  /\ Decide(A, "deny")
  /\ UNCHANGED wish

Withdrawn(a) ==
  /\ Undecided(a)
  /\ Decide({a}, "withdrawn")
  /\ UNCHANGED wish

Wishes == {"allow", "deny", "unoffered", "dismissed"}

Next ==
  \/ \E a \in Ask : Withdrawn(a) \/ \E w \in Wishes : Picked(a, w)
  \/ \E A \in SUBSET Ask : Denied(A)

Spec == Init /\ [][Next]_<<wish, decision>>
=============================================================================
