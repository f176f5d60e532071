------------------------- MODULE MCSessionLifecycle -------------------------
(* Values for the constants of SessionLifecycle: small sets of sessions,     *)
(* records and requests, and one stored conversation that was compressed     *)
(* into a continuation.                                                      *)
EXTENDS SessionLifecycle, TLC

CONSTANTS parent, tip

MCTipOf == (parent :> tip) @@ (tip :> tip)
MCOldRows == {parent, tip}

(* The same without compression: every row is its own tip. *)
MCSelfTip == tip :> tip
MCTipRow == {tip}

Symmetry == Permutations(Rec) \cup Permutations(Req) \cup Permutations(Live)
=============================================================================
