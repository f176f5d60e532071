---------------------------- MODULE MCSettings ----------------------------
(* An instance of Settings: a session that opens beside one that is open     *)
(* already; a cheap model, and an expensive one with two spellings.          *)
(* One request is of the first session, of any kind; the other switches the  *)
(* policy of both from the second.                                           *)
EXTENDS Settings

CONSTANTS cheap, dear, alias, s1, s2, r1, r2

MCCanonicalOf == [v \in {cheap, dear, alias} |-> IF v = alias THEN dear ELSE v]
MCAsks ==
  [r \in {r1, r2} |->
     IF r = r1 THEN {s1} \X Kinds ELSE {<<s2, "approval">>}]
MCStarts ==
  {[form |-> TRUE, frozen |-> FALSE, policy |-> "manual"],
   [form |-> TRUE, frozen |-> FALSE, policy |-> "off"],
   [form |-> FALSE, frozen |-> TRUE, policy |-> "manual"]}
=============================================================================
