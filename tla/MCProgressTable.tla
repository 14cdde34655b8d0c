-------------------------- MODULE MCProgressTable ----------------------------
(* Small instances of ProgressTable for TLC. *)
EXTENDS ProgressTable

MCLabels == {[family |-> "orb", index |-> 1], [family |-> "orb", index |-> 2],
             [family |-> "init", index |-> 0]}
==============================================================================
