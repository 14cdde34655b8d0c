----------------------------- MODULE MCDumpTree ------------------------------
(* Small instances of DumpTree for TLC. *)
EXTENDS DumpTree

MCLabels == {[family |-> "orb", index |-> 1], [family |-> "orb", index |-> 2]}
==============================================================================
