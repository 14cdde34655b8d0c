---------------------------- MODULE MCDumpFolder -----------------------------
(* Small instances of DumpFolder for TLC. *)
EXTENDS DumpFolder, TLC

CONSTANTS p1, p2, p3

MCProcess == {p1, p2, p3}
==============================================================================
