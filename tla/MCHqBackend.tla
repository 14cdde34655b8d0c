---------------------------- MODULE MCHqBackend ------------------------------
(* Small instances of HqBackend for TLC. *)
EXTENDS HqBackend

CONSTANTS c1, s1, s2, w1, w2, w3

MCCommand == {c1}
MCServer == {s1, s2}
MCThreeWorkers == {w1, w2, w3}
MCPools == {2, 5}
MCNoFaults == {}
==============================================================================
