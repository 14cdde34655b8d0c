----------------------------- MODULE MCTracking ------------------------------
(* Small instances of Tracking for TLC. *)
EXTENDS Tracking, TLC

CONSTANTS s1, s2, r1

MCOne == {s1}
MCSubmission == {s1, s2}
MCNone == {}
MCReader == {r1}
Symmetry == Permutations(MCSubmission)
==============================================================================
