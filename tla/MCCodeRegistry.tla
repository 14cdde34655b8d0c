--------------------------- MODULE MCCodeRegistry ----------------------------
(* Small instances of CodeRegistry for TLC. *)
EXTENDS CodeRegistry, TLC

CONSTANTS i1, i2

MCOne == {i1}
MCTwo == {i1, i2}
MCArgs == Args
MCOverlapArgs == {a \in Args : a.binary /\ a.mode = "mpi"}
MCFaults == {"kill", "discard", "lookup"}
MCLookup == {"lookup"}
Symmetry == Permutations(MCTwo)
==============================================================================
