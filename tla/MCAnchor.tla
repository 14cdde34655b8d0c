------------------------------ MODULE MCAnchor -------------------------------
(* Small instances of Anchor for TLC. *)
EXTENDS Anchor, TLC

CONSTANTS s1, s2, s3

MCSubmission == {s1, s2, s3}
MCUnstored == {s3}
==============================================================================
