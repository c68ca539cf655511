----------------------------- MODULE MCSources -----------------------------
(***************************************************************************)
(* Small instances of Sources for TLC.                                     *)
(***************************************************************************)
EXTENDS Sources, TLC

CONSTANTS s1, s2, s3, u1, k1, p1, p2

Names == {s1, s2, s3}
Uris == {u1, s2}
Keys == {k1}
=============================================================================
