---------------------------- MODULE MCFetching ----------------------------
(***************************************************************************)
(* Small instances of Fetching, and with it of Repository, for TLC.        *)
(***************************************************************************)
EXTENDS Fetching, TLC

CONSTANTS A, B, v1, v2, e1, e2, k1, k2

Order == <<A, B>>

\* A version yanked, and a warning about an archive of any version.
Yank == [versions |-> {v1}, hashes |-> {e1}, yanked |-> TRUE]
Warning == [versions |-> {}, hashes |-> {e2}, yanked |-> FALSE]
Advisories == {Yank, Warning}

\* A publishes one version, B another edition of it; A's publisher has a second
\* key that nobody trusts.
OffersAB == {<<A, v1, e1, k1>>, <<A, v1, e1, k2>>, <<B, v1, e2, k1>>}
StraysA == {<<A, v1, e2, "odd">>}
NoticesA == {<<A, {Yank}>>, <<B, {Warning}>>}

\* Everywhere but where advisories.toml has been emptied and is being filled.
BreakPoints == WriterPoints \ {"write_advisories"}
=============================================================================
