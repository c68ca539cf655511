----------------------------- MODULE MCInstalls -----------------------------
(***************************************************************************)
(* Small instances of Installs for TLC.                                    *)
(***************************************************************************)
EXTENDS Installs, TLC

CONSTANTS a1, a2, l1, l2, p1, p2

\* Every point at which a command can stop.
AnyPoint == Points
\* The points up to which only temporary directories have been changed.
Early == {"compose", "build", "rename_runtime", "undesktop", "unstore"}
Nowhere == {}

OneLib == {{l1}}
TwoLibs == {{l1}, {l2}}
OneHeadless == {<<a1, 2>>}
=============================================================================
