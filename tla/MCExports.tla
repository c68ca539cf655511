----------------------------- MODULE MCExports -----------------------------
(***************************************************************************)
(* Small instances of Exports for TLC: app a with a generation of two      *)
(* commands, one whose two binaries have the same base name, and one       *)
(* without an [entry]; app b exporting one of a's names.                   *)
(***************************************************************************)
EXTENDS Exports, TLC

CONSTANTS a, b, c, d, a1, a2, a3, b1

Apps == {a, b}
Cmds == {c, d}
Gens == {a1, a2, a3, b1}
Owner == a1 :> a @@ a2 :> a @@ a3 :> a @@ b1 :> b
Owns == {d}
Entries == a1 :> <<c, d>> @@ a2 :> <<c, c>> @@ a3 :> <<>> @@ b1 :> <<c>>
=============================================================================
