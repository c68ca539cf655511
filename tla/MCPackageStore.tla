--------------------------- MODULE MCPackageStore ---------------------------
(***************************************************************************)
(* Small instances of PackageStore for TLC.                                *)
(***************************************************************************)
EXTENDS PackageStore, TLC

CONSTANTS x, a, b, c1, c2, p1, p2

\* a and b depend on x.  In its second edition b depends on a too, and x on b,
\* so that there is a chain, a diamond and, mixing editions, a circle.
Diamond ==
  (x :> [c \in Content |-> IF c = c2 THEN {b} ELSE {}]) @@
  (a :> [c \in Content |-> {x}]) @@
  (b :> [c \in Content |-> IF c = c2 THEN {x, a} ELSE {x}])

Lone == [k \in Package |-> [c \in Content |-> {}]]

AnyPins == SUBSET Package
NoPins == {{}}
AnyPoint == Points
=============================================================================
