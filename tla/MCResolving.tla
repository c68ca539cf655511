----------------------------- MODULE MCResolving -----------------------------
(* Instances of Resolving.                                                 *)
EXTENDS Resolving, TLC

CONSTANTS R, a, b, c, e1, e2

v10 == Release(1, 0, 0)
v11 == Release(1, 1, 0)
v20 == Release(2, 0, 0)

Comp(op, major, minor, patch) ==
  {[op |-> op, major |-> major, minor |-> minor, patch |-> patch, rel |-> 1]}

Major(n) == Comp("caret", n, Absent, Absent)      \* "1"
Line(n, m) == Comp("tilde", n, m, Absent)         \* "~1.0"
At(v) == Comp("exact", v.major, v.minor, v.patch) \* "=1.0.0"
From(n) == Comp("greaterEq", n, Absent, Absent)   \* ">=1"

\* a 1.1 and b disagree about c; the second edition of c 1.0 needs b, which
\* needs c.
PinNeeds(pin, e) ==
  CASE pin = <<R, v10>> -> a :> Major(1) @@ b :> From(1)
    [] pin = <<a, v11>> -> IF e = e1 THEN c :> Major(2) ELSE c :> Line(1, 0)
    [] pin = <<a, v10>> -> c :> Major(1)
    [] pin = <<b, v20>> -> c :> (From(1) \union Comp("less", 2, Absent, Absent))
    [] pin = <<c, v10>> /\ e = e2 -> b :> At(v20)
    [] OTHER -> <<>>

NeedsOf == [pin \in Id \X Releases |-> [e \in Edition |-> PinNeeds(pin, e)]]

Has(f) == [pin \in Id \X Releases |-> IF pin \in DOMAIN f THEN f[pin] ELSE None]

Both == <<a, v10>> :> e1 @@ <<a, v11>> :> e1 @@ <<b, v20>> :> e1

OffersAll == {Has(Both @@ <<c, v10>> :> e @@ <<c, v11>> :> e1 @@ <<c, v20>> :> e1) : e \in Edition}

StockSome == {Has(<<>>), Has(<<R, v10>> :> e1 @@ <<a, v11>> :> e2)}

VolatilePins == {<<a, v11>>}

Three == {v10, v11, v20}
=============================================================================
