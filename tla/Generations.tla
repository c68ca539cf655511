----------------------------- MODULE Generations -----------------------------
(***************************************************************************)
(* What the install lifecycle promises for the records of an app: an       *)
(* active generation and at most one to roll back to, replaced, swapped    *)
(* and forgotten in single steps.                                          *)
(***************************************************************************)
EXTENDS Naturals

CONSTANTS App, Generation, None

VARIABLES
  records,  \* per app, the active and the previous generation
  leaving   \* the apps an uninstall is forgetting

vars == <<records, leaving>>

Blank == [active |-> None, previous |-> None]

Init ==
  /\ records = [a \in App |-> Blank]
  /\ leaving = {}

Becomes(a, active, previous) ==
  records' = [records EXCEPT ![a] = [active |-> active, previous |-> previous]]

\* A first install, or a replacement that keeps the displaced generation as
\* the one to roll back to.
Activate(a, g) ==
  /\ g.app = a
  /\ a \notin leaving
  /\ Becomes(a, g, records[a].active)
  /\ UNCHANGED leaving

\* Rolling back twice is where it started.
Swap(a) ==
  /\ a \notin leaving
  /\ records[a].previous # None
  /\ Becomes(a, records[a].previous, records[a].active)
  /\ UNCHANGED leaving

\* An uninstall forgets the records; stopped half-way it may leave an app that
\* is installed and has nothing to roll back to.
Leave(a) ==
  /\ records[a].active # None
  /\ leaving' = leaving \union {a}
  /\ UNCHANGED records

LosePrevious(a) ==
  /\ a \in leaving
  /\ Becomes(a, records[a].active, None)
  /\ UNCHANGED leaving

Forget(a) ==
  /\ a \in leaving
  /\ Becomes(a, None, None)
  /\ UNCHANGED leaving

Settle(a) ==
  /\ a \in leaving
  /\ leaving' = leaving \ {a}
  /\ UNCHANGED records

Next ==
  \E a \in App :
    \/ \E g \in Generation : Activate(a, g)
    \/ Swap(a)
    \/ Leave(a) \/ LosePrevious(a) \/ Forget(a) \/ Settle(a)

Spec == Init /\ [][Next]_vars
=============================================================================
