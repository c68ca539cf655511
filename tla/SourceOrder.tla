---------------------------- MODULE SourceOrder ----------------------------
(***************************************************************************)
(* What the commands on sources.toml and trust.toml promise: an ordered    *)
(* list of package sources, edited one source at a time, and a set of      *)
(* trusted keys, edited one key at a time.                                 *)
(***************************************************************************)
EXTENDS Naturals, Sequences

CONSTANTS Entry,  \* sources: records with a name and a uri
          Key     \* publisher keys

VARIABLES order,    \* the sources, highest priority first
          trusted   \* the trusted keys

Init == order = <<>> /\ trusted = {}

Without(s, i) ==
  [j \in 1 .. (Len(s) - 1) |-> IF j < i THEN s[j] ELSE s[j + 1]]

\* A new source has the lowest priority.
Add(e) ==
  /\ \A i \in DOMAIN order : order[i].name # e.name
  /\ order' = Append(order, e)
  /\ UNCHANGED trusted

\* The others keep their order.
Remove ==
  /\ \E i \in DOMAIN order : order' = Without(order, i)
  /\ UNCHANGED trusted

\* One source goes elsewhere, the others keep their order.
Move ==
  /\ Len(order') = Len(order)
  /\ \E i, j \in DOMAIN order : /\ order'[j] = order[i]
                                /\ Without(order', j) = Without(order, i)
  /\ UNCHANGED trusted

Trust(k) == k \notin trusted /\ trusted' = trusted \union {k} /\ UNCHANGED order
Distrust(k) == k \in trusted /\ trusted' = trusted \ {k} /\ UNCHANGED order

Next ==
  \/ \E e \in Entry : Add(e)
  \/ Remove
  \/ Move
  \/ \E k \in Key : Trust(k) \/ Distrust(k)

Spec == Init /\ [][Next]_<<order, trusted>>
=============================================================================
