------------------------------ MODULE Versions ------------------------------
(***************************************************************************)
(* Versions and version requirements of lar-resolver: the range that       *)
(* resolve.rs makes of a requirement, next to what the semver crate, which *)
(* parsed the requirement, means by it.                                    *)
(*                                                                         *)
(* A version is a release (rel = 1) or a pre-release (rel = 0) of its      *)
(* three numbers: one pre-release tag is enough to tell them apart.  A     *)
(* requirement is a set of comparators, all of which must hold.            *)
(***************************************************************************)
EXTENDS Integers

CONSTANT Absent  \* a minor or patch number that a comparator leaves out

ASSUME AbsentAssumption == Absent \notin Nat

Version == [major : Nat, minor : Nat, patch : Nat, rel : {0, 1}]

Op == {"exact", "greater", "greaterEq", "less", "lessEq", "tilde", "caret"}

\* A pre-release tag or a patch number follows only a number before it.
Comparator ==
  {c \in [op : Op, major : Nat, minor : {Absent} \union Nat,
          patch : {Absent} \union Nat, rel : {0, 1}] :
     /\ c.minor = Absent => c.patch = Absent
     /\ c.patch = Absent => c.rel = 1}

\* Version::new
Release(major, minor, patch) ==
  [major |-> major, minor |-> minor, patch |-> patch, rel |-> 1]

\* The order of versions: a pre-release comes before its release.
Before(v, w) ==
  \/ v.major < w.major
  \/ /\ v.major = w.major
     /\ \/ v.minor < w.minor
        \/ v.minor = w.minor /\ v.patch < w.patch
        \/ v.minor = w.minor /\ v.patch = w.patch /\ v.rel < w.rel

-----------------------------------------------------------------------------
(* The ranges of resolve.rs, as the versions they contain.                 *)

Between(v, start, end) == ~Before(v, start) /\ Before(v, end)

Given(part) == IF part = Absent THEN 0 ELSE part

\* version_from_parts: a missing number is read as zero.
Parts(c) == Release(c.major, Given(c.minor), Given(c.patch))

NextMajor(c) == Release(c.major + 1, 0, 0)
NextMinor(c) == Release(c.major, c.minor + 1, 0)

InExact(c, v) ==
  IF c.patch # Absent THEN v = Parts(c)
  ELSE Between(v, Parts(c), IF c.minor # Absent THEN NextMinor(c) ELSE NextMajor(c))

InTilde(c, v) ==
  Between(v, Parts(c), IF c.minor # Absent THEN NextMinor(c) ELSE NextMajor(c))

CaretEnd(c) ==
  IF c.major > 0 \/ c.minor = Absent THEN NextMajor(c)
  ELSE IF c.minor > 0 THEN NextMinor(c)
  ELSE Release(0, 0, Given(c.patch) + 1)

\* comparator_to_ranges: the tag of a comparator is not looked at.
InRange(c, v) ==
  CASE c.op = "exact"     -> InExact(c, v)
    [] c.op = "greater"   -> Before(Parts(c), v)
    [] c.op = "greaterEq" -> ~Before(v, Parts(c))
    [] c.op = "less"      -> Before(v, Parts(c))
    [] c.op = "lessEq"    -> ~Before(Parts(c), v)
    [] c.op = "tilde"     -> InTilde(c, v)
    [] c.op = "caret"     -> Between(v, Parts(c), CaretEnd(c))

\* version_req_to_ranges: the intersection of the comparators' ranges.
InRanges(req, v) == \A c \in req : InRange(c, v)

-----------------------------------------------------------------------------
(* What the semver crate means by a comparator and by a requirement.       *)

Exactly(c, v) ==
  /\ v.major = c.major
  /\ c.minor # Absent => v.minor = c.minor
  /\ c.patch # Absent => v.patch = c.patch
  /\ v.rel = c.rel

Above(c, v) ==
  \/ v.major > c.major
  \/ /\ v.major = c.major
     /\ c.minor # Absent
     /\ \/ v.minor > c.minor
        \/ /\ v.minor = c.minor
           /\ c.patch # Absent
           /\ v.patch > c.patch \/ (v.patch = c.patch /\ v.rel > c.rel)

Below(c, v) ==
  \/ v.major < c.major
  \/ /\ v.major = c.major
     /\ c.minor # Absent
     /\ \/ v.minor < c.minor
        \/ /\ v.minor = c.minor
           /\ c.patch # Absent
           /\ v.patch < c.patch \/ (v.patch = c.patch /\ v.rel < c.rel)

\* Nothing before the comparator's last number, from there on its own tag.
FromPatch(c, v) == v.patch > c.patch \/ (v.patch = c.patch /\ v.rel >= c.rel)

Approximately(c, v) ==
  /\ v.major = c.major
  /\ c.minor # Absent => v.minor = c.minor
  /\ IF c.patch # Absent THEN FromPatch(c, v) ELSE v.rel >= c.rel

Compatibly(c, v) ==
  /\ v.major = c.major
  /\ IF c.minor = Absent THEN TRUE
     ELSE IF c.patch = Absent
     THEN IF c.major > 0 THEN v.minor >= c.minor ELSE v.minor = c.minor
     ELSE IF c.major > 0
     THEN v.minor > c.minor \/ (v.minor = c.minor /\ FromPatch(c, v))
     ELSE IF c.minor > 0
     THEN v.minor = c.minor /\ FromPatch(c, v)
     ELSE v.minor = 0 /\ v.patch = c.patch /\ v.rel >= c.rel

Meets(c, v) ==
  CASE c.op = "exact"     -> Exactly(c, v)
    [] c.op = "greater"   -> Above(c, v)
    [] c.op = "greaterEq" -> Exactly(c, v) \/ Above(c, v)
    [] c.op = "less"      -> Below(c, v)
    [] c.op = "lessEq"    -> Exactly(c, v) \/ Below(c, v)
    [] c.op = "tilde"     -> Approximately(c, v)
    [] c.op = "caret"     -> Compatibly(c, v)

\* VersionReq::matches: a pre-release only where it is asked for by number.
Matches(req, v) ==
  /\ \A c \in req : Meets(c, v)
  /\ v.rel = 0 => \E c \in req : /\ c.rel = 0 /\ c.major = v.major
                                 /\ c.minor = v.minor /\ c.patch = v.patch

\* The comparators of which the two agree on every release.
Plain(c) ==
  /\ c.rel = 1
  /\ c.op \in {"greater", "lessEq"} => c.patch # Absent
  /\ c.op = "caret" /\ c.major = 0 /\ c.minor = 0 => c.patch # Absent
=============================================================================
