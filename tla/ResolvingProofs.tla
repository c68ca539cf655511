--------------------------- MODULE ResolvingProofs ---------------------------
(***************************************************************************)
(* What a resolution and a lockfile guarantee, for any packages, versions, *)
(* requirements and contents, and whatever others change meanwhile.        *)
(***************************************************************************)
EXTENDS Resolving, FiniteSetTheorems, TLAPS

-----------------------------------------------------------------------------
(* Where the ranges of resolve.rs agree with the semver crate and where not. *)

\* A part that is there is a number; of a plain comparator only the last
\* ones are left out.
LEMMA PartsAreNumbers ==
  ASSUME NEW c \in Comparator
  PROVE  /\ c.major \in Nat
         /\ c.minor # Absent => c.minor \in Nat
         /\ c.patch # Absent => c.patch \in Nat /\ c.minor # Absent
         /\ c.rel \in {0, 1}
         /\ c.op \in Op
BY DEF Comparator

\* The order of releases is that of their numbers (Version's Ord).
LEMMA BeforeRelease ==
  ASSUME NEW v, NEW x \in Nat, NEW y \in Nat, NEW z \in Nat
  PROVE  /\ Before(v, Release(x, y, z)) <=>
              \/ v.major < x
              \/ v.major = x /\ (\/ v.minor < y
                                 \/ v.minor = y /\ v.patch < z
                                 \/ v.minor = y /\ v.patch = z /\ v.rel < 1)
         /\ Before(Release(x, y, z), v) <=>
              \/ x < v.major
              \/ x = v.major /\ (\/ y < v.minor
                                 \/ y = v.minor /\ z < v.patch
                                 \/ y = v.minor /\ z = v.patch /\ 1 < v.rel)
BY DEF Before, Release

\* For a release and a plain comparator, comparator_to_ranges means what the
\* semver crate means.
THEOREM ComparatorAsMeant ==
  ASSUME NEW c \in Comparator, Plain(c), NEW v \in Version, v.rel = 1
  PROVE  InRange(c, v) <=> Meets(c, v)
<1> DEFINE x == c.major
           y == Given(c.minor)
           z == Given(c.patch)
<1>1. /\ c.major \in Nat /\ c.rel = 1 /\ c.op \in Op
      /\ c.minor # Absent => c.minor \in Nat
      /\ c.patch # Absent => c.patch \in Nat /\ c.minor # Absent
  BY PartsAreNumbers DEF Plain
<1>2. /\ x \in Nat /\ y \in Nat /\ z \in Nat
      /\ c.minor = Absent => y = 0
      /\ c.patch = Absent => z = 0
      /\ c.minor # Absent => y = c.minor
      /\ c.patch # Absent => z = c.patch
  BY <1>1 DEF Given
<1>3. /\ v.major \in Nat /\ v.minor \in Nat /\ v.patch \in Nat
      /\ v = Release(v.major, v.minor, v.patch)
  BY DEF Version, Release
<1>4. Parts(c) = Release(x, y, z)
  BY DEF Parts
<1>5. /\ Before(v, Parts(c)) <=>
           \/ v.major < x
           \/ v.major = x /\ (v.minor < y \/ (v.minor = y /\ v.patch < z))
      /\ Before(Parts(c), v) <=>
           \/ x < v.major
           \/ x = v.major /\ (y < v.minor \/ (y = v.minor /\ z < v.patch))
  <2>1. ~(1 < v.rel) /\ ~(v.rel < 1)
    OBVIOUS
  <2>2. QED
    BY <2>1, <1>2, <1>4, BeforeRelease
<1>6. Before(v, NextMajor(c)) <=> v.major <= x
  <2>1. Before(v, Release(x + 1, 0, 0)) <=>
          \/ v.major < x + 1
          \/ v.major = x + 1 /\ (\/ v.minor < 0
                                 \/ v.minor = 0 /\ v.patch < 0
                                 \/ v.minor = 0 /\ v.patch = 0 /\ v.rel < 1)
    BY <1>1, BeforeRelease, x + 1 \in Nat
  <2>2. QED
    BY <2>1, <1>1, <1>3 DEF NextMajor
<1>7. c.minor # Absent =>
        (Before(v, NextMinor(c)) <=>
           v.major < x \/ (v.major = x /\ v.minor <= c.minor))
  <2>1. SUFFICES ASSUME c.minor # Absent
                 PROVE  Before(v, NextMinor(c)) <=>
                          v.major < x \/ (v.major = x /\ v.minor <= c.minor)
    OBVIOUS
  <2>2. Before(v, Release(x, c.minor + 1, 0)) <=>
          \/ v.major < x
          \/ v.major = x /\ (\/ v.minor < c.minor + 1
                             \/ v.minor = c.minor + 1 /\ v.patch < 0
                             \/ v.minor = c.minor + 1 /\ v.patch = 0 /\ v.rel < 1)
    BY <1>1, <2>1, BeforeRelease, c.minor + 1 \in Nat, 0 \in Nat
  <2>3. QED
    BY <2>1, <2>2, <1>1, <1>3 DEF NextMinor
<1>8. CASE c.op = "exact"
  <2>1. InRange(c, v) <=> InExact(c, v)
    BY <1>8 DEF InRange
  <2>2. Meets(c, v) <=> Exactly(c, v)
    BY <1>8 DEF Meets
  <2>3. CASE c.patch # Absent
    <3>1. v = Parts(c) <=> v.major = x /\ v.minor = y /\ v.patch = z
      BY <1>3, <1>4 DEF Release
    <3>2. QED
      BY <2>1, <2>2, <2>3, <3>1, <1>1, <1>2 DEF InExact, Exactly
  <2>4. CASE c.patch = Absent /\ c.minor # Absent
    BY <2>1, <2>2, <2>4, <1>1, <1>2, <1>3, <1>5, <1>7 DEF InExact, Exactly, Between
  <2>5. CASE c.patch = Absent /\ c.minor = Absent
    BY <2>1, <2>2, <2>5, <1>1, <1>2, <1>3, <1>5, <1>6 DEF InExact, Exactly, Between
  <2>6. QED
    BY <2>3, <2>4, <2>5
<1>9. CASE c.op = "greater"
  <2>1. c.patch # Absent
    BY <1>9 DEF Plain
  <2>2. InRange(c, v) <=> Before(Parts(c), v)
    BY <1>9 DEF InRange
  <2>3. Meets(c, v) <=> Above(c, v)
    BY <1>9 DEF Meets
  <2>4. QED
    BY <2>1, <2>2, <2>3, <1>1, <1>2, <1>3, <1>5 DEF Above
<1>10. CASE c.op = "greaterEq"
  <2>1. InRange(c, v) <=> ~Before(v, Parts(c))
    BY <1>10 DEF InRange
  <2>2. Meets(c, v) <=> Exactly(c, v) \/ Above(c, v)
    BY <1>10 DEF Meets
  <2>3. QED
    BY <2>1, <2>2, <1>1, <1>2, <1>3, <1>5 DEF Above, Exactly
<1>11. CASE c.op = "less"
  <2>1. InRange(c, v) <=> Before(v, Parts(c))
    BY <1>11 DEF InRange
  <2>2. Meets(c, v) <=> Below(c, v)
    BY <1>11 DEF Meets
  <2>3. QED
    BY <2>1, <2>2, <1>1, <1>2, <1>3, <1>5 DEF Below
<1>12. CASE c.op = "lessEq"
  <2>1. c.patch # Absent
    BY <1>12 DEF Plain
  <2>2. InRange(c, v) <=> ~Before(Parts(c), v)
    BY <1>12 DEF InRange
  <2>3. Meets(c, v) <=> Exactly(c, v) \/ Below(c, v)
    BY <1>12 DEF Meets
  <2>4. QED
    BY <2>1, <2>2, <2>3, <1>1, <1>2, <1>3, <1>5 DEF Below, Exactly
<1>13. CASE c.op = "tilde"
  <2>1. InRange(c, v) <=> InTilde(c, v)
    BY <1>13 DEF InRange
  <2>2. Meets(c, v) <=> Approximately(c, v)
    BY <1>13 DEF Meets
  <2>3. CASE c.minor # Absent
    BY <2>1, <2>2, <2>3, <1>1, <1>2, <1>3, <1>5, <1>7
       DEF InTilde, Approximately, FromPatch, Between
  <2>4. CASE c.minor = Absent
    BY <2>1, <2>2, <2>4, <1>1, <1>2, <1>3, <1>5, <1>6
       DEF InTilde, Approximately, FromPatch, Between
  <2>5. QED
    BY <2>3, <2>4
<1>14. CASE c.op = "caret"
  <2>1. InRange(c, v) <=> Between(v, Parts(c), CaretEnd(c))
    BY <1>14 DEF InRange
  <2>2. Meets(c, v) <=> Compatibly(c, v)
    BY <1>14 DEF Meets
  <2>3. CASE c.major > 0 \/ c.minor = Absent
    <3>1. CaretEnd(c) = NextMajor(c)
      BY <2>3 DEF CaretEnd
    <3>2. QED
      BY <2>1, <2>2, <2>3, <3>1, <1>1, <1>2, <1>3, <1>5, <1>6
         DEF Compatibly, FromPatch, Between
  <2>4. CASE c.major = 0 /\ c.minor # Absent /\ c.minor > 0
    <3>1. CaretEnd(c) = NextMinor(c)
      BY <2>4 DEF CaretEnd
    <3>2. QED
      BY <2>1, <2>2, <2>4, <3>1, <1>1, <1>2, <1>3, <1>5, <1>7
         DEF Compatibly, FromPatch, Between
  <2>5. CASE c.major = 0 /\ c.minor = 0 /\ c.minor # Absent
    <3>1. c.patch # Absent
      BY <2>5, <1>14 DEF Plain
    <3>2. CaretEnd(c) = Release(0, 0, c.patch + 1)
      BY <2>5, <3>1 DEF CaretEnd, Given
    <3>3. Before(v, CaretEnd(c)) <=> v.major = 0 /\ v.minor = 0 /\ v.patch <= c.patch
      <4>1. c.patch + 1 \in Nat
        BY <1>1, <3>1
      <4>2. QED
        BY <3>2, <4>1, <1>1, <1>3, <3>1 DEF Before, Release
    <3>4. QED
      BY <2>1, <2>2, <2>5, <3>1, <3>3, <1>1, <1>2, <1>3, <1>5
         DEF Compatibly, FromPatch, Between
  <2>6. QED
    BY <2>3, <2>4, <2>5, <1>1
<1>15. QED
  BY <1>1, <1>8, <1>9, <1>10, <1>11, <1>12, <1>13, <1>14 DEF Op

\* A requirement whose comparators are all plain admits exactly the releases
\* it means to admit (version_req_to_ranges).
THEOREM RequirementAsMeant ==
  ASSUME NEW req \in SUBSET Comparator, \A c \in req : Plain(c),
         NEW v \in Version, v.rel = 1
  PROVE  InRanges(req, v) <=> Matches(req, v)
<1>1. \A c \in req : InRange(c, v) <=> Meets(c, v)
  BY ComparatorAsMeant
<1>2. QED
  BY <1>1 DEF InRanges, Matches

\* A requirement like ^1 admits every pre-release of the next major version,
\* which the semver crate does not (caret_range).
THEOREM CaretAdmitsPreReleases ==
  ASSUME NEW c \in Comparator, c.op = "caret", c.rel = 1, c.minor = Absent
  PROVE  LET v == [NextMajor(c) EXCEPT !.rel = 0]
         IN  InRanges({c}, v) /\ ~Matches({c}, v)
<1> DEFINE v == [NextMajor(c) EXCEPT !.rel = 0]
<1>1. c.major \in Nat /\ c.patch = Absent
  BY DEF Comparator
<1>2. v.major = c.major + 1 /\ v.minor = 0 /\ v.patch = 0 /\ v.rel = 0
  BY DEF NextMajor, Release
<1>3. Parts(c) = Release(c.major, 0, 0) /\ CaretEnd(c) = Release(c.major + 1, 0, 0)
  BY <1>1 DEF Parts, Given, CaretEnd, NextMajor
<1>4. ~Before(v, Parts(c)) /\ Before(v, CaretEnd(c))
  BY <1>1, <1>2, <1>3, SMT DEF Before, Release
<1>5. InRanges({c}, v)
  BY <1>4 DEF InRanges, InRange, Between
<1>6. ~Matches({c}, v)
  BY <1>2 DEF Matches
<1>7. QED
  BY <1>5, <1>6

\* A requirement like >1 admits 1.0.1, for the numbers it leaves out are read as
\* zeros (comparator_to_ranges); the semver crate means from 2.0.0 on.
THEOREM GreaterAdmitsPatches ==
  ASSUME NEW c \in Comparator, c.op = "greater", c.minor = Absent
  PROVE  LET v == Release(c.major, 0, 1)
         IN  InRanges({c}, v) /\ ~Matches({c}, v)
<1> DEFINE v == Release(c.major, 0, 1)
<1>1. c.major \in Nat /\ v.major = c.major /\ v.minor = 0 /\ v.patch = 1
  BY DEF Comparator, Release
<1>2. Parts(c) = Release(c.major, 0, 0)
  BY DEF Parts, Given, Comparator
<1>3. InRanges({c}, v)
  <2>1. Before(Parts(c), v)
    BY <1>1, <1>2 DEF Before, Release
  <2>2. InRange(c, v)
    BY <2>1 DEF InRange
  <2>3. QED
    BY <2>2 DEF InRanges
<1>4. ~Meets(c, v)
  BY <1>1 DEF Meets, Above
<1>5. QED
  BY <1>3, <1>4 DEF Matches

-----------------------------------------------------------------------------
(* Lemmas about the operators.                                             *)

LEMMA WithSelects ==
  ASSUME NEW selection, NEW id, NEW v
  PROVE  /\ DOMAIN With(selection, id, v) = DOMAIN selection \union {id}
         /\ With(selection, id, v)[id] = v
         /\ \A d \in DOMAIN selection \ {id} : With(selection, id, v)[d] = selection[d]
BY DEF With

LEMMA OnlySelects ==
  ASSUME NEW id, NEW v
  PROVE  DOMAIN Only(id, v) = {id} /\ Only(id, v)[id] = v
BY DEF Only, With

LEMMA RangeWithin ==
  ASSUME NEW f, NEW S
  PROVE  Range(f) \subseteq S <=> \A x \in DOMAIN f : f[x] \in S
BY DEF Range

LEMMA RangeOfNone == DOMAIN <<>> = {} /\ Range(<<>>) \subseteq {}
<1>1. DOMAIN <<>> = {}
  OBVIOUS
<1>2. QED
  BY <1>1 DEF Range

LEMMA WithTyped ==
  ASSUME NEW selection, DOMAIN selection \subseteq Id, Range(selection) \subseteq Releases,
         NEW id \in Id, NEW v \in Releases
  PROVE  /\ DOMAIN With(selection, id, v) \subseteq Id
         /\ Range(With(selection, id, v)) \subseteq Releases
<1>1. \A d \in DOMAIN selection : selection[d] \in Releases
  BY RangeWithin
<1>2. \A d \in DOMAIN With(selection, id, v) : With(selection, id, v)[d] \in Releases
  BY <1>1 DEF With
<1>3. DOMAIN With(selection, id, v) \subseteq Id
  BY DEF With
<1>4. QED
  BY <1>2, <1>3, RangeWithin

LEMMA OnlyTyped ==
  ASSUME NEW id \in Id, NEW v \in Releases
  PROVE  DOMAIN Only(id, v) \subseteq Id /\ Range(Only(id, v)) \subseteq Releases
<1>1. \A d \in DOMAIN Only(id, v) : Only(id, v)[d] \in Releases
  BY DEF Only, With
<1>2. DOMAIN Only(id, v) \subseteq Id
  BY DEF Only, With
<1>3. QED
  BY <1>1, <1>2, RangeWithin

Deps(id) == DOMAIN DepsOf(id, picked[id])

LEMMA PendingMeans ==
  \A id : id \in Pending <=>
            id \notin DOMAIN picked /\ \E d \in DOMAIN picked : id \in Deps(d)
<1> TAKE id
<1> DEFINE D == DOMAIN picked
           All == UNION {Deps(d) : d \in D}
<1>1. Pending = All \ D
  BY DEF Pending, Deps
<1>2. id \in All <=> \E d \in D : id \in Deps(d)
  <2> HIDE DEF D
  <2>1. QED
    OBVIOUS
<1>3. id \in All \ D <=> id \in All /\ id \notin D
  <2> HIDE DEF D, All
  <2>1. QED
    OBVIOUS
<1>4. QED
  <2> HIDE DEF All
  <2>1. QED
    BY <1>1, <1>2, <1>3

\* A range of finitely many versions has a highest one (choose_version).
Later(S, v) == {w \in S : Before(v, w)}

LEMMA BeforeOrders ==
  ASSUME NEW u \in Version, NEW v \in Version, NEW w \in Version
  PROVE  ~Before(u, u) /\ (Before(u, v) /\ Before(v, w) => Before(u, w))
BY DEF Before, Version

LEMMA HighestIsLast ==
  ASSUME NEW S \in SUBSET Releases, S # {}
  PROVE  Highest(S) \in S /\ \A w \in S : ~Before(Highest(S), w)
<1> DEFINE Count == [v \in S |-> Cardinality(Later(S, v))]
           Counts == {n \in Nat : \E v \in S : n = Count[v]}
           Less == OpToRel(<, Nat)
<1>1. IsFiniteSet(S) /\ S \subseteq Version
  BY FS_Subset, ConstantsAssumption
<1>2. \A v \in S : IsFiniteSet(Later(S, v)) /\ Count[v] \in Nat
  <2>1. TAKE v \in S
  <2>2. Later(S, v) \in SUBSET S
    BY DEF Later
  <2>3. QED
    BY <1>1, <2>2, FS_Subset, FS_CardinalityType
<1>3. PICK v \in S : \A w \in S : ~(Count[w] < Count[v])
  <2>1. Counts # {} /\ Counts \subseteq Nat
    BY <1>2
  <2>2. IsWellFoundedOn(Less, Nat)
    BY NatLessThanWellFounded
  <2>3. PICK n \in Counts : \A m \in Counts : <<m, n>> \notin Less
    <3> HIDE DEF Less, Counts
    <3>1. QED
      BY <2>1, <2>2, WFMin
  <2>4. \A m \in Counts : ~(m < n)
    BY <2>1, <2>3 DEF OpToRel
  <2>5. QED
    BY <1>2, <2>4
<1>4. \A w \in S : ~Before(v, w)
  <2>1. SUFFICES ASSUME NEW w \in S, Before(v, w)
                 PROVE  FALSE
    OBVIOUS
  <2>2. Later(S, w) \subseteq Later(S, v) \ {w}
    BY <1>1, <2>1, BeforeOrders DEF Later
  <2>3. w \in Later(S, v)
    BY <2>1 DEF Later
  <2>4. Cardinality(Later(S, w)) <= Cardinality(Later(S, v) \ {w})
    BY <1>2, <2>2, FS_Subset, FS_RemoveElement
  <2>5. Cardinality(Later(S, v) \ {w}) = Cardinality(Later(S, v)) - 1
    BY <1>2, <2>3, FS_RemoveElement
  <2>6. Count[w] < Count[v]
    BY <1>2, <2>4, <2>5
  <2>7. QED
    BY <1>3, <2>6
<1>5. QED
  BY <1>4 DEF Highest

-----------------------------------------------------------------------------
(* Types, and what belongs to a command that is under way.                 *)

Bare ==
  /\ versions = [id \in Id |-> Unlisted] /\ missed = {} /\ cache = Empty
  /\ picked = <<>> /\ nogoods = {} /\ visiting = <<>> /\ visited = {}
  /\ todo = {} /\ removed = {}

Shape ==
  /\ pc = "idle" => Bare
  /\ pc # "idle" => /\ lock = None /\ outcome = None
                    /\ Root \in DOMAIN picked /\ picked[Root] = RootVersion
                    /\ cache[RootPin] = RootEdition
  /\ \A id \in DOMAIN picked : cache[<<id, picked[id]>>] # None
  /\ pc = "solve" => visiting = <<>> /\ visited = {}
  /\ pc # "materialize" => todo = {}

Others ==
  \/ \E pin \in Volatile : Republish(pin) \/ Yank(pin) \/ StoreAdd(pin) \/ StoreRemove(pin)
  \/ Outage

LEMMA DropBare == ASSUME Drop PROVE pc' = "idle" /\ Bare'
BY DEF Drop, Bare, Empty, Pin

LEMMA BareTyped ==
  ASSUME Bare'
  PROVE  /\ versions' \in [Id -> {Unlisted} \union SUBSET Releases]
         /\ missed' \subseteq Id
         /\ cache' \in [Pin -> {None} \union Edition]
         /\ DOMAIN picked' \subseteq Id /\ Range(picked') \subseteq Releases
         /\ \A n \in nogoods' : DOMAIN n \subseteq Id /\ Range(n) \subseteq Releases
         /\ visiting' \in Seq(Id) /\ visited' \subseteq Id
         /\ todo' \subseteq Pin
         /\ removed' \subseteq Pin
<1>1. DOMAIN <<>> = {} /\ <<>> \in Seq(Id)
  OBVIOUS
<1>2. Range(<<>>) \subseteq Releases
  BY <1>1, RangeWithin
<1>3. QED
  BY <1>1, <1>2 DEF Bare, Empty

\* What others do to the world, and what they leave alone.
LEMMA OthersFrame ==
  ASSUME TypeOK, Others
  PROVE  /\ UNCHANGED <<sealed, provider, picked, nogoods, walk, todo, pc, lock>>
         /\ still' = (pc = "idle")
         /\ outcome' = IF pc = "idle" THEN None ELSE outcome
         /\ changes' \in 0..MaxChanges
         /\ offer' \in [Pin -> {None} \union Edition]
         /\ stored' \in [Pin -> {None} \union Edition]
         /\ yanked' \subseteq Pin /\ sources' \in Answer /\ removed' \subseteq Pin
         /\ pc = "idle" => removed' \subseteq removed
         /\ pc # "idle" => removed \subseteq removed'
         /\ pc # "idle" =>
              \A pin \in Pin : stored[pin] \in {None, stored'[pin]} \/ pin \in removed'
<1>1. Volatile \subseteq Pin /\ MaxChanges \in Nat
  BY ConstantsAssumption
<1>2. Change
  BY DEF Others, Republish, Yank, StoreAdd, StoreRemove, Outage
<1>3. /\ UNCHANGED <<sealed, provider, picked, nogoods, walk, todo, pc, lock>>
      /\ still' = (pc = "idle")
      /\ outcome' = IF pc = "idle" THEN None ELSE outcome
  BY <1>2 DEF Change
<1>4. changes' \in 0..MaxChanges
  BY <1>1, <1>2 DEF Change, TypeOK
<1> DEFINE Typed ==
      /\ offer' \in [Pin -> {None} \union Edition]
      /\ stored' \in [Pin -> {None} \union Edition]
      /\ yanked' \subseteq Pin /\ sources' \in Answer /\ removed' \subseteq Pin
           Kept ==
      /\ pc = "idle" => removed' \subseteq removed
      /\ pc # "idle" => removed \subseteq removed'
      /\ pc # "idle" =>
           \A pin \in Pin : stored[pin] \in {None, stored'[pin]} \/ pin \in removed'
<1>5. ASSUME NEW pin \in Volatile, Republish(pin)
      PROVE  Typed /\ Kept
  BY <1>1, <1>5 DEF Republish, TypeOK
<1>6. ASSUME NEW pin \in Volatile, Yank(pin)
      PROVE  Typed /\ Kept
  BY <1>1, <1>6 DEF Yank, TypeOK
<1>7. ASSUME NEW pin \in Volatile, StoreAdd(pin)
      PROVE  Typed /\ Kept
  BY <1>1, <1>7 DEF StoreAdd, TypeOK
<1>8. ASSUME NEW pin \in Volatile, StoreRemove(pin)
      PROVE  Typed /\ Kept
  BY <1>1, <1>8 DEF StoreRemove, TypeOK
<1>9. ASSUME Outage
      PROVE  Typed /\ Kept
  BY <1>9 DEF Outage, TypeOK
<1>10. Typed /\ Kept
  BY <1>5, <1>6, <1>7, <1>8, <1>9 DEF Others
<1>11. QED
  BY <1>3, <1>4, <1>10

LEMMA TypedInit == Init => TypeOK /\ Shape
<1> SUFFICES ASSUME Init PROVE TypeOK /\ Shape
  OBVIOUS
<1>1. DOMAIN <<>> = {} /\ <<>> \in Seq(Id)
  OBVIOUS
<1>2. Range(<<>>) \subseteq Releases
  BY <1>1, RangeWithin
<1>3. /\ Offers \union Stock \subseteq [Pin -> {None} \union Edition]
      /\ MaxChanges \in Nat
  BY ConstantsAssumption
<1>4. TypeOK
  BY <1>1, <1>2, <1>3 DEF Init, TypeOK, Empty, Ending, Answer
<1>5. Shape
  BY <1>1 DEF Init, Shape, Bare
<1>6. QED
  BY <1>4, <1>5

\* choose_version picks a version of the list that fits, and none after it does.
LEMMA ChosenFits ==
  ASSUME TypeOK, NEW id \in Id, Turn(id), Candidates(id) # {}
  PROVE  LET v == Highest(Candidates(id)) IN
         /\ v \in Releases /\ v \in versions[id] /\ Fits(id, v)
         /\ \A w \in versions[id] : Before(v, w) => ~Fits(id, w)
         /\ <<id, v>> \in Pin
<1>1. versions[id] \in SUBSET Releases
  BY DEF Turn, TypeOK
<1>2. Candidates(id) \in SUBSET Releases
  BY <1>1 DEF Candidates
<1>3. /\ Highest(Candidates(id)) \in Candidates(id)
      /\ \A w \in Candidates(id) : ~Before(Highest(Candidates(id)), w)
  BY <1>2, HighestIsLast
<1>4. QED
  BY <1>1, <1>2, <1>3 DEF Candidates, Pin

LEMMA MetadataTyped ==
  ASSUME TypeOK, NEW pin \in Pin
  PROVE  /\ Metadata(pin) \in {None} \union Edition
         /\ cache[pin] # None => Metadata(pin) = cache[pin]
BY DEF TypeOK, Metadata, Available

\* The next package, with a version that can be read and that the selection allows.
Selects(id, v) ==
  /\ Metadata(<<id, v>>) # None
  /\ cache' = [cache EXCEPT ![<<id, v>>] = Metadata(<<id, v>>)]
  /\ picked' = With(picked, id, v)
  /\ nogoods' = nogoods
  /\ Clashes(With(picked, id, v), Needs[<<id, v>>][Metadata(<<id, v>>)]) = {}

\* A version that is given up, for it cannot be read or it does not go together
\* with a package of the selection or with itself.
GivesUp(id, v) ==
  /\ picked' = picked
  /\ \/ /\ Metadata(<<id, v>>) = None
        /\ cache' = cache
        /\ nogoods' = nogoods \union {Only(id, v)}
     \/ /\ Metadata(<<id, v>>) # None
        /\ cache' = [cache EXCEPT ![<<id, v>>] = Metadata(<<id, v>>)]
        /\ LET selection == With(picked, id, v)
               clashes == Clashes(selection, Needs[<<id, v>>][Metadata(<<id, v>>)])
           IN  /\ clashes # {}
               /\ nogoods' = nogoods \union
                    {With(Only(d, selection[d]), id, v) : d \in clashes}

LEMMA ChooseCases ==
  ASSUME NEW id, Choose(id)
  PROVE  LET v == Highest(Candidates(id)) IN Selects(id, v) \/ GivesUp(id, v)
<1> DEFINE v == Highest(Candidates(id))
           selection == With(picked, id, v)
           clashes == Clashes(selection, Needs[<<id, v>>][Metadata(<<id, v>>)])
<1>1. CASE Metadata(<<id, v>>) = None
  BY <1>1 DEF Choose, GivesUp
<1>2. CASE Metadata(<<id, v>>) # None /\ clashes = {}
  <2>1. {With(Only(d, selection[d]), id, v) : d \in clashes} = {}
    BY <1>2
  <2>2. QED
    BY <1>2, <2>1 DEF Choose, Selects
<1>3. CASE Metadata(<<id, v>>) # None /\ clashes # {}
  BY <1>3 DEF Choose, GivesUp
<1>4. QED
  BY <1>1, <1>2, <1>3

LEMMA TypedChoose ==
  ASSUME TypeOK, Shape, NEW id \in Id, Choose(id)
  PROVE  TypeOK' /\ Shape'
<1> DEFINE v == Highest(Candidates(id))
           selection == With(picked, id, v)
<1>1. /\ v \in Releases /\ <<id, v>> \in Pin
      /\ id \in Pending /\ id \notin DOMAIN picked
      /\ pc = "solve"
  <2>1. Turn(id) /\ Candidates(id) # {}
    BY DEF Choose
  <2>2. v \in Releases /\ <<id, v>> \in Pin
    BY <2>1, ChosenFits
  <2>3. pc = "solve" /\ id \in Pending
    BY <2>1 DEF Turn
  <2>4. id \notin DOMAIN picked
    BY <2>3, PendingMeans
  <2>5. QED
    BY <2>2, <2>3, <2>4
<1>2. Metadata(<<id, v>>) \in {None} \union Edition
  BY <1>1, MetadataTyped
<1>3. /\ cache' \in [Pin -> {None} \union Edition]
      /\ \A pin \in Pin : cache[pin] # None => cache'[pin] = cache[pin]
      /\ Selects(id, v) => cache'[<<id, v>>] # None
  <2>1. Metadata(<<id, v>>) # None /\ cache[<<id, v>>] # None
          => cache[<<id, v>>] = Metadata(<<id, v>>)
    BY <1>1, MetadataTyped
  <2>2. cache \in [Pin -> {None} \union Edition]
    BY DEF TypeOK
  <2>3. CASE Selects(id, v)
    BY <1>1, <1>2, <2>1, <2>2, <2>3 DEF Selects
  <2>4. CASE GivesUp(id, v) /\ ~Selects(id, v)
    BY <1>1, <1>2, <2>1, <2>2, <2>4 DEF GivesUp
  <2>5. QED
    BY <2>3, <2>4, ChooseCases
<1>4. /\ DOMAIN selection \subseteq Id /\ Range(selection) \subseteq Releases
      /\ \A d \in DOMAIN selection : selection[d] \in Releases
  BY <1>1, WithTyped, RangeWithin DEF TypeOK
<1>5. DOMAIN picked' \subseteq Id /\ Range(picked') \subseteq Releases
  BY <1>4, ChooseCases DEF Selects, GivesUp, TypeOK
<1>6. \A n \in nogoods' : DOMAIN n \subseteq Id /\ Range(n) \subseteq Releases
  <2>1. DOMAIN Only(id, v) \subseteq Id /\ Range(Only(id, v)) \subseteq Releases
    BY <1>1, OnlyTyped
  <2>2. ASSUME NEW d \in Clashes(selection, Needs[<<id, v>>][Metadata(<<id, v>>)])
        PROVE  /\ DOMAIN With(Only(d, selection[d]), id, v) \subseteq Id
               /\ Range(With(Only(d, selection[d]), id, v)) \subseteq Releases
    <3>1. d \in Id /\ selection[d] \in Releases
      BY <1>4, <2>2 DEF Clashes
    <3>2. /\ DOMAIN Only(d, selection[d]) \subseteq Id
          /\ Range(Only(d, selection[d])) \subseteq Releases
      BY <3>1, OnlyTyped
    <3>3. QED
      BY <1>1, <3>2, WithTyped
  <2>3. QED
    BY <2>1, <2>2, ChooseCases DEF Selects, GivesUp, TypeOK
<1>7. UNCHANGED <<world, versions, missed, walk, todo, removed, pc, lock, outcome>>
  BY DEF Choose
<1>8. TypeOK'
  BY <1>3, <1>5, <1>6, <1>7 DEF TypeOK, world, walk
<1>9. /\ Root \in DOMAIN picked' /\ picked'[Root] = RootVersion
      /\ \A d \in DOMAIN picked' : cache'[<<d, picked'[d]>>] # None
  <2>1. /\ Root \in DOMAIN picked /\ picked[Root] = RootVersion
        /\ \A d \in DOMAIN picked : cache[<<d, picked[d]>>] # None /\ <<d, picked[d]>> \in Pin
    BY <1>1, RangeWithin DEF Shape, TypeOK, Pin
  <2>2. CASE Selects(id, v)
    BY <1>1, <1>3, <2>1, <2>2 DEF Selects, With
  <2>3. CASE GivesUp(id, v)
    BY <1>3, <2>1, <2>3 DEF GivesUp
  <2>4. QED
    BY <2>2, <2>3, ChooseCases
<1>10. cache'[RootPin] = RootEdition
  <2>1. RootPin \in Pin /\ RootEdition # None
    BY ConstantsAssumption DEF RootPin, Pin
  <2>2. QED
    BY <1>1, <1>3, <2>1 DEF Shape
<1>11. Shape'
  BY <1>1, <1>7, <1>9, <1>10 DEF Shape, walk
<1>12. QED
  BY <1>8, <1>11

\* A resolution that ends leaves nothing of itself behind.
LEMMA TypedStop ==
  ASSUME TypeOK, Shape, NEW why \in Ending, Stop(why)
  PROVE  TypeOK' /\ Shape'
<1>1. pc' = "idle" /\ Bare'
  BY DropBare DEF Stop
<1>2. TypeOK'
  BY <1>1, BareTyped DEF Stop, TypeOK, world
<1>3. Shape'
  BY <1>1 DEF Shape, Bare
<1>4. QED
  BY <1>2, <1>3

LEMMA TypedDeadEnd ==
  ASSUME TypeOK, Shape, NEW id \in Id, DeadEnd(id)
  PROVE  TypeOK' /\ Shape'
<1>1. CASE \/ Stop("untrusted") \/ Stop("yanked") \/ Stop("discovery")
           \/ Stop("unsolvable")
  BY <1>1, TypedStop DEF Ending
<1>2. CASE /\ nogoods' = nogoods \union {picked}
           /\ picked' = Only(Root, RootVersion)
           /\ UNCHANGED <<world, provider, walk, todo, removed, pc, lock, outcome>>
  <2>1. Root \in Id /\ RootVersion \in Releases /\ RootEdition # None
    BY ConstantsAssumption
  <2>2. DOMAIN picked' \subseteq Id /\ Range(picked') \subseteq Releases
    BY <1>2, <2>1, OnlyTyped
  <2>3. TypeOK'
    BY <1>2, <2>2 DEF TypeOK, world, provider, walk
  <2>4. pc = "solve"
    BY DEF DeadEnd, Turn
  <2>5. DOMAIN picked' = {Root} /\ picked'[Root] = RootVersion
    BY <1>2 DEF Only, With
  <2>6. Shape'
    BY <1>2, <2>1, <2>4, <2>5 DEF Shape, provider, walk, RootPin
  <2>7. QED
    BY <2>3, <2>6
<1>3. QED
  BY <1>1, <1>2 DEF DeadEnd

LEMMA TypedWalk ==
  ASSUME TypeOK, Shape, (\E id \in Id : Enter(id)) \/ Leave \/ Check \/ Solve
  PROVE  TypeOK' /\ Shape'
<1>1. ASSUME NEW id \in Id, Enter(id)
      PROVE  TypeOK' /\ Shape'
  <2>1. CASE Stop("cycle")
    BY <2>1, TypedStop DEF Ending
  <2>2. CASE /\ visiting' = Append(visiting, id)
             /\ UNCHANGED <<world, provider, picked, nogoods, visited, todo, removed, pc,
                            lock, outcome>>
    <3>1. visiting' \in Seq(Id)
      BY <2>2 DEF TypeOK
    <3>2. pc = "check"
      BY <1>1 DEF Enter
    <3>3. QED
      BY <2>2, <3>1, <3>2 DEF TypeOK, Shape, world, provider
  <2>3. QED
    BY <1>1, <2>1, <2>2 DEF Enter
<1>2. ASSUME Leave
      PROVE  TypeOK' /\ Shape'
  <2>1. Len(visiting) \in 1..Len(visiting) /\ visiting \in Seq(Id)
    BY <1>2 DEF Leave, TypeOK
  <2>2. visiting' \in Seq(Id) /\ visiting[Len(visiting)] \in Id
    BY <1>2, <2>1 DEF Leave
  <2>3. QED
    BY <1>2, <2>2 DEF Leave, TypeOK, Shape, world, provider
<1>3. ASSUME Check
      PROVE  TypeOK' /\ Shape'
  <2>1. \A id \in DOMAIN picked : <<id, picked[id]>> \in Pin
    BY RangeWithin DEF TypeOK, Pin
  <2>2. PickedPins \subseteq Pin
    BY <2>1 DEF PickedPins
  <2>3. QED
    BY <1>3, <2>2 DEF Check, TypeOK, Shape, world, provider, walk
<1>4. ASSUME Solve
      PROVE  TypeOK' /\ Shape'
  BY <1>4 DEF Solve, TypeOK, Shape, world, search, provider, walk
<1>5. QED
  BY <1>1, <1>2, <1>3, <1>4

LEMMA TypedMaterialize ==
  ASSUME TypeOK, Shape, NEW pin \in todo, Materialize(pin)
  PROVE  TypeOK' /\ Shape'
<1> DEFINE found == Available(pin)
<1>1. pin \in Pin /\ found \in {None} \union Edition /\ pc = "materialize"
  BY DEF TypeOK, Materialize, Available
<1>2. CASE Stop("unavailable")
  BY <1>2, TypedStop DEF Ending
<1>3. CASE ~Stop("unavailable")
  <2>1. /\ stored' = [stored EXCEPT ![pin] = found]
        /\ UNCHANGED <<offer, yanked, sources, sealed, changes, still, lock>>
    BY <1>3 DEF Materialize
  <2>2. CASE /\ todo' = todo \ {pin}
             /\ UNCHANGED <<provider, picked, nogoods, walk, removed, pc, outcome>>
    BY <1>1, <2>1, <2>2 DEF TypeOK, Shape, provider, walk
  <2>3. CASE Drop /\ outcome' = "mismatch"
    <3>1. pc' = "idle" /\ Bare'
      BY <2>3, DropBare
    <3>2. TypeOK'
      BY <1>1, <2>1, <2>3, <3>1, BareTyped DEF TypeOK, Ending
    <3>3. Shape'
      BY <3>1 DEF Shape, Bare
    <3>4. QED
      BY <3>2, <3>3
  <2>4. QED
    BY <1>3, <2>2, <2>3 DEF Materialize
<1>4. QED
  BY <1>2, <1>3

LEMMA TypedSave ==
  ASSUME TypeOK, Shape, Save
  PROVE  TypeOK' /\ Shape'
<1>1. pc' = "idle" /\ Bare' /\ pc = "materialize"
  BY DropBare DEF Save
<1>2. \A id \in DOMAIN picked :
        /\ picked[id] \in Releases /\ <<id, picked[id]>> \in Pin
        /\ cache[<<id, picked[id]>>] \in Edition
  BY RangeWithin DEF TypeOK, Shape, Pin
<1>3. /\ DOMAIN lock' = DOMAIN picked
      /\ \A id \in DOMAIN lock' : /\ lock'[id] \in Locked
                                  /\ id # Root => lock'[id].edition \in Edition
  BY <1>2 DEF Save, Locked
<1>4. Range(lock') \subseteq Locked
  BY <1>3, RangeWithin
<1>5. Root \in DOMAIN lock' /\ DOMAIN lock' \subseteq Id
  BY <1>1, <1>3 DEF Shape, TypeOK
<1>6. \A id \in DOMAIN lock' \ {Root} : lock'[id].edition # None
  BY <1>3, ConstantsAssumption
<1>7. TypeOK'
  BY <1>1, <1>4, <1>5, <1>6, BareTyped DEF Save, TypeOK, world, Ending
<1>8. Shape'
  BY <1>1 DEF Shape, Bare
<1>9. QED
  BY <1>7, <1>8

LEMMA TypedStep ==
  ASSUME TypeOK, Shape, [Next]_vars
  PROVE  TypeOK' /\ Shape'
<1>1. CASE Resolve
  <2>1. Root \in Id /\ RootVersion \in Releases /\ RootEdition \in Edition /\ None \notin Edition
    BY ConstantsAssumption
  <2>2. /\ DOMAIN picked' \subseteq Id /\ Range(picked') \subseteq Releases
        /\ DOMAIN picked' = {Root} /\ picked'[Root] = RootVersion
    BY <1>1, <2>1, OnlyTyped DEF Resolve, Only, With
  <2>3. RootPin \in Pin /\ cache' \in [Pin -> {None} \union Edition] /\ cache'[RootPin] = RootEdition
    BY <1>1, <2>1 DEF Resolve, RootPin, Pin, Empty
  <2>4. TypeOK'
    BY <1>1, <2>2, <2>3 DEF Resolve, TypeOK, walk, Ending
  <2>5. Shape'
    BY <1>1, <2>1, <2>2, <2>3 DEF Resolve, Shape, Bare, walk, RootPin
  <2>6. QED
    BY <2>4, <2>5
<1>2. ASSUME NEW id \in Id, ListVersions(id)
      PROVE  TypeOK' /\ Shape'
  BY <1>2 DEF ListVersions, Listed, TypeOK, Shape, world, walk
<1>2a. ASSUME NEW id \in Id, Distrust(id)
      PROVE  TypeOK' /\ Shape'
  BY <1>2a, TypedStop DEF Distrust, Ending
<1>3. ASSUME NEW id \in Id, Choose(id)
      PROVE  TypeOK' /\ Shape'
  BY <1>3, TypedChoose
<1>4. ASSUME NEW id \in Id, DeadEnd(id)
      PROVE  TypeOK' /\ Shape'
  BY <1>4, TypedDeadEnd
<1>5. CASE (\E id \in Id : Enter(id)) \/ Leave \/ Check \/ Solve
  BY <1>5, TypedWalk
<1>6. ASSUME NEW pin \in todo, Materialize(pin)
      PROVE  TypeOK' /\ Shape'
  BY <1>6, TypedMaterialize
<1>7. CASE Save
  BY <1>7, TypedSave
<1>8. CASE Interrupt
  BY <1>8, TypedStop DEF Interrupt, Ending
<1>9. CASE Discard
  BY <1>9 DEF Discard, TypeOK, Shape, Bare, Ending, world, search, provider, walk
<1>10. CASE Others
  <2>1. TypeOK'
    BY <1>10, OthersFrame DEF TypeOK, provider, walk, Ending
  <2>2. Shape'
    BY <1>10, OthersFrame DEF Shape, Bare, provider, walk
  <2>3. QED
    BY <2>1, <2>2
<1>11. CASE UNCHANGED vars
  BY <1>11 DEF vars, TypeOK, Shape, Bare, world, search, provider, walk
<1>12. QED
  BY <1>1, <1>2, <1>3, <1>4, <1>5, <1>6, <1>7, <1>8, <1>9, <1>10, <1>11, <1>2a
     DEF Next, Others

THEOREM TypeCorrect == Spec => [](TypeOK /\ Shape)
BY TypedInit, TypedStep, PTL DEF Spec

-----------------------------------------------------------------------------
(* The selection and the search for circles in it.                         *)

\* What is selected fits what the selection requires, is needed by it and, once
\* the solver is done, has in it all that it needs.  What the root may require of
\* itself was not looked at: that is a circle.
Agreed ==
  \A id \in DOMAIN picked :
    /\ \A d \in Deps(id) \intersect DOMAIN picked :
         (d = Root /\ id = Root) \/ InRanges(DepsOf(id, picked[id])[d], picked[d])
    /\ id = Root \/ \E d \in DOMAIN picked : id \in Deps(d)
    /\ pc \in {"check", "materialize"} => Deps(id) \subseteq DOMAIN picked

\* A package whose visit is over is on no circle, and neither is anything it
\* needs: of any set of such packages one needs no other.
Walked ==
  /\ Range(visiting) \union visited \subseteq DOMAIN picked
  /\ \A id \in visited : Deps(id) \subseteq visited
  /\ \A S \in (SUBSET visited) \ {{}} : \E id \in S : Deps(id) \intersect S = {}
  /\ pc = "materialize" => DOMAIN picked \subseteq visited

\* LockSolved, by the ranges of resolve.rs.
LockMet ==
  lock # None =>
    /\ \A id \in DOMAIN lock : \A d \in DOMAIN LockedNeeds(id) :
         d \in DOMAIN lock /\ InRanges(LockedNeeds(id)[d], lock[d].version)
    /\ \A d \in DOMAIN lock \ {Root} :
         \E id \in DOMAIN lock : d \in DOMAIN LockedNeeds(id)
    /\ \A S \in (SUBSET DOMAIN lock) \ {{}} :
         \E id \in S : DOMAIN LockedNeeds(id) \intersect S = {}

Solved == Agreed /\ Walked /\ LockMet

LEMMA SolvedInit == Init => Solved
<1> SUFFICES ASSUME Init PROVE Solved
  OBVIOUS
<1>1. picked = <<>> /\ visiting = <<>> /\ visited = {} /\ lock = None /\ pc = "idle"
  BY DEF Init
<1>2. DOMAIN picked = {} /\ Range(visiting) \subseteq {}
  BY <1>1, RangeOfNone
<1>3. Agreed /\ LockMet
  BY <1>1, <1>2 DEF Agreed, LockMet
<1>4. Walked
  BY <1>1, <1>2 DEF Walked
<1>5. QED
  BY <1>3, <1>4 DEF Solved

LEMMA BareAgreed == ASSUME Bare', pc' = "idle" PROVE Agreed' /\ Walked'
<1>1. picked' = <<>> /\ visiting' = <<>> /\ visited' = {}
  BY DEF Bare
<1>2. DOMAIN picked' = {} /\ Range(visiting') \subseteq {}
  BY <1>1, RangeOfNone
<1>3. Agreed'
  BY <1>2 DEF Agreed
<1>4. Walked'
  BY <1>1, <1>2 DEF Walked
<1>5. QED
  BY <1>3, <1>4

LEMMA LockStays == ASSUME LockMet, lock' \in {lock, None} PROVE LockMet'
<1>1. CASE lock' = None
  BY <1>1 DEF LockMet
<1>2. CASE lock' = lock
  BY <1>2 DEF LockMet, LockedNeeds
<1>3. QED
  BY <1>1, <1>2

LEMMA SolvedStop ==
  ASSUME Solved, Drop, lock' \in {lock, None}
  PROVE  Solved'
BY DropBare, BareAgreed, LockStays DEF Solved

\* Nothing changes as long as selection, metadata and walk do not.
LEMMA SolvedStays ==
  ASSUME Solved, UNCHANGED <<cache, picked, walk>>, lock' \in {lock, None},
         pc' \in {"check", "materialize"} => pc = pc'
  PROVE  Solved'
<1>1. Agreed'
  BY DEF Solved, Agreed, Deps, DepsOf
<1>2. Walked'
  BY DEF Solved, Walked, Deps, DepsOf, walk
<1>3. QED
  BY <1>1, <1>2, LockStays DEF Solved

LEMMA SolvedChoose ==
  ASSUME TypeOK, Shape, Solved, NEW id \in Id, Choose(id)
  PROVE  Solved'
<1> DEFINE v == Highest(Candidates(id))
           pin == <<id, v>>
<1>1. Turn(id) /\ Candidates(id) # {} /\ UNCHANGED <<walk, pc, lock>>
  BY DEF Choose
<1>2. pc = "solve" /\ id \in Pending
  BY <1>1 DEF Turn
<1>3. id \notin DOMAIN picked /\ \E d \in DOMAIN picked : id \in Deps(d)
  BY <1>2, PendingMeans
<1>4. Fits(id, v) /\ pin \in Pin
  BY <1>1, ChosenFits
<1>5. /\ cache \in [Pin -> {None} \union Edition]
      /\ picked' # picked => Selects(id, v)
  BY ChooseCases DEF TypeOK, GivesUp
<1>6. \A d \in DOMAIN picked : cache'[<<d, picked[d]>>] = cache[<<d, picked[d]>>]
  <2>1. \A d \in DOMAIN picked : <<d, picked[d]>> # pin /\ <<d, picked[d]>> \in Pin
    BY <1>3, RangeWithin DEF TypeOK, Pin
  <2>2. CASE Selects(id, v)
    BY <2>1, <2>2, <1>5 DEF Selects, TypeOK
  <2>3. CASE GivesUp(id, v)
    BY <2>1, <2>3, <1>5 DEF GivesUp, TypeOK
  <2>4. QED
    BY <2>2, <2>3, ChooseCases
<1>7. CASE Selects(id, v)
  <2> DEFINE e == Metadata(pin)
             sel == With(picked, id, v)
  <2>1. picked' = sel /\ cache'[pin] = e /\ Clashes(sel, Needs[pin][e]) = {}
    BY <1>4, <1>5, <1>7 DEF Selects, TypeOK
  <2>2. DOMAIN picked' = DOMAIN picked \union {id} /\ picked'[id] = v
        /\ \A d \in DOMAIN picked : picked'[d] = picked[d]
    BY <1>3, <2>1 DEF With
  <2>3. \A d \in DOMAIN picked : DepsOf(d, picked[d])' = DepsOf(d, picked[d])
    BY <1>6, <2>2 DEF DepsOf
  <2>4. DepsOf(id, picked[id])' = Needs[pin][e]
    BY <2>1, <2>2 DEF DepsOf
  <2>5. \A d \in DOMAIN Needs[pin][e] : d \in DOMAIN picked' => InRanges(Needs[pin][e][d], picked'[d])
    BY <2>1 DEF Clashes
  <2>6. \A d \in DOMAIN picked : id \in Deps(d) => InRanges(DepsOf(d, picked[d])[id], v)
    BY <1>4 DEF Fits, Deps
  <2>7. Agreed'
    <3>1. SUFFICES ASSUME NEW x \in DOMAIN picked'
                   PROVE  /\ \A d \in Deps(x)' : d \in DOMAIN picked' =>
                               \/ d = Root /\ x = Root
                               \/ InRanges(DepsOf(x, picked[x])'[d], picked'[d])
                          /\ x = Root \/ \E d \in DOMAIN picked' : x \in Deps(d)'
      BY <1>1, <1>2 DEF Agreed
    <3>2. CASE x = id
      BY <1>3, <2>2, <2>3, <2>4, <2>5, <3>2 DEF Deps
    <3>3. CASE x # id
      <4>1. x \in DOMAIN picked
        BY <2>2, <3>3
      <4>2. \A d \in Deps(x) \intersect DOMAIN picked :
              (d = Root /\ x = Root) \/ InRanges(DepsOf(x, picked[x])[d], picked[d])
        BY <4>1 DEF Solved, Agreed
      <4>3. x = Root \/ \E d \in DOMAIN picked : x \in Deps(d)
        BY <4>1 DEF Solved, Agreed
      <4>4. QED
        BY <2>2, <2>3, <2>6, <4>1, <4>2, <4>3 DEF Deps
    <3>4. QED
      BY <3>2, <3>3
  <2>8. visiting' = <<>> /\ visited' = {} /\ pc' = "solve"
    BY <1>1, <1>2 DEF Shape, walk
  <2>9. Range(visiting') \subseteq {}
    BY <2>8, RangeOfNone
  <2>10. Walked'
    BY <2>8, <2>9 DEF Walked
  <2>11. QED
    BY <1>1, <2>7, <2>10, LockStays DEF Solved
<1>8. CASE ~Selects(id, v)
  <2>1. picked' = picked
    BY <1>5, <1>8
  <2>2. \A d \in DOMAIN picked : DepsOf(d, picked[d])' = DepsOf(d, picked[d])
    BY <1>6, <2>1 DEF DepsOf
  <2>3. Agreed'
    BY <1>1, <2>1, <2>2 DEF Solved, Agreed, Deps
  <2>4. Walked'
    <3>1. visiting' = visiting /\ visited' = visited /\ pc' = pc /\ visited \subseteq DOMAIN picked
      BY <1>1 DEF walk, Solved, Walked
    <3>2. \A d \in visited : Deps(d)' = Deps(d)
      BY <2>2, <3>1 DEF Deps
    <3>3. QED
      BY <2>1, <3>1, <3>2 DEF Solved, Walked
  <2>5. QED
    BY <1>1, <2>3, <2>4, LockStays DEF Solved
<1>9. QED
  BY <1>7, <1>8

\* Going back to the root alone: nothing is asked of the root but what it asks itself.
LEMMA SolvedBack ==
  ASSUME Shape, Solved, NEW id, DeadEnd(id)
  PROVE  Solved'
<1>1. CASE \/ Stop("untrusted") \/ Stop("yanked") \/ Stop("discovery")
           \/ Stop("unsolvable")
  BY <1>1, SolvedStop DEF Stop
<1>2. CASE /\ picked' = Only(Root, RootVersion)
           /\ UNCHANGED <<world, provider, walk, todo, removed, pc, lock, outcome>>
  <2>1. DOMAIN picked' = {Root} /\ picked'[Root] = RootVersion
    BY <1>2 DEF Only, With
  <2>2. pc = "solve"
    BY DEF DeadEnd, Turn
  <2>3. /\ pc' = "solve" /\ visiting' = <<>> /\ visited' = {} /\ cache' = cache /\ lock' = lock
        /\ Root \in DOMAIN picked /\ picked[Root] = RootVersion
    BY <1>2, <2>2 DEF Shape, provider, walk
  <2>4. Range(visiting') \subseteq {}
    BY <2>3, RangeOfNone
  <2>5. Walked'
    BY <2>3, <2>4 DEF Walked
  <2>6. Agreed'
    BY <2>1, <2>3 DEF Agreed
  <2>7. QED
    BY <2>3, <2>5, <2>6, LockStays DEF Solved
<1>3. QED
  BY <1>1, <1>2 DEF DeadEnd

LEMMA LastOf ==
  ASSUME NEW s \in Seq(Id), s # <<>>
  PROVE  s[Len(s)] \in Range(s) /\ Range(SubSeq(s, 1, Len(s) - 1)) \subseteq Range(s)
<1>1. Len(s) \in DOMAIN s
  OBVIOUS
<1>2. s[Len(s)] \in Range(s)
  BY <1>1 DEF Range
<1>3. \A i \in DOMAIN SubSeq(s, 1, Len(s) - 1) :
        i \in DOMAIN s /\ SubSeq(s, 1, Len(s) - 1)[i] = s[i]
  OBVIOUS
<1>4. QED
  BY <1>2, <1>3 DEF Range

LEMMA RangeOfAppend ==
  ASSUME NEW s \in Seq(Id), NEW id \in Id
  PROVE  Range(Append(s, id)) \subseteq Range(s) \union {id}
<1>1. \A i \in DOMAIN Append(s, id) :
        Append(s, id)[i] = id \/ (i \in DOMAIN s /\ Append(s, id)[i] = s[i])
  OBVIOUS
<1>2. QED
  BY <1>1 DEF Range

LEMMA CalledMeans ==
  /\ visiting = <<>> => Called = DOMAIN picked
  /\ visiting # <<>> => Called = Deps(visiting[Len(visiting)]) \intersect DOMAIN picked
BY DEF Called, Deps

\* The whole walk: a package is entered, left, and the last one was left.
LEMMA SolvedWalk ==
  ASSUME TypeOK, Shape, Solved, (\E id \in Id : Enter(id)) \/ Leave \/ Check \/ Solve
  PROVE  Solved'
<1>1. ASSUME NEW id \in Id, Enter(id)
      PROVE  Solved'
  <2>1. CASE Stop("cycle")
    BY <2>1, SolvedStop DEF Stop
  <2>2. CASE /\ visiting' = Append(visiting, id)
             /\ UNCHANGED <<world, provider, picked, nogoods, visited, todo, removed, pc,
                            lock, outcome>>
    <3>1. id \in DOMAIN picked
      BY <1>1, CalledMeans DEF Enter
    <3>2. Range(visiting') \subseteq Range(visiting) \union {id}
      BY <2>2, RangeOfAppend DEF TypeOK
    <3>3. UNCHANGED <<cache, picked, visited, pc, lock>>
      BY <2>2 DEF provider
    <3>4. Agreed'
      BY <3>3 DEF Solved, Agreed, Deps, DepsOf
    <3>5. Walked'
      BY <3>1, <3>2, <3>3 DEF Solved, Walked, Deps, DepsOf
    <3>6. QED
      BY <3>3, <3>4, <3>5, LockStays DEF Solved
  <2>3. QED
    BY <1>1, <2>1, <2>2 DEF Enter
<1>2. ASSUME Leave
      PROVE  Solved'
  <2> DEFINE last == visiting[Len(visiting)]
  <2>1. /\ pc = "check" /\ visiting # <<>> /\ Called \subseteq visited
        /\ visiting' = SubSeq(visiting, 1, Len(visiting) - 1)
        /\ visited' = visited \union {last}
        /\ UNCHANGED <<cache, picked, pc, lock>>
    BY <1>2 DEF Leave, provider
  <2>2. last \in Range(visiting) /\ Range(visiting') \subseteq Range(visiting)
    BY <2>1, LastOf DEF TypeOK
  <2>3. last \in DOMAIN picked
    BY <2>2 DEF Solved, Walked
  <2>4. Deps(last) \subseteq visited
    <3>1. Deps(last) \subseteq DOMAIN picked
      BY <2>1, <2>3 DEF Solved, Agreed
    <3>2. QED
      BY <2>1, <3>1, CalledMeans
  <2>5. \A d \in DOMAIN picked : Deps(d)' = Deps(d)
    BY <2>1 DEF Deps, DepsOf
  <2>6. ASSUME NEW S \in SUBSET visited', S # {}
        PROVE  \E id \in S : Deps(id) \intersect S = {}
    <3>1. CASE S \intersect visited = {}
      BY <2>1, <2>4, <2>6, <3>1
    <3>2. CASE S \intersect visited # {}
      <4>1. PICK x \in S \intersect visited : Deps(x) \intersect (S \intersect visited) = {}
        BY <3>2 DEF Solved, Walked
      <4>2. Deps(x) \subseteq visited
        BY <4>1 DEF Solved, Walked
      <4>3. QED
        BY <4>1, <4>2
    <3>3. QED
      BY <3>1, <3>2
  <2>7. Agreed'
    BY <2>1, <2>5 DEF Solved, Agreed, Deps, DepsOf
  <2>8. Walked'
    <3>1. visited' \subseteq DOMAIN picked
      BY <2>1, <2>3 DEF Solved, Walked
    <3>2. \A id \in visited' : Deps(id)' \subseteq visited'
      BY <2>1, <2>4, <2>5, <3>1 DEF Solved, Walked
    <3>3. \A S \in (SUBSET visited') \ {{}} : \E id \in S : Deps(id)' \intersect S = {}
      BY <2>5, <2>6, <3>1
    <3>4. Range(visiting') \subseteq DOMAIN picked
      BY <2>2 DEF Solved, Walked
    <3>5. QED
      BY <2>1, <3>1, <3>2, <3>3, <3>4 DEF Walked
  <2>9. QED
    BY <2>1, <2>7, <2>8, LockStays DEF Solved
<1>3. ASSUME Check
      PROVE  Solved'
  <2>1. /\ pc = "check" /\ visiting = <<>> /\ Called \subseteq visited
        /\ UNCHANGED <<cache, picked, visiting, visited, lock>>
    BY <1>3 DEF Check, provider, walk
  <2>2. DOMAIN picked \subseteq visited
    BY <2>1, CalledMeans
  <2>3. Agreed'
    BY <2>1 DEF Solved, Agreed, Deps, DepsOf
  <2>4. Walked'
    BY <2>1, <2>2 DEF Solved, Walked, Deps, DepsOf
  <2>5. QED
    BY <2>1, <2>3, <2>4, LockStays DEF Solved
<1>4. ASSUME Solve
      PROVE  Solved'
  <2>1. Pending = {} /\ pc' = "check" /\ UNCHANGED <<cache, picked, visiting, visited, lock>>
    BY <1>4 DEF Solve, search, provider, walk
  <2>2. \A id \in DOMAIN picked : Deps(id) \subseteq DOMAIN picked
    BY <2>1, PendingMeans
  <2>3. Agreed'
    BY <2>1, <2>2 DEF Solved, Agreed, Deps, DepsOf
  <2>4. Walked'
    BY <2>1 DEF Solved, Walked, Deps, DepsOf
  <2>5. QED
    BY <2>1, <2>3, <2>4, LockStays DEF Solved
<1>5. QED
  BY <1>1, <1>2, <1>3, <1>4

\* What is written is the selection, and the metadata it was solved with.
LEMMA SavedNeeds ==
  ASSUME TypeOK, Shape, Save, NEW id \in DOMAIN picked
  PROVE  LockedNeeds(id)' = DepsOf(id, picked[id]) /\ lock'[id].version = picked[id]
<1>1. /\ lock' = [d \in DOMAIN picked |->
                   [version |-> picked[d],
                    edition |-> IF d = Root /\ ~sealed THEN None
                                ELSE cache[<<d, picked[d]>>]]]
      /\ pc = "materialize"
  BY DEF Save
<1>2. cache[<<id, picked[id]>>] # None
  BY DEF Shape
<1>3. id = Root => <<id, picked[id]>> = RootPin /\ cache[<<id, picked[id]>>] = RootEdition
  BY <1>1 DEF Shape, RootPin
<1>4. /\ lock'[id].version = picked[id]
      /\ lock'[id].edition = IF id = Root /\ ~sealed THEN None ELSE cache[<<id, picked[id]>>]
  BY <1>1
<1>5. QED
  BY <1>2, <1>3, <1>4 DEF LockedNeeds, DepsOf

LEMMA SolvedSave ==
  ASSUME TypeOK, Shape, Solved, Save
  PROVE  Solved'
<1>1. DOMAIN lock' = DOMAIN picked /\ pc = "materialize" /\ Drop
  BY DEF Save
<1>2. \A id \in DOMAIN picked :
        /\ LockedNeeds(id)' = DepsOf(id, picked[id])
        /\ lock'[id].version = picked[id]
  BY SavedNeeds
<1>3. DOMAIN picked \subseteq visited
  BY <1>1 DEF Solved, Walked
<1>4. \A id \in DOMAIN lock' : \A d \in DOMAIN LockedNeeds(id)' :
        d \in DOMAIN lock' /\ InRanges(LockedNeeds(id)'[d], lock'[d].version)
  <2>1. TAKE id \in DOMAIN lock'
  <2>2. Deps(id) \subseteq DOMAIN picked
    BY <1>1 DEF Solved, Agreed
  <2>3. id \notin Deps(id)
    <3>1. {id} \in (SUBSET visited) \ {{}}
      BY <1>1, <1>3
    <3>2. QED
      BY <3>1 DEF Solved, Walked
  <2>4. QED
    BY <1>1, <1>2, <2>2, <2>3 DEF Solved, Agreed, Deps
<1>5. \A d \in DOMAIN lock' \ {Root} :
        \E id \in DOMAIN lock' : d \in DOMAIN LockedNeeds(id)'
  BY <1>1, <1>2 DEF Solved, Agreed, Deps
<1>6. \A S \in (SUBSET DOMAIN lock') \ {{}} :
        \E id \in S : DOMAIN LockedNeeds(id)' \intersect S = {}
  <2>1. TAKE S \in (SUBSET DOMAIN lock') \ {{}}
  <2>2. PICK id \in S : Deps(id) \intersect S = {}
    BY <1>1, <1>3 DEF Solved, Walked
  <2>3. QED
    BY <1>1, <1>2, <2>2 DEF Deps
<1>7. LockMet'
  BY <1>4, <1>5, <1>6 DEF LockMet
<1>8. QED
  BY <1>1, <1>7, DropBare, BareAgreed DEF Solved

LEMMA SolvedStep ==
  ASSUME TypeOK, Shape, Solved, [Next]_vars
  PROVE  Solved'
<1>1. CASE Resolve
  <2>1. pc' = "solve" /\ visiting' = <<>> /\ visited' = {} /\ lock' = lock
        /\ picked' = Only(Root, RootVersion)
    BY <1>1 DEF Resolve, Shape, Bare, walk
  <2>2. DOMAIN picked' = {Root} /\ picked'[Root] = RootVersion
    BY <2>1 DEF Only, With
  <2>3. Range(visiting') \subseteq {}
    BY <2>1, RangeOfNone
  <2>4. Walked'
    BY <2>1, <2>3 DEF Walked
  <2>5. QED
    BY <2>1, <2>2, <2>4, LockStays DEF Solved, Agreed
<1>2. ASSUME NEW id \in Id, ListVersions(id)
      PROVE  Solved'
  BY <1>2, SolvedStays DEF ListVersions
<1>2a. ASSUME NEW id \in Id, Distrust(id)
      PROVE  Solved'
  BY <1>2a, SolvedStop DEF Distrust, Stop
<1>3. ASSUME NEW id \in Id, Choose(id)
      PROVE  Solved'
  BY <1>3, SolvedChoose
<1>4. ASSUME NEW id \in Id, DeadEnd(id)
      PROVE  Solved'
  BY <1>4, SolvedBack
<1>5. CASE (\E id \in Id : Enter(id)) \/ Leave \/ Check \/ Solve
  BY <1>5, SolvedWalk
<1>6. ASSUME NEW pin \in todo, Materialize(pin)
      PROVE  Solved'
  <2>1. CASE Drop /\ lock' = lock
    BY <2>1, SolvedStop
  <2>2. CASE UNCHANGED <<provider, picked, nogoods, walk, removed, pc, outcome>> /\ lock' = lock
    BY <2>2, SolvedStays DEF provider
  <2>3. QED
    BY <1>6, <2>1, <2>2 DEF Materialize, Stop
<1>7. CASE Save
  BY <1>7, SolvedSave
<1>8. CASE Interrupt
  BY <1>8, SolvedStop DEF Interrupt, Stop
<1>9. CASE Discard
  BY <1>9, SolvedStays DEF Discard, search, provider
<1>10. CASE Others
  BY <1>10, OthersFrame, SolvedStays DEF provider
<1>11. CASE UNCHANGED vars
  BY <1>11, SolvedStays DEF vars, search, provider
<1>12. QED
  BY <1>1, <1>2, <1>3, <1>4, <1>5, <1>6, <1>7, <1>8, <1>9, <1>10, <1>11, <1>2a
     DEF Next, Others

\* Save writes lar.lock, nothing else does (write_lockfile).
LEMMA OnlySaveLocks ==
  ASSUME TypeOK, [Next]_vars, lock' \notin {lock, None}
  PROVE  Save
<1>1. ASSUME NEW id \in Id
      PROVE  ~(ListVersions(id) \/ Distrust(id) \/ Choose(id) \/ DeadEnd(id) \/ Enter(id))
  BY DEF ListVersions, Distrust, Choose, DeadEnd, Enter, Stop
<1>2. ~(Resolve \/ Solve \/ Leave \/ Check \/ Interrupt \/ Discard)
  BY DEF Resolve, Solve, Leave, Check, Interrupt, Stop, Discard
<1>3. ASSUME NEW pin \in todo
      PROVE  ~Materialize(pin)
  BY DEF Materialize, Stop
<1>4. ~Others
  BY OthersFrame
<1>5. ~UNCHANGED vars
  BY DEF vars
<1>6. QED
  BY <1>1, <1>2, <1>3, <1>4, <1>5 DEF Next, Others

\* The three hold together.
LEMMA Sound == Spec => [](TypeOK /\ Shape /\ Solved)
<1>1. Init => TypeOK /\ Shape /\ Solved
  BY TypedInit, SolvedInit
<1>2. TypeOK /\ Shape /\ Solved /\ [Next]_vars => (TypeOK /\ Shape /\ Solved)'
  BY TypedStep, SolvedStep
<1>3. QED
  BY <1>1, <1>2, PTL DEF Spec

LEMMA LockedTyped ==
  ASSUME TypeOK, lock # None, NEW id \in DOMAIN lock
  PROVE  /\ lock[id].version \in Version
         /\ \A d \in DOMAIN LockedNeeds(id) : LockedNeeds(id)[d] \in SUBSET Comparator
<1>1. lock[id] \in Locked /\ id \in Id
  BY RangeWithin DEF TypeOK
<1>2. lock[id].version \in Releases /\ lock[id].edition \in {None} \union Edition
  BY <1>1 DEF Locked
<1>3. <<id, lock[id].version>> \in Pin
  BY <1>1, <1>2 DEF Pin
<1>4. (IF lock[id].edition = None THEN RootEdition ELSE lock[id].edition) \in Edition
  BY <1>2, ConstantsAssumption
<1>5. QED
  BY <1>2, <1>3, <1>4, ConstantsAssumption DEF LockedNeeds

\* Whatever publishers, other commands and the network do during a resolution,
\* a lockfile holds a solution without circles (resolve_manifest).
THEOREM LockfilesHoldSolutions == Spec => []LockSolved
<1>1. ASSUME TypeOK, Solved PROVE LockSolved
  <2>1. SUFFICES ASSUME lock # None,
                        NEW id \in DOMAIN lock, NEW d \in DOMAIN LockedNeeds(id)
                 PROVE  /\ d \in DOMAIN lock
                        /\ \A c \in LockedNeeds(id)[d] : Satisfies(c, lock[d].version)
    BY <1>1 DEF LockSolved, Solved, LockMet
  <2>2. d \in DOMAIN lock /\ InRanges(LockedNeeds(id)[d], lock[d].version)
    BY <1>1, <2>1 DEF Solved, LockMet
  <2>3. lock[d].version \in Version /\ LockedNeeds(id)[d] \in SUBSET Comparator
    BY <1>1, <2>1, <2>2, LockedTyped
  <2>4. ASSUME NEW c \in LockedNeeds(id)[d]
        PROVE  Satisfies(c, lock[d].version)
    <3>1. c \in Comparator /\ InRange(c, lock[d].version)
      BY <2>2, <2>3, <2>4 DEF InRanges
    <3>2. QED
      BY <2>3, <3>1, ComparatorAsMeant DEF Satisfies
  <2>5. QED
    BY <2>2, <2>4
<1>2. QED
  BY <1>1, Sound, PTL

\* Whatever lockfile is accepted, and whatever has become of the store since it
\* was written: what a runtime is composed of meets its own requirements
\* (verify_lockfile_ready).
THEOREM AcceptedIsClosed == Spec => []ComposedClosed
<1>1. ASSUME Solved PROVE ComposedClosed
  <2>1. SUFFICES ASSUME Ready, NEW id \in DOMAIN lock
                 PROVE  LET needs == Needs[<<id, lock[id].version>>][stored[<<id, lock[id].version>>]]
                        IN  \A d \in DOMAIN needs :
                              d \in DOMAIN lock /\ InRanges(needs[d], lock[d].version)
    BY DEF ComposedClosed
  <2>2. /\ lock # None /\ lock[id].edition # None
        /\ stored[<<id, lock[id].version>>] = lock[id].edition
    BY <2>1 DEF Ready
  <2>3. LockedNeeds(id) = Needs[<<id, lock[id].version>>][stored[<<id, lock[id].version>>]]
    BY <2>2 DEF LockedNeeds
  <2>4. QED
    BY <1>1, <2>2, <2>3 DEF Solved, LockMet
<1>2. QED
  BY <1>1, Sound, PTL

-----------------------------------------------------------------------------
(* What the store holds when a lockfile is written.                        *)

Stocked ==
  pc = "materialize" =>
    \A id \in DOMAIN picked :
      LET pin == <<id, picked[id]>>
      IN  \/ pin \in todo
          \/ id = Root /\ ~sealed
          \/ stored[pin] = cache[pin]
          \/ pin \in removed

LEMMA StockedStep ==
  ASSUME TypeOK, Shape, Stocked, [Next]_vars
  PROVE  Stocked'
<1>1. \A id \in DOMAIN picked : <<id, picked[id]>> \in Pin
  BY RangeWithin DEF TypeOK, Pin
<1>2. CASE pc' # "materialize"
  BY <1>2 DEF Stocked
<1>3. CASE Check
  <2>1. \A id \in DOMAIN picked : <<id, picked[id]>> \in PickedPins
    BY DEF PickedPins
  <2>2. picked' = picked /\ sealed' = sealed
    BY <1>3 DEF Check, world
  <2>3. \A id \in DOMAIN picked :
          <<id, picked[id]>> \in todo' \/ (id = Root /\ ~sealed)
    BY <1>3, <2>1, ConstantsAssumption DEF Check, RootPin
  <2>4. QED
    BY <2>2, <2>3 DEF Stocked
<1>4. ASSUME NEW pin \in todo, Materialize(pin), pc' = "materialize"
      PROVE  Stocked'
  <2> DEFINE found == Available(pin)
  <2>1. /\ stored' = [stored EXCEPT ![pin] = found] /\ found = cache[pin]
        /\ todo' = todo \ {pin} /\ sealed' = sealed
        /\ UNCHANGED <<cache, picked, removed, pc>>
    BY <1>4 DEF Materialize, Stop, Drop, provider
  <2>2. pin \in Pin /\ stored \in [Pin -> {None} \union Edition]
    BY DEF TypeOK
  <2>3. QED
    BY <1>1, <2>1, <2>2 DEF Stocked
<1>5. CASE Others /\ pc' = "materialize"
  <2>1. /\ UNCHANGED <<sealed, cache, picked, todo, pc>>
        /\ removed \subseteq removed'
        /\ \A pin \in Pin : stored[pin] \in {None, stored'[pin]} \/ pin \in removed'
    BY <1>5, OthersFrame DEF provider
  <2>2. \A id \in DOMAIN picked : cache[<<id, picked[id]>>] # None
    BY DEF Shape
  <2>3. QED
    BY <1>1, <1>5, <2>1, <2>2 DEF Stocked
<1>6. CASE UNCHANGED vars
  BY <1>6 DEF vars, Stocked, world, search, provider
<1>7. ASSUME pc' = "materialize", Next
      PROVE  Check \/ (\E pin \in todo : Materialize(pin)) \/ Others
  <2>1. ~Resolve /\ ~Solve /\ ~Save /\ ~Interrupt
    BY <1>7 DEF Resolve, Solve, Save, Interrupt, Stop, Drop
  <2>2. ~Leave
    BY <1>7 DEF Leave
  <2>3. ~Discard
    BY <1>7 DEF Discard
  <2>4. ASSUME NEW id \in Id
        PROVE  ~(ListVersions(id) \/ Distrust(id) \/ Choose(id) \/ DeadEnd(id) \/ Enter(id))
    BY <1>7 DEF ListVersions, Distrust, Choose, DeadEnd, Enter, Turn, Stop, Drop
  <2>5. QED
    BY <1>7, <2>1, <2>2, <2>3, <2>4 DEF Next, Others
<1>8. QED
  BY <1>2, <1>3, <1>4, <1>5, <1>6, <1>7

\* When a lockfile is written the store holds every package in it, with the very
\* contents whose requirements were solved, unless another command has removed
\* it meanwhile (materialize).
THEOREM LockedIsInStore == Spec => LockStored
<1>1. Init => Stocked
  BY DEF Init, Stocked
<1>2. Spec => [](TypeOK /\ Shape /\ Stocked)
  <2>1. Init => TypeOK /\ Shape /\ Stocked
    BY <1>1, TypedInit
  <2>2. TypeOK /\ Shape /\ Stocked /\ [Next]_vars => (TypeOK /\ Shape /\ Stocked)'
    BY TypedStep, StockedStep
  <2>3. QED
    BY <2>1, <2>2, PTL DEF Spec
<1> DEFINE Kept ==
      lock' \notin {lock, None} =>
        \A id \in DOMAIN lock' :
          LET pin == <<id, lock'[id].version>>
          IN  \/ lock'[id].edition = None
              \/ stored[pin] = lock'[id].edition
              \/ pin \in removed
<1>3. ASSUME TypeOK, Shape, Stocked, [Next]_vars
      PROVE  Kept
  <2>1. SUFFICES ASSUME lock' \notin {lock, None} PROVE Kept
    OBVIOUS
  <2>2. Save
    BY <1>3, <2>1, OnlySaveLocks
  <2>3. pc = "materialize" /\ todo = {} /\ DOMAIN lock' = DOMAIN picked
    BY <2>2 DEF Save
  <2>4. \A id \in DOMAIN picked :
          /\ lock'[id].version = picked[id]
          /\ lock'[id].edition = IF id = Root /\ ~sealed THEN None
                                 ELSE cache[<<id, picked[id]>>]
    BY <2>2 DEF Save
  <2>5. QED
    BY <1>3, <2>3, <2>4 DEF Stocked
<1>4. QED
  BY <1>2, <1>3, PTL DEF Spec, LockStored

-----------------------------------------------------------------------------
(* A world that stands still: what was read is what there is.              *)

Current ==
  pc = "solve" /\ still =>
    /\ \A pin \in Pin \ {RootPin} : cache[pin] # None => cache[pin] = Existing(pin)
    /\ \A id \in Id : versions[id] # Unlisted =>
         /\ versions[id] = Listed(id)
         /\ sources = "up" \/ (sources # "unsigned" /\ id \in missed)

\* No choice of versions that solves the requirements has all of n in it.
Hopeless(n) ==
  ~\E S \in SUBSET {pin \in Pin : Existing(pin) # None \/ pin = RootPin} :
     RootPin \in S /\ Solution(S) /\ \A id \in DOMAIN n : <<id, n[id]>> \in S

\* As long as a server answers.
Refuted == pc = "solve" /\ still /\ sources # "down" => \A n \in nogoods : Hopeless(n)

Judged == Current /\ Refuted /\ RefusalsHold

LEMMA WorldStays ==
  ASSUME UNCHANGED world
  PROVE  /\ \A pin : Existing(pin)' = Existing(pin)
         /\ \A id : Listed(id)' = Listed(id)
         /\ \A S : Solution(S)' = Solution(S)
         /\ sources' = sources /\ still' = still
<1>1. UNCHANGED <<offer, yanked, sources, stored, still>>
  BY DEF world
<1>2. \A pin : Existing(pin)' = Existing(pin)
  BY <1>1 DEF Existing
<1>3. \A id : Listed(id)' = Listed(id)
  BY <1>1 DEF Listed, Reachable
<1>4. \A S : Solution(S)' = Solution(S)
  BY <1>1 DEF Solution, Existing
<1>5. QED
  BY <1>1, <1>2, <1>3, <1>4

LEMMA HopelessStays ==
  ASSUME UNCHANGED world, NEW n, Hopeless(n)
  PROVE  Hopeless(n)'
BY WorldStays DEF Hopeless

\* In a solution each package is there once.
LEMMA SolutionIsOne ==
  ASSUME NEW S, Solution(S), NEW d, NEW v, NEW w, <<d, v>> \in S, <<d, w>> \in S
  PROVE  v = w
<1>1. \A pin, other \in S : other[1] = pin[1] => other = pin
  BY DEF Solution
<1>2. <<d, v>>[1] = <<d, w>>[1]
  OBVIOUS
<1>3. <<d, v>> = <<d, w>>
  BY <1>1, <1>2
<1>4. QED
  BY <1>3

\* The metadata read of the selection is what a solution is judged by.
LEMMA SelectedMeans ==
  ASSUME TypeOK, Shape, Current, pc = "solve", still,
         NEW S, Solution(S), NEW d \in DOMAIN picked, <<d, picked[d]>> \in S
  PROVE  \A x \in Deps(d) :
           \E v \in Releases : <<x, v>> \in S /\ InRanges(DepsOf(d, picked[d])[x], v)
<1>1. PICK w : w = picked[d]
  OBVIOUS
<1>2. <<d, w>> \in Pin /\ cache[<<d, w>>] # None
  BY <1>1, RangeWithin DEF TypeOK, Shape, Pin
<1>3. cache[<<d, w>>] = IF <<d, w>> = RootPin THEN RootEdition ELSE Existing(<<d, w>>)
  BY <1>2 DEF Current, Shape
<1>4. PICK e : e = cache[<<d, w>>]
  OBVIOUS
<1>5. \A x \in DOMAIN Needs[<<d, w>>][e] :
        \E v \in Releases : <<x, v>> \in S /\ InRanges(Needs[<<d, w>>][e][x], v)
  <2>1. <<d, w>> \in S /\ e = IF <<d, w>> = RootPin THEN RootEdition ELSE Existing(<<d, w>>)
    BY <1>1, <1>3, <1>4
  <2>2. QED
    BY <2>1 DEF Solution
<1>6. DepsOf(d, picked[d]) = Needs[<<d, w>>][e]
  BY <1>1, <1>4 DEF DepsOf
<1>7. QED
  BY <1>5, <1>6 DEF Deps

\* If nothing fits, and no source can have had more, the selection is hopeless.
LEMMA DeadEndIsHopeless ==
  ASSUME TypeOK, Shape, Current, Refuted, pc = "solve", still, sources # "down",
         NEW id \in Id, Turn(id), Candidates(id) = {},
         Unread(id) => \A v \in Releases : ~Fits(id, v),
         NEW n, n = picked
  PROVE  Hopeless(n)
<1>1. SUFFICES ASSUME NEW S, RootPin \in S, Solution(S), \A d \in DOMAIN n : <<d, n[d]>> \in S,
                      S \in SUBSET {pin \in Pin : Existing(pin) # None \/ pin = RootPin}
               PROVE  FALSE
  BY DEF Hopeless
<1>2. id \in Pending /\ versions[id] # Unlisted
  BY DEF Turn
<1>3. id \notin DOMAIN picked
  BY <1>2, PendingMeans
<1>4. PICK d \in DOMAIN picked : id \in Deps(d)
  BY <1>2, PendingMeans
<1>5. \A x \in DOMAIN picked : id \in Deps(x) =>
        \E v \in Releases : <<id, v>> \in S /\ InRanges(DepsOf(x, picked[x])[id], v)
  BY <1>1, SelectedMeans
<1>6. PICK v \in Releases : <<id, v>> \in S
  BY <1>4, <1>5
<1>7. \A w : <<id, w>> \in S => w = v
  BY <1>1, <1>6, SolutionIsOne
<1>8. \A x \in DOMAIN picked : id \in Deps(x) => InRanges(DepsOf(x, picked[x])[id], v)
  BY <1>5, <1>7
<1>9. ~RuledOut(With(picked, id, v))
  <2> DEFINE sel == With(picked, id, v)
  <2>1. SUFFICES ASSUME NEW m \in nogoods,
                        \A x \in DOMAIN m : x \in DOMAIN sel /\ sel[x] = m[x]
                 PROVE  FALSE
    BY DEF RuledOut
  <2>2. \A x \in DOMAIN m : <<x, m[x]>> \in S
    <3>1. TAKE x \in DOMAIN m
    <3>2. CASE x = id
      BY <1>6, <2>1, <3>2 DEF With
    <3>3. CASE x # id
      <4>1. x \in DOMAIN picked /\ picked[x] = m[x]
        BY <2>1, <3>3 DEF With
      <4>2. QED
        BY <1>1, <4>1
    <3>4. QED
      BY <3>2, <3>3
  <2>3. Hopeless(m)
    BY DEF Refuted
  <2>4. QED
    BY <1>1, <2>2, <2>3 DEF Hopeless
<1>10. Fits(id, v)
  BY <1>8, <1>9 DEF Fits, Deps
<1>11. <<id, v>> \in Pin /\ Existing(<<id, v>>) # None
  <2>1. id # Root
    BY <1>3 DEF Shape
  <2>2. <<id, v>> # RootPin
    BY <2>1 DEF RootPin
  <2>3. QED
    BY <1>1, <1>6, <2>2
<1>12. versions[id] = Listed(id) /\ (sources = "up" \/ id \in missed)
  BY <1>2 DEF Current
<1>13. CASE sources = "up"
  <2>1. v \in Listed(id)
    BY <1>11, <1>13 DEF Listed, Existing, Reachable
  <2>2. QED
    BY <1>10, <1>12, <2>1 DEF Candidates
<1>14. CASE id \in missed
  BY <1>10, <1>14 DEF Unread
<1>15. QED
  BY <1>12, <1>13, <1>14

\* In a still world what the store or a source has of a candidate can be read,
\* unless a server does not answer; nothing else is read in its place.
LEMMA CandidateCanBeRead ==
  ASSUME TypeOK, Shape, Current, pc = "solve", still,
         NEW id \in Id, id # Root, NEW v \in Releases, v \in versions[id], versions[id] # Unlisted
  PROVE  /\ sources # "down" => Metadata(<<id, v>>) # None
         /\ Metadata(<<id, v>>) # None => Metadata(<<id, v>>) = Existing(<<id, v>>)
<1>1. <<id, v>> \in Pin /\ <<id, v>> # RootPin
  BY DEF Pin, RootPin
<1>2. cache[<<id, v>>] # None => cache[<<id, v>>] = Existing(<<id, v>>)
  BY <1>1 DEF Current
<1>3. v \in Listed(id)
  BY DEF Current
<1>4. stored[<<id, v>>] # None \/ Reachable(<<id, v>>)
  BY <1>3 DEF Listed
<1>5. sources # "unsigned"
  BY DEF Current
<1>6. QED
  BY <1>2, <1>4, <1>5 DEF Metadata, Available, Warned, Existing, Reachable

\* Two packages of which one rules the other out are in no solution together.
LEMMA ClashIsHopeless ==
  ASSUME TypeOK, NEW id \in Id, id # Root, NEW v \in Releases,
         NEW e, e = Existing(<<id, v>>),
         NEW sel, id \in DOMAIN sel, sel[id] = v,
         NEW d \in Clashes(sel, Needs[<<id, v>>][e])
  PROVE  Hopeless(With(Only(d, sel[d]), id, v))
<1> DEFINE n == With(Only(d, sel[d]), id, v)
<1>1. d \in DOMAIN Needs[<<id, v>>][e] /\ ~InRanges(Needs[<<id, v>>][e][d], sel[d])
  BY DEF Clashes
<1>2. DOMAIN n = {d, id} /\ n[id] = v /\ n[d] = sel[d]
  BY DEF With, Only
<1>3. SUFFICES ASSUME NEW S, Solution(S), \A x \in DOMAIN n : <<x, n[x]>> \in S
               PROVE  FALSE
  BY DEF Hopeless
<1>4. <<id, v>> \in S /\ <<d, sel[d]>> \in S
  BY <1>2, <1>3
<1>5. e = IF <<id, v>> = RootPin THEN RootEdition ELSE Existing(<<id, v>>)
  BY DEF RootPin
<1>6. PICK w \in Releases : <<d, w>> \in S /\ InRanges(Needs[<<id, v>>][e][d], w)
  BY <1>1, <1>3, <1>4, <1>5 DEF Solution
<1>7. sel[d] = w
  BY <1>3, <1>4, <1>6, SolutionIsOne
<1>8. QED
  BY <1>1, <1>6, <1>7

LEMMA NoRefusalYet == ASSUME Shape, pc # "idle" PROVE outcome # "unsolvable"
BY ConstantsAssumption DEF Shape, Ending

\* What is read stays current while nothing changes and nothing else is read.
LEMMA CurrentStays ==
  ASSUME Current, UNCHANGED <<world, versions, missed, cache, pc>>
  PROVE  Current'
<1>1. CASE pc = "solve" /\ still
  <2>1. /\ \A pin \in Pin \ {RootPin} : cache'[pin] # None => cache'[pin] = Existing(pin)
        /\ \A id \in Id : versions'[id] # Unlisted =>
             /\ versions'[id] = Listed(id)
             /\ sources = "up" \/ (sources # "unsigned" /\ id \in missed')
    BY <1>1 DEF Current
  <2>2. QED
    BY <2>1, WorldStays DEF Current
<1>2. CASE ~(pc = "solve" /\ still)
  BY <1>2, WorldStays DEF Current
<1>3. QED
  BY <1>1, <1>2

LEMMA JudgedChoose ==
  ASSUME TypeOK, Shape, Judged, NEW id \in Id, Choose(id), still
  PROVE  Current' /\ Refuted'
<1> DEFINE v == Highest(Candidates(id))
           pin == <<id, v>>
           e == Metadata(pin)
           sel == With(picked, id, v)
<1>1. /\ Turn(id) /\ Candidates(id) # {} /\ Current /\ Refuted
      /\ UNCHANGED <<world, versions, missed, pc>>
  BY DEF Choose, Judged
<1>2. pc = "solve" /\ id \in Pending /\ versions[id] # Unlisted
  BY <1>1 DEF Turn
<1>3. id # Root
  BY <1>2, PendingMeans DEF Shape
<1>4. v \in Releases /\ v \in versions[id] /\ pin \in Pin
  BY <1>1, ChosenFits
<1>5. /\ sources # "down" => e # None
      /\ e # None => e = Existing(pin)
      /\ pin # RootPin
  BY <1>1, <1>2, <1>3, <1>4, CandidateCanBeRead DEF RootPin
<1>6. cache' = cache \/ (e # None /\ cache' = [cache EXCEPT ![pin] = e])
  BY ChooseCases DEF Selects, GivesUp
<1>7. Current'
  <2>1. \A p \in Pin \ {RootPin} : cache'[p] # None => cache'[p] = Existing(p)
    <3>1. \A p \in Pin \ {RootPin} : cache[p] # None => cache[p] = Existing(p)
      BY <1>1, <1>2 DEF Current
    <3>2. CASE cache' = cache
      BY <3>1, <3>2
    <3>3. CASE e # None /\ cache' = [cache EXCEPT ![pin] = e]
      BY <1>4, <1>5, <3>1, <3>3 DEF TypeOK
    <3>4. QED
      BY <1>6, <3>2, <3>3
  <2>2. \A p \in Pin \ {RootPin} : cache'[p] # None => cache'[p] = Existing(p)'
    BY <1>1, <2>1, WorldStays
  <2>3. \A x \in Id : versions'[x] # Unlisted =>
               /\ versions'[x] = Listed(x)
               /\ sources = "up" \/ (sources # "unsigned" /\ x \in missed)
    BY <1>1, <1>2 DEF Current
  <2>4. \A x \in Id : versions'[x] # Unlisted =>
               /\ versions'[x] = Listed(x)'
               /\ sources' = "up" \/ (sources' # "unsigned" /\ x \in missed')
    BY <1>1, <2>3, WorldStays
  <2>5. QED
    BY <2>2, <2>4 DEF Current
<1>8. ASSUME sources # "down" PROVE \A n \in nogoods' : Hopeless(n)
  <2>1. \A n \in nogoods : Hopeless(n)
    BY <1>1, <1>2, <1>8 DEF Refuted
  <2>2. CASE Selects(id, v)
    BY <2>1, <2>2 DEF Selects
  <2>3. CASE GivesUp(id, v)
    <3> DEFINE clashes == Clashes(sel, Needs[pin][e])
    <3>1. nogoods' = nogoods \union {With(Only(d, sel[d]), id, v) : d \in clashes}
      BY <1>5, <1>8, <2>3 DEF GivesUp
    <3>2. id \in DOMAIN sel /\ sel[id] = v
      BY DEF With
    <3>3. \A d \in clashes : Hopeless(With(Only(d, sel[d]), id, v))
      BY <1>3, <1>4, <1>5, <1>8, <3>2, ClashIsHopeless
    <3>4. QED
      BY <2>1, <3>1, <3>3
  <2>4. QED
    BY <2>2, <2>3, ChooseCases
<1>9. Refuted'
  BY <1>1, <1>8, HopelessStays, WorldStays DEF Refuted
<1>10. QED
  BY <1>7, <1>9

LEMMA JudgedDeadEnd ==
  ASSUME TypeOK, Shape, Judged, NEW id \in Id, DeadEnd(id), still
  PROVE  Judged'
<1>1. /\ Turn(id) /\ Candidates(id) = {} /\ pc = "solve" /\ Current /\ Refuted
      /\ UNCHANGED world
  BY DEF DeadEnd, Turn, Judged, Stop
<1>2. CASE Stop("untrusted") \/ Stop("yanked") \/ Stop("discovery")
  <2>1. pc' = "idle" /\ outcome' # "unsolvable"
    BY <1>2 DEF Stop, Drop
  <2>2. QED
    BY <2>1 DEF Judged, Current, Refuted, RefusalsHold
<1>3. CASE ~(Stop("untrusted") \/ Stop("yanked") \/ Stop("discovery"))
  <2>1. Unread(id) => \A v \in Releases : ~Fits(id, v)
    BY <1>3 DEF DeadEnd
  <2>2. ASSUME sources # "down", NEW n, n = picked PROVE Hopeless(n)
    BY <1>1, <2>1, <2>2, DeadEndIsHopeless
  <2>3. CASE DOMAIN picked = {Root} /\ Stop("unsolvable")
    <3>1. pc' = "idle" /\ UNCHANGED world
      BY <2>3 DEF Stop, Drop
    <3>2. PICK n : n = picked
      OBVIOUS
    <3>3. DOMAIN n = {Root} /\ n[Root] = RootVersion
          /\ (sources # "down" => Hopeless(n))
      BY <1>1, <2>2, <2>3, <3>2 DEF Shape
    <3>4. sources # "down" =>
           ~\E S \in SUBSET {pin \in Pin : Existing(pin) # None \/ pin = RootPin} :
             RootPin \in S /\ Solution(S)
      BY <3>3 DEF Hopeless, RootPin
    <3>5. RefusalsHold'
      BY <3>1, <3>4, WorldStays DEF RefusalsHold
    <3>6. QED
      BY <3>1, <3>5 DEF Judged, Current, Refuted
  <2>4. CASE /\ nogoods' = nogoods \union {picked}
             /\ UNCHANGED <<world, provider, walk, todo, removed, pc, lock, outcome>>
    <3>1. sources # "down" => \A n \in nogoods' : Hopeless(n)
      BY <1>1, <2>2, <2>4 DEF Refuted
    <3>2. Refuted'
      BY <2>4, <3>1, HopelessStays, WorldStays DEF Refuted
    <3>3. Current'
      BY <2>4, CurrentStays, <1>1 DEF provider
    <3>4. RefusalsHold'
      BY <1>1, <2>4, NoRefusalYet DEF RefusalsHold
    <3>5. QED
      BY <3>2, <3>3, <3>4 DEF Judged
  <2>5. QED
    BY <1>3, <2>3, <2>4 DEF DeadEnd
<1>4. QED
  BY <1>2, <1>3

LEMMA JudgedInit == Init => Judged
BY ConstantsAssumption DEF Init, Judged, Current, Refuted, RefusalsHold, Ending

\* A refusal is judged when it is made; while a resolution runs there is none.
LEMMA JudgedElsewhere ==
  ASSUME pc' # "solve", outcome' # "unsolvable"
  PROVE  Judged'
BY DEF Judged, Current, Refuted, RefusalsHold

LEMMA JudgedStep ==
  ASSUME TypeOK, Shape, Judged, [Next]_vars
  PROVE  Judged'
<1>1. CASE Resolve
  <2>1. /\ pc' = "solve" /\ outcome' = None /\ nogoods' = {}
        /\ versions' = [id \in Id |-> Unlisted]
        /\ cache' = [Empty EXCEPT ![RootPin] = RootEdition]
    BY <1>1 DEF Resolve, Shape, Bare
  <2>2. \A pin \in Pin \ {RootPin} : cache'[pin] = None
    BY <2>1 DEF Empty
  <2>3. Current' /\ Refuted'
    BY <2>1, <2>2 DEF Current, Refuted
  <2>4. outcome' # "unsolvable"
    BY <2>1, ConstantsAssumption DEF Ending
  <2>5. QED
    BY <2>3, <2>4 DEF Judged, RefusalsHold
<1>2. ASSUME NEW id \in Id, ListVersions(id)
      PROVE  Judged'
  <2>1. /\ pc = "solve" /\ UNCHANGED <<world, cache, nogoods, pc, outcome>>
        /\ sources # "unsigned"
        /\ versions' = [versions EXCEPT ![id] = Listed(id)]
        /\ missed' = IF sources = "up" THEN missed ELSE missed \union {id}
    BY <1>2 DEF ListVersions
  <2>2. CASE still
    <3>1. /\ \A pin \in Pin \ {RootPin} : cache'[pin] # None => cache'[pin] = Existing(pin)
          /\ \A x \in Id : versions'[x] # Unlisted =>
               /\ versions'[x] = Listed(x)
               /\ sources = "up" \/ (sources # "unsigned" /\ x \in missed')
      BY <2>1, <2>2 DEF Judged, Current, TypeOK
    <3>2. Current'
      BY <2>1, <3>1, WorldStays DEF Current
    <3>3. sources # "down" => \A n \in nogoods' : Hopeless(n)
      BY <2>1, <2>2 DEF Judged, Refuted
    <3>4. Refuted'
      BY <2>1, <3>3, HopelessStays, WorldStays DEF Refuted
    <3>5. QED
      BY <2>1, <3>2, <3>4, NoRefusalYet DEF Judged, RefusalsHold
  <2>3. CASE ~still
    BY <2>1, <2>3 DEF Judged, Current, Refuted, RefusalsHold, world
  <2>4. QED
    BY <2>2, <2>3
<1>2a. ASSUME NEW id \in Id, Distrust(id)
      PROVE  Judged'
  <2>1. pc' = "idle" /\ outcome' = "untrusted"
    BY <1>2a DEF Distrust, Stop, Drop
  <2>2. QED
    BY <2>1, JudgedElsewhere
<1>3. ASSUME NEW id \in Id, Choose(id) \/ DeadEnd(id), still
      PROVE  Judged'
  <2>1. CASE Choose(id)
    <3>1. pc = "solve" /\ outcome' = outcome
      BY <2>1 DEF Choose, Turn
    <3>2. QED
      BY <1>3, <2>1, <3>1, JudgedChoose, NoRefusalYet DEF Judged, RefusalsHold
  <2>2. CASE DeadEnd(id)
    BY <1>3, <2>2, JudgedDeadEnd
  <2>3. QED
    BY <1>3, <2>1, <2>2
<1>4. ASSUME NEW id \in Id, Choose(id) \/ DeadEnd(id), ~still
      PROVE  Judged'
  <2>1. ~still'
    BY <1>4 DEF Choose, DeadEnd, Stop, world
  <2>2. QED
    BY <2>1 DEF Judged, Current, Refuted, RefusalsHold
<1>5. CASE (\E id \in Id : Enter(id)) \/ Leave \/ Check \/ Solve
  <2>1. pc # "idle" /\ pc' # "solve" /\ outcome' \in {outcome, "cycle"}
    BY <1>5 DEF Enter, Leave, Check, Solve, Stop, Drop
  <2>2. QED
    BY <2>1, NoRefusalYet, JudgedElsewhere
<1>6. ASSUME NEW pin \in todo, Materialize(pin)
      PROVE  Judged'
  <2>1. pc # "idle" /\ pc' # "solve" /\ outcome' \in {outcome, "unavailable", "mismatch"}
    BY <1>6 DEF Materialize, Stop, Drop
  <2>2. QED
    BY <2>1, NoRefusalYet, JudgedElsewhere
<1>7. CASE Save \/ Interrupt \/ Discard
  <2>1. pc' # "solve" /\ outcome' \in {"locked", "stopped", None}
    BY <1>7 DEF Save, Interrupt, Stop, Drop, Discard
  <2>2. QED
    BY <2>1, ConstantsAssumption, JudgedElsewhere DEF Ending
<1>8. CASE Others
  <2>1. CASE pc = "idle"
    <3>1. pc' = "idle" /\ outcome' = None
      BY <1>8, <2>1, OthersFrame
    <3>2. QED
      BY <3>1, ConstantsAssumption, JudgedElsewhere DEF Ending
  <2>2. CASE pc # "idle"
    <3>1. ~still'
      BY <1>8, <2>2, OthersFrame
    <3>2. QED
      BY <3>1 DEF Judged, Current, Refuted, RefusalsHold
  <2>3. QED
    BY <2>1, <2>2
<1>9. CASE UNCHANGED vars
  <2>1. UNCHANGED <<world, versions, missed, cache, nogoods, pc, outcome>>
    BY <1>9 DEF vars, search, provider
  <2>2. Current'
    BY <2>1, CurrentStays DEF Judged
  <2>3. Refuted'
    BY <2>1, WorldStays, HopelessStays DEF Judged, Refuted
  <2>4. RefusalsHold'
    BY <2>1, WorldStays DEF Judged, RefusalsHold
  <2>5. QED
    BY <2>2, <2>3, <2>4 DEF Judged
<1>10. QED
  BY <1>1, <1>2, <1>3, <1>4, <1>5, <1>6, <1>7, <1>8, <1>9, <1>2a DEF Next, Others

\* In a world that stands still, and unless a server does not answer,
\* requirements are called unsolvable only if they are (choose_version and its
\* error cases).
THEOREM RefusalsAreRight == Spec => []RefusalsHold
<1>1. Init => TypeOK /\ Shape /\ Judged
  BY TypedInit, JudgedInit
<1>2. TypeOK /\ Shape /\ Judged /\ [Next]_vars => (TypeOK /\ Shape /\ Judged)'
  BY TypedStep, JudgedStep
<1>3. TypeOK /\ Shape /\ Judged => RefusalsHold
  BY DEF Judged
<1>4. QED
  BY <1>1, <1>2, <1>3, PTL DEF Spec

-----------------------------------------------------------------------------
(* The highest versions.                                                   *)

\* Anything newer than what is selected is refused by a package of the selection.
Newest ==
  pc # "idle" /\ still /\ nogoods = {} =>
    \A id \in DOMAIN picked \ {Root} : \A v \in Listed(id) :
      Before(picked[id], v) =>
        \E d \in DOMAIN picked :
          id \in Deps(d) /\ ~InRanges(DepsOf(d, picked[d])[id], v)

LEMMA NewestStays ==
  ASSUME Newest, UNCHANGED <<cache, picked, nogoods, still>>,
         pc' # "idle" => pc # "idle", \A id : Listed(id)' = Listed(id)
  PROVE  Newest'
<1>1. SUFFICES ASSUME pc # "idle", still, nogoods = {},
                      NEW id \in DOMAIN picked \ {Root}, NEW v \in Listed(id)',
                      Before(picked[id], v)
               PROVE  \E d \in DOMAIN picked :
                        id \in Deps(d)' /\ ~InRanges(DepsOf(d, picked[d])'[id], v)
  BY DEF Newest
<1>2. PICK d \in DOMAIN picked : id \in Deps(d) /\ ~InRanges(DepsOf(d, picked[d])[id], v)
  BY <1>1 DEF Newest
<1>3. DepsOf(d, picked[d])' = DepsOf(d, picked[d]) /\ Deps(d)' = Deps(d)
  BY DEF Deps, DepsOf
<1>4. QED
  BY <1>2, <1>3

LEMMA NewestChoose ==
  ASSUME TypeOK, Shape, Current, Newest, NEW id \in Id, Choose(id), still, nogoods' = {}
  PROVE  Newest'
<1> DEFINE v == Highest(Candidates(id))
           sel == With(picked, id, v)
<1>1. /\ Turn(id) /\ Candidates(id) # {} /\ UNCHANGED <<world, versions, pc>>
  BY DEF Choose
<1>2. pc = "solve" /\ id \in Pending /\ versions[id] # Unlisted
  BY <1>1 DEF Turn
<1>3. id # Root /\ id \notin DOMAIN picked
  BY <1>2, PendingMeans DEF Shape
<1>4. /\ v \in Releases /\ <<id, v>> \in Pin
      /\ \A w \in versions[id] : Before(v, w) => ~Fits(id, w)
  BY <1>1, ChosenFits
<1>5. Selects(id, v)
  <2>1. SUFFICES ASSUME GivesUp(id, v) PROVE FALSE
    BY ChooseCases
  <2> DEFINE clashes == Clashes(sel, Needs[<<id, v>>][Metadata(<<id, v>>)])
  <2>2. clashes # {} =>
          {With(Only(d, sel[d]), id, v) : d \in clashes} # {}
    OBVIOUS
  <2>3. QED
    BY <2>1, <2>2 DEF GivesUp
<1>6. nogoods = {} /\ picked' = sel
  BY <1>5 DEF Selects
<1>7. \A d \in DOMAIN picked :
        DepsOf(d, picked[d])' = DepsOf(d, picked[d]) /\ picked'[d] = picked[d]
  <2>1. \A d \in DOMAIN picked : <<d, picked[d]>> # <<id, v>> /\ <<d, picked[d]>> \in Pin
    BY <1>3, RangeWithin DEF TypeOK, Pin
  <2>2. \A d \in DOMAIN picked : cache'[<<d, picked[d]>>] = cache[<<d, picked[d]>>]
    BY <1>5, <2>1 DEF Selects, TypeOK
  <2>3. \A d \in DOMAIN picked : picked'[d] = picked[d]
    BY <1>3, <1>6 DEF With
  <2>4. QED
    BY <2>2, <2>3 DEF DepsOf
<1>8. DOMAIN picked' = DOMAIN picked \union {id} /\ picked'[id] = v
  BY <1>6 DEF With
<1>9. SUFFICES ASSUME NEW x \in DOMAIN picked' \ {Root}, NEW w \in Listed(x), Before(picked'[x], w)
               PROVE  \E d \in DOMAIN picked :
                        x \in Deps(d) /\ ~InRanges(DepsOf(d, picked[d])[x], w)
  <2>1. \A x : Listed(x)' = Listed(x)
    BY <1>1, WorldStays
  <2>2. \A d \in DOMAIN picked : Deps(d)' = Deps(d) /\ DepsOf(d, picked[d])' = DepsOf(d, picked[d])
    BY <1>7 DEF Deps, DepsOf
  <2>3. QED
    BY <1>8, <2>1, <2>2 DEF Newest
<1>10. CASE x = id
  <2>1. Listed(id) = versions[id]
    BY <1>2 DEF Current
  <2>2. ~Fits(id, w)
    BY <1>4, <1>8, <1>9, <1>10, <2>1
  <2>3. ~RuledOut(With(picked, id, w))
    BY <1>6 DEF RuledOut
  <2>4. QED
    BY <1>10, <2>2, <2>3 DEF Fits, Deps
<1>11. CASE x # id
  BY <1>2, <1>6, <1>7, <1>8, <1>9, <1>11 DEF Newest
<1>12. QED
  BY <1>10, <1>11

\* What is fetched was on the list before.
LEMMA ListStays ==
  ASSUME TypeOK, NEW pin \in todo, Materialize(pin), pc' # "idle"
  PROVE  \A id : Listed(id)' = Listed(id)
<1> DEFINE found == Available(pin)
<1>1. /\ found # None /\ stored' = [stored EXCEPT ![pin] = found]
      /\ UNCHANGED <<offer, yanked, sources>>
  BY DEF Materialize, Stop, Drop
<1>2. pin \in Pin /\ stored \in [Pin -> {None} \union Edition]
  BY DEF TypeOK
<1>3. \A id, v : <<id, v>> # pin => stored'[<<id, v>>] = stored[<<id, v>>]
  BY <1>1, <1>2
<1>4. stored'[pin] # None /\ (stored[pin] # None \/ Reachable(pin))
  BY <1>1, <1>2 DEF Available
<1>5. \A p : Reachable(p)' = Reachable(p)
  BY <1>1 DEF Reachable
<1>6. \A id, v : stored'[<<id, v>>] # None \/ Reachable(<<id, v>>)'
                   <=> stored[<<id, v>>] # None \/ Reachable(<<id, v>>)
  BY <1>3, <1>4, <1>5
<1>7. QED
  BY <1>6 DEF Listed

LEMMA NewestStep ==
  ASSUME TypeOK, Shape, Current, Newest, [Next]_vars
  PROVE  Newest'
<1>1. SUFFICES ASSUME pc' # "idle", still', nogoods' = {}
               PROVE  Newest'
  BY DEF Newest
<1>2. CASE Resolve
  BY <1>2 DEF Resolve, Newest, Only, With
<1>3. ASSUME NEW id \in Id, Choose(id)
      PROVE  Newest'
  BY <1>1, <1>3, NewestChoose DEF Choose, world
<1>4. ASSUME NEW id \in Id, DeadEnd(id) \/ Distrust(id)
      PROVE  FALSE
  BY <1>1, <1>4 DEF DeadEnd, Distrust, Stop, Drop
<1>5. CASE \/ \E id \in Id : ListVersions(id) \/ Enter(id)
           \/ Leave \/ Check \/ Solve
  <2>1. pc # "idle" /\ UNCHANGED <<world, cache, picked, nogoods>>
    BY <1>1, <1>5 DEF ListVersions, Enter, Leave, Check, Solve, Stop, Drop, search, provider
  <2>2. QED
    BY <2>1, WorldStays, NewestStays
<1>6. ASSUME NEW pin \in todo, Materialize(pin)
      PROVE  Newest'
  <2>1. pc # "idle" /\ UNCHANGED <<cache, picked, nogoods, still>>
    BY <1>1, <1>6 DEF Materialize, Stop, Drop, provider
  <2>2. QED
    BY <1>1, <1>6, <2>1, ListStays, NewestStays
<1>7. ~Save /\ ~Interrupt
  BY <1>1 DEF Save, Interrupt, Stop, Drop
<1>8. ~Discard
  BY <1>1 DEF Discard
<1>9. ~Others
  BY <1>1, OthersFrame
<1>10. CASE UNCHANGED vars
  <2>1. UNCHANGED <<world, cache, picked, nogoods, pc>>
    BY <1>10 DEF vars, search, provider
  <2>2. QED
    BY <1>1, <2>1, WorldStays, NewestStays
<1>11. QED
  BY <1>2, <1>3, <1>4, <1>5, <1>6, <1>7, <1>8, <1>9, <1>10 DEF Next, Others

\* In a world that stands still, and if no selection had to be taken back, each
\* package is locked at the highest version that all who need it accept
\* (choose_version).
THEOREM NewestIsLocked == Spec => HighestLocked
<1>1. Spec => [](TypeOK /\ Shape /\ Judged /\ Newest)
  <2>1. Init => TypeOK /\ Shape /\ Judged /\ Newest
    BY TypedInit, JudgedInit DEF Init, Newest
  <2>2. TypeOK /\ Shape /\ Judged /\ Newest /\ [Next]_vars
          => (TypeOK /\ Shape /\ Judged /\ Newest)'
    BY TypedStep, JudgedStep, NewestStep DEF Judged
  <2>3. QED
    BY <2>1, <2>2, PTL DEF Spec
<1> DEFINE Highest_ == lock' \notin {lock, None} /\ still /\ nogoods = {} => NothingNewer(lock')
<1>2. ASSUME TypeOK, Newest, [Next]_vars
      PROVE  Highest_
  <2>1. SUFFICES ASSUME lock' \notin {lock, None}, still, nogoods = {}
                 PROVE  NothingNewer(lock')
    OBVIOUS
  <2>2. Save
    BY <1>2, <2>1, OnlySaveLocks
  <2>3. pc = "materialize" /\ DOMAIN lock' = DOMAIN picked
        /\ \A id \in DOMAIN picked : lock'[id].version = picked[id]
    BY <2>2 DEF Save
  <2>4. ASSUME NEW id \in DOMAIN picked \ {Root}, NEW v \in Releases,
               stored[<<id, v>>] # None \/ Reachable(<<id, v>>),
               Before(picked[id], v)
        PROVE  \E d \in DOMAIN picked :
                 id \in Deps(d) /\ ~InRanges(DepsOf(d, picked[d])[id], v)
    <3>1. v \in Listed(id)
      BY <2>4 DEF Listed
    <3>2. QED
      BY <1>2, <2>1, <2>3, <2>4, <3>1 DEF Newest
  <2>5. QED
    BY <2>3, <2>4 DEF NothingNewer, Deps
<1>3. QED
  BY <1>1, <1>2, PTL DEF Spec, HighestLocked

-----------------------------------------------------------------------------
(* Circles.                                                                *)

\* Each package under visit needs the next one.
Path ==
  \A i \in 1..Len(visiting) : i + 1 <= Len(visiting) => visiting[i + 1] \in Deps(visiting[i])

\* A set of selected packages each of which needs one of them.
Circle ==
  \E S \in (SUBSET DOMAIN picked) \ {{}} : \A id \in S : Deps(id) \intersect S # {}

LEMMA PathStep ==
  ASSUME TypeOK, Shape, Path, [Next]_vars
  PROVE  Path'
<1>1. CASE visiting' = <<>>
  BY <1>1 DEF Path
<1>2. CASE UNCHANGED <<visiting, cache, picked>>
  BY <1>2 DEF Path, Deps, DepsOf
<1>3. ASSUME NEW id \in Id, Enter(id)
      PROVE  Path'
  <2>1. CASE Stop("cycle")
    BY <1>1, <2>1 DEF Stop, Drop
  <2>2. CASE visiting' = Append(visiting, id) /\ UNCHANGED <<cache, picked>>
    <3>1. visiting \in Seq(Id) /\ id \in Called
      BY <1>3 DEF TypeOK, Enter
    <3>2. visiting # <<>> => id \in Deps(visiting[Len(visiting)])
      BY <3>1, CalledMeans
    <3>3. SUFFICES ASSUME NEW i \in 1..Len(visiting'), i + 1 <= Len(visiting')
                   PROVE  visiting'[i + 1] \in Deps(visiting'[i])
      BY <2>2 DEF Path, Deps, DepsOf
    <3>4. CASE i = Len(visiting)
      BY <2>2, <3>1, <3>2, <3>3, <3>4
    <3>5. CASE i # Len(visiting)
      BY <2>2, <3>1, <3>3, <3>5 DEF Path
    <3>6. QED
      BY <3>4, <3>5
  <2>3. QED
    BY <1>3, <2>1, <2>2 DEF Enter, provider
<1>4. CASE Leave
  <2>1. visiting \in Seq(Id) /\ visiting # <<>> /\ UNCHANGED <<cache, picked>>
        /\ visiting' = SubSeq(visiting, 1, Len(visiting) - 1)
    BY <1>4 DEF TypeOK, Leave, provider
  <2>2. \A i \in 1..Len(visiting') :
          i \in 1..Len(visiting) /\ i + 1 <= Len(visiting) /\ visiting'[i] = visiting[i]
    BY <2>1
  <2>3. \A i \in 1..Len(visiting') : i + 1 <= Len(visiting') =>
          visiting'[i + 1] = visiting[i + 1]
    BY <2>1
  <2>4. QED
    BY <2>1, <2>2, <2>3 DEF Path, Deps, DepsOf
<1>5. ASSUME NEW id \in Id, ListVersions(id) \/ Distrust(id) \/ Choose(id) \/ DeadEnd(id)
      PROVE  visiting' = <<>>
  <2>1. pc = "solve"
    BY <1>5 DEF ListVersions, Distrust, Choose, DeadEnd, Turn
  <2>2. visiting = <<>>
    BY <2>1 DEF Shape
  <2>3. visiting' \in {visiting, <<>>}
    BY <1>5 DEF ListVersions, Distrust, Choose, DeadEnd, Stop, Drop, walk
  <2>4. QED
    BY <2>2, <2>3
<1>6. CASE Resolve
  BY <1>1, <1>6 DEF Resolve, Shape, Bare, walk
<1>7. CASE Check \/ Solve
  BY <1>2, <1>7 DEF Check, Solve, search, provider, walk
<1>8. ASSUME NEW pin \in todo, Materialize(pin)
      PROVE  Path'
  <2>1. visiting' = <<>> \/ UNCHANGED <<visiting, cache, picked>>
    BY <1>8 DEF Materialize, Stop, Drop, provider, walk
  <2>2. QED
    BY <1>1, <1>2, <2>1
<1>9. CASE Save \/ Interrupt
  BY <1>1, <1>9 DEF Save, Interrupt, Stop, Drop
<1>10. CASE Discard
  BY <1>2, <1>10 DEF Discard, search, provider, walk
<1>11. CASE Others
  BY <1>2, <1>11, OthersFrame DEF provider, walk
<1>12. CASE UNCHANGED vars
  BY <1>2, <1>12 DEF vars, search, provider, walk
<1>13. QED
  BY <1>1, <1>3, <1>4, <1>5, <1>6, <1>7, <1>8, <1>9, <1>10, <1>11, <1>12
     DEF Next, Others

\* From a package that is entered while it is under visit, a circle leads back.
LEMMA CircleFound ==
  ASSUME TypeOK, Shape, Solved, Path, NEW id \in Called, id \in Range(visiting)
  PROVE  Circle
<1>1. PICK k \in 1..Len(visiting) : visiting[k] = id
  BY DEF Range, TypeOK
<1>2. visiting \in Seq(Id) /\ Len(visiting) \in Nat /\ k \in Nat
  BY DEF TypeOK
<1> DEFINE S == {d \in DOMAIN picked : \E i \in k..Len(visiting) : visiting[i] = d}
<1>3. \A i \in 1..Len(visiting) : visiting[i] \in DOMAIN picked
  BY <1>2 DEF Solved, Walked, Range
<1>4. S # {}
  BY <1>1, <1>2, <1>3
<1>5. ASSUME NEW d \in S
      PROVE  Deps(d) \intersect S # {}
  <2>1. PICK i \in k..Len(visiting) : visiting[i] = d
    BY <1>5
  <2>2. CASE i = Len(visiting)
    <3>1. id \in Deps(d)
      BY <1>2, <2>1, <2>2, CalledMeans
    <3>2. id \in S
      BY <1>1, <1>2, <1>3
    <3>3. QED
      BY <3>1, <3>2
  <2>3. CASE i # Len(visiting)
    <3>1. i + 1 \in k..Len(visiting) /\ i \in 1..Len(visiting)
      BY <1>1, <1>2, <2>1, <2>3
    <3>2. visiting[i + 1] \in Deps(d)
      BY <1>2, <2>1, <3>1 DEF Path
    <3>3. visiting[i + 1] \in S
      BY <1>2, <1>3, <3>1
    <3>4. QED
      BY <3>2, <3>3
  <2>4. QED
    BY <2>2, <2>3
<1>6. S \in (SUBSET DOMAIN picked) \ {{}}
  BY <1>4
<1>7. QED
  BY <1>5, <1>6 DEF Circle

\* A resolution is refused for a circle only where there is one among the
\* packages selected (detect_dependency_cycle).
THEOREM CirclesAreReal ==
  Spec => [][outcome' = "cycle" /\ outcome # "cycle" => Circle]_vars
<1>1. Spec => [](TypeOK /\ Shape /\ Solved /\ Path)
  <2>1. Init => TypeOK /\ Shape /\ Solved /\ Path
    <3>1. Init => Path
      BY DEF Init, Path
    <3>2. QED
      BY <3>1, TypedInit, SolvedInit
  <2>2. TypeOK /\ Shape /\ Solved /\ Path /\ [Next]_vars
          => (TypeOK /\ Shape /\ Solved /\ Path)'
    BY TypedStep, SolvedStep, PathStep
  <2>3. QED
    BY <2>1, <2>2, PTL DEF Spec
<1>2. ASSUME TypeOK, Shape, Solved, Path, [Next]_vars, outcome' = "cycle", outcome # "cycle"
      PROVE  Circle
  <2>1. PICK id \in Id : Enter(id) /\ Stop("cycle")
    <3>1. None # "cycle"
      BY ConstantsAssumption DEF Ending
    <3>2. ASSUME NEW id \in Id
          PROVE  ~(ListVersions(id) \/ Distrust(id) \/ Choose(id) \/ DeadEnd(id))
      BY <1>2 DEF ListVersions, Distrust, Choose, DeadEnd, Stop
    <3>3. ~(Resolve \/ Solve \/ Leave \/ Check \/ Save \/ Interrupt \/ Discard)
      BY <1>2, <3>1 DEF Resolve, Solve, Leave, Check, Save, Interrupt, Stop, Discard
    <3>4. ASSUME NEW pin \in todo
          PROVE  ~Materialize(pin)
      BY <1>2 DEF Materialize, Stop
    <3>5. ~Others
      BY <1>2, <3>1, OthersFrame
    <3>6. ~UNCHANGED vars
      BY <1>2 DEF vars
    <3>7. PICK id \in Id : Enter(id)
      BY <1>2, <3>2, <3>3, <3>4, <3>5, <3>6 DEF Next, Others
    <3>8. QED
      BY <1>2, <3>7 DEF Enter
  <2>2. id \in Called /\ id \in Range(visiting)
    BY <1>2, <2>1 DEF Enter, Stop, Drop
  <2>3. QED
    BY <1>2, <2>2, CircleFound
<1>3. QED
  BY <1>1, <1>2, PTL DEF Spec
=============================================================================
