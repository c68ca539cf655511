------------------------------ MODULE Resolving ------------------------------
(***************************************************************************)
(* `lar resolve` and the composition of what it locked: lar-resolver's     *)
(* resolve.rs, lockfile.rs and verify.rs, with the checks that             *)
(* lar-runtime's build makes of a lockfile.                                *)
(*                                                                         *)
(* The search itself is the pubgrub library.  It is modelled by what it    *)
(* asks of resolve.rs: it keeps a selection of packages, asks for a        *)
(* version of one that the selection needs, for the requirements of that   *)
(* version, and never tries again a part of a selection that it has found  *)
(* impossible.  Sources and store are shared with other commands and with  *)
(* publishers, who may change them between any two of these questions.     *)
(* Reading several sources one after the other is the subject of Fetching; *)
(* here they are one, which may fail in the ways that resolve.rs meets.    *)
(***************************************************************************)
EXTENDS Versions, FiniteSets, Sequences, Functions

CONSTANTS
  Id,           \* package ids
  Root,         \* the package to resolve
  Releases,     \* the versions that occur
  RootVersion,
  Edition,      \* what an archive may hold; its content hash
  RootEdition,  \* the contents of the local package.toml
  Needs,        \* [dependencies] of each edition of each pin
  Offers,       \* what the sources may offer at first
  Stock,        \* what the store may hold at first
  Volatile,     \* pins that others publish, yank, add or remove
  MaxChanges,   \* how often they do, and how often the sources go away
  None,
  Unlisted

Pin == Id \X Releases

RootPin == <<Root, RootVersion>>

\* What reading the sources may come to: all there; a directory that is gone,
\* which has no advisories; a server that does not answer; advisories that do
\* not verify.
Answer == {"up", "gone", "down", "unsigned"}

\* How a resolution ends.
Ending == {"locked", "unsolvable", "yanked", "discovery", "untrusted", "cycle",
           "unavailable", "mismatch", "stopped"}

ASSUME ConstantsAssumption ==
  /\ Root \in Id /\ RootVersion \in Releases /\ RootEdition \in Edition
  /\ Releases \subseteq Version /\ IsFiniteSet(Releases)
  /\ None \notin Edition \union Ending /\ \A S \in SUBSET Releases : S # Unlisted
  /\ MaxChanges \in Nat
  /\ Offers \union Stock \subseteq [Pin -> {None} \union Edition]
  /\ Volatile \subseteq Pin
  /\ \A pin \in Pin, e \in Edition :
       \A id \in DOMAIN Needs[pin][e] :
         id \in Id /\ Needs[pin][e][id] \subseteq Comparator

VARIABLES
  offer,     \* per pin: the edition that a source offers
  yanked,    \* the pins that advisories withdraw
  sources,   \* what reading the sources comes to
  stored,    \* per pin: the edition in the store
  sealed,    \* whether the root's package.toml has a content_hash
  pc,        \* the step of the command that is under way
  versions,  \* LarProvider: candidate versions per id
  missed,    \* LarProvider: ids listed while a source could not be read
  cache,     \* LarProvider: metadata per pin
  picked,    \* pubgrub: the versions selected so far
  nogoods,   \* pubgrub: selections known to be impossible
  visiting,  \* detect_dependency_cycle: packages under visit, outermost first
  visited,   \* detect_dependency_cycle: packages whose visit is over
  todo,      \* pins to materialize
  lock,      \* lar.lock
  outcome,   \* how the last resolution ended, until something changes
  changes,   \* how often others changed something
  still,     \* history: nothing has changed while the last resolution ran
  removed    \* history: pins others removed from the store during it

world == <<offer, yanked, sources, stored, sealed, changes, still>>
provider == <<versions, missed, cache>>
walk == <<visiting, visited>>
search == <<provider, picked, nogoods, walk, todo, removed>>
vars == <<world, search, pc, lock, outcome>>

Locked == [version : Releases, edition : {None} \union Edition]

TypeOK ==
  /\ offer \in [Pin -> {None} \union Edition]
  /\ yanked \subseteq Pin
  /\ sources \in Answer
  /\ stored \in [Pin -> {None} \union Edition]
  /\ sealed \in BOOLEAN
  /\ pc \in {"idle", "solve", "check", "materialize"}
  /\ versions \in [Id -> {Unlisted} \union SUBSET Releases]
  /\ missed \subseteq Id
  /\ cache \in [Pin -> {None} \union Edition]
  /\ DOMAIN picked \subseteq Id /\ Range(picked) \subseteq Releases
  /\ \A n \in nogoods : DOMAIN n \subseteq Id /\ Range(n) \subseteq Releases
  /\ visiting \in Seq(Id) /\ visited \subseteq Id
  /\ todo \subseteq Pin
  /\ lock # None =>
       /\ Root \in DOMAIN lock /\ DOMAIN lock \subseteq Id
       /\ Range(lock) \subseteq Locked
       /\ \A id \in DOMAIN lock \ {Root} : lock[id].edition # None
  /\ outcome \in {None} \union Ending
  /\ changes \in 0..MaxChanges
  /\ still \in BOOLEAN
  /\ removed \subseteq Pin

Empty == [pin \in Pin |-> None]

Init ==
  /\ offer \in Offers
  /\ yanked = {}
  /\ sources = "up"
  /\ stored \in Stock
  /\ sealed = (stored[RootPin] # None)
  /\ pc = "idle"
  /\ versions = [id \in Id |-> Unlisted]
  /\ missed = {}
  /\ cache = Empty
  /\ picked = <<>>
  /\ nogoods = {}
  /\ visiting = <<>>
  /\ visited = {}
  /\ todo = {}
  /\ lock = None
  /\ outcome = None
  /\ changes = 0
  /\ still = TRUE
  /\ removed = {}

-----------------------------------------------------------------------------
(* What the provider and the solver know.                                  *)

\* Fetchable pins: on offer, not withdrawn, and the sources can be read.
Reachable(pin) == sources = "up" /\ offer[pin] # None /\ pin \notin yanked

\* Warnings about a package in the store are looked up in every source; without
\* an answer, or with one that does not verify, the store hit fails too.
Warned == sources \notin {"down", "unsigned"}

\* The dependencies of a selected package, from the metadata read for it.
DepsOf(id, v) == Needs[<<id, v>>][cache[<<id, v>>]]

Pending ==
  (UNION {DOMAIN DepsOf(id, picked[id]) : id \in DOMAIN picked}) \ DOMAIN picked

\* A selection with another package in it.
With(selection, id, v) ==
  [d \in DOMAIN selection \union {id} |-> IF d = id THEN v ELSE selection[d]]

Only(id, v) == With(<<>>, id, v)

RuledOut(selection) ==
  \E n \in nogoods : \A id \in DOMAIN n :
    id \in DOMAIN selection /\ selection[id] = n[id]

\* Whether a version is in the range the solver asks about.
Fits(id, v) ==
  /\ \A d \in DOMAIN picked :
       id \in DOMAIN DepsOf(d, picked[d]) => InRanges(DepsOf(d, picked[d])[id], v)
  /\ ~RuledOut(With(picked, id, v))

Candidates(id) == {v \in versions[id] : Fits(id, v)}

\* Highest by the order of versions, whatever the order they are listed in.
Highest(S) == CHOOSE v \in S : \A w \in S : ~Before(v, w)

-----------------------------------------------------------------------------
(* The resolution.                                                         *)

\* The provider and all it has read are dropped with the resolution.
Drop ==
  /\ pc' = "idle"
  /\ versions' = [id \in Id |-> Unlisted]
  /\ missed' = {}
  /\ cache' = Empty
  /\ picked' = <<>>
  /\ nogoods' = {}
  /\ visiting' = <<>>
  /\ visited' = {}
  /\ todo' = {}
  /\ removed' = {}

Stop(why) ==
  /\ Drop
  /\ outcome' = why
  /\ UNCHANGED <<world, lock>>

\* resolve_manifest: a provider with empty caches; the root is selected first.
\* An earlier lar.lock is not read: a second resolution is like the first.
Resolve ==
  /\ pc = "idle"
  /\ lock = None
  /\ pc' = "solve"
  /\ cache' = [Empty EXCEPT ![RootPin] = RootEdition]
  /\ picked' = Only(Root, RootVersion)
  /\ outcome' = None
  /\ still' = TRUE
  /\ UNCHANGED <<offer, yanked, sources, stored, sealed, changes, versions, missed,
                 nogoods, walk, todo, removed, lock>>

\* Mutant of Listed: sources are asked only for what the store has none of.
ListedStoreFirst(id) ==
  LET here == {v \in Releases : stored[<<id, v>>] # None}
  IN  IF here # {} THEN here ELSE {v \in Releases : Reachable(<<id, v>>)}

\* available_versions, asked for by prioritize: once per id and resolution.
Listed(id) == {v \in Releases : stored[<<id, v>>] # None \/ Reachable(<<id, v>>)}

ListVersions(id) ==
  /\ pc = "solve"
  /\ id \in Pending
  /\ versions[id] = Unlisted
  /\ sources # "unsigned"
  /\ versions' = [versions EXCEPT ![id] = Listed(id)]
  /\ missed' = IF sources = "up" THEN missed ELSE missed \union {id}
  /\ UNCHANGED <<world, cache, picked, nogoods, walk, todo, removed, pc, lock,
                 outcome>>

\* Advisories that do not verify: prioritize passes over it, but the package
\* comes first then, and choose_version meets it again.
Distrust(id) ==
  /\ pc = "solve"
  /\ id \in Pending
  /\ versions[id] = Unlisted
  /\ sources = "unsigned"
  /\ Stop("untrusted")

\* prioritize: packages without a candidate first, then, until there has
\* been a conflict, those with the fewest.
Turn(id) ==
  /\ pc = "solve"
  /\ id \in Pending
  /\ \A other \in Pending : versions[other] # Unlisted
  /\ \A other \in Pending :
       /\ Candidates(other) = {} => Candidates(id) = {}
       /\ nogoods = {} => Cardinality(Candidates(id)) <= Cardinality(Candidates(other))

\* What the store has, if it can be warned about, else what a source offers.
Available(pin) ==
  IF stored[pin] # None THEN (IF Warned THEN stored[pin] ELSE None)
  ELSE IF Reachable(pin) THEN offer[pin] ELSE None

\* load_pkg: read once per pin and resolution.
Metadata(pin) == IF cache[pin] # None THEN cache[pin] ELSE Available(pin)

\* What of the selection the new package's requirements rule out.
Clashes(selection, needs) ==
  {d \in DOMAIN needs \intersect DOMAIN selection : ~InRanges(needs[d], selection[d])}

\* choose_version with a candidate, and get_dependencies of it.
Choose(id) ==
  /\ Turn(id)
  /\ Candidates(id) # {}
  /\ LET v == Highest(Candidates(id))
         pin == <<id, v>>
         selection == With(picked, id, v)
     IN  \/ /\ Metadata(pin) = None
            /\ nogoods' = nogoods \union {Only(id, v)}
            /\ UNCHANGED <<cache, picked>>
         \/ /\ Metadata(pin) # None
            /\ cache' = [cache EXCEPT ![pin] = Metadata(pin)]
            /\ LET clashes == Clashes(selection, Needs[pin][Metadata(pin)])
               IN  /\ picked' = IF clashes = {} THEN selection ELSE picked
                   /\ nogoods' = nogoods \union
                        {With(Only(d, selection[d]), id, v) : d \in clashes}
  /\ UNCHANGED <<world, versions, missed, walk, todo, removed, pc, lock, outcome>>

\* list_yanked_dep_versions: the sources are read again for it.
Advised(id) ==
  {v \in Releases : /\ sources = "up"
                    /\ offer[<<id, v>>] # None
                    /\ <<id, v>> \in yanked}

\* yanked_reason_in_range
Withdrawn(id) == {v \in Advised(id) : Fits(id, v)}

\* Mutant of Unread: sources that could not be read count as read.
UnreadNever(id) == FALSE

Unread(id) == id \in missed

\* Nothing fits: choose_version ends the resolution where it can say why,
\* else the solver goes back and tries something else.  (It may see by itself
\* that a range is empty.)
DeadEnd(id) ==
  /\ Turn(id)
  /\ Candidates(id) = {}
  /\ \/ sources = "unsigned" /\ Stop("untrusted")
     \/ Withdrawn(id) # {} /\ Stop("yanked")
     \/ /\ sources # "unsigned" /\ Withdrawn(id) = {}
        /\ Unread(id) /\ Stop("discovery")
     \/ /\ Withdrawn(id) = {}
        /\ sources = "unsigned" \/ Unread(id) => \A v \in Releases : ~Fits(id, v)
        /\ \/ DOMAIN picked = {Root} /\ Stop("unsolvable")
           \/ /\ DOMAIN picked # {Root}
              /\ nogoods' = nogoods \union {picked}
              /\ picked' = Only(Root, RootVersion)
              /\ UNCHANGED <<world, provider, walk, todo, removed, pc, lock, outcome>>

PickedPins == {<<id, picked[id]>> : id \in DOMAIN picked}

\* Every package of the selection has what it needs in it.
Solve ==
  /\ pc = "solve"
  /\ Pending = {}
  /\ pc' = "check"
  /\ UNCHANGED <<world, search, lock, outcome>>

\* detect_dependency_cycle: what dfs is called for, by the loop over all packages
\* or from the visit of the innermost one.
Called ==
  IF visiting = <<>> THEN DOMAIN picked
  ELSE LET id == visiting[Len(visiting)]
       IN  DOMAIN DepsOf(id, picked[id]) \intersect DOMAIN picked

\* Mutant of Enter: a package counts as visited when it is entered.
EnterEarly(id) ==
  /\ pc = "check"
  /\ id \in Called \ visited
  /\ visiting' = Append(visiting, id)
  /\ visited' = visited \union {id}
  /\ UNCHANGED <<world, provider, picked, nogoods, todo, removed, pc, lock, outcome>>

Enter(id) ==
  /\ pc = "check"
  /\ id \in Called \ visited
  /\ IF id \in Range(visiting) THEN Stop("cycle")
     ELSE /\ visiting' = Append(visiting, id)
          /\ UNCHANGED <<world, provider, picked, nogoods, visited, todo, removed, pc,
                         lock, outcome>>

Leave ==
  /\ pc = "check"
  /\ visiting # <<>>
  /\ Called \subseteq visited
  /\ visiting' = SubSeq(visiting, 1, Len(visiting) - 1)
  /\ visited' = visited \union {visiting[Len(visiting)]}
  /\ UNCHANGED <<world, provider, picked, nogoods, todo, removed, pc, lock, outcome>>

\* No circle: on to the packages that have a hash.
Check ==
  /\ pc = "check"
  /\ visiting = <<>>
  /\ Called \subseteq visited
  /\ pc' = "materialize"
  /\ todo' = PickedPins \ (IF sealed THEN {} ELSE {RootPin})
  /\ UNCHANGED <<world, provider, picked, nogoods, walk, removed, lock, outcome>>

\* Mutant of Materialize: a package that is in the store is taken as it is.
MaterializeUnchecked(pin) ==
  /\ pc = "materialize"
  /\ pin \in todo
  /\ Available(pin) # None
  /\ stored' = [stored EXCEPT ![pin] = IF @ # None THEN @ ELSE offer[pin]]
  /\ todo' = todo \ {pin}
  /\ UNCHANGED <<offer, yanked, sources, sealed, changes, still, lock, provider, picked,
                 nogoods, walk, removed, pc, outcome>>

\* One package of materialize: found and warned about, or fetched, and the one
\* that was read about.  What was fetched stays, also if it is another.
Materialize(pin) ==
  /\ pc = "materialize"
  /\ pin \in todo
  /\ LET found == Available(pin)
     IN  IF found = None THEN Stop("unavailable")
         ELSE /\ stored' = [stored EXCEPT ![pin] = found]
              /\ \/ /\ found = cache[pin]
                    /\ todo' = todo \ {pin}
                    /\ UNCHANGED <<provider, picked, nogoods, walk, removed, pc,
                                   outcome>>
                 \/ /\ found # cache[pin]
                    /\ Drop
                    /\ outcome' = "mismatch"
              /\ UNCHANGED <<offer, yanked, sources, sealed, changes, still, lock>>

\* Mutant of Save: the contents are taken from the store at the end.
SaveFromStore ==
  /\ pc = "materialize"
  /\ todo = {}
  /\ lock' = [id \in DOMAIN picked |->
                [version |-> picked[id],
                 edition |-> IF id = Root /\ ~sealed THEN None
                             ELSE stored[<<id, picked[id]>>]]]
  /\ Drop
  /\ outcome' = "locked"
  /\ UNCHANGED world

\* write_lockfile: the whole file at once, by a rename.
Save ==
  /\ pc = "materialize"
  /\ todo = {}
  /\ lock' = [id \in DOMAIN picked |->
                [version |-> picked[id],
                 edition |-> IF id = Root /\ ~sealed THEN None
                             ELSE cache[<<id, picked[id]>>]]]
  /\ Drop
  /\ outcome' = "locked"
  /\ UNCHANGED world

\* A kill, or an error of a call.
Interrupt == pc # "idle" /\ Stop("stopped")

\* Mutant of Ready: the packages are there, hashes are not compared.
ReadyById ==
  /\ lock # None
  /\ \A id \in DOMAIN lock :
       /\ lock[id].edition # None
       /\ stored[<<id, lock[id].version>>] # None

\* verify_lockfile_ready, before a runtime is built from what is in the store:
\* every package of lar.lock has a hash and is there as it was locked.
Ready ==
  /\ lock # None
  /\ \A id \in DOMAIN lock :
       /\ lock[id].edition # None
       /\ stored[<<id, lock[id].version>>] = lock[id].edition

-----------------------------------------------------------------------------
(* Publishers, other commands, the network.                                *)

Change ==
  /\ changes < MaxChanges
  /\ changes' = changes + 1
  /\ still' = (pc = "idle")
  /\ outcome' = IF pc = "idle" THEN None ELSE outcome
  /\ UNCHANGED <<sealed, provider, picked, nogoods, walk, todo, pc, lock>>

\* The user throws lar.lock away.
Discard ==
  /\ pc = "idle"
  /\ lock # None
  /\ lock' = None
  /\ outcome' = None
  /\ UNCHANGED <<world, search, pc>>

\* A publisher replaces an archive or takes it away.
Republish(pin) ==
  /\ Change
  /\ \E e \in ({None} \union Edition) \ {offer[pin]} : offer' = [offer EXCEPT ![pin] = e]
  /\ UNCHANGED <<yanked, sources, stored, removed>>

Yank(pin) ==
  /\ Change
  /\ pin \notin yanked
  /\ yanked' = yanked \union {pin}
  /\ UNCHANGED <<offer, sources, stored, removed>>

Outage ==
  /\ Change
  /\ \E answer \in Answer \ {sources} : sources' = answer
  /\ UNCHANGED <<offer, yanked, stored, removed>>

\* lar store add: a pin once stored is never replaced.
StoreAdd(pin) ==
  /\ Change
  /\ stored[pin] = None
  /\ \E e \in Edition : stored' = [stored EXCEPT ![pin] = e]
  /\ UNCHANGED <<offer, yanked, sources, removed>>

StoreRemove(pin) ==
  /\ Change
  /\ stored[pin] # None
  /\ stored' = [stored EXCEPT ![pin] = None]
  /\ removed' = IF pc = "idle" THEN {} ELSE removed \union {pin}
  /\ UNCHANGED <<offer, yanked, sources>>

Next ==
  \/ Resolve
  \/ \E id \in Id : \/ ListVersions(id) \/ Distrust(id)
                    \/ Choose(id) \/ DeadEnd(id) \/ Enter(id)
  \/ Solve \/ Leave \/ Check
  \/ \E pin \in todo : Materialize(pin)
  \/ Save
  \/ Interrupt
  \/ Discard
  \/ \E pin \in Volatile : \/ Republish(pin) \/ Yank(pin)
                           \/ StoreAdd(pin) \/ StoreRemove(pin)
  \/ Outage

Spec == Init /\ [][Next]_vars

-----------------------------------------------------------------------------
(* Properties.                                                             *)

\* A comparator as documented wherever the code delivers it, see Plain.
Satisfies(c, v) == IF Plain(c) /\ v.rel = 1 THEN Meets(c, v) ELSE InRange(c, v)

LockedNeeds(id) ==
  Needs[<<id, lock[id].version>>]
       [IF lock[id].edition = None THEN RootEdition ELSE lock[id].edition]

\* A lockfile holds a solution (resolve_manifest): for every package in it all
\* dependencies, in versions that meet the requirements; no package that
\* nothing needs; and no circle of dependencies, of any length.
LockSolved ==
  lock # None =>
    /\ \A id \in DOMAIN lock : \A d \in DOMAIN LockedNeeds(id) :
         /\ d \in DOMAIN lock
         /\ \A c \in LockedNeeds(id)[d] : Satisfies(c, lock[d].version)
    /\ \A d \in DOMAIN lock \ {Root} :
         \E id \in DOMAIN lock : d \in DOMAIN LockedNeeds(id)
    /\ \A S \in (SUBSET DOMAIN lock) \ {{}} :
         \E id \in S : DOMAIN LockedNeeds(id) \intersect S = {}

\* When a lockfile is written the store holds every package in it, with the
\* very contents whose requirements were solved (materialize), unless another
\* command has removed it meanwhile: metadata read before may be out of date.
LockStored ==
  [][lock' \notin {lock, None} =>
       \A id \in DOMAIN lock' :
         LET pin == <<id, lock'[id].version>>
         IN  \/ lock'[id].edition = None
             \/ stored[pin] = lock'[id].edition
             \/ pin \in removed]_vars

\* Whether l selects the highest version of everything that fits the
\* requirements of all other packages it selects.
NothingNewer(l) ==
  \A id \in DOMAIN l \ {Root} :
    ~\E v \in Releases :
       /\ stored[<<id, v>>] # None \/ Reachable(<<id, v>>)
       /\ Before(l[id].version, v)
       /\ \A d \in DOMAIN l :
            id \in DOMAIN DepsOf(d, l[d].version) =>
              InRanges(DepsOf(d, l[d].version)[id], v)

\* In a world that stands still, and if no selection had to be taken back,
\* each package is locked at the highest version, in store or sources, that
\* all packages that need it accept (choose_version).  Versions are chosen
\* before all of these are known.
HighestLocked ==
  [][lock' \notin {lock, None} /\ still /\ nogoods = {} => NothingNewer(lock')]_vars

\* What store and sources have of a pin, whether they can be read or not.
Existing(pin) ==
  IF stored[pin] # None THEN stored[pin]
  ELSE IF pin \notin yanked THEN offer[pin] ELSE None

\* Reference: a set of pins with the root that satisfies its requirements.
Solution(S) ==
  \A pin \in S :
    LET e == IF pin = RootPin THEN RootEdition ELSE Existing(pin)
    IN  /\ e # None
        /\ \A d \in DOMAIN Needs[pin][e] :
             \E v \in Releases : <<d, v>> \in S /\ InRanges(Needs[pin][e][d], v)
        /\ \A other \in S : other[1] = pin[1] => other = pin

\* In a world that stands still, requirements are called unsolvable only if
\* they are: no choice of versions, also none a source that is gone would have
\* had, satisfies them (choose_version and its error cases).  A server that does
\* not answer is left out: then no package in the store can be read either, and
\* what needs an exact version of one is refused although it is there (load_pkg,
\* get_dependencies).
RefusalsHold ==
  outcome = "unsolvable" /\ still /\ sources # "down" =>
    ~\E S \in SUBSET {pin \in Pin : Existing(pin) # None \/ pin = RootPin} :
       RootPin \in S /\ Solution(S)

\* Whatever lockfile is found on disk, and whatever has become of the store
\* since: if it is accepted, what a runtime would be composed of are packages
\* whose own requirements the others among them meet (verify_lockfile_ready).
ComposedClosed ==
  Ready =>
    \A id \in DOMAIN lock :
      LET needs == Needs[<<id, lock[id].version>>][stored[<<id, lock[id].version>>]]
      IN  \A d \in DOMAIN needs :
            d \in DOMAIN lock /\ InRanges(needs[d], lock[d].version)

=============================================================================
