--------------------------- MODULE ComposingProofs ---------------------------
(***************************************************************************)
(* What a build renames into place is what its lockfile says, however the  *)
(* store changes while it composes, if nothing is taken from it while it   *)
(* verifies; what it has delivered runs, it fails only for a reason, and a *)
(* collection leaves what runs: for any number of packages, editions,      *)
(* paths and lockfiles, in every mode.                                     *)
(*                                                                         *)
(* None of the properties is inductive.  Sure adds to them what a          *)
(* verification has found, look by look, as long as what it has looked at  *)
(* stays, and what a command that nothing has disturbed has placed,        *)
(* checked and collected so far.                                           *)
(***************************************************************************)
EXTENDS Composing, WellFoundedInduction, TLAPS

\* What Verified relies on: the files of package k are in d as locked.
HasPackage(id, d, k) ==
  \A q \in PathsOf(k, LockOf(id)[k]) :
    /\ q \in DOMAIN d.files
    /\ d.files[q].how = ModeOf(id)
    /\ ModeOf(id) = "symlink" \/ d.files[q].text = Files[k][LockOf(id)[k]][q]
    /\ ModeOf(id) = "copy" \/ d.files[q].pkg = k

HasId == {"check", "clear", "make", "compose", "verify", "rename", "judge", "drop"}

Shape ==
  /\ runtimes = [id \in Id |-> runtimes[id]]
  /\ cmd = [pc |-> cmd.pc, id |-> cmd.id, all |-> cmd.all, queue |-> cmd.queue,
            left |-> cmd.left, src |-> cmd.src, placed |-> cmd.placed,
            stage |-> cmd.stage, todo |-> cmd.todo, expected |-> cmd.expected,
            calm |-> cmd.calm, steady |-> cmd.steady]
  /\ cmd.calm => cmd.steady
  /\ cmd.pc \in HasId => cmd.id \in Id
  /\ cmd.queue \subseteq Id
  /\ untouched \subseteq Id

Underway ==
  /\ cmd.pc \in {"compose", "verify", "rename"} =>
       tmp = [meta |-> tmp.meta, files |-> tmp.files]
  /\ cmd.pc \in {"verify", "rename"} => tmp.meta

Whole == Shape /\ Underway /\ WholeAsLocked

\* The lockfiles name packages and editions that there are.
LEMMA LocksAreMeant ==
  ASSUME NEW id \in Id, NEW k \in DOMAIN LockOf(id)
  PROVE  k \in Package /\ PathsOf(k, LockOf(id)[k]) \subseteq Path
BY ComposingAssumption DEF LockOf, PathsOf

\* One package of a directory: in the store as locked and whole, and each of its
\* files placed as it would be now.
Holds(k, id, d) ==
  /\ stored[k] # None
  /\ stored[k].ed = LockOf(id)[k]
  /\ \A q \in Path : <<k, stored[k].add, q>> \notin spoilt
  /\ \A q \in PathsOf(k, stored[k].ed) :
       q \in DOMAIN d.files /\ d.files[q] = Placed(ModeOf(id), k, q)

\* A package that passes the check is there as locked (check_placed_file).
LEMMA HoldsHasPackage ==
  ASSUME NEW id \in Id, NEW d, NEW k \in DOMAIN LockOf(id), Holds(k, id, d)
  PROVE  HasPackage(id, d, k)
<1> SUFFICES ASSUME NEW q \in PathsOf(k, LockOf(id)[k])
             PROVE  /\ q \in DOMAIN d.files
                    /\ d.files[q].how = ModeOf(id)
                    /\ ModeOf(id) = "symlink" \/ d.files[q].text = Files[k][LockOf(id)[k]][q]
                    /\ ModeOf(id) = "copy" \/ d.files[q].pkg = k
  BY DEF HasPackage
<1>1. /\ stored[k].ed = LockOf(id)[k]
      /\ <<k, stored[k].add, q>> \notin spoilt
      /\ q \in DOMAIN d.files
      /\ d.files[q] = Placed(ModeOf(id), k, q)
  BY LocksAreMeant DEF Holds
<1>2. Reads(k, q) = Files[k][LockOf(id)[k]][q]
  BY <1>1 DEF Reads
<1>3. ModeOf(id) \in {"symlink", "hardlink", "copy"}
  BY ComposingAssumption DEF ModeOf
<1>4. QED
  BY <1>1, <1>2, <1>3 DEF Placed

\* All packages there, and nothing else: the runtime is as locked.
LEMMA PackagesMakeRuntime ==
  ASSUME NEW id \in Id, NEW d, d.meta,
         \A k \in DOMAIN LockOf(id) : HasPackage(id, d, k),
         DOMAIN d.files \subseteq UNION {PathsOf(k, LockOf(id)[k]) : k \in DOMAIN LockOf(id)}
  PROVE  AsLocked(id, d)
<1>1. DOMAIN d.files = UNION {PathsOf(k, LockOf(id)[k]) : k \in DOMAIN LockOf(id)}
  BY DEF HasPackage
<1>2. \A k \in DOMAIN LockOf(id) : \A q \in PathsOf(k, LockOf(id)[k]) :
        /\ d.files[q].how = ModeOf(id)
        /\ ModeOf(id) = "symlink" \/ d.files[q].text = Files[k][LockOf(id)[k]][q]
        /\ ModeOf(id) = "copy" \/ d.files[q].pkg = k
  BY DEF HasPackage
<1>3. QED
  BY <1>1, <1>2 DEF AsLocked

\* Runtimes nobody has touched stay as they are where directories do not change.
LEMMA SameRuntimes ==
  ASSUME WholeAsLocked, UNCHANGED runtimes, untouched' \subseteq untouched
  PROVE  WholeAsLocked'
BY DEF WholeAsLocked, AsLocked, LockOf, ModeOf, PathsOf

\* A change to one directory gives up what was known of it, and only of it.
LEMMA OneRuntimeGivenUp ==
  ASSUME Shape, WholeAsLocked, NEW id \in Id, NEW d,
         runtimes' = [runtimes EXCEPT ![id] = d], untouched' = untouched \ {id}
  PROVE  WholeAsLocked'
<1>1. \A other \in untouched' : other \in untouched /\ runtimes'[other] = runtimes[other]
  BY DEF Shape
<1>2. QED
  BY <1>1 DEF WholeAsLocked, AsLocked, LockOf, ModeOf, PathsOf

\* At first there are no runtimes and no command is at work.
LEMMA InitWhole == Init => Whole
<1> SUFFICES ASSUME Init PROVE Whole
  OBVIOUS
<1>1. Shape
  BY DEF Init, Shape, Idle, HasId
<1>2. Underway
  BY DEF Init, Underway, Idle
<1>3. WholeAsLocked
  BY DEF Init, WholeAsLocked
<1>4. QED
  BY <1>1, <1>2, <1>3 DEF Whole

-----------------------------------------------------------------------------
(* Every step preserves Whole.                                             *)

\* The start of a command.
LEMMA BuildWhole == ASSUME Whole, NEW id \in Id, Build(id) PROVE Whole'
<1>1. cmd' \in {Run("failed", id), Run("make", id), Run("clear", id), Verifying("check", id)}
  BY DEF Build
<1>2. Shape'
  BY <1>1 DEF Whole, Shape, Build, Begin, Run, Verifying, Idle, HasId
<1>3. cmd'.pc \in {"failed", "make", "clear", "check"}
  BY <1>1 DEF Run, Verifying, Idle
<1>4. Underway'
  BY <1>3 DEF Underway
<1>5. WholeAsLocked'
  BY SameRuntimes DEF Whole, Build, Begin
<1>6. QED
  BY <1>2, <1>4, <1>5 DEF Whole

LEMMA GcWhole == ASSUME Whole, NEW all \in BOOLEAN, Gc(all) PROVE Whole'
<1>1. cmd' = [Idle EXCEPT !.pc = "next", !.all = all,
                          !.queue = {id \in Id : runtimes[id] # None}]
  BY DEF Gc
<1>2. Shape' /\ cmd'.pc = "next"
  BY <1>1 DEF Whole, Shape, Gc, Begin, Idle, HasId
<1>3. Underway'
  BY <1>2 DEF Underway
<1>4. WholeAsLocked'
  BY SameRuntimes DEF Whole, Gc, Begin
<1>5. QED
  BY <1>2, <1>3, <1>4 DEF Whole

\* Steps that only end a command.
LEMMA EndingWhole ==
  ASSUME Whole, UNCHANGED runtimes, UNCHANGED untouched,
         NEW id, cmd' \in {Idle, Run("failed", id)}
  PROVE  Whole'
<1>1. /\ cmd' = [pc |-> cmd'.pc, id |-> cmd'.id, all |-> cmd'.all, queue |-> cmd'.queue,
                 left |-> cmd'.left, src |-> cmd'.src, placed |-> cmd'.placed,
                 stage |-> cmd'.stage, todo |-> cmd'.todo, expected |-> cmd'.expected,
                 calm |-> cmd'.calm, steady |-> cmd'.steady]
      /\ cmd'.pc \in {"idle", "failed"} /\ cmd'.queue = {} /\ cmd'.steady
  <2>1. CASE cmd' = Idle
    BY <2>1 DEF Idle
  <2>2. CASE cmd' = Run("failed", id)
    BY <2>2 DEF Run, Idle
  <2>3. QED
    BY <2>1, <2>2
<1>5. Shape'
  BY <1>1 DEF Whole, Shape, HasId
<1>2. Underway'
  BY <1>1 DEF Underway
<1>3. WholeAsLocked'
  BY SameRuntimes DEF Whole
<1>4. QED
  BY <1>5, <1>2, <1>3 DEF Whole

\* Steps that move a command on, with no claim about what it has composed.
LEMMA MovingWhole ==
  ASSUME Whole, UNCHANGED runtimes, UNCHANGED untouched,
         NEW step, step \notin {"compose", "verify", "rename"}, Turn(step),
         step \in HasId => cmd.pc \in HasId
  PROVE  Whole'
<1>1. Shape' /\ cmd'.pc = step
  BY DEF Whole, Shape, Turn
<1>2. Underway'
  BY <1>1 DEF Underway
<1>3. WholeAsLocked'
  BY SameRuntimes DEF Whole
<1>4. QED
  BY <1>1, <1>2, <1>3 DEF Whole

LEMMA MakeTmpWhole == ASSUME Whole, MakeTmp PROVE Whole'
<1>1. cmd' = [cmd EXCEPT !.pc = "compose", !.left = DOMAIN LockOf(cmd.id)]
  BY DEF MakeTmp
<1>2. Shape' /\ cmd'.pc = "compose"
  BY <1>1 DEF Whole, Shape, MakeTmp, At, HasId, history
<1>3. Underway'
  BY <1>2 DEF Underway, MakeTmp, EmptyDir
<1>4. WholeAsLocked'
  BY SameRuntimes DEF Whole, MakeTmp, history
<1>5. QED
  BY <1>2, <1>3, <1>4 DEF Whole

\* Steps of composing.
LEMMA ComposingWhole ==
  ASSUME Whole, UNCHANGED runtimes, UNCHANGED untouched, cmd.pc = "compose",
         \E left, src, placed :
           cmd' = [cmd EXCEPT !.left = left, !.src = src, !.placed = placed],
         tmp' = [meta |-> tmp'.meta, files |-> tmp'.files]
  PROVE  Whole'
<1> PICK left, src, placed :
      cmd' = [cmd EXCEPT !.left = left, !.src = src, !.placed = placed]
  OBVIOUS
<1>1. Shape' /\ cmd'.pc = "compose"
  BY DEF Whole, Shape, HasId
<1>2. Underway'
  BY <1>1 DEF Underway
<1>3. WholeAsLocked'
  BY SameRuntimes DEF Whole
<1>4. QED
  BY <1>1, <1>2, <1>3 DEF Whole

LEMMA FailWhole == ASSUME Whole, Fail PROVE Whole'
<1>1. cmd' \in {Idle, Run("failed", cmd.id)}
  BY DEF Fail
<1>2. QED
  BY <1>1, EndingWhole DEF Fail, history

LEMMA OpenPackageWhole == ASSUME Whole, OpenPackage PROVE Whole'
<1>1. CASE Fail
  BY <1>1, FailWhole
<1>2. CASE /\ cmd' = [cmd EXCEPT !.src = stored[Current], !.placed = {}]
           /\ UNCHANGED <<world, runtimes, tmp, history>>
  <2>1. cmd' = [cmd EXCEPT !.left = cmd.left, !.src = stored[Current], !.placed = {}]
    BY <1>2 DEF Whole, Shape
  <2>2. tmp' = [meta |-> tmp'.meta, files |-> tmp'.files]
    BY <1>2 DEF Whole, Underway, OpenPackage, At
  <2>3. cmd.pc = "compose" /\ UNCHANGED runtimes /\ UNCHANGED untouched
    BY <1>2 DEF OpenPackage, At, history
  <2>4. \E left, src, placed :
          cmd' = [cmd EXCEPT !.left = left, !.src = src, !.placed = placed]
    BY <2>1
  <2>5. QED
    BY <2>2, <2>3, <2>4, ComposingWhole
<1>3. QED
  BY <1>1, <1>2 DEF OpenPackage

LEMMA ClosePackageWhole == ASSUME Whole, ClosePackage PROVE Whole'
<1>1. CASE Fail
  BY <1>1, FailWhole
<1>2. CASE /\ cmd' = [cmd EXCEPT !.left = @ \ {Current}, !.src = None, !.placed = {}]
           /\ UNCHANGED <<world, runtimes, tmp, history>>
  <2>1. tmp' = [meta |-> tmp'.meta, files |-> tmp'.files]
    BY <1>2 DEF Whole, Underway, ClosePackage, At
  <2>2. cmd.pc = "compose" /\ UNCHANGED runtimes /\ UNCHANGED untouched
    BY <1>2 DEF ClosePackage, At, history
  <2>3. cmd' = [cmd EXCEPT !.left = cmd.left \ {Current}, !.src = None, !.placed = {}]
    BY <1>2
  <2>4. \E left, src, placed :
          cmd' = [cmd EXCEPT !.left = left, !.src = src, !.placed = placed]
    BY <2>3
  <2>5. QED
    BY <2>1, <2>2, <2>4, ComposingWhole
<1>3. QED
  BY <1>1, <1>2 DEF ClosePackage

LEMMA PlaceWhole == ASSUME Whole, NEW q \in Path, Place(q) PROVE Whole'
<1>1. CASE Fail
  BY <1>1, FailWhole
<1>2. CASE ~Fail
  <2>1. /\ tmp' = [tmp EXCEPT !.files = With(@, q, Placed(ModeOf(cmd.id), Current, q))]
        /\ cmd' = [cmd EXCEPT !.placed = @ \union {q}]
        /\ UNCHANGED <<world, runtimes, history>>
        /\ cmd.pc = "compose"
    BY <1>2 DEF Place, At
  <2>2. cmd' = [cmd EXCEPT !.left = cmd.left, !.src = cmd.src, !.placed = cmd.placed \union {q}]
    BY <2>1 DEF Whole, Shape
  <2>3. tmp' = [meta |-> tmp'.meta, files |-> tmp'.files]
    <3>1. tmp = [meta |-> tmp.meta, files |-> tmp.files]
      BY <2>1 DEF Whole, Underway
    <3>2. QED
      BY <2>1, <3>1
  <2>4. \E left, src, placed :
          cmd' = [cmd EXCEPT !.left = left, !.src = src, !.placed = placed]
    BY <2>2
  <2>5. UNCHANGED runtimes /\ UNCHANGED untouched
    BY <2>1 DEF history
  <2>6. QED
    BY <2>1, <2>3, <2>4, <2>5, ComposingWhole
<1>3. QED
  BY <1>1, <1>2

LEMMA WriteMetaWhole == ASSUME Whole, WriteMeta PROVE Whole'
<1>1. /\ cmd.pc = "compose"
      /\ tmp' = [tmp EXCEPT !.meta = TRUE]
      /\ cmd' = [cmd EXCEPT !.pc = "verify", !.left = DOMAIN LockOf(cmd.id)]
      /\ UNCHANGED <<world, runtimes, history>>
  BY DEF WriteMeta, At
<1>2. Shape' /\ cmd'.pc = "verify" /\ cmd'.left = DOMAIN LockOf(cmd.id) /\ cmd'.id = cmd.id
  BY <1>1 DEF Whole, Shape, HasId, history
<1>3. tmp = [meta |-> tmp.meta, files |-> tmp.files]
  BY <1>1 DEF Whole, Underway
<1>4. tmp'.meta /\ tmp' = [meta |-> tmp'.meta, files |-> tmp'.files]
  BY <1>1, <1>3
<1>5. Underway'
  BY <1>2, <1>4 DEF Underway
<1>6. WholeAsLocked'
  BY <1>1, SameRuntimes DEF Whole, history
<1>7. QED
  BY <1>2, <1>5, <1>6 DEF Whole

Looking ==
  \/ GetStored \/ CheckStored \/ ListFiles \/ PackageDone
  \/ \E q \in Path : Compare(q)

\* A look of verify_runtime_dir leaves all but its own variables alone.
LEMMA LooksOnly ==
  ASSUME Shape, Looking
  PROVE  /\ cmd.pc \in {"check", "verify", "judge"} /\ Scrutiny /\ cmd.left # {}
         /\ UNCHANGED <<world, runtimes, tmp, history>>
         /\ UNCHANGED <<stored, spoilt, runtimes, tmp, untouched, good, swept>>
         /\ cmd'.pc = cmd.pc /\ cmd'.id = cmd.id /\ cmd'.queue = cmd.queue
         /\ cmd'.all = cmd.all /\ cmd'.calm = cmd.calm /\ cmd'.steady = cmd.steady
         /\ cmd'.placed = cmd.placed
         /\ Shape'
<1>1. Scrutiny /\ cmd.left # {} /\ UNCHANGED <<world, runtimes, tmp, history>>
  BY DEF Looking, GetStored, CheckStored, ListFiles, PackageDone, Compare, Stage
<1>2. PICK stage, src, left, todo, expected :
        cmd' = [cmd EXCEPT !.stage = stage, !.src = src, !.left = left, !.todo = todo,
                           !.expected = expected]
  <2>1. CASE GetStored
    <3>1. cmd' = [cmd EXCEPT !.stage = "intact", !.src = stored[Current], !.left = cmd.left,
                             !.todo = cmd.todo, !.expected = cmd.expected]
      BY <2>1 DEF GetStored, Shape
    <3>2. QED
      BY <3>1
  <2>2. CASE CheckStored
    <3>1. cmd' = [cmd EXCEPT !.stage = "list", !.src = cmd.src, !.left = cmd.left,
                             !.todo = cmd.todo, !.expected = cmd.expected]
      BY <2>2 DEF CheckStored, Shape
    <3>2. QED
      BY <3>1
  <2>3. CASE ListFiles
    <3>1. PICK rels : cmd' = [cmd EXCEPT !.stage = "compare", !.todo = rels]
      BY <2>3 DEF ListFiles
    <3>2. cmd' = [cmd EXCEPT !.stage = "compare", !.src = cmd.src, !.left = cmd.left,
                             !.todo = rels, !.expected = cmd.expected]
      BY <3>1 DEF Shape
    <3>3. QED
      BY <3>2
  <2>4. CASE PackageDone
    <3>1. cmd' = [cmd EXCEPT !.stage = "get", !.src = None, !.left = cmd.left \ {Current},
                             !.todo = cmd.todo, !.expected = cmd.expected]
      BY <2>4 DEF PackageDone, Shape
    <3>2. QED
      BY <3>1
  <2>5. ASSUME NEW q, Compare(q)
        PROVE  \E stage, src, left, todo, expected :
                 cmd' = [cmd EXCEPT !.stage = stage, !.src = src, !.left = left,
                                    !.todo = todo, !.expected = expected]
    <3>1. cmd' = [cmd EXCEPT !.stage = cmd.stage, !.src = cmd.src, !.left = cmd.left,
                             !.todo = cmd.todo \ {q}, !.expected = cmd.expected \union {q}]
      BY <2>5 DEF Compare, Shape
    <3>2. QED
      BY <3>1
  <2>6. QED
    BY <2>1, <2>2, <2>3, <2>4, <2>5 DEF Looking
<1>3. /\ cmd'.pc = cmd.pc /\ cmd'.id = cmd.id /\ cmd'.queue = cmd.queue
      /\ cmd'.all = cmd.all /\ cmd'.calm = cmd.calm /\ cmd'.steady = cmd.steady
      /\ cmd'.placed = cmd.placed
  BY <1>2 DEF Shape
<1>4. Shape'
  BY <1>1, <1>2, <1>3 DEF Shape, HasId, history
<1>5. QED
  BY <1>1, <1>3, <1>4 DEF Scrutiny, world, history

LEMMA LookingWhole == ASSUME Whole, Looking PROVE Whole'
<1>1. Shape' /\ UNCHANGED <<runtimes, tmp, untouched>> /\ cmd'.pc = cmd.pc
  BY LooksOnly DEF Whole
<1>2. Underway'
  BY <1>1 DEF Whole, Underway
<1>3. WholeAsLocked'
  BY <1>1, SameRuntimes DEF Whole
<1>4. QED
  BY <1>1, <1>2, <1>3 DEF Whole

LEMMA VerifiedWhole == ASSUME Whole, Verified PROVE Whole'
<1>1. CASE At("check")
  <2>1. cmd' = Idle /\ UNCHANGED <<runtimes, untouched>>
    BY <1>1 DEF Verified, At
  <2>2. QED
    BY <2>1, EndingWhole
<1>2. CASE At("verify")
  <2>1. cmd.pc = "verify" /\ Turn("rename") /\ UNCHANGED <<world, runtimes, tmp, history>>
    BY <1>2 DEF Verified, At
  <2>2. Shape' /\ cmd'.pc = "rename"
    BY <2>1 DEF Whole, Shape, HasId, history, Turn
  <2>3. Underway'
    BY <2>1, <2>2 DEF Whole, Underway
  <2>4. WholeAsLocked'
    BY <2>1, SameRuntimes DEF Whole, history
  <2>5. QED
    BY <2>2, <2>3, <2>4 DEF Whole
<1>3. CASE At("judge")
  <2>1. Turn("next") /\ UNCHANGED <<runtimes, untouched>>
    BY <1>3 DEF Verified, At, history
  <2>2. QED
    BY <2>1, MovingWhole DEF HasId
<1>4. QED
  BY <1>1, <1>2, <1>3 DEF Verified

LEMMA RefutedWhole == ASSUME Whole, Refuted PROVE Whole'
<1>1. CASE Fail
  BY <1>1, FailWhole
<1>2. CASE At("check") /\ Turn("clear") /\ UNCHANGED <<world, runtimes, tmp, history>>
  BY <1>2, MovingWhole DEF At, HasId, history
<1>3. CASE At("judge") /\ Turn("drop") /\ UNCHANGED <<world, runtimes, tmp, history>>
  BY <1>3, MovingWhole DEF At, HasId, history
<1>4. CASE cmd' = Idle /\ UNCHANGED <<world, runtimes, tmp, history>>
  BY <1>4, EndingWhole DEF history
<1>5. QED
  BY <1>1, <1>2, <1>3, <1>4 DEF Refuted

\* The directory becomes the runtime.
LEMMA RenameWhole ==
  ASSUME Whole, Rename, cmd.steady => AsLocked(cmd.id, tmp)
  PROVE  Whole'
<1>1. /\ cmd.pc = "rename"
      /\ runtimes' = [runtimes EXCEPT ![cmd.id] = tmp]
      /\ untouched' = IF cmd.steady THEN untouched \union {cmd.id} ELSE untouched \ {cmd.id}
      /\ cmd' = Idle
  BY DEF Rename, At
<1>2. cmd.id \in Id
  BY <1>1 DEF Whole, Shape, HasId
<1>3. Shape'
  BY <1>1, <1>2 DEF Whole, Shape, Idle, HasId
<1>4. Underway'
  BY <1>1 DEF Underway, Idle
<1>5. /\ runtimes'[cmd.id] = tmp
      /\ \A id \in untouched : id # cmd.id => runtimes'[id] = runtimes[id]
  BY <1>1, <1>2 DEF Whole, Shape
<1>6. \A id \in untouched : AsLocked(id, runtimes[id])
  BY DEF Whole, WholeAsLocked
<1>7. \A id \in untouched' : AsLocked(id, runtimes'[id])
  BY <1>1, <1>2, <1>5, <1>6
<1>8. WholeAsLocked'
  BY <1>7 DEF WholeAsLocked
<1>9. QED
  BY <1>3, <1>4, <1>8 DEF Whole

LEMMA DeleteWhole == ASSUME Whole, Delete PROVE Whole'
<1>1. PICK d : runtimes' = [runtimes EXCEPT ![cmd.id] = d]
  BY DEF Delete
<1>2. PICK step \in {"clear", "drop", "make", "next"} : cmd' = [cmd EXCEPT !.pc = step]
  BY DEF Delete, Goto, Whole, Shape
<1>3. cmd.pc \in {"clear", "drop"} /\ cmd.id \in Id /\ untouched' = untouched \ {cmd.id}
  BY DEF Delete, Whole, Shape, HasId
<1>4. Shape' /\ cmd'.pc = step
  BY <1>1, <1>2, <1>3 DEF Whole, Shape, HasId
<1>5. Underway'
  BY <1>4 DEF Underway
<1>6. WholeAsLocked'
  BY <1>1, <1>3, OneRuntimeGivenUp DEF Whole
<1>7. QED
  BY <1>4, <1>5, <1>6 DEF Whole

LEMMA NextCandidateWhole == ASSUME Whole, NEW id \in Id, NextCandidate(id) PROVE Whole'
<1>1. PICK step \in {"drop", "judge"} :
        cmd' = [cmd EXCEPT !.queue = @ \ {id}, !.id = id, !.left = DOMAIN LockOf(id),
                           !.pc = step]
  BY DEF NextCandidate
<1>2. UNCHANGED <<runtimes, untouched>>
  BY DEF NextCandidate, history
<1>3. Shape' /\ cmd'.pc = step
  BY <1>1, <1>2 DEF Whole, Shape, HasId
<1>4. Underway'
  BY <1>3 DEF Underway
<1>5. WholeAsLocked'
  BY <1>2, SameRuntimes DEF Whole
<1>6. QED
  BY <1>3, <1>4, <1>5 DEF Whole

\* What others do: the command goes on, knowing or not.
LEMMA ChangeWhole ==
  ASSUME Whole, NEW takes, Change(takes), Shape' => WholeAsLocked',
         runtimes' = [id \in Id |-> runtimes'[id]], untouched' \subseteq Id
  PROVE  Whole'
<1>1. /\ \/ cmd' = Idle
         \/ cmd' = [cmd EXCEPT !.calm = FALSE, !.steady = @ /\ ~(takes /\ At("verify"))]
      /\ UNCHANGED tmp
  BY DEF Change
<1>2. Shape'
  <2>1. CASE cmd' = Idle
    BY <2>1 DEF Whole, Shape, Idle, HasId
  <2>2. CASE cmd' # Idle
    <3>1. PICK known : cmd' = [cmd EXCEPT !.calm = FALSE, !.steady = known]
      BY <1>1, <2>2
    <3>2. QED
      BY <3>1 DEF Whole, Shape, HasId
  <2>3. QED
    BY <2>1, <2>2
<1>3. Underway'
  <2>1. CASE cmd' = Idle
    BY <2>1 DEF Underway, Idle
  <2>2. CASE cmd' = [cmd EXCEPT !.calm = FALSE, !.steady = @ /\ ~(takes /\ At("verify"))]
    <3>1. cmd'.pc = cmd.pc
      BY <2>2 DEF Whole, Shape
    <3>2. QED
      BY <1>1, <3>1 DEF Whole, Underway
  <2>3. QED
    BY <1>1, <2>1, <2>2
<1>4. QED
  BY <1>2, <1>3 DEF Whole

LEMMA StoreWhole ==
  ASSUME Whole, NEW k \in Package,
         StoreRemove(k) \/ \E e \in Edition : StoreAdd(k, e)
  PROVE  Whole'
<1>1. (\E takes : Change(takes)) /\ UNCHANGED <<runtimes, untouched>>
  BY DEF StoreRemove, StoreAdd
<1>2. WholeAsLocked'
  BY <1>1, SameRuntimes DEF Whole
<1>3. runtimes' = [id \in Id |-> runtimes'[id]] /\ untouched' \subseteq Id
  BY <1>1 DEF Whole, Shape
<1>4. QED
  BY <1>1, <1>2, <1>3, ChangeWhole

\* One directory is written to: nothing more is known of it.
LEMMA MeddleWhole ==
  ASSUME Whole, NEW takes, Change(takes), NEW id \in Id,
         \E d : runtimes' = [runtimes EXCEPT ![id] = d], untouched' = untouched \ {id}
  PROVE  Whole'
<1> PICK d : runtimes' = [runtimes EXCEPT ![id] = d]
  OBVIOUS
<1>1. WholeAsLocked'
  BY OneRuntimeGivenUp DEF Whole
<1>2. runtimes' = [other \in Id |-> runtimes'[other]] /\ untouched' \subseteq Id
  BY DEF Whole, Shape
<1>3. QED
  BY <1>1, <1>2, ChangeWhole

LEMMA WriteWhole == ASSUME Whole, NEW id \in Id, NEW q \in Path, Write(id, q) PROVE Whole'
<1>1. \E takes : Change(takes)
  BY DEF Write
<1>2. CASE UNCHANGED <<runtimes, untouched>>
  <2>1. WholeAsLocked'
    BY <1>2, SameRuntimes DEF Whole
  <2>2. runtimes' = [other \in Id |-> runtimes'[other]] /\ untouched' \subseteq Id
    BY <1>2 DEF Whole, Shape
  <2>3. QED
    BY <1>1, <2>1, <2>2, ChangeWhole
<1>3. CASE /\ runtimes' = [runtimes EXCEPT ![id].files[q].text = Foreign]
           /\ untouched' = untouched \ {id}
  <2>1. \E d : runtimes' = [runtimes EXCEPT ![id] = d]
    BY <1>3
  <2>2. QED
    BY <1>1, <1>3, <2>1, MeddleWhole
<1>4. QED
  BY <1>2, <1>3 DEF Write

LEMMA LoseWhole == ASSUME Whole, NEW id \in Id, Lose(id) PROVE Whole'
<1>1. /\ \E takes : Change(takes)
      /\ untouched' = untouched \ {id}
      /\ \E d : runtimes' = [runtimes EXCEPT ![id] = d]
  BY DEF Lose
<1>2. QED
  BY <1>1, MeddleWhole

LEMMA SaveFileWhole == ASSUME Whole, NEW id \in Id, NEW q \in Path, SaveFile(id, q) PROVE Whole'
<1>1. (\E takes : Change(takes)) /\ untouched' = untouched \ {id}
  BY DEF SaveFile
<1>2. \E d : runtimes' = [runtimes EXCEPT ![id] = d]
  BY DEF SaveFile
<1>3. QED
  BY <1>1, <1>2, MeddleWhole

\* Every step.
LEMMA NextWhole ==
  ASSUME Whole, [Next]_vars, Rename /\ cmd.steady => AsLocked(cmd.id, tmp)
  PROVE  Whole'

<1>1. ASSUME Look \/ Interrupt \/ GcEnd PROVE Whole'
  <2>1. cmd' = Idle /\ UNCHANGED runtimes /\ UNCHANGED untouched
    BY <1>1 DEF Look, Begin, Interrupt, GcEnd, history
  <2>2. QED
    BY <2>1, EndingWhole
<1>2. ASSUME UNCHANGED vars PROVE Whole'
  <2>1. UNCHANGED <<runtimes, tmp, cmd, untouched>>
    BY <1>2 DEF vars, history
  <2>2. Shape' /\ Underway'
    BY <2>1 DEF Whole, Shape, Underway, HasPackage, AsLocked, LockOf, ModeOf, PathsOf
  <2>3. QED
    BY <2>1, <2>2, SameRuntimes DEF Whole
<1>3. QED
  BY <1>1, <1>2, BuildWhole, GcWhole, MakeTmpWhole, OpenPackageWhole, ClosePackageWhole,
     WriteMetaWhole, PlaceWhole, LookingWhole, VerifiedWhole, RefutedWhole,
     RenameWhole, DeleteWhole, NextCandidateWhole, StoreWhole, LoseWhole, WriteWhole,
     SaveFileWhole
  DEF Next, Looking

-----------------------------------------------------------------------------
(***************************************************************************)
(* Types, and what the local variables of a command are.                   *)
(***************************************************************************)

Locals ==
  /\ cmd.pc = "failed" => cmd.id \in Id
  /\ cmd.left # {} => cmd.id \in Id /\ cmd.left \subseteq DOMAIN LockOf(cmd.id)
  /\ cmd.src = None => cmd.placed = {}
  /\ cmd.src # None => cmd.left # {}
  /\ IF Scrutiny THEN cmd.src = None <=> cmd.stage = "get"
     ELSE cmd.stage = "get" /\ cmd.todo = {} /\ cmd.expected = {}
  /\ \A id \in cmd.queue : runtimes[id] # None
  /\ cmd.pc \in {"check", "judge", "clear", "drop"} =>
       runtimes[cmd.id] # None /\ cmd.id \notin cmd.queue

Typed == TypeOK /\ Locals

\* Packages are numbers, so one that is left is the first of them.
LEMMA FirstOfLeft ==
  ASSUME Typed, cmd.left # {}
  PROVE  Current \in cmd.left /\ Current \in Package /\ Current \in DOMAIN LockOf(cmd.id)
<1> DEFINE Below == OpToRel(<, Nat)
<1>1. cmd.left \subseteq Nat /\ cmd.left \subseteq Package /\ cmd.left \subseteq DOMAIN LockOf(cmd.id)
  BY ComposingAssumption DEF Typed, TypeOK, Locals
<1>2. \E k \in cmd.left : \A j \in cmd.left : ~ (<<j, k>> \in Below)
  BY <1>1, WFMin, NatLessThanWellFounded
<1>3. PICK k \in cmd.left : \A j \in cmd.left : <<j, k>> \notin Below
  BY <1>2
<1>4. \A j \in cmd.left : ~ (j < k)
  BY <1>1, <1>3 DEF OpToRel
<1>5. \A j \in cmd.left : k =< j
  BY <1>1, <1>4
<1>6. QED
  BY <1>1, <1>5 DEF Current, Min

LEMMA IdParts == \A id \in Id : LockOf(id) \in Locks /\ ModeOf(id) \in Mode
BY ComposingAssumption DEF LockOf, ModeOf

LEMMA EmptyIsDir == EmptyDir \in Dir
<1>1. <<>> \in [{} -> Entry] /\ {} \in SUBSET Path
  OBVIOUS
<1>2. QED
  BY <1>1 DEF EmptyDir, Dir

\* A directory and one more file.
LEMMA WithIsDir ==
  ASSUME NEW d \in Dir, NEW q \in Path, NEW f \in Entry
  PROVE  /\ [d EXCEPT !.files = With(@, q, f)] \in Dir
         /\ [d EXCEPT !.files = With(@, q, f)].meta = d.meta
         /\ [d EXCEPT !.files = With(@, q, f)].files = With(d.files, q, f)
<1>1. d = [meta |-> d.meta, files |-> d.files] /\ d.meta \in BOOLEAN
  BY DEF Dir
<1>2. PICK paths \in SUBSET Path : d.files \in [paths -> Entry]
  BY DEF Dir
<1>3. With(d.files, q, f) \in [paths \union {q} -> Entry]
  BY <1>2 DEF With
<1>4. QED
  BY <1>1, <1>2, <1>3 DEF Dir

\* A directory and one file less.
LEMMA LessIsDir == ASSUME NEW d \in Dir, NEW e \in Less(d) PROVE e \in Dir
<1>1. d = [meta |-> d.meta, files |-> d.files] /\ d.meta \in BOOLEAN
  BY DEF Dir
<1>2. PICK paths \in SUBSET Path : d.files \in [paths -> Entry]
  BY DEF Dir
<1>3. \A q \in paths : [p \in paths \ {q} |-> d.files[p]] \in [paths \ {q} -> Entry]
  BY <1>2
<1>4. CASE e \in {[d EXCEPT !.files = Restrict(@, DOMAIN @ \ {q})] : q \in DOMAIN d.files}
  <2>1. PICK q \in paths : e = [d EXCEPT !.files = [p \in paths \ {q} |-> d.files[p]]]
    BY <1>2, <1>4 DEF Restrict
  <2>2. e.meta = d.meta /\ e.files = [p \in paths \ {q} |-> d.files[p]]
          /\ e = [meta |-> e.meta, files |-> e.files]
    BY <1>1, <2>1
  <2>3. e.files \in [paths \ {q} -> Entry] /\ paths \ {q} \in SUBSET Path
    BY <1>2, <2>2
  <2>4. QED
    BY <1>1, <2>2, <2>3 DEF Dir
<1>5. CASE e = [d EXCEPT !.meta = FALSE]
  BY <1>1, <1>5 DEF Dir
<1>6. QED
  BY <1>4, <1>5 DEF Less

\* What place_file makes of a file of the store.
LEMMA PlacedIsEntry ==
  ASSUME TypeOK, NEW mode \in Mode, NEW k \in Package, NEW q,
         mode = "symlink" \/ (stored[k] # None /\ q \in PathsOf(k, stored[k].ed))
  PROVE  Placed(mode, k, q) \in Entry
<1>1. CASE mode = "symlink"
  BY <1>1 DEF Placed, Entry
<1>2. CASE mode # "symlink"
  <2>1. stored[k] \in [ed : Edition, add : 0 .. MaxChanges]
    BY <1>2 DEF TypeOK, Stored
  <2>2. Files[k][stored[k].ed][q] \in Range(Files[k][stored[k].ed])
    BY <1>2 DEF PathsOf, Range
  <2>3. Files[k][stored[k].ed][q] \in Texts /\ Reads(k, q) \in Texts
    BY <2>1, <2>2 DEF Texts, Reads
  <2>4. mode \in {"hardlink", "copy"}
    BY <1>2, ComposingAssumption
  <2>5. QED
    BY <2>1, <2>3, <2>4 DEF Placed, Entry
<1>3. QED
  BY <1>1, <1>2


LEMMA InitTyped == Init => Typed
<1> SUFFICES ASSUME Init PROVE Typed
  OBVIOUS
<1>1. TypeOK
  <2>1. /\ cmd.pc = "idle" /\ cmd.id = None /\ cmd.all = FALSE /\ cmd.queue = {} /\ cmd.left = {}
        /\ cmd.src = None /\ cmd.placed = {} /\ cmd.calm = TRUE
        /\ cmd.stage = "get" /\ cmd.todo = {} /\ cmd.expected = {} /\ cmd.steady = TRUE
    BY DEF Init, Idle
  <2>2. stored \in [Package -> Stored] /\ runtimes \in [Id -> {None} \union Dir]
          /\ changes \in 0 .. MaxChanges /\ tmp = None
    BY ComposingAssumption, StateAssumption DEF Init
  <2>3. spoilt = {} /\ untouched = {} /\ good = {} /\ swept = FALSE
    BY DEF Init
  <2>4. QED
    BY <2>1, <2>2, <2>3 DEF TypeOK, Stored, Stages
<1>2. Locals
  BY DEF Init, Locals, Idle, Scrutiny
<1>3. QED
  BY <1>1, <1>2 DEF Typed

\* Steps that do not touch the directories under runtimes/ and the store.
LEMMA StillTyped ==
  ASSUME Whole, Typed, UNCHANGED <<stored, spoilt, changes, runtimes>>,
         tmp' \in {None} \union Dir, good' \subseteq Id, untouched' \subseteq Id,
         swept' \in BOOLEAN,
         cmd'.pc \in Steps \union {"idle", "failed"}, cmd'.id \in {None} \union Id,
         cmd'.queue \subseteq Id, cmd'.left \subseteq Package, cmd'.placed = {},
         cmd'.src = None, cmd'.all \in BOOLEAN, cmd'.calm \in BOOLEAN,
         cmd'.stage = "get", cmd'.todo = {}, cmd'.expected = {}, cmd'.steady \in BOOLEAN,
         cmd'.pc \in {"compose", "verify", "rename"} => tmp' # None,
         cmd'.pc \in {"make", "compose", "verify", "rename"} => runtimes[cmd'.id] = None,
         Locals'
  PROVE  Typed'
BY DEF Typed, TypeOK, Stored, Stages

LEMMA BuildTyped == ASSUME Whole, Typed, NEW id \in Id, Build(id) PROVE Typed'
<1>1. cmd' \in {Run("failed", id), Run("make", id), Run("clear", id), Verifying("check", id)}
  BY DEF Build
<1>2. (cmd'.pc = "make" => runtimes[id] = None)
        /\ (cmd'.pc \in {"clear", "check"} => runtimes[id] # None)
  <2>1. /\ Run("failed", id).pc = "failed" /\ Run("make", id).pc = "make"
        /\ Run("clear", id).pc = "clear" /\ Verifying("check", id).pc = "check"
    BY DEF Run, Verifying, Idle
  <2>2. \/ cmd' = Run("failed", id)
        \/ cmd' = Run("make", id) /\ runtimes[id] = None
        \/ cmd' \in {Run("clear", id), Verifying("check", id)} /\ runtimes[id] # None
    BY DEF Build
  <2>3. QED
    BY <2>1, <2>2
<1>3. DOMAIN LockOf(id) \subseteq Package
  BY LocksAreMeant
<1>4. /\ cmd'.pc \in {"failed", "make", "clear", "check"} /\ cmd'.id = id /\ cmd'.queue = {}
      /\ cmd'.left \in {{}, DOMAIN LockOf(id)} /\ cmd'.placed = {} /\ cmd'.src = None
      /\ cmd'.all = FALSE /\ cmd'.calm = TRUE /\ cmd'.stage = "get" /\ cmd'.todo = {}
      /\ cmd'.expected = {} /\ cmd'.steady = TRUE
  BY <1>1 DEF Run, Verifying, Idle
<1>5. Locals'
  BY <1>2, <1>4 DEF Locals, Build, Begin, Scrutiny
<1>6. QED
  BY <1>2, <1>3, <1>4, <1>5, StillTyped DEF Build, Begin, world, Typed, TypeOK, Steps

LEMMA EndingTyped ==
  ASSUME Whole, Typed, UNCHANGED <<stored, spoilt, changes, runtimes>>,
         tmp' \in {None} \union Dir, good' \subseteq Id, untouched' \subseteq Id,
         swept' \in BOOLEAN, cmd' = Idle \/ (cmd' = Run("failed", cmd.id) /\ cmd.id \in Id)
  PROVE  Typed'
<1>1. /\ cmd'.pc \in {"idle", "failed"} /\ cmd'.id \in {None} \union Id /\ cmd'.queue = {}
      /\ cmd'.left = {} /\ cmd'.placed = {} /\ cmd'.src = None
      /\ cmd'.all = FALSE /\ cmd'.calm = TRUE /\ (cmd'.pc = "failed" => cmd'.id \in Id)
      /\ cmd'.stage = "get" /\ cmd'.todo = {} /\ cmd'.expected = {} /\ cmd'.steady = TRUE
  <2>1. CASE cmd' = Idle
    BY <2>1 DEF Idle
  <2>2. CASE cmd' = Run("failed", cmd.id) /\ cmd.id \in Id
    BY <2>2 DEF Run, Idle
  <2>3. QED
    BY <2>1, <2>2
<1>2. Locals'
  BY <1>1 DEF Locals, Scrutiny
<1>3. QED
  BY <1>1, <1>2, StillTyped

LEMMA GcTyped == ASSUME Whole, Typed, NEW all \in BOOLEAN, Gc(all) PROVE Typed'
<1>1. /\ cmd'.pc = "next" /\ cmd'.id = None /\ cmd'.queue = {id \in Id : runtimes[id] # None}
      /\ cmd'.left = {} /\ cmd'.placed = {} /\ cmd'.src = None
      /\ cmd'.all = all /\ cmd'.calm = TRUE
      /\ cmd'.stage = "get" /\ cmd'.todo = {} /\ cmd'.expected = {} /\ cmd'.steady = TRUE
  BY DEF Gc, Idle
<1>2. Locals'
  BY <1>1 DEF Locals, Gc, Begin, Scrutiny
<1>3. QED
  BY <1>1, <1>2, StillTyped DEF Gc, Begin, world, Typed, TypeOK, Steps

\* Steps that take the command to a point where nothing is in its hands.
LEMMA MovingTyped ==
  ASSUME Whole, Typed, UNCHANGED <<stored, spoilt, changes, runtimes, tmp, good, untouched, swept>>,
         cmd.placed = {}, NEW step \in Steps \ {"check", "judge"}, Turn(step),
         step \in {"compose", "verify", "rename"} => tmp # None,
         step \in {"make", "compose", "verify", "rename"} => runtimes[cmd.id] = None,
         step \in {"clear", "drop"} => cmd.pc \in {"check", "judge", "clear", "drop"}
  PROVE  Typed'
<1>1. /\ cmd'.pc = step /\ cmd'.id = cmd.id /\ cmd'.queue = cmd.queue /\ cmd'.left = {}
      /\ cmd'.placed = {} /\ cmd'.src = None
      /\ cmd'.stage = "get" /\ cmd'.todo = {} /\ cmd'.expected = {}
      /\ cmd'.all = cmd.all /\ cmd'.calm = cmd.calm /\ cmd'.steady = cmd.steady
  BY DEF Whole, Shape, Turn
<1>2. Locals'
  BY <1>1 DEF Typed, Locals, Steps, Scrutiny
<1>3. QED
  BY <1>1, <1>2, StillTyped DEF Typed, TypeOK

LEMMA ComposingTyped ==
  ASSUME Whole, Typed, MakeTmp \/ OpenPackage \/ ClosePackage \/ WriteMeta \/ \E q \in Path : Place(q)
  PROVE  Typed'
<1>1. /\ cmd.pc \in {"make", "compose"} /\ cmd.id \in Id /\ runtimes[cmd.id] = None
      /\ cmd.stage = "get" /\ cmd.todo = {} /\ cmd.expected = {}
  BY DEF MakeTmp, OpenPackage, ClosePackage, WriteMeta, Place, At, Whole, Shape, HasId, Typed,
         TypeOK, Locals, Scrutiny
<1>2. CASE MakeTmp
  <2>1. /\ cmd'.pc = "compose" /\ cmd'.id = cmd.id /\ cmd'.queue = cmd.queue
        /\ cmd'.left = DOMAIN LockOf(cmd.id) /\ cmd'.placed = cmd.placed /\ cmd'.src = cmd.src
        /\ cmd'.all = cmd.all /\ cmd'.calm = cmd.calm
        /\ cmd'.stage = cmd.stage /\ cmd'.todo = cmd.todo /\ cmd'.expected = cmd.expected
        /\ cmd'.steady = cmd.steady
    BY <1>2 DEF MakeTmp, Whole, Shape
  <2>2. cmd.src = None /\ cmd.placed = {}
    BY <1>2 DEF MakeTmp, At, Typed, TypeOK, Locals, Scrutiny
  <2>3. DOMAIN LockOf(cmd.id) \subseteq Package
    BY <1>1, LocksAreMeant
  <2>4. Locals'
    BY <1>1, <1>2, <2>1, <2>2 DEF Locals, Typed, MakeTmp, Scrutiny
  <2>5. tmp' \in Dir /\ tmp' # None
    BY <1>2, EmptyIsDir, StateAssumption DEF MakeTmp
  <2>6. QED
    BY <1>1, <1>2, <2>1, <2>2, <2>3, <2>4, <2>5, StillTyped
    DEF MakeTmp, world, history, Typed, TypeOK, Steps
<1>3. CASE Fail
  <2>1. cmd' = Idle \/ (cmd' = Run("failed", cmd.id) /\ cmd.id \in Id)
    BY <1>1, <1>3 DEF Fail
  <2>2. QED
    BY <1>3, <2>1, EndingTyped DEF Fail, world, history, Typed, TypeOK
<1>4. tmp \in Dir \/ MakeTmp
  BY DEF OpenPackage, ClosePackage, WriteMeta, Place, At, Typed, TypeOK
<1>5. CASE OpenPackage /\ ~Fail
  <2>1. /\ cmd'.pc = "compose" /\ cmd'.id = cmd.id /\ cmd'.queue = cmd.queue
        /\ cmd.pc = "compose"
        /\ cmd'.left = cmd.left /\ cmd'.placed = {} /\ cmd'.src = stored[Current]
        /\ cmd'.all = cmd.all /\ cmd'.calm = cmd.calm
        /\ cmd'.stage = cmd.stage /\ cmd'.todo = cmd.todo /\ cmd'.expected = cmd.expected
        /\ cmd'.steady = cmd.steady /\ cmd.left # {}
        /\ UNCHANGED <<world, runtimes, tmp, history>>
    BY <1>5 DEF OpenPackage, At, Whole, Shape
  <2>2. stored[Current] \in Stored
    BY <2>1, FirstOfLeft DEF Typed, TypeOK
  <2>3. Locals'
    BY <2>1 DEF Locals, Typed, Scrutiny
  <2>4. QED
    BY <1>1, <2>1, <2>2, <2>3, <1>5
    DEF OpenPackage, At, world, history, Typed, TypeOK, Steps, Stages
<1>6. CASE ClosePackage /\ ~Fail
  <2>1. /\ cmd'.pc = "compose" /\ cmd'.id = cmd.id /\ cmd'.queue = cmd.queue
        /\ cmd'.left \subseteq cmd.left /\ cmd'.placed = {} /\ cmd'.src = None
        /\ cmd'.all = cmd.all /\ cmd'.calm = cmd.calm
        /\ cmd'.stage = cmd.stage /\ cmd'.todo = cmd.todo /\ cmd'.expected = cmd.expected
        /\ cmd'.steady = cmd.steady
        /\ UNCHANGED <<world, runtimes, tmp, history>> /\ cmd.pc = "compose"
    BY <1>6 DEF ClosePackage, At, Whole, Shape
  <2>2. Locals'
    BY <1>1, <2>1 DEF Locals, Typed, Scrutiny
  <2>3. QED
    BY <1>1, <2>1, <2>2, StillTyped DEF world, history, Typed, TypeOK, Steps
<1>7. CASE WriteMeta
  <2>1. /\ cmd'.pc = "verify" /\ cmd'.id = cmd.id /\ cmd'.queue = cmd.queue
        /\ cmd'.left = DOMAIN LockOf(cmd.id) /\ cmd'.placed = cmd.placed /\ cmd'.src = cmd.src
        /\ cmd'.all = cmd.all /\ cmd'.calm = cmd.calm
        /\ cmd'.stage = cmd.stage /\ cmd'.todo = cmd.todo /\ cmd'.expected = cmd.expected
        /\ cmd'.steady = cmd.steady /\ cmd.left = {} /\ cmd.pc = "compose"
    BY <1>7 DEF WriteMeta, At, Whole, Shape
  <2>2. cmd.src = None /\ cmd.placed = {}
    BY <2>1 DEF Typed, Locals
  <2>3. DOMAIN LockOf(cmd.id) \subseteq Package
    BY <1>1, LocksAreMeant
  <2>4. Locals'
    BY <1>1, <1>7, <2>1, <2>2 DEF Locals, Typed, WriteMeta, Scrutiny
  <2>5. tmp' \in Dir /\ tmp' # None
    <3>1. tmp \in Dir /\ tmp' = [tmp EXCEPT !.meta = TRUE]
      BY <1>4, <1>7, <2>1 DEF WriteMeta, MakeTmp, At
    <3>2. QED
      BY <3>1, StateAssumption DEF Dir
  <2>6. QED
    BY <1>1, <1>7, <2>1, <2>2, <2>3, <2>4, <2>5, StillTyped
    DEF WriteMeta, world, history, Typed, TypeOK, Steps
<1>8. ASSUME NEW q \in Path, Place(q), ~Fail PROVE Typed'
  <2>1. /\ tmp' = [tmp EXCEPT !.files = With(@, q, Placed(ModeOf(cmd.id), Current, q))]
        /\ ModeOf(cmd.id) = "symlink" \/ Has(Current, q)
        /\ cmd' = [cmd EXCEPT !.placed = @ \union {q}]
        /\ UNCHANGED <<world, runtimes, history>>
        /\ cmd.pc = "compose" /\ cmd.src # None
    BY <1>8 DEF Place, At
  <2>2. cmd.left # {} /\ tmp \in Dir
    BY <2>1, <1>4 DEF Typed, Locals, MakeTmp, At
  <2>3. Placed(ModeOf(cmd.id), Current, q) \in Entry
    BY <1>1, <2>1, <2>2, FirstOfLeft, PlacedIsEntry, IdParts DEF Typed, Has
  <2>4. tmp' \in Dir /\ tmp'.files = With(tmp.files, q, Placed(ModeOf(cmd.id), Current, q))
    BY <2>1, <2>2, <2>3, WithIsDir
  <2>5. DOMAIN tmp'.files = DOMAIN tmp.files \union {q} /\ tmp' # None
    BY <2>4, StateAssumption DEF With
  <2>6. /\ cmd'.pc = "compose" /\ cmd'.id = cmd.id /\ cmd'.queue = cmd.queue
        /\ cmd'.left = cmd.left /\ cmd'.placed = cmd.placed \union {q} /\ cmd'.src = cmd.src
        /\ cmd'.all = cmd.all /\ cmd'.calm = cmd.calm
        /\ cmd'.stage = cmd.stage /\ cmd'.todo = cmd.todo /\ cmd'.expected = cmd.expected
        /\ cmd'.steady = cmd.steady
    BY <2>1 DEF Whole, Shape
  <2>7. Locals'
    BY <2>1, <2>2, <2>6 DEF Locals, Typed, Scrutiny
  <2>8. QED
    BY <1>1, <2>1, <2>4, <2>5, <2>6, <2>7 DEF world, history, Typed, TypeOK, Stages
<1>9. QED
  BY <1>2, <1>3, <1>5, <1>6, <1>7, <1>8

\* What a listing may come upon are paths.
LEMMA ListedArePaths ==
  ASSUME Typed, cmd.left # {}, cmd.src # None PROVE Listed \subseteq Path
<1>1. Current \in Package /\ cmd.src.ed \in Edition
  BY FirstOfLeft DEF Typed, TypeOK, Stored
<1>2. stored[Current] # None => stored[Current].ed \in Edition
  BY <1>1 DEF Typed, TypeOK, Stored
<1>3. QED
  BY <1>1, <1>2, ComposingAssumption DEF Listed, PathsOf

\* Verifying, deleting and collecting.
LEMMA LookingTyped == ASSUME Whole, Typed, Looking PROVE Typed'
<1>1. /\ cmd.pc \in {"check", "verify", "judge"} /\ cmd.id \in Id /\ cmd.placed = {}
      /\ cmd.left # {} /\ (cmd.src = None <=> cmd.stage = "get")
      /\ cmd.pc = "verify" => tmp # None /\ runtimes[cmd.id] = None
  BY LooksOnly DEF Whole, Shape, HasId, Typed, TypeOK, Locals, Scrutiny
<1>2. /\ cmd'.pc = cmd.pc /\ cmd'.id = cmd.id /\ cmd'.queue = cmd.queue
      /\ cmd'.all = cmd.all /\ cmd'.calm = cmd.calm /\ cmd'.steady = cmd.steady
      /\ cmd'.placed = cmd.placed /\ UNCHANGED <<world, runtimes, tmp, history>>
  BY LooksOnly DEF Whole
<1>3. /\ cmd'.left \subseteq cmd.left /\ cmd'.src \in Stored /\ cmd'.stage \in Stages
      /\ cmd'.todo \subseteq Path /\ cmd'.expected \subseteq Path
      /\ cmd'.src = None <=> cmd'.stage = "get"
      /\ cmd'.src # None => cmd'.left # {}
  <2>1. CASE GetStored
    <3>1. /\ cmd'.stage = "intact" /\ cmd'.src = stored[Current] /\ stored[Current] # None
          /\ cmd'.left = cmd.left /\ cmd'.todo = cmd.todo /\ cmd'.expected = cmd.expected
      BY <2>1 DEF GetStored, AsHashed, Whole, Shape
    <3>2. QED
      BY <1>1, <3>1, FirstOfLeft DEF Typed, TypeOK, Stages
  <2>2. CASE CheckStored
    <3>1. /\ cmd.stage = "intact" /\ cmd'.stage = "list" /\ cmd'.src = cmd.src
          /\ cmd'.left = cmd.left /\ cmd'.todo = cmd.todo /\ cmd'.expected = cmd.expected
      BY <2>2 DEF CheckStored, Stage, Whole, Shape
    <3>2. QED
      BY <1>1, <3>1 DEF Typed, TypeOK, Stages
  <2>3. CASE ListFiles
    <3>1. /\ cmd.stage = "list" /\ cmd'.stage = "compare" /\ cmd'.src = cmd.src
          /\ cmd'.left = cmd.left /\ cmd'.todo \subseteq Listed /\ cmd'.expected = cmd.expected
      BY <2>3 DEF ListFiles, Stage, Whole, Shape
    <3>2. QED
      BY <1>1, <3>1, ListedArePaths DEF Typed, TypeOK, Stages
  <2>4. CASE PackageDone
    <3>1. /\ cmd'.stage = "get" /\ cmd'.src = None
          /\ cmd'.left \subseteq cmd.left /\ cmd'.todo = cmd.todo /\ cmd'.expected = cmd.expected
      BY <2>4 DEF PackageDone, Stage, Whole, Shape
    <3>2. QED
      BY <1>1, <3>1 DEF Typed, TypeOK, Stages, Stored
  <2>5. ASSUME NEW q \in Path, Compare(q)
        PROVE  /\ cmd'.left \subseteq cmd.left /\ cmd'.src \in Stored /\ cmd'.stage \in Stages
               /\ cmd'.todo \subseteq Path /\ cmd'.expected \subseteq Path
               /\ cmd'.src = None <=> cmd'.stage = "get"
               /\ cmd'.src # None => cmd'.left # {}
    <3>1. /\ cmd'.stage = cmd.stage /\ cmd'.src = cmd.src /\ cmd'.left = cmd.left
          /\ cmd'.todo \subseteq cmd.todo /\ cmd'.expected = cmd.expected \union {q}
      BY <2>5 DEF Compare, Whole, Shape
    <3>2. QED
      BY <1>1, <3>1 DEF Typed, TypeOK
  <2>6. QED
    BY <2>1, <2>2, <2>3, <2>4, <2>5 DEF Looking
<1>4. Locals'
  BY <1>1, <1>2, <1>3 DEF Locals, Typed, Scrutiny
<1>5. QED
  BY <1>1, <1>2, <1>3, <1>4 DEF world, history, Typed, TypeOK

LEMMA CheckingTyped ==
  ASSUME Whole, Typed, Verified \/ Refuted PROVE Typed'
<1>1. /\ cmd.pc \in {"check", "verify", "judge"} /\ cmd.id \in Id /\ cmd.placed = {}
      /\ cmd.pc = "verify" => tmp # None /\ runtimes[cmd.id] = None
  BY DEF Verified, Refuted, Scrutiny, Whole, Shape, HasId, Typed, TypeOK, Locals
<1>3. CASE cmd' = Idle /\ good' \subseteq good \union {cmd.id}
             /\ UNCHANGED <<world, runtimes, tmp, untouched, swept>>
  BY <1>1, <1>3, EndingTyped DEF world, Typed, TypeOK
<1>4. CASE Fail
  <2>1. cmd' = Idle \/ (cmd' = Run("failed", cmd.id) /\ cmd.id \in Id)
    BY <1>1, <1>4 DEF Fail
  <2>2. QED
    BY <1>4, <2>1, EndingTyped DEF Fail, world, history, Typed, TypeOK
<1>5. ASSUME NEW step \in {"rename", "next", "clear", "drop"}, Turn(step),
             step = "rename" => cmd.pc = "verify",
             step \in {"clear", "drop"} => cmd.pc # "verify",
             UNCHANGED <<world, runtimes, tmp, history>>
      PROVE  Typed'
  BY <1>1, <1>5, MovingTyped DEF world, history, Steps
<1>6. QED
  <2>1. CASE Verified
    BY <2>1, <1>3, <1>5 DEF Verified, At
  <2>2. CASE Refuted
    BY <2>2, <1>3, <1>4, <1>5 DEF Refuted, At, history
  <2>3. QED
    BY <2>1, <2>2

LEMMA RenameTyped == ASSUME Whole, Typed, Rename PROVE Typed'
<1>1. /\ cmd.pc = "rename" /\ cmd.id \in Id /\ tmp \in Dir
      /\ runtimes' = [runtimes EXCEPT ![cmd.id] = tmp]
  BY DEF Rename, At, Whole, Shape, HasId, Typed, TypeOK
<1>2. runtimes' \in [Id -> {None} \union Dir]
  BY <1>1 DEF Typed, TypeOK
<1>3. cmd' = Idle /\ tmp' = None /\ good' \subseteq Id /\ untouched' \subseteq Id
        /\ UNCHANGED <<stored, spoilt, changes, swept>>
  BY <1>1 DEF Rename, world, Typed, TypeOK
<1>4. Locals'
  BY <1>3 DEF Locals, Idle, Scrutiny
<1>5. QED
  BY <1>2, <1>3, <1>4 DEF Typed, TypeOK, Idle, Stored, Stages

LEMMA DeleteTyped == ASSUME Whole, Typed, Delete PROVE Typed'
<1>1. /\ cmd.pc \in {"clear", "drop"} /\ cmd.id \in Id
      /\ UNCHANGED <<stored, spoilt, changes, tmp, good, swept>>
      /\ untouched' = untouched \ {cmd.id}
      /\ runtimes[cmd.id] \in Dir /\ cmd.id \notin cmd.queue
  BY DEF Delete, Whole, Shape, HasId, world, Typed, TypeOK, Locals
<1>2. CASE cmd' = cmd /\ \E d \in Less(runtimes[cmd.id]) : runtimes' = [runtimes EXCEPT ![cmd.id] = d]
  <2>1. PICK d \in Less(runtimes[cmd.id]) : runtimes' = [runtimes EXCEPT ![cmd.id] = d]
    BY <1>2
  <2>2. d \in Dir /\ d # None
    BY <1>1, <2>1, LessIsDir, StateAssumption
  <2>3. /\ runtimes' \in [Id -> {None} \union Dir]
        /\ \A id \in Id : runtimes[id] # None => runtimes'[id] # None
    BY <1>1, <2>1, <2>2 DEF Typed, TypeOK
  <2>4. Locals'
    BY <1>1, <1>2, <2>3 DEF Typed, TypeOK, Locals, Scrutiny
  <2>5. QED
    BY <1>1, <1>2, <2>3, <2>4 DEF Typed, TypeOK
<1>3. CASE /\ runtimes' = [runtimes EXCEPT ![cmd.id] = None]
           /\ Goto(IF At("clear") THEN "make" ELSE "next")
  <2>1. PICK step \in {"make", "next"} : cmd' = [cmd EXCEPT !.pc = step]
    BY <1>3 DEF Goto
  <2>2. /\ cmd'.pc = step /\ cmd'.id = cmd.id /\ cmd'.queue = cmd.queue /\ cmd'.left = cmd.left
        /\ cmd'.placed = cmd.placed /\ cmd'.src = cmd.src
        /\ cmd'.all = cmd.all /\ cmd'.calm = cmd.calm
        /\ cmd'.stage = cmd.stage /\ cmd'.todo = cmd.todo /\ cmd'.expected = cmd.expected
        /\ cmd'.steady = cmd.steady
    BY <2>1 DEF Whole, Shape
  <2>3. /\ runtimes' \in [Id -> {None} \union Dir] /\ runtimes'[cmd.id] = None
        /\ \A id \in Id : id # cmd.id => runtimes'[id] = runtimes[id]
    BY <1>1, <1>3 DEF Typed, TypeOK
  <2>4. Locals'
    BY <1>1, <2>2, <2>3 DEF Typed, TypeOK, Locals, Scrutiny
  <2>5. QED
    BY <1>1, <2>2, <2>3, <2>4 DEF Typed, TypeOK, Steps
<1>4. QED
  BY <1>2, <1>3 DEF Delete

LEMMA CollectingTyped ==
  ASSUME Whole, Typed, Look \/ Interrupt \/ GcEnd \/ \E id \in Id : NextCandidate(id)
  PROVE  Typed'
<1>1. CASE Look \/ Interrupt \/ GcEnd
  BY <1>1, EndingTyped DEF Look, Begin, Interrupt, GcEnd, world, history, Typed, TypeOK
<1>2. ASSUME NEW id \in Id, NextCandidate(id) PROVE Typed'
  <2>1. /\ cmd'.pc \in {"drop", "judge"} /\ cmd'.id = id /\ cmd'.queue = cmd.queue \ {id}
        /\ id \in cmd.queue
        /\ cmd'.left = DOMAIN LockOf(id) /\ cmd'.placed = cmd.placed /\ cmd'.src = cmd.src
        /\ cmd'.all = cmd.all /\ cmd'.calm = cmd.calm /\ cmd.pc = "next"
        /\ cmd'.stage = cmd.stage /\ cmd'.todo = cmd.todo /\ cmd'.expected = cmd.expected
        /\ cmd'.steady = cmd.steady
        /\ UNCHANGED <<world, runtimes, tmp, history>>
    BY <1>2 DEF NextCandidate, At, Whole, Shape
  <2>2. /\ cmd.src = None /\ cmd.placed = {}
        /\ cmd.stage = "get" /\ cmd.todo = {} /\ cmd.expected = {}
    BY <2>1 DEF Typed, TypeOK, Locals, Scrutiny
  <2>3. DOMAIN LockOf(id) \subseteq Package
    BY LocksAreMeant
  <2>4. Locals'
    BY <2>1, <2>2 DEF Locals, Typed, Scrutiny
  <2>5. QED
    BY <2>1, <2>2, <2>3, <2>4, StillTyped DEF world, history, Typed, TypeOK, Steps
<1>3. QED
  BY <1>1, <1>2

\* What others do.
LEMMA ChangeTyped ==
  ASSUME Whole, Typed, NEW takes \in BOOLEAN, Change(takes), changes' \in 0 .. MaxChanges,
         stored' \in [Package -> Stored],
         spoilt' \subseteq Package \X (0 .. MaxChanges) \X Path,
         runtimes' \in [Id -> {None} \union Dir],
         \A id \in Id : runtimes[id] = None <=> runtimes'[id] = None,
         untouched' \subseteq Id
  PROVE  Typed'
<1>1. good' = {} /\ swept' = FALSE /\ tmp' = tmp
  BY DEF Change
<1>2. CASE cmd' = Idle
  BY <1>1, <1>2 DEF Typed, TypeOK, Locals, Idle, Stored, Stages, Scrutiny
<1>3. CASE /\ cmd' = [cmd EXCEPT !.calm = FALSE, !.steady = @ /\ ~(takes /\ At("verify"))]
           /\ cmd.pc \in Steps
  <2>1. /\ cmd'.pc = cmd.pc /\ cmd'.id = cmd.id /\ cmd'.queue = cmd.queue /\ cmd'.left = cmd.left
        /\ cmd'.placed = cmd.placed /\ cmd'.src = cmd.src
        /\ cmd'.all = cmd.all /\ cmd'.calm = FALSE
        /\ cmd'.stage = cmd.stage /\ cmd'.todo = cmd.todo /\ cmd'.expected = cmd.expected
    BY <1>3 DEF Whole, Shape
  <2>5. cmd'.steady \in BOOLEAN
    BY <1>3 DEF Whole, Shape, Typed, TypeOK
  <2>2. cmd.pc \in {"make", "compose", "verify", "rename"} => runtimes'[cmd.id] = None
    BY DEF Whole, Shape, HasId, Typed, TypeOK
  <2>3. Locals'
    <3>1. cmd.pc \in {"check", "judge", "clear", "drop"} => cmd.id \in Id
      BY DEF Whole, Shape, HasId
    <3>2. QED
      BY <2>1, <3>1 DEF Typed, TypeOK, Locals, Scrutiny
  <2>4. QED
    BY <1>1, <2>1, <2>2, <2>3, <2>5 DEF Typed, TypeOK
<1>4. QED
  BY <1>2, <1>3 DEF Change

LEMMA ChangesTyped ==
  ASSUME Whole, Typed,
         \/ \E k \in Package : StoreRemove(k) \/ \E e \in Edition : StoreAdd(k, e)
         \/ \E id \in Id : Lose(id) \/ \E q \in Path : Write(id, q) \/ SaveFile(id, q)
  PROVE  Typed'
<1>0. Count => changes' \in 0 .. MaxChanges
  BY ComposingAssumption DEF Count, Typed, TypeOK
<1>1. ASSUME NEW k \in Package, NEW e \in Edition, StoreAdd(k, e) PROVE Typed'
  <2>1. Change(FALSE) /\ UNCHANGED <<changes, spoilt, runtimes, untouched>>
    BY <1>1 DEF StoreAdd
  <2>2. stored' \in [Package -> Stored]
    BY <1>1 DEF StoreAdd, Stored, Typed, TypeOK
  <2>3. QED
    BY <2>1, <2>2, ChangeTyped DEF Typed, TypeOK
<1>2. ASSUME NEW k \in Package, StoreRemove(k) PROVE Typed'
  <2>1. Count /\ Change(TRUE) /\ UNCHANGED <<spoilt, runtimes, untouched>>
    BY <1>2 DEF StoreRemove
  <2>2. stored' \in [Package -> Stored]
    BY <1>2 DEF StoreRemove, Stored, Typed, TypeOK
  <2>3. QED
    BY <1>0, <2>1, <2>2, ChangeTyped DEF Typed, TypeOK
<1>3. ASSUME NEW id \in Id, NEW d \in Dir, Count, Change(FALSE), runtimes[id] # None,
             runtimes' = [runtimes EXCEPT ![id] = d],
             untouched' = untouched \ {id}, UNCHANGED <<stored, spoilt>>
      PROVE  Typed'
  <2>1. /\ runtimes' \in [Id -> {None} \union Dir]
        /\ \A other \in Id : runtimes[other] = None <=> runtimes'[other] = None
    BY <1>3, StateAssumption DEF Typed, TypeOK
  <2>2. QED
    BY <1>0, <1>3, <2>1, ChangeTyped DEF Typed, TypeOK
<1>4. ASSUME NEW id \in Id, Lose(id) PROVE Typed'
  <2>1. PICK d \in Less(runtimes[id]) : runtimes' = [runtimes EXCEPT ![id] = d]
    BY <1>4 DEF Lose
  <2>2. d \in Dir
    BY <1>4, <2>1, LessIsDir DEF Lose, Typed, TypeOK
  <2>3. QED
    BY <1>3, <1>4, <2>1, <2>2 DEF Lose
<1>5. ASSUME NEW id \in Id, NEW q \in Path, SaveFile(id, q) PROVE Typed'
  <2> DEFINE d == [runtimes[id] EXCEPT !.files = With(@, q, Own)]
  <2>1. Own \in Entry /\ runtimes[id] \in Dir
    BY <1>5 DEF Own, Entry, Texts, SaveFile, Typed, TypeOK
  <2>2. d \in Dir
    BY <2>1, WithIsDir
  <2>3. runtimes' = [runtimes EXCEPT ![id] = d]
    BY <1>5 DEF SaveFile
  <2>4. QED
    BY <1>3, <1>5, <2>2, <2>3 DEF SaveFile
<1>6. ASSUME NEW id \in Id, NEW q \in Path, Write(id, q) PROVE Typed'
  <2>1. /\ Count /\ UNCHANGED stored
        /\ runtimes[id] \in Dir /\ q \in DOMAIN runtimes[id].files /\ runtimes[id] # None
    BY <1>6 DEF Write, Typed, TypeOK
  <2>2. PICK paths \in SUBSET Path : runtimes[id].files \in [paths -> Entry]
    BY <2>1 DEF Dir
  <2>3. runtimes[id].files[q] \in Entry
    BY <2>1, <2>2
  <2>5. CASE /\ runtimes[id].files[q].how = "symlink" /\ stored[runtimes[id].files[q].pkg] # None
             /\ Change(TRUE)
             /\ spoilt' = spoilt \union {<<runtimes[id].files[q].pkg,
                                           stored[runtimes[id].files[q].pkg].add, q>>}
             /\ UNCHANGED <<runtimes, untouched>>
    <3>1. runtimes[id].files[q].pkg \in Package
      BY <2>3, <2>5 DEF Entry
    <3>2. stored[runtimes[id].files[q].pkg].add \in 0 .. MaxChanges
      BY <2>5, <3>1 DEF Typed, TypeOK, Stored
    <3>3. spoilt' \subseteq Package \X (0 .. MaxChanges) \X Path
      BY <2>5, <3>1, <3>2 DEF Typed, TypeOK
    <3>4. QED
      BY <1>0, <2>1, <2>5, <3>3, ChangeTyped DEF Typed, TypeOK
  <2>6. CASE /\ runtimes[id].files[q].how = "hardlink" /\ Change(TRUE)
             /\ spoilt' = spoilt \union {<<runtimes[id].files[q].pkg,
                                           runtimes[id].files[q].add, q>>}
             /\ UNCHANGED <<runtimes, untouched>>
    <3>1. runtimes[id].files[q].pkg \in Package /\ runtimes[id].files[q].add \in 0 .. MaxChanges
      BY <2>3, <2>6 DEF Entry
    <3>2. spoilt' \subseteq Package \X (0 .. MaxChanges) \X Path
      BY <2>6, <3>1 DEF Typed, TypeOK
    <3>3. QED
      BY <1>0, <2>1, <2>6, <3>2, ChangeTyped DEF Typed, TypeOK
  <2>7. CASE /\ runtimes[id].files[q].how = "copy" /\ Change(FALSE)
             /\ runtimes' = [runtimes EXCEPT ![id].files[q].text = Foreign]
             /\ untouched' = untouched \ {id} /\ UNCHANGED spoilt
    <3> DEFINE f == [runtimes[id].files[q] EXCEPT !.text = Foreign]
               d == [runtimes[id] EXCEPT !.files = [runtimes[id].files EXCEPT ![q] = f]]
    <3>1. f \in Entry
      BY <2>3, <2>7 DEF Entry, Texts
    <3>2. [runtimes[id].files EXCEPT ![q] = f] \in [paths -> Entry]
      BY <2>2, <3>1
    <3>3. d \in Dir
      BY <2>1, <3>2 DEF Dir
    <3>4. runtimes' = [runtimes EXCEPT ![id] = d]
      BY <2>7
    <3>5. QED
      BY <1>3, <2>1, <2>7, <3>3, <3>4
  <2>8. QED
    BY <1>6, <2>5, <2>6, <2>7 DEF Write, Has
<1>7. QED
  BY <1>1, <1>2, <1>4, <1>5, <1>6

LEMMA NextTyped == Whole /\ Typed /\ [Next]_vars => Typed'
<1> SUFFICES ASSUME Whole, Typed, [Next]_vars PROVE Typed'
  OBVIOUS
<1>1. CASE UNCHANGED vars
  BY <1>1 DEF vars, world, history, Typed, TypeOK, Locals, Scrutiny
<1>2. QED
  BY <1>1, BuildTyped, GcTyped, ComposingTyped, LookingTyped, CheckingTyped, RenameTyped,
     DeleteTyped, CollectingTyped, ChangesTyped DEF Next, Looking


-----------------------------------------------------------------------------
(***************************************************************************)
(* What verifications find.  Delivered and SweptRuns follow from Sound: a  *)
(* runtime would pass the check once more.  As long as what a verification *)
(* has looked at stays, what it has found so far still holds (Progress).   *)
(* A command that is still calm knows that nothing has changed since it    *)
(* began, so what it has placed is still what the store has.               *)
(***************************************************************************)

Sound(id) ==
  /\ runtimes[id] # None
  /\ AsLocked(id, runtimes[id])
  /\ \A k \in DOMAIN LockOf(id) : Holds(k, id, runtimes[id])

Collects == {"next", "judge", "drop"}

\* What builds have delivered stays, and is never up for deletion.
Kept ==
  /\ \A id \in good : Sound(id)
  /\ cmd.pc \in {"clear", "drop"} => cmd.id \notin good
  /\ cmd.pc \in Collects /\ cmd.all => good = {}
  /\ ~cmd.calm => good = {}

Done == DOMAIN LockOf(cmd.id) \ cmd.left

\* What a verification has found: of the packages it is done with, and of the
\* one it is at.
Progress ==
  /\ \A k \in Done : Holds(k, cmd.id, Subject)
  /\ \A k \in Done : PathsOf(k, LockOf(cmd.id)[k]) \subseteq cmd.expected
  /\ cmd.expected \subseteq UNION {PathsOf(k, LockOf(cmd.id)[k]) : k \in DOMAIN LockOf(cmd.id)}
  /\ cmd.left # {} =>
       /\ cmd.stage \in {"intact", "list", "compare"} => cmd.src = stored[Current] /\ AsHashed
       /\ cmd.stage \in {"list", "compare"} => Intact
       /\ cmd.stage = "compare" =>
            /\ cmd.todo \subseteq PathsOf(Current, LockOf(cmd.id)[Current])
            /\ \A q \in PathsOf(Current, LockOf(cmd.id)[Current]) \ cmd.todo :
                 q \in cmd.expected /\ Matches(q)

\* What a verification has looked at stays: of a new directory that only the
\* build knows, what is in the store; of a runtime, everything.
Undisturbed == IF At("verify") THEN cmd.steady ELSE cmd.calm

\* What the checks so far have found.
Checked ==
  /\ cmd.calm /\ cmd.pc \in {"check", "judge"} => runtimes[cmd.id].meta
  /\ Scrutiny /\ Undisturbed => Progress
  /\ cmd.pc = "rename" /\ cmd.steady => AsLocked(cmd.id, tmp)
  /\ cmd.pc = "rename" /\ cmd.calm => \A k \in DOMAIN LockOf(cmd.id) : Holds(k, cmd.id, tmp)

\* What a collection has been past is gone or sound.
Collected ==
  /\ cmd.pc \in Collects => tmp = None
  /\ cmd.pc \in Collects /\ cmd.calm =>
       \A id \in Id : \/ runtimes[id] = None \/ Sound(id) \/ id \in cmd.queue
                      \/ cmd.pc # "next" /\ id = cmd.id
  /\ swept => /\ cmd.pc = "idle" /\ tmp = None
              /\ \A id \in Id : runtimes[id] = None \/ Sound(id)

PlacedAll(k) ==
  \A q \in PathsOf(k, LockOf(cmd.id)[k]) :
    q \in DOMAIN tmp.files /\ tmp.files[q] = Placed(ModeOf(cmd.id), k, q)

\* The files of d are of packages that are locked.
OnlyLocked(d) ==
  DOMAIN d.files \subseteq UNION {PathsOf(k, LockOf(cmd.id)[k]) : k \in DOMAIN LockOf(cmd.id)}

\* A build that nothing is in the way of has placed the files of the packages
\* it is done with and some of the one it is at, and no others.
Composed ==
  cmd.calm /\ cmd.pc \in {"compose", "verify"} /\ Buildable(LockOf(cmd.id)) =>
    /\ cmd.pc = "compose" =>
         /\ \A k \in Done : PlacedAll(k)
         /\ \A p \in DOMAIN tmp.files :
              p \in cmd.placed \/ \E k \in Done : p \in PathsOf(k, LockOf(cmd.id)[k])
         /\ cmd.src # None =>
              /\ cmd.src = stored[Current]
              /\ cmd.placed \subseteq PathsOf(Current, LockOf(cmd.id)[Current])
              /\ \A q \in cmd.placed : /\ q \in DOMAIN tmp.files
                                       /\ tmp.files[q] = Placed(ModeOf(cmd.id), Current, q)
    /\ cmd.pc = "verify" =>
         /\ \A k \in DOMAIN LockOf(cmd.id) : PlacedAll(k)
         /\ OnlyLocked(tmp)

Sure == Kept /\ Checked /\ Collected /\ Composed /\ FailsForReason

\* All that a step may rely on.
Known == Whole /\ Typed /\ Sure

LEMMA InitSure == Init => Sure
BY DEF Init, Idle, Sure, Kept, Checked, Collected, Composed, FailsForReason, At, Collects, Scrutiny

\* A runtime stays sound while its directory and the store stay.
LEMMA SoundStays ==
  ASSUME UNCHANGED <<stored, spoilt>>, NEW id, runtimes'[id] = runtimes[id], Sound(id)
  PROVE  Sound(id)'
<1>1. runtimes'[id] # None /\ AsLocked(id, runtimes[id])'
  BY DEF Sound, AsLocked, LockOf, ModeOf, PathsOf
<1>2. \A k, q : Placed(ModeOf(id), k, q)' = Placed(ModeOf(id), k, q)
  BY DEF Placed, Reads, ModeOf
<1>3. \A k \in DOMAIN LockOf(id) : Holds(k, id, runtimes[id])'
  BY <1>2 DEF Sound, Holds, LockOf, PathsOf
<1>4. QED
  BY <1>1, <1>3 DEF Sound, LockOf

\* A command that is now idle or has a directory to make or to clear.
LEMMA ElsewhereSure ==
  ASSUME Known, UNCHANGED <<stored, spoilt, runtimes>>, good' \subseteq good, swept' = FALSE,
         cmd'.pc \in {"idle", "make", "failed", "clear"},
         cmd'.pc = "clear" => cmd'.id \notin good,
         cmd'.calm \/ ~cmd.calm,
         FailsForReason'
  PROVE  Sure'
<1>1. Kept'
  BY SoundStays DEF Known, Sure, Kept, Collects
<1>2. Checked' /\ Collected' /\ Composed'
  BY DEF Checked, Collected, Composed, Scrutiny, Collects
<1>3. QED
  BY <1>1, <1>2 DEF Sure

\* A build that reports an error.
LEMMA FailSure ==
  ASSUME Known, Fail, cmd.pc \in Steps, cmd.calm => ~Buildable(LockOf(cmd.id))
  PROVE  Sure'
<1>1. /\ cmd'.pc \in {"idle", "failed"} /\ (cmd'.pc = "failed" => cmd'.id = cmd.id /\ cmd.calm)
      /\ cmd'.calm
  <2>1. /\ Idle.pc = "idle" /\ Run("failed", cmd.id).pc = "failed"
        /\ Run("failed", cmd.id).id = cmd.id /\ Idle.calm /\ Run("failed", cmd.id).calm
    BY DEF Run, Idle
  <2>2. QED
    BY <2>1 DEF Fail
<1>2. FailsForReason'
  BY <1>1 DEF Fail, FailsForReason, At, Buildable, Ready, LockOf, PathsOf, world
<1>3. swept' = FALSE
  BY DEF Fail, Known, Sure, Collected, Typed, TypeOK, history, Steps
<1>4. QED
  BY <1>1, <1>2, <1>3, ElsewhereSure DEF Fail, world, history

LEMMA BuildSure == ASSUME Known, NEW id \in Id, Build(id) PROVE Sure'
<1>1. /\ UNCHANGED <<stored, spoilt, runtimes, good>> /\ swept' = FALSE
      /\ \A n \in {"failed", "make", "clear"} : Run(n, id).pc = n /\ Run(n, id).id = id
      /\ Verifying("check", id).pc = "check" /\ Verifying("check", id).id = id
      /\ Verifying("check", id).left = DOMAIN LockOf(id)
      /\ Verifying("check", id).stage = "get" /\ Verifying("check", id).expected = {}
      /\ cmd'.calm
  <2>1. cmd' \in {Run("failed", id), Run("make", id), Run("clear", id), Verifying("check", id)}
    BY DEF Build
  <2>2. QED
    BY <2>1 DEF Build, Begin, world, Run, Verifying, Idle
<1>2. CASE ~Ready(LockOf(id)) /\ cmd' = Run("failed", id)
  <2>1. cmd'.pc = "failed" /\ cmd'.id = id
    BY <1>1, <1>2
  <2>2. FailsForReason'
    BY <1>1, <1>2, <2>1 DEF FailsForReason, At, Buildable, Ready, LockOf
  <2>3. QED
    BY <1>1, <2>1, <2>2, ElsewhereSure
<1>3. CASE cmd' = Run("make", id)
  <2>1. cmd'.pc = "make" /\ FailsForReason'
    BY <1>1, <1>3 DEF FailsForReason, At
  <2>2. QED
    BY <1>1, <2>1, ElsewhereSure
<1>4. CASE ~runtimes[id].meta /\ cmd' = Run("clear", id)
  <2>1. cmd'.pc = "clear" /\ cmd'.id = id /\ FailsForReason'
    BY <1>1, <1>4 DEF FailsForReason, At
  <2>2. id \notin good
    BY <1>4 DEF Known, Sure, Kept, Sound, AsLocked
  <2>3. QED
    BY <1>1, <2>1, <2>2, ElsewhereSure
<1>5. CASE runtimes[id].meta /\ cmd' = Verifying("check", id)
  <2>1. /\ cmd'.pc = "check" /\ cmd'.id = id /\ cmd'.left = DOMAIN LockOf(id)
        /\ cmd'.stage = "get" /\ cmd'.expected = {}
    BY <1>1, <1>5
  <2>2. Kept'
    BY <1>1, <2>1, SoundStays DEF Known, Sure, Kept, Collects
  <2>3. Checked'
    <3>1. Done' = {}
      BY <2>1 DEF Done
    <3>2. Progress'
      BY <2>1, <3>1 DEF Progress
    <3>3. QED
      BY <1>1, <1>5, <2>1, <3>2 DEF Checked
  <2>4. Collected' /\ Composed' /\ FailsForReason'
    BY <1>1, <2>1 DEF Collected, Composed, FailsForReason, At, Collects
  <2>5. QED
    BY <2>2, <2>3, <2>4 DEF Sure
<1>6. QED
  BY <1>2, <1>3, <1>4, <1>5 DEF Build

LEMMA GcSure == ASSUME Known, NEW all \in BOOLEAN, Gc(all) PROVE Sure'
<1>1. /\ UNCHANGED <<stored, spoilt, runtimes>> /\ swept' = FALSE /\ tmp' = None
      /\ good' \subseteq good /\ (all => good' = {})
      /\ cmd'.pc = "next" /\ cmd'.all = all /\ cmd'.queue = {id \in Id : runtimes[id] # None}
      /\ cmd'.calm
  BY DEF Gc, Begin, world, Idle
<1>2. Kept'
  BY <1>1, SoundStays DEF Known, Sure, Kept
<1>3. Checked' /\ Collected' /\ Composed' /\ FailsForReason'
  BY <1>1 DEF Checked, Collected, Composed, FailsForReason, At, Scrutiny
<1>4. QED
  BY <1>2, <1>3 DEF Sure

LEMMA EndingSure == ASSUME Known, Look \/ Interrupt PROVE Sure'
<1>1. cmd'.pc = "idle" /\ cmd'.calm /\ UNCHANGED <<stored, spoilt, runtimes, good>>
  BY DEF Look, Begin, Interrupt, world, history, Idle
<1>2. swept' = FALSE
  BY DEF Look, Begin, Interrupt, history, Known, Sure, Collected, Typed, TypeOK, Steps
<1>3. FailsForReason'
  BY <1>1 DEF FailsForReason, At
<1>4. QED
  BY <1>1, <1>2, <1>3, ElsewhereSure

-----------------------------------------------------------------------------
(* Composing.                                                              *)

\* What is known outside of Composed, at the points of a build.
LEMMA BuildingSure ==
  ASSUME Known, UNCHANGED <<world, runtimes, history>>, cmd.pc \in {"make", "compose"},
         cmd'.pc \in {"compose", "verify"}, cmd'.calm = cmd.calm, Checked', Composed'
  PROVE  Sure'
<1>1. Kept'
  BY SoundStays DEF Known, Sure, Kept, Collects, world, history
<1>2. Collected'
  BY DEF Known, Sure, Collected, Collects, Typed, TypeOK, history
<1>3. FailsForReason'
  BY DEF FailsForReason, At
<1>4. QED
  BY <1>1, <1>2, <1>3 DEF Sure

LEMMA MakeTmpSure == ASSUME Known, MakeTmp PROVE Sure'
<1>1. /\ cmd.pc = "make" /\ cmd'.pc = "compose" /\ cmd'.id = cmd.id
      /\ cmd'.left = DOMAIN LockOf(cmd.id) /\ cmd'.src = cmd.src /\ cmd'.placed = cmd.placed
      /\ cmd'.calm = cmd.calm
      /\ UNCHANGED <<world, runtimes, history>>
  BY DEF MakeTmp, At, Known, Whole, Shape
<1>2. cmd.src = None /\ cmd.placed = {}
  BY <1>1 DEF Known, Typed, TypeOK, Locals
<1>3. Done' = {} /\ DOMAIN tmp'.files = {}
  BY <1>1 DEF Done, MakeTmp, EmptyDir
<1>4. Checked'
  BY <1>1 DEF Checked, Scrutiny
<1>5. Composed'
  BY <1>1, <1>2, <1>3 DEF Composed
<1>6. QED
  BY <1>1, <1>4, <1>5, BuildingSure


LEMMA BuildableStays ==
  ASSUME UNCHANGED <<stored, spoilt>>, cmd'.id = cmd.id
  PROVE  Buildable(LockOf(cmd.id))' <=> Buildable(LockOf(cmd.id))
BY DEF Buildable, Ready, LockOf, PathsOf

LEMMA PlacedStays ==
  ASSUME UNCHANGED <<stored, spoilt>>, cmd'.id = cmd.id
  PROVE  \A k, q : Placed(ModeOf(cmd.id), k, q)' = Placed(ModeOf(cmd.id), k, q)
BY DEF Placed, Reads, ModeOf

LEMMA OpenPackageSure == ASSUME Known, OpenPackage PROVE Sure'
<1>1. /\ cmd.pc = "compose" /\ cmd.left # {} /\ cmd.src = None /\ cmd.id \in Id
      /\ Current \in DOMAIN LockOf(cmd.id) /\ cmd.placed = {}
  BY FirstOfLeft DEF OpenPackage, At, Known, Whole, Shape, HasId, Typed, Locals
<1>2. CASE stored[Current] = None /\ Fail
  <2>1. ~Buildable(LockOf(cmd.id))
    BY <1>1, <1>2 DEF Buildable, Ready
  <2>2. QED
    BY <1>1, <1>2, <2>1, FailSure DEF Steps
<1>3. CASE /\ cmd' = [cmd EXCEPT !.src = stored[Current], !.placed = {}]
           /\ UNCHANGED <<world, runtimes, tmp, history>>
  <2>1. /\ cmd'.pc = "compose" /\ cmd'.id = cmd.id /\ cmd'.left = cmd.left
        /\ cmd'.src = stored[Current] /\ cmd'.placed = {} /\ cmd'.calm = cmd.calm
        /\ UNCHANGED <<stored, spoilt, tmp>>
    BY <1>1, <1>3 DEF Known, Whole, Shape, world
  <2>2. Current' = Current /\ Done' = Done
    BY <2>1 DEF Current, Done, LockOf
  <2>3. \A k \in Done : PlacedAll(k) => PlacedAll(k)'
    BY <2>1, PlacedStays DEF PlacedAll, LockOf, PathsOf, ModeOf
  <2>4. Composed'
    BY <1>1, <2>1, <2>2, <2>3, BuildableStays DEF Known, Sure, Composed, LockOf, PathsOf
  <2>5. Checked'
    BY <2>1 DEF Checked, Scrutiny
  <2>6. QED
    BY <1>1, <1>3, <2>1, <2>4, <2>5, BuildingSure
<1>4. QED
  BY <1>2, <1>3 DEF OpenPackage

\* Where nothing is in the way, each file finds its place free.
LEMMA PlaceIsFree ==
  ASSUME Known, NEW q \in Path, cmd.pc = "compose", cmd.src # None,
         q \in Listed \ cmd.placed,
         cmd.calm, Buildable(LockOf(cmd.id))
  PROVE  ~Claimed(q) /\ ~InTheWay(tmp, q) /\ ~IsDirectory(tmp, q) /\ Has(Current, q)
<1> DEFINE lock == LockOf(cmd.id)
<1>1. Current \in cmd.left /\ Current \in Package /\ Current \in DOMAIN lock /\ cmd.id \in Id
  BY FirstOfLeft DEF Known, Typed, Locals, Whole, Shape, HasId
<1>2. /\ stored[Current] # None /\ cmd.src = stored[Current] /\ cmd.src.ed = lock[Current]
      /\ cmd.placed \subseteq PathsOf(Current, lock[Current])
      /\ \A p \in DOMAIN tmp.files : p \in cmd.placed \/ \E k \in Done : p \in PathsOf(k, lock[k])
      /\ q \in PathsOf(Current, lock[Current])
  BY <1>1 DEF Known, Sure, Composed, Buildable, Ready, Listed
<1>3. ASSUME NEW other \in DOMAIN tmp.files
      PROVE  other # q /\ <<other, q>> \notin Inside /\ <<q, other>> \notin Inside
  <2>1. CASE other \in cmd.placed
    <3>1. other \in PathsOf(Current, lock[Current]) /\ q \in PathsOf(Current, lock[Current])
      BY <1>2, <2>1
    <3>2. lock[Current] \in Edition
      BY <1>1, IdParts, ComposingAssumption
    <3>3. QED
      BY <1>1, <2>1, <3>1, <3>2, ComposingAssumption DEF PathsOf
  <2>2. CASE other \notin cmd.placed
    <3>1. PICK k \in Done : other \in PathsOf(k, lock[k])
      BY <1>2, <1>3, <2>2
    <3>2. k \in DOMAIN lock /\ k # Current
      BY <1>1 DEF Done
    <3>3. q \in PathsOf(Current, lock[Current])
      BY <1>2
    <3>4. QED
      BY <1>1, <3>1, <3>2, <3>3 DEF Buildable
  <2>3. QED
    BY <2>1, <2>2
<1>4. Has(Current, q)
  BY <1>2 DEF Has
<1>5. QED
  BY <1>3, <1>4 DEF Claimed, InTheWay, IsDirectory

LEMMA PlaceSure == ASSUME Known, NEW q \in Path, Place(q) PROVE Sure'
<1>1. /\ cmd.pc = "compose" /\ cmd.src # None
      /\ q \in Listed \ cmd.placed
      /\ cmd.id \in Id /\ tmp \in Dir
  BY DEF Place, At, Known, Whole, Shape, HasId, Typed, TypeOK
<1>2. CASE Fail
  <2>1. \/ ~(~Claimed(q) /\ ~InTheWay(tmp, q) /\ ~IsDirectory(tmp, q) /\ Has(Current, q))
        \/ cmd.calm /\ cmd'.placed = cmd.placed \union {q} /\ cmd'.pc = "compose"
        \/ ~cmd.calm
    BY DEF Place, Known, Whole, Shape, At
  <2>2. ~(cmd'.pc = "compose")
    BY <1>2 DEF Fail, Run, Idle
  <2>3. cmd.calm => ~Buildable(LockOf(cmd.id))
    BY <1>1, <2>1, <2>2, PlaceIsFree
  <2>4. QED
    BY <1>1, <1>2, <2>3, FailSure DEF Steps
<1>3. CASE ~Fail
  <2>1. /\ tmp' = [tmp EXCEPT !.files = With(@, q, Placed(ModeOf(cmd.id), Current, q))]
        /\ ModeOf(cmd.id) = "symlink" \/ Has(Current, q)
        /\ ~Claimed(q)
        /\ UNCHANGED <<world, runtimes, history>>
        /\ cmd' = [cmd EXCEPT !.placed = @ \union {q}]
    BY <1>3 DEF Place
  <2>2. /\ cmd'.pc = "compose" /\ cmd'.id = cmd.id /\ cmd'.left = cmd.left
        /\ cmd'.src = cmd.src /\ cmd'.placed = cmd.placed \union {q} /\ cmd'.calm = cmd.calm
        /\ UNCHANGED <<stored, spoilt>>
    BY <1>1, <2>1 DEF Known, Whole, Shape, world
  <2>3. /\ q \notin DOMAIN tmp.files
        /\ DOMAIN tmp'.files = DOMAIN tmp.files \union {q}
        /\ tmp'.files[q] = Placed(ModeOf(cmd.id), Current, q)
        /\ \A p \in DOMAIN tmp.files : tmp'.files[p] = tmp.files[p]
    <3>1. tmp'.files = With(tmp.files, q, Placed(ModeOf(cmd.id), Current, q))
      BY <1>1, <2>1 DEF Dir
    <3>2. q \notin DOMAIN tmp.files
      BY <2>1 DEF Claimed
    <3>3. QED
      BY <3>1, <3>2 DEF With
  <2>4. Current' = Current /\ Done' = Done /\ LockOf(cmd.id)' = LockOf(cmd.id)
          /\ \A p : Placed(ModeOf(cmd.id), Current, p)' = Placed(ModeOf(cmd.id), Current, p)
    BY <2>2 DEF Current, Done, LockOf, Placed, Reads, ModeOf
  <2>5. \A k \in Done : PlacedAll(k) => PlacedAll(k)'
    BY <2>2, <2>3, PlacedStays DEF PlacedAll, LockOf, PathsOf, ModeOf
  <2>6. Composed'
    <3> SUFFICES ASSUME cmd.calm, Buildable(LockOf(cmd.id))
                 PROVE  /\ \A k \in Done : PlacedAll(k)'
                        /\ \A p \in DOMAIN tmp'.files :
                             p \in cmd'.placed \/ \E k \in Done : p \in PathsOf(k, LockOf(cmd.id)[k])
                        /\ cmd.src = stored[Current]
                        /\ cmd'.placed \subseteq PathsOf(Current, LockOf(cmd.id)[Current])
                        /\ \A p \in cmd'.placed :
                             /\ p \in DOMAIN tmp'.files
                             /\ tmp'.files[p] = Placed(ModeOf(cmd.id), Current, p)
      BY <2>2, <2>4, BuildableStays DEF Composed, PathsOf
    <3>1. /\ \A k \in Done : PlacedAll(k)
          /\ \A p \in DOMAIN tmp.files :
               p \in cmd.placed \/ \E k \in Done : p \in PathsOf(k, LockOf(cmd.id)[k])
          /\ cmd.src = stored[Current]
          /\ cmd.placed \subseteq PathsOf(Current, LockOf(cmd.id)[Current])
          /\ \A p \in cmd.placed : /\ p \in DOMAIN tmp.files
                                   /\ tmp.files[p] = Placed(ModeOf(cmd.id), Current, p)
      BY <1>1 DEF Known, Sure, Composed
    <3>2. q \in PathsOf(Current, LockOf(cmd.id)[Current])
      <4>1. Current \in DOMAIN LockOf(cmd.id)
        BY <1>1, FirstOfLeft DEF Known, Typed, Locals
      <4>2. QED
        BY <1>1, <3>1, <4>1 DEF Buildable, Ready, Listed
    <3>3. \A k \in Done : PlacedAll(k)'
      BY <2>5, <3>1
    <3>4. \A p \in DOMAIN tmp'.files :
            p \in cmd'.placed \/ \E k \in Done : p \in PathsOf(k, LockOf(cmd.id)[k])
      BY <2>2, <2>3, <3>1
    <3>5. \A p \in cmd'.placed : /\ p \in DOMAIN tmp'.files
                                  /\ tmp'.files[p] = Placed(ModeOf(cmd.id), Current, p)
      BY <2>2, <2>3, <3>1
    <3>6. QED
      BY <2>2, <3>1, <3>2, <3>3, <3>4, <3>5
  <2>7. Checked'
    BY <2>2 DEF Checked, Scrutiny
  <2>8. QED
    BY <1>1, <2>1, <2>2, <2>6, <2>7, BuildingSure
<1>4. QED
  BY <1>2, <1>3

LEMMA ClosePackageSure == ASSUME Known, ClosePackage PROVE Sure'
<1>1. /\ cmd.pc = "compose" /\ cmd.src # None /\ cmd.id \in Id
      /\ Current \in DOMAIN LockOf(cmd.id) /\ Current \in cmd.left
  BY FirstOfLeft DEF ClosePackage, At, Known, Whole, Shape, HasId, Typed, Locals
<1>8. CASE stored[Current] # cmd.src /\ Fail
  <2>1. cmd.calm => ~Buildable(LockOf(cmd.id))
    BY <1>1, <1>8 DEF Known, Sure, Composed
  <2>2. QED
    BY <1>1, <1>8, <2>1, FailSure DEF Steps
<1>9. SUFFICES ASSUME PathsOf(Current, cmd.src.ed) = cmd.placed \/ stored[Current] # cmd.src,
                      cmd' = [cmd EXCEPT !.left = @ \ {Current}, !.src = None, !.placed = {}],
                      UNCHANGED <<world, runtimes, tmp, history>>
               PROVE  Sure'
  BY <1>8 DEF ClosePackage
<1>2. /\ cmd'.pc = "compose" /\ cmd'.id = cmd.id /\ cmd'.left = cmd.left \ {Current}
      /\ cmd'.src = None /\ cmd'.placed = {} /\ cmd'.calm = cmd.calm
      /\ UNCHANGED <<stored, spoilt, tmp>> /\ UNCHANGED <<world, runtimes, history>>
  BY <1>1, <1>9 DEF Known, Whole, Shape, world
<1>3. Done' = Done \union {Current} /\ LockOf(cmd.id)' = LockOf(cmd.id)
  BY <1>1, <1>2 DEF Done, LockOf
<1>4. \A k : PlacedAll(k) => PlacedAll(k)'
  BY <1>2, PlacedStays DEF PlacedAll, LockOf, PathsOf, ModeOf
<1>5. Composed'
  <2> SUFFICES ASSUME cmd.calm, Buildable(LockOf(cmd.id))
               PROVE  /\ \A k \in Done \union {Current} : PlacedAll(k)'
                      /\ \A p \in DOMAIN tmp.files :
                           \E k \in Done \union {Current} : p \in PathsOf(k, LockOf(cmd.id)[k])
    BY <1>2, <1>3, BuildableStays DEF Composed, PathsOf
  <2>1. /\ \A k \in Done : PlacedAll(k)
        /\ \A p \in DOMAIN tmp.files :
             p \in cmd.placed \/ \E k \in Done : p \in PathsOf(k, LockOf(cmd.id)[k])
        /\ cmd.src = stored[Current]
        /\ \A p \in cmd.placed : /\ p \in DOMAIN tmp.files
                                 /\ tmp.files[p] = Placed(ModeOf(cmd.id), Current, p)
    BY <1>1 DEF Known, Sure, Composed
  <2>2. PathsOf(Current, LockOf(cmd.id)[Current]) = cmd.placed
    BY <1>1, <1>9, <2>1 DEF Buildable, Ready
  <2>3. \A k \in Done \union {Current} : PlacedAll(k)
    BY <2>1, <2>2 DEF PlacedAll
  <2>4. \A p \in DOMAIN tmp.files :
          \E k \in Done \union {Current} : p \in PathsOf(k, LockOf(cmd.id)[k])
    BY <2>1, <2>2
  <2>5. QED
    BY <1>4, <2>3, <2>4
<1>6. Checked'
  BY <1>2 DEF Checked, Scrutiny
<1>7. QED
  BY <1>1, <1>2, <1>5, <1>6, BuildingSure

LEMMA WriteMetaSure == ASSUME Known, WriteMeta PROVE Sure'
<1>1. /\ cmd.pc = "compose" /\ cmd.left = {} /\ cmd.id \in Id /\ tmp \in Dir
      /\ cmd.placed = {} /\ cmd.stage = "get" /\ cmd.expected = {}
  BY DEF WriteMeta, At, Known, Whole, Shape, HasId, Typed, TypeOK, Locals, Scrutiny
<1>2. /\ cmd'.pc = "verify" /\ cmd'.id = cmd.id /\ cmd'.left = DOMAIN LockOf(cmd.id)
      /\ cmd'.calm = cmd.calm /\ cmd'.stage = "get" /\ cmd'.expected = {}
      /\ UNCHANGED <<stored, spoilt>> /\ UNCHANGED <<world, runtimes, history>>
  BY <1>1 DEF WriteMeta, Known, Whole, Shape, world
<1>3. tmp'.files = tmp.files
  BY <1>1 DEF WriteMeta, Dir
<1>4. Done = DOMAIN LockOf(cmd.id) /\ LockOf(cmd.id)' = LockOf(cmd.id)
  BY <1>1, <1>2 DEF Done, LockOf
<1>5. \A k : PlacedAll(k) => PlacedAll(k)'
  BY <1>2, <1>3, PlacedStays DEF PlacedAll, LockOf, PathsOf, ModeOf
<1>6. Composed'
  <2> SUFFICES ASSUME cmd.calm, Buildable(LockOf(cmd.id))
               PROVE  /\ \A k \in DOMAIN LockOf(cmd.id) : PlacedAll(k)'
                      /\ OnlyLocked(tmp)'
    BY <1>2, <1>4, BuildableStays DEF Composed
  <2>1. /\ \A k \in DOMAIN LockOf(cmd.id) : PlacedAll(k)
        /\ \A p \in DOMAIN tmp.files :
             \E k \in DOMAIN LockOf(cmd.id) : p \in PathsOf(k, LockOf(cmd.id)[k])
    BY <1>1, <1>4 DEF Known, Sure, Composed
  <2>2. OnlyLocked(tmp)'
    BY <1>2, <1>3, <1>4, <2>1 DEF OnlyLocked, PathsOf
  <2>3. QED
    BY <1>5, <2>1, <2>2
<1>7. Checked'
  <2>1. Done' = {}
    BY <1>2, <1>4 DEF Done
  <2>2. Progress'
    BY <1>2, <2>1 DEF Progress
  <2>3. QED
    BY <1>2, <2>2 DEF Checked
<1>8. QED
  BY <1>1, <1>2, <1>6, <1>7, BuildingSure


-----------------------------------------------------------------------------
(* Verifying, renaming, deleting and collecting.                           *)

\* What is known of what is looked at stays while that stays.
LEMMA SubjectStays ==
  ASSUME UNCHANGED <<stored, spoilt, runtimes, tmp>>, cmd'.id = cmd.id,
         At("verify")' <=> At("verify")
  PROVE  /\ Subject' = Subject /\ LockOf(cmd.id)' = LockOf(cmd.id)
         /\ \A k, q : Placed(ModeOf(cmd.id), k, q)' = Placed(ModeOf(cmd.id), k, q)
         /\ \A k : Holds(k, cmd.id, Subject)' <=> Holds(k, cmd.id, Subject)
<1>1. Subject' = Subject /\ LockOf(cmd.id)' = LockOf(cmd.id)
  BY DEF Subject, LockOf
<1>2. QED
  BY <1>1, PlacedStays DEF Holds, PathsOf

\* What a verification that has gone through concludes.
LEMMA FoundAll ==
  ASSUME cmd.id \in Id, Progress, cmd.left = {}, NothingElse
  PROVE  /\ \A k \in DOMAIN LockOf(cmd.id) : Holds(k, cmd.id, Subject)
         /\ Subject.meta => AsLocked(cmd.id, Subject)
<1>1. \A k \in DOMAIN LockOf(cmd.id) : Holds(k, cmd.id, Subject)
  BY DEF Progress, Done
<1>2. \A k \in DOMAIN LockOf(cmd.id) : HasPackage(cmd.id, Subject, k)
  BY <1>1, HoldsHasPackage
<1>3. DOMAIN Subject.files
        \subseteq UNION {PathsOf(k, LockOf(cmd.id)[k]) : k \in DOMAIN LockOf(cmd.id)}
  BY DEF Progress, NothingElse
<1>4. QED
  BY <1>1, <1>2, <1>3, PackagesMakeRuntime

\* A check that has found all packages and nothing else.
LEMMA FoundSound ==
  ASSUME Known, cmd.pc \in {"check", "judge"}, cmd.calm, cmd.left = {}, NothingElse
  PROVE  Sound(cmd.id)
<1>1. /\ cmd.id \in Id /\ Subject = runtimes[cmd.id] /\ runtimes[cmd.id] # None
      /\ runtimes[cmd.id].meta /\ Progress
  BY DEF Known, Whole, Shape, HasId, Typed, Locals, Sure, Checked, Scrutiny, Subject, At,
         Undisturbed
<1>2. QED
  BY <1>1, FoundAll DEF Sound

\* A directory that holds what is locked is not refuted, as long as it and the
\* store stay as they are.
LEMMA HeldIsNotRefuted ==
  ASSUME Typed, Progress, OnlyLocked(Subject),
         \A k \in DOMAIN LockOf(cmd.id) : Holds(k, cmd.id, Subject)
  PROVE  ~VerifyFailed /\ ~Unreadable
<1>1. cmd.left = {} => NothingElse
  BY DEF Progress, Done, NothingElse, OnlyLocked
<1>2. ASSUME cmd.left # {}
      PROVE  /\ AsHashed /\ Intact
             /\ cmd.stage \in {"intact", "list"} => cmd.src = stored[Current]
             /\ cmd.stage = "compare" => \A q \in cmd.todo : Matches(q)
  <2>1. Current \in DOMAIN LockOf(cmd.id) /\ Holds(Current, cmd.id, Subject)
    BY <1>2, FirstOfLeft
  <2>2. AsHashed /\ Intact
    BY <2>1 DEF Holds, AsHashed, Intact
  <2>3. cmd.stage \in {"intact", "list"} => cmd.src = stored[Current]
    BY <1>2 DEF Progress
  <2>4. ASSUME cmd.stage = "compare", NEW q \in cmd.todo PROVE Matches(q)
    <3>1. q \in PathsOf(Current, stored[Current].ed)
      BY <1>2, <2>1, <2>4 DEF Progress, Holds
    <3>2. QED
      BY <2>1, <3>1 DEF Holds, Matches, Has
  <2>5. QED
    BY <2>2, <2>3, <2>4
<1>3. ~VerifyFailed
  BY <1>1, <1>2 DEF VerifyFailed, Stage
<1>4. ~Unreadable
  BY <1>2 DEF Unreadable, Stage
<1>5. QED
  BY <1>3, <1>4

\* Nothing that builds have delivered is refuted, nor what a collection judges
\* while nothing disturbs it.
LEMMA RefutedUnsound ==
  ASSUME Known, Refuted, cmd.pc \in {"check", "judge"}, cmd.calm PROVE ~Sound(cmd.id)
<1> SUFFICES ASSUME Sound(cmd.id) PROVE FALSE
  OBVIOUS
<1>1. Subject = runtimes[cmd.id] /\ Progress
  BY DEF Subject, At, Known, Sure, Checked, Scrutiny, Undisturbed
<1>2. OnlyLocked(Subject)
  BY <1>1 DEF Sound, AsLocked, OnlyLocked
<1>3. \A k \in DOMAIN LockOf(cmd.id) : Holds(k, cmd.id, Subject)
  BY <1>1 DEF Sound
<1>4. QED
  BY <1>1, <1>2, <1>3, HeldIsNotRefuted DEF Refuted, Known

\* A new directory is given up only if something is in the way of the build.
LEMMA RefutedUnbuildable ==
  ASSUME Known, Refuted, cmd.pc = "verify", cmd.calm PROVE ~Buildable(LockOf(cmd.id))
<1> SUFFICES ASSUME Buildable(LockOf(cmd.id)) PROVE FALSE
  OBVIOUS
<1>1. /\ Subject = tmp /\ OnlyLocked(tmp) /\ Progress
      /\ \A k \in DOMAIN LockOf(cmd.id) : PlacedAll(k)
  BY DEF Subject, At, Known, Whole, Shape, Sure, Composed, Checked, Scrutiny, Undisturbed
<1>2. \A k \in DOMAIN LockOf(cmd.id) : Holds(k, cmd.id, tmp)
  BY <1>1 DEF Holds, Buildable, Ready, PlacedAll
<1>3. QED
  BY <1>1, <1>2, HeldIsNotRefuted DEF Refuted, Known

\* One more look.
LEMMA LookingProgress == ASSUME Known, Looking, Progress PROVE Progress'
<1>1. /\ Scrutiny /\ cmd.left # {} /\ cmd'.pc = cmd.pc /\ cmd'.id = cmd.id
      /\ UNCHANGED <<stored, spoilt, runtimes, tmp>>
  BY LooksOnly DEF Known, Whole
<1>2. /\ Subject' = Subject /\ LockOf(cmd.id)' = LockOf(cmd.id)
      /\ \A k, q : Placed(ModeOf(cmd.id), k, q)' = Placed(ModeOf(cmd.id), k, q)
      /\ \A k : Holds(k, cmd.id, Subject)' <=> Holds(k, cmd.id, Subject)
  BY <1>1, SubjectStays DEF At
<1>3. Current \in cmd.left /\ Current \in DOMAIN LockOf(cmd.id)
  BY <1>1, FirstOfLeft DEF Known
<1>4. ASSUME cmd'.left = cmd.left
      PROVE  /\ Current' = Current /\ Done' = Done
             /\ AsHashed' <=> AsHashed
             /\ Intact' <=> Intact
             /\ \A q : Matches(q)' <=> Matches(q)
  <2>1. Current' = Current /\ Done' = Done
    BY <1>2, <1>4 DEF Current, Done
  <2>2. QED
    BY <1>1, <1>2, <2>1 DEF AsHashed, Intact, Matches, Has, PathsOf
<1>5. CASE GetStored
  <2>1. /\ cmd'.stage = "intact" /\ cmd'.src = stored[Current] /\ AsHashed
        /\ cmd'.left = cmd.left /\ cmd'.expected = cmd.expected
    BY <1>5 DEF GetStored, Known, Whole, Shape
  <2>2. QED
    BY <1>1, <1>2, <1>4, <2>1 DEF Progress, PathsOf
<1>6. CASE CheckStored
  <2>1. /\ cmd.stage = "intact" /\ cmd'.stage = "list" /\ cmd'.src = cmd.src /\ Intact
        /\ cmd'.left = cmd.left /\ cmd'.expected = cmd.expected
    BY <1>6 DEF CheckStored, Stage, Known, Whole, Shape
  <2>2. QED
    BY <1>1, <1>2, <1>4, <2>1 DEF Progress, PathsOf
<1>7. CASE ListFiles
  <2>1. PICK rels \in SUBSET Listed :
          /\ stored[Current] = cmd.src => rels = Listed
          /\ cmd' = [cmd EXCEPT !.stage = "compare", !.todo = rels]
    BY <1>7 DEF ListFiles
  <2>2. /\ cmd.stage = "list" /\ cmd'.stage = "compare" /\ cmd'.src = cmd.src
        /\ cmd'.left = cmd.left /\ cmd'.expected = cmd.expected /\ cmd'.todo = rels
    BY <1>7, <2>1 DEF ListFiles, Stage, Known, Whole, Shape
  <2>3. cmd.src = stored[Current] /\ AsHashed /\ Intact
    BY <1>1, <2>2 DEF Progress
  <2>4. rels = PathsOf(Current, LockOf(cmd.id)[Current])
    BY <2>1, <2>3 DEF Listed, AsHashed
  <2>5. QED
    BY <1>1, <1>2, <1>4, <2>2, <2>3, <2>4 DEF Progress, PathsOf
<1>8. ASSUME NEW q \in Path, Compare(q) PROVE Progress'
  <2>1. /\ cmd.stage = "compare" /\ cmd'.stage = "compare" /\ cmd'.src = cmd.src
        /\ cmd'.left = cmd.left /\ cmd'.expected = cmd.expected \union {q}
        /\ cmd'.todo = cmd.todo \ {q} /\ q \in cmd.todo /\ Matches(q)
    BY <1>8 DEF Compare, Stage, Known, Whole, Shape
  <2>2. /\ cmd.src = stored[Current] /\ AsHashed /\ Intact
        /\ cmd.todo \subseteq PathsOf(Current, LockOf(cmd.id)[Current])
        /\ \A p \in PathsOf(Current, LockOf(cmd.id)[Current]) \ cmd.todo :
             p \in cmd.expected /\ Matches(p)
    BY <1>1, <2>1 DEF Progress
  <2>3. \A p \in PathsOf(Current, LockOf(cmd.id)[Current]) \ cmd'.todo :
             p \in cmd'.expected /\ Matches(p)'
    BY <1>4, <2>1, <2>2
  <2>4. cmd'.expected
          \subseteq UNION {PathsOf(k, LockOf(cmd.id)[k]) : k \in DOMAIN LockOf(cmd.id)}
    BY <1>3, <2>1, <2>2 DEF Progress
  <2>5. /\ \A k \in Done : Holds(k, cmd.id, Subject)
        /\ \A k \in Done : PathsOf(k, LockOf(cmd.id)[k]) \subseteq cmd'.expected
    BY <2>1 DEF Progress
  <2>6. QED
    BY <1>1, <1>2, <1>4, <2>1, <2>2, <2>3, <2>4, <2>5 DEF Progress, PathsOf
<1>9. CASE PackageDone
  <2>1. /\ cmd.stage = "compare" /\ cmd'.stage = "get" /\ cmd.todo = {}
        /\ cmd'.left = cmd.left \ {Current} /\ cmd'.expected = cmd.expected
    BY <1>9 DEF PackageDone, Stage, Known, Whole, Shape
  <2>2. /\ AsHashed /\ Intact
        /\ \A q \in PathsOf(Current, LockOf(cmd.id)[Current]) : q \in cmd.expected /\ Matches(q)
    BY <1>1, <2>1 DEF Progress
  <2>3. Holds(Current, cmd.id, Subject)
    BY <2>2 DEF AsHashed, Intact, Matches, Holds
  <2>4. Done' = Done \union {Current}
    BY <1>2, <1>3, <2>1 DEF Done
  <2>5. /\ \A k \in Done' : Holds(k, cmd.id, Subject)
        /\ \A k \in Done' : PathsOf(k, LockOf(cmd.id)[k]) \subseteq cmd.expected
        /\ cmd.expected
             \subseteq UNION {PathsOf(k, LockOf(cmd.id)[k]) : k \in DOMAIN LockOf(cmd.id)}
    BY <2>2, <2>3, <2>4 DEF Progress
  <2>6. QED
    BY <1>2, <2>1, <2>5 DEF Progress, PathsOf
<1>10. QED
  BY <1>5, <1>6, <1>7, <1>8, <1>9 DEF Looking

LEMMA LookingSure == ASSUME Known, Looking PROVE Sure'
<1>1. /\ cmd.pc \in {"check", "verify", "judge"}
      /\ UNCHANGED <<world, runtimes, tmp, history>>
      /\ UNCHANGED <<stored, spoilt, runtimes, tmp, good, swept>>
      /\ cmd'.pc = cmd.pc /\ cmd'.id = cmd.id /\ cmd'.calm = cmd.calm
      /\ cmd'.steady = cmd.steady /\ cmd'.all = cmd.all /\ cmd'.queue = cmd.queue
  BY LooksOnly DEF Known, Whole
<1>2. Kept'
  BY <1>1, SoundStays DEF Known, Sure, Kept, Collects
<1>3. Checked'
  BY <1>1, LookingProgress DEF Known, Sure, Checked, Scrutiny, Undisturbed, At
<1>4. Collected'
  BY <1>1, SoundStays DEF Known, Sure, Collected, Collects
<1>5. Composed'
  <2>1. \A k : PlacedAll(k) => PlacedAll(k)'
    BY <1>1, PlacedStays DEF PlacedAll, LockOf, PathsOf, ModeOf
  <2>2. OnlyLocked(tmp) => OnlyLocked(tmp)'
    BY <1>1 DEF OnlyLocked, PathsOf, LockOf
  <2>3. QED
    BY <1>1, <2>1, <2>2, BuildableStays DEF Known, Sure, Composed, LockOf
<1>6. FailsForReason'
  BY <1>1 DEF FailsForReason, At
<1>7. QED
  BY <1>2, <1>3, <1>4, <1>5, <1>6 DEF Sure

LEMMA VerifiedSure == ASSUME Known, Verified PROVE Sure'
<1>1. /\ cmd.pc \in {"check", "verify", "judge"} /\ cmd.left = {} /\ NothingElse
      /\ UNCHANGED <<stored, spoilt, runtimes, tmp, swept>> /\ swept = FALSE
  BY DEF Verified, Scrutiny, world, history, Known, Sure, Collected, Typed, TypeOK
<1>2. CASE cmd.pc = "check"
  <2>1. cmd' = Idle /\ good' = IF cmd.calm THEN good \union {cmd.id} ELSE good
    BY <1>2 DEF Verified, At
  <2>2. \A id \in good' : Sound(id)
    BY <1>1, <1>2, <2>1, FoundSound DEF Known, Sure, Kept
  <2>3. cmd'.pc = "idle" /\ cmd'.calm
    BY <2>1 DEF Idle
  <2>4. Kept'
    BY <1>1, <2>2, <2>3, SoundStays DEF Kept, Collects
  <2>5. Checked' /\ Collected' /\ Composed' /\ FailsForReason'
    BY <1>1, <2>3 DEF Checked, Collected, Composed, FailsForReason, At, Scrutiny, Collects
  <2>6. QED
    BY <2>4, <2>5 DEF Sure
<1>3. CASE cmd.pc = "verify"
  <2>1. /\ cmd'.pc = "rename" /\ cmd'.id = cmd.id /\ cmd'.calm = cmd.calm /\ UNCHANGED good
        /\ cmd'.steady = cmd.steady
    BY <1>3 DEF Verified, At, Turn, Known, Whole, Shape, history
  <2>2. cmd.steady => /\ \A k \in DOMAIN LockOf(cmd.id) : Holds(k, cmd.id, tmp)
                      /\ AsLocked(cmd.id, tmp)
    BY <1>1, <1>3, FoundAll
    DEF Known, Whole, Shape, HasId, Underway, Sure, Checked, Scrutiny, Undisturbed, Subject, At
  <2>3. \A k : Holds(k, cmd.id, tmp)' <=> Holds(k, cmd.id, tmp)
    BY <1>1, <2>1, PlacedStays DEF Holds, LockOf, PathsOf
  <2>4. AsLocked(cmd.id, tmp) => AsLocked(cmd.id, tmp)'
    BY <1>1, <2>1 DEF AsLocked, LockOf, ModeOf, PathsOf
  <2>8. Checked'
    BY <2>1, <2>2, <2>3, <2>4 DEF Checked, Scrutiny, LockOf, Known, Whole, Shape
  <2>5. Kept'
    BY <1>1, <2>1, SoundStays DEF Known, Sure, Kept, Collects
  <2>6. Collected' /\ Composed' /\ FailsForReason'
    BY <1>1, <2>1 DEF Collected, Composed, FailsForReason, At, Collects
  <2>7. QED
    BY <2>8, <2>5, <2>6 DEF Sure
<1>4. CASE cmd.pc = "judge"
  <2>1. /\ cmd'.pc = "next" /\ cmd'.id = cmd.id /\ cmd'.calm = cmd.calm /\ UNCHANGED good
        /\ cmd'.queue = cmd.queue /\ cmd'.all = cmd.all
    BY <1>4 DEF Verified, At, Turn, Known, Whole, Shape, history
  <2>2. cmd.calm => Sound(cmd.id)
    BY <1>1, <1>4, FoundSound
  <2>3. cmd.calm => \A id \in Id : runtimes[id] = None \/ Sound(id) \/ id \in cmd.queue
    BY <1>4, <2>2 DEF Known, Sure, Collected, Collects
  <2>4. Collected'
    <3>1. cmd.calm => \A id \in Id : runtimes'[id] = None \/ Sound(id)' \/ id \in cmd'.queue
      BY <1>1, <2>1, <2>3, SoundStays
    <3>2. tmp' = None
      BY <1>1, <1>4 DEF Known, Sure, Collected, Collects
    <3>3. QED
      BY <1>1, <2>1, <3>1, <3>2 DEF Collected
  <2>5. Kept'
    BY <1>1, <1>4, <2>1, SoundStays DEF Known, Sure, Kept, Collects
  <2>6. Checked' /\ Composed' /\ FailsForReason'
    BY <2>1 DEF Checked, Composed, FailsForReason, At, Scrutiny
  <2>7. QED
    BY <2>4, <2>5, <2>6 DEF Sure
<1>5. QED
  BY <1>1, <1>2, <1>3, <1>4

LEMMA RefutedSure == ASSUME Known, Refuted PROVE Sure'
<1>1. cmd.pc \in {"check", "verify", "judge"} /\ swept = FALSE
  BY DEF Refuted, Scrutiny, Known, Sure, Collected, Typed, TypeOK
<1>2. CASE cmd.pc = "verify" /\ Fail
  BY <1>2, RefutedUnbuildable, FailSure DEF Steps
<1>7. cmd.pc \in {"check", "judge"} => cmd.id \notin good
  <2>1. cmd.pc \in {"check", "judge"} /\ cmd.calm => ~Sound(cmd.id)
    BY RefutedUnsound
  <2>2. QED
    BY <2>1 DEF Known, Sure, Kept
<1>3. CASE cmd.pc = "check" /\ Turn("clear") /\ UNCHANGED <<world, runtimes, tmp, history>>
  <2>1. cmd'.pc = "clear" /\ cmd'.id = cmd.id /\ cmd'.calm = cmd.calm
    BY <1>3 DEF Turn, Known, Whole, Shape
  <2>2. cmd.id \notin good
    BY <1>3, <1>7
  <2>3. FailsForReason'
    BY <2>1 DEF FailsForReason, At
  <2>4. QED
    BY <1>1, <1>3, <2>1, <2>2, <2>3, ElsewhereSure DEF world, history, Known, Typed, TypeOK
<1>4. CASE cmd.pc = "judge" /\ Turn("drop") /\ UNCHANGED <<world, runtimes, tmp, history>>
  <2>1. /\ cmd'.pc = "drop" /\ cmd'.id = cmd.id /\ cmd'.calm = cmd.calm
        /\ cmd'.queue = cmd.queue /\ cmd'.all = cmd.all
        /\ UNCHANGED <<stored, spoilt, runtimes, tmp, good, swept>>
    BY <1>4 DEF Turn, Known, Whole, Shape, world, history
  <2>2. cmd.id \notin good
    BY <1>4, <1>7
  <2>3. Kept'
    BY <1>4, <2>1, <2>2, SoundStays DEF Known, Sure, Kept, Collects
  <2>4. Collected'
    BY <1>1, <1>4, <2>1, SoundStays DEF Known, Sure, Collected, Collects
  <2>5. Checked' /\ Composed' /\ FailsForReason'
    BY <2>1 DEF Checked, Composed, FailsForReason, At, Scrutiny
  <2>6. QED
    BY <2>3, <2>4, <2>5 DEF Sure
<1>5. CASE cmd' = Idle /\ UNCHANGED <<world, runtimes, tmp, history>>
  <2>1. cmd'.pc = "idle" /\ cmd'.calm /\ FailsForReason'
    BY <1>5 DEF FailsForReason, At, Idle
  <2>2. QED
    BY <1>1, <1>5, <2>1, ElsewhereSure DEF world, history
<1>6. QED
  BY <1>2, <1>3, <1>4, <1>5 DEF Refuted, At

LEMMA RenameSure == ASSUME Known, Rename PROVE Sure'
<1>1. /\ cmd.pc = "rename" /\ cmd.id \in Id /\ tmp # None /\ runtimes[cmd.id] = None
      /\ runtimes' = [runtimes EXCEPT ![cmd.id] = tmp]
      /\ good' = IF cmd.calm THEN good \union {cmd.id} ELSE good
      /\ cmd' = Idle /\ UNCHANGED <<stored, spoilt, swept>>
  BY DEF Rename, At, world, Known, Whole, Shape, HasId, Typed, TypeOK
<1>2. /\ runtimes'[cmd.id] = tmp
      /\ \A id \in Id : id # cmd.id => runtimes'[id] = runtimes[id]
      /\ cmd'.pc = "idle" /\ cmd'.calm /\ swept' = FALSE
  BY <1>1 DEF Idle, Known, Sure, Collected, Typed, TypeOK
<1>3. ASSUME NEW id \in good' PROVE Sound(id)'
  <2>1. CASE id = cmd.id
    <3>1. cmd.calm
      BY <1>1, <1>3, <2>1 DEF Known, Sure, Kept, Sound
    <3>2. AsLocked(id, tmp) /\ \A k \in DOMAIN LockOf(id) : Holds(k, id, tmp)
      BY <1>1, <2>1, <3>1 DEF Known, Whole, Shape, Sure, Checked
    <3>3. \A k, q : Placed(ModeOf(id), k, q)' = Placed(ModeOf(id), k, q)
      BY <1>1 DEF Placed, Reads, ModeOf
    <3>4. runtimes'[id] = tmp /\ tmp # None
      BY <1>1, <1>2, <2>1
    <3>5. AsLocked(id, runtimes[id])'
      BY <3>2, <3>4 DEF AsLocked, LockOf, ModeOf, PathsOf
    <3>6. \A k \in DOMAIN LockOf(id) : Holds(k, id, runtimes[id])'
      BY <1>1, <3>2, <3>3, <3>4 DEF Holds, LockOf, PathsOf
    <3>7. QED
      BY <3>4, <3>5, <3>6 DEF Sound, LockOf
  <2>2. CASE id # cmd.id
    <3>1. id \in good /\ id \in Id /\ runtimes'[id] = runtimes[id]
      BY <1>1, <1>2, <1>3, <2>2 DEF Known, Typed, TypeOK
    <3>2. QED
      BY <1>1, <3>1, SoundStays DEF Known, Sure, Kept
  <2>3. QED
    BY <2>1, <2>2
<1>4. Kept'
  BY <1>2, <1>3 DEF Kept, Collects
<1>5. Checked' /\ Collected' /\ Composed' /\ FailsForReason'
  BY <1>2 DEF Checked, Collected, Composed, FailsForReason, At, Scrutiny, Collects
<1>6. QED
  BY <1>4, <1>5 DEF Sure

LEMMA DeleteSure == ASSUME Known, Delete PROVE Sure'
<1>1. /\ cmd.pc \in {"clear", "drop"} /\ cmd.id \in Id /\ cmd.id \notin good
      /\ UNCHANGED <<stored, spoilt, tmp, good, swept>> /\ swept = FALSE
  BY DEF Delete, world, Known, Whole, Shape, HasId, Typed, TypeOK, Sure, Kept, Collected
<1>2. /\ \A id \in Id : id # cmd.id => runtimes'[id] = runtimes[id]
      /\ \/ cmd' = cmd
         \/ Goto(IF At("clear") THEN "make" ELSE "next") /\ runtimes'[cmd.id] = None
  <2>1. runtimes \in [Id -> {None} \union Dir]
    BY DEF Known, Typed, TypeOK
  <2>2. PICK d : runtimes' = [runtimes EXCEPT ![cmd.id] = d]
    BY DEF Delete
  <2>3. \/ cmd' = cmd
        \/ /\ runtimes' = [runtimes EXCEPT ![cmd.id] = None]
           /\ Goto(IF At("clear") THEN "make" ELSE "next")
    BY DEF Delete
  <2>4. QED
    BY <1>1, <2>1, <2>2, <2>3
<1>3. /\ cmd'.pc \in {"clear", "drop", "make", "next"} /\ cmd'.id = cmd.id /\ cmd'.calm = cmd.calm
      /\ cmd'.queue = cmd.queue /\ cmd'.all = cmd.all
      /\ cmd'.pc \in Collects => cmd.pc = "drop"
      /\ cmd'.pc = "next" => runtimes'[cmd.id] = None
  BY <1>1, <1>2 DEF Goto, At, Known, Whole, Shape, Collects
<1>4. \A id \in good : id # cmd.id /\ id \in Id
  BY <1>1 DEF Known, Typed, TypeOK
<1>5. Kept'
  BY <1>1, <1>2, <1>3, <1>4, SoundStays DEF Known, Sure, Kept, Collects
<1>6. Collected'
  BY <1>1, <1>2, <1>3, SoundStays DEF Known, Sure, Collected, Collects
<1>7. Checked' /\ Composed' /\ FailsForReason'
  BY <1>3 DEF Checked, Composed, FailsForReason, At, Scrutiny
<1>8. QED
  BY <1>5, <1>6, <1>7 DEF Sure

LEMMA NextCandidateSure == ASSUME Known, NEW id \in Id, NextCandidate(id) PROVE Sure'
<1>1. /\ cmd.pc = "next" /\ id \in cmd.queue
      /\ UNCHANGED <<stored, spoilt, runtimes, tmp, good, swept>> /\ swept = FALSE
      /\ cmd'.id = id /\ cmd'.left = DOMAIN LockOf(id) /\ cmd'.queue = cmd.queue \ {id}
      /\ cmd'.all = cmd.all /\ cmd'.calm = cmd.calm
      /\ cmd'.pc \in {"drop", "judge"}
      /\ cmd'.pc = "drop" => cmd.all \/ ~runtimes[id].meta
      /\ cmd'.pc = "judge" => runtimes[id].meta
      /\ cmd'.stage = cmd.stage /\ cmd'.expected = cmd.expected
  BY DEF NextCandidate, At, world, history, Known, Whole, Shape, Typed, TypeOK, Sure, Collected
<1>2. cmd'.pc = "drop" => id \notin good
  BY <1>1 DEF Known, Sure, Kept, Collects, Sound, AsLocked
<1>3. Kept'
  BY <1>1, <1>2, SoundStays DEF Known, Sure, Kept, Collects
<1>4. Collected'
  BY <1>1, SoundStays DEF Known, Sure, Collected, Collects
<1>5. Checked'
  <2>1. cmd.stage = "get" /\ cmd.expected = {}
    BY <1>1 DEF Known, Typed, Locals, Scrutiny
  <2>2. Done' = {}
    BY <1>1 DEF Done
  <2>3. Progress'
    BY <1>1, <2>1, <2>2 DEF Progress
  <2>4. QED
    BY <1>1, <2>3 DEF Checked
<1>6. Composed' /\ FailsForReason'
  BY <1>1 DEF Composed, FailsForReason, At
<1>7. QED
  BY <1>3, <1>4, <1>5, <1>6 DEF Sure

LEMMA GcEndSure == ASSUME Known, GcEnd PROVE Sure'
<1>1. /\ cmd.pc = "next" /\ cmd.queue = {} /\ swept' = cmd.calm /\ cmd'.pc = "idle" /\ cmd'.calm
      /\ UNCHANGED <<stored, spoilt, runtimes, tmp, good>>
  BY DEF GcEnd, At, Idle, world
<1>2. Kept'
  BY <1>1, SoundStays DEF Known, Sure, Kept, Collects
<1>3. Collected'
  BY <1>1, SoundStays DEF Known, Sure, Collected, Collects
<1>4. Checked' /\ Composed' /\ FailsForReason'
  BY <1>1 DEF Checked, Composed, FailsForReason, At, Scrutiny
<1>5. QED
  BY <1>2, <1>3, <1>4 DEF Sure

\* What a build has found of its new directory stays when nothing is taken from
\* the store.
LEMMA ProgressStays ==
  ASSUME Known, cmd.pc = "verify", Progress, UNCHANGED <<spoilt, tmp>>,
         \A k \in Package : stored[k] # None => stored'[k] = stored[k],
         cmd'.pc = cmd.pc, cmd'.id = cmd.id, cmd'.left = cmd.left, cmd'.src = cmd.src,
         cmd'.stage = cmd.stage, cmd'.todo = cmd.todo, cmd'.expected = cmd.expected
  PROVE  Progress'
<1>1. /\ Subject = tmp /\ Subject' = tmp /\ LockOf(cmd.id)' = LockOf(cmd.id)
      /\ ModeOf(cmd.id)' = ModeOf(cmd.id) /\ Current' = Current /\ Done' = Done
  BY DEF Subject, At, LockOf, ModeOf, Current, Done
<1>2. ASSUME NEW k \in Package, stored[k] # None
      PROVE  /\ stored'[k] = stored[k]
             /\ \A q : Placed(ModeOf(cmd.id), k, q)' = Placed(ModeOf(cmd.id), k, q)
             /\ Holds(k, cmd.id, tmp) => Holds(k, cmd.id, tmp)'
  <2>1. stored'[k] = stored[k]
    BY <1>2
  <2>2. \A q : Placed(ModeOf(cmd.id), k, q)' = Placed(ModeOf(cmd.id), k, q)
    BY <1>1, <2>1 DEF Placed, Reads
  <2>3. QED
    BY <1>1, <2>1, <2>2 DEF Holds, PathsOf
<1>3. \A k \in Done : Holds(k, cmd.id, tmp)'
  <2>1. ASSUME NEW k \in Done PROVE Holds(k, cmd.id, tmp)'
    <3>1. k \in Package /\ Holds(k, cmd.id, tmp) /\ stored[k] # None
      BY <1>1, LocksAreMeant DEF Done, Progress, Holds, Known, Whole, Shape, HasId
    <3>2. QED
      BY <1>2, <3>1
  <2>2. QED
    BY <2>1
<1>4. ASSUME cmd.left # {}, cmd.stage \in {"intact", "list", "compare"}
      PROVE  /\ cmd.src = stored'[Current] /\ AsHashed'
             /\ Intact => Intact'
             /\ \A q : Matches(q) => Matches(q)'
  <2>1. Current \in Package /\ stored[Current] # None /\ cmd.src = stored[Current] /\ AsHashed
    BY <1>4, FirstOfLeft DEF Known, Progress, AsHashed
  <2>2. /\ stored'[Current] = stored[Current]
        /\ \A q : Placed(ModeOf(cmd.id), Current, q)' = Placed(ModeOf(cmd.id), Current, q)
    BY <1>1, <1>2, <2>1
  <2>3. QED
    BY <1>1, <2>1, <2>2 DEF AsHashed, Intact, Matches, Has, PathsOf
<1>5. QED
  BY <1>1, <1>3, <1>4 DEF Progress, PathsOf

\* What others do ends all that was known of store and runtimes; a build goes on
\* knowing its new directory, if nothing is taken from the store.
LEMMA ChangeSure ==
  ASSUME Known, NEW takes \in BOOLEAN, Change(takes),
         ~takes => /\ UNCHANGED spoilt
                   /\ \A k \in Package : stored[k] # None => stored'[k] = stored[k]
  PROVE  Sure'
<1>1. good' = {} /\ swept' = FALSE /\ tmp' = tmp
  BY DEF Change
<1>2. CASE cmd' = Idle
  <2>1. cmd'.pc = "idle"
    BY <1>2 DEF Idle
  <2>2. QED
    BY <1>1, <2>1 DEF Sure, Kept, Checked, Collected, Composed, FailsForReason, At, Scrutiny, Collects
<1>3. CASE /\ cmd' = [cmd EXCEPT !.calm = FALSE, !.steady = @ /\ ~(takes /\ At("verify"))]
           /\ cmd.pc \in Steps
  <2>1. /\ cmd'.pc = cmd.pc /\ cmd'.calm = FALSE /\ cmd'.id = cmd.id /\ cmd'.left = cmd.left
        /\ cmd'.src = cmd.src /\ cmd'.stage = cmd.stage /\ cmd'.todo = cmd.todo
        /\ cmd'.expected = cmd.expected
        /\ cmd'.steady => cmd.steady /\ ~(takes /\ At("verify"))
    BY <1>3 DEF Known, Whole, Shape
  <2>2. Kept' /\ Collected' /\ Composed' /\ FailsForReason'
    BY <1>1, <1>3, <2>1 DEF Known, Sure, Kept, Collected, Composed, FailsForReason, At,
           Collects, Steps
  <2>3. Scrutiny' /\ Undisturbed' => Progress'
    <3> SUFFICES ASSUME Scrutiny', Undisturbed' PROVE Progress'
      OBVIOUS
    <3>1. cmd.pc = "verify" /\ cmd.steady /\ ~takes
      BY <2>1 DEF Undisturbed, At
    <3>2. Progress
      BY <3>1 DEF Known, Sure, Checked, Scrutiny, Undisturbed, At
    <3>3. QED
      BY <1>1, <2>1, <3>1, <3>2, ProgressStays
  <2>4. cmd'.pc = "rename" /\ cmd'.steady => AsLocked(cmd.id, tmp)'
    BY <1>1, <2>1 DEF Known, Sure, Checked, AsLocked, LockOf, ModeOf, PathsOf
  <2>5. Checked'
    BY <2>1, <2>3, <2>4 DEF Checked
  <2>6. QED
    BY <2>2, <2>5 DEF Sure
<1>4. QED
  BY <1>2, <1>3 DEF Change

LEMMA StutterSure == ASSUME Known, UNCHANGED vars PROVE Sure'
<1>1. UNCHANGED <<stored, spoilt, runtimes, tmp, cmd, good, swept>>
  BY DEF vars, world, history
<1>2. Kept' /\ Collected'
  BY <1>1, SoundStays DEF Known, Sure, Kept, Collected, Collects
<1>3. Buildable(LockOf(cmd.id))' <=> Buildable(LockOf(cmd.id))
  BY <1>1, BuildableStays
<1>4. FailsForReason'
  BY <1>1, <1>3 DEF Known, Sure, FailsForReason, At
<1>5. Checked'
  <2>1. \A k : Holds(k, cmd.id, tmp)' <=> Holds(k, cmd.id, tmp)
    BY <1>1, PlacedStays DEF Holds, LockOf, PathsOf
  <2>2. Progress => Progress'
    <3>1. /\ Subject' = Subject /\ LockOf(cmd.id)' = LockOf(cmd.id)
          /\ \A k, q : Placed(ModeOf(cmd.id), k, q)' = Placed(ModeOf(cmd.id), k, q)
          /\ \A k : Holds(k, cmd.id, Subject)' <=> Holds(k, cmd.id, Subject)
      BY <1>1, SubjectStays DEF At
    <3>2. Current' = Current /\ Done' = Done
      BY <1>1, <3>1 DEF Current, Done
    <3>3. /\ AsHashed' <=> AsHashed
          /\ Intact' <=> Intact
          /\ \A q : Matches(q)' <=> Matches(q)
      BY <1>1, <3>1, <3>2 DEF AsHashed, Intact, Matches, Has, PathsOf
    <3>4. QED
      BY <1>1, <3>1, <3>2, <3>3 DEF Progress, PathsOf
  <2>3. AsLocked(cmd.id, tmp) => AsLocked(cmd.id, tmp)'
    BY <1>1 DEF AsLocked, LockOf, ModeOf, PathsOf
  <2>4. QED
    BY <1>1, <2>1, <2>2, <2>3 DEF Known, Sure, Checked, Scrutiny, Undisturbed, At, LockOf
<1>6. Composed'
  <2>1. /\ \A k : PlacedAll(k)' <=> PlacedAll(k)
        /\ \A k, q : Placed(ModeOf(cmd.id), k, q)' = Placed(ModeOf(cmd.id), k, q)
    BY <1>1, PlacedStays DEF PlacedAll, LockOf, ModeOf, PathsOf
  <2>2. Done' = Done /\ Current' = Current /\ OnlyLocked(tmp)' = OnlyLocked(tmp)
    BY <1>1 DEF Done, Current, OnlyLocked, LockOf, PathsOf
  <2>3. QED
    BY <1>1, <1>3, <2>1, <2>2 DEF Known, Sure, Composed, LockOf, PathsOf
<1>7. QED
  BY <1>2, <1>4, <1>5, <1>6 DEF Sure

LEMMA NextSure == Known /\ [Next]_vars => Sure'
<1> SUFFICES ASSUME Known, [Next]_vars PROVE Sure'
  OBVIOUS
<1>1. ASSUME NEW k \in Package, NEW e \in Edition, StoreAdd(k, e) PROVE Sure'
  <2>1. Change(FALSE) /\ UNCHANGED spoilt /\ stored[k] = None
          /\ stored' = [stored EXCEPT ![k] = [ed |-> e, add |-> changes]]
    BY <1>1 DEF StoreAdd
  <2>2. \A j \in Package : stored[j] # None => stored'[j] = stored[j]
    BY <2>1 DEF Known, Typed, TypeOK
  <2>3. QED
    BY <2>1, <2>2, ChangeSure
<1>3. ASSUME NEW k \in Package, StoreRemove(k) PROVE Sure'
  <2>1. Change(TRUE)
    BY <1>3 DEF StoreRemove
  <2>2. QED
    BY <2>1, ChangeSure
<1>4. ASSUME NEW id \in Id, NEW q \in Path, Lose(id) \/ Write(id, q) \/ SaveFile(id, q)
      PROVE  Sure'
  <2>1. Change(TRUE) \/ (Change(FALSE) /\ UNCHANGED <<stored, spoilt>>)
    BY <1>4 DEF Lose, Write, SaveFile
  <2>2. QED
    BY <2>1, ChangeSure
<1>5. ASSUME NEW id \in Id, Lose(id) PROVE Sure'
  <2>1. Change(FALSE) /\ UNCHANGED <<stored, spoilt>>
    BY <1>5 DEF Lose
  <2>2. QED
    BY <2>1, ChangeSure
<1>2. QED
  BY <1>1, <1>3, <1>4, <1>5, StutterSure, BuildSure, GcSure, EndingSure, MakeTmpSure,
     OpenPackageSure, PlaceSure, ClosePackageSure, WriteMetaSure, LookingSure, VerifiedSure,
     RefutedSure, RenameSure, DeleteSure, NextCandidateSure, GcEndSure DEF Next, Looking

LEMMA NextKnown == Known /\ [Next]_vars => Known'
<1> SUFFICES ASSUME Known, [Next]_vars PROVE Known'
  OBVIOUS
<1>1. Rename /\ cmd.steady => AsLocked(cmd.id, tmp)
  BY DEF Rename, At, Known, Sure, Checked
<1>2. QED
  BY <1>1, NextWhole, NextTyped, NextSure DEF Known

LEMMA SpecKnown == Spec => []Known
<1>1. Init => Known
  BY InitWhole, InitTyped, InitSure DEF Known
<1>2. QED
  BY <1>1, NextKnown, PTL DEF Spec

\* What is on disk is well typed, and there is room for the directory that a
\* build is about to rename: no rename fails (build, gc).
THEOREM TypeCorrect == Spec => []TypeOK
<1>1. Known => TypeOK
  BY DEF Known, Typed
<1>2. QED
  BY <1>1, SpecKnown, PTL

\* What a build has renamed into place is what its lockfile says, file by file,
\* until somebody writes to it: whatever the store has gone through while the
\* build composed, if nothing was removed from it or written to in it while the
\* build verified (build, verify_runtime_dir).
THEOREM LeavesAsLocked == Spec => []WholeAsLocked
<1>1. Known => WholeAsLocked
  BY DEF Known, Whole
<1>2. QED
  BY <1>1, SpecKnown, PTL

\* A sound runtime starts: what is read at each of its paths is the locked text.
LEMMA SoundRuns == ASSUME NEW id \in Id, Sound(id) PROVE Runs(id)
<1> SUFFICES ASSUME NEW k \in DOMAIN LockOf(id), NEW q \in PathsOf(k, LockOf(id)[k])
             PROVE  Seen(id, q) = Files[k][LockOf(id)[k]][q]
  BY DEF Sound, Runs
<1>1. /\ stored[k] # None /\ stored[k].ed = LockOf(id)[k]
      /\ <<k, stored[k].add, q>> \notin spoilt
      /\ runtimes[id].files[q] = Placed(ModeOf(id), k, q)
  BY LocksAreMeant DEF Sound, Holds
<1>2. Reads(k, q) = Files[k][LockOf(id)[k]][q]
  BY <1>1 DEF Reads
<1>3. ModeOf(id) \in {"symlink", "hardlink", "copy"}
  BY IdParts, ComposingAssumption
<1>4. QED
  BY <1>1, <1>2, <1>3 DEF Seen, Placed, Has

\* What a build has delivered, new or reused, starts and goes on starting until
\* somebody changes store or files (build, verify_runtime_dir, gc).
THEOREM DeliveredRuns == Spec => []Delivered
<1>1. Known => Delivered
  BY SoundRuns DEF Known, Sure, Kept, Delivered, Typed, TypeOK
<1>2. QED
  BY <1>1, SpecKnown, PTL

\* A build fails only for a reason that lies in the lockfile and the store: what
\* is left of earlier runtimes and commands is never one (build).
THEOREM FailuresHaveReasons == Spec => []FailsForReason
<1>1. Known => FailsForReason
  BY DEF Known, Sure
<1>2. QED
  BY <1>1, SpecKnown, PTL

\* After a collection that nothing disturbed, whatever is left starts (gc,
\* runtime_is_broken).
THEOREM CollectionsSweep == Spec => []SweptRuns
<1>1. Known => SweptRuns
  BY SoundRuns DEF Known, Sure, Collected, SweptRuns
<1>2. QED
  BY <1>1, SpecKnown, PTL

=============================================================================
