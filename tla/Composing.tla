------------------------------ MODULE Composing ------------------------------
(***************************************************************************)
(* lar-runtime: composing, verifying, reusing and collecting runtimes,     *)
(* file by file.  Installs sees a runtime as whole or torn; this module    *)
(* says what whole means and how build.rs, verify.rs and catalog.rs bring  *)
(* it about, one runtime command at a time, while other commands change    *)
(* the store, applications write to their files, and kills stop a command  *)
(* anywhere.                                                               *)
(*                                                                         *)
(* A file in the store is known by its package, by the addition that       *)
(* brought it there (its inode is a new one each time) and by its path.    *)
(***************************************************************************)
EXTENDS Integers, FiniteSetsExt, Functions

CONSTANTS
  Package,     \* package ids, numbers: they are composed in this order
  Path,        \* paths under files/
  Inside,      \* pairs of paths, the first in a directory named as the second
  Edition,     \* contents of a package; its content hash
  Files,       \* per package and edition: the text of each of its paths
  Foreign,     \* a text that is in no package
  Locks,       \* lockfiles: an edition for each package they name
  Mode,        \* compose modes in use
  Id,          \* runtimes there may be, by lockfile and mode (runtime_id)
  Stocks,      \* what the store may hold at first
  MaxChanges,  \* how often something is removed, written or lost
  None

ASSUME ComposingAssumption ==
  /\ Package \subseteq Nat /\ MaxChanges \in Nat
  /\ Mode \subseteq {"symlink", "hardlink", "copy"}
  /\ \A lock \in Locks :
       DOMAIN lock # {} /\ \A k \in DOMAIN lock : k \in Package /\ lock[k] \in Edition
  /\ Id \subseteq Locks \X Mode
  /\ \A k \in Package, e \in Edition :
       /\ DOMAIN Files[k][e] \subseteq Path
       /\ \A p, q \in DOMAIN Files[k][e] : <<p, q>> \notin Inside

VARIABLES
  stored,    \* per package: the edition in the store and its addition
  spoilt,    \* store files whose text was written over
  runtimes,  \* per id: the directory under runtimes/
  tmp,       \* the .tmp-runtime directory
  cmd,       \* the command at work
  changes,   \* how often something has been removed, written or lost
  untouched, \* history: runtimes nobody has meddled with or begun to delete
  good,      \* history: runtimes builds have delivered since the last change
  swept      \* history: a gc has ended and nothing has happened since

world == <<stored, spoilt, changes>>
history == <<untouched, good, swept>>
vars == <<world, runtimes, tmp, cmd, history>>

Texts == {None, Foreign} \union UNION {Range(Files[k][e]) : k \in Package, e \in Edition}

Stored == {None} \union [ed : Edition, add : 0..MaxChanges]

\* A symlink to a package's file, a hard link to it, or a file of its own.
Entry ==
  [how : {"symlink"}, pkg : Package, add : {None}, text : {None}]
    \union [how : {"hardlink"}, pkg : Package, add : 0..MaxChanges, text : Texts]
    \union [how : {"copy"}, pkg : {None}, add : {None}, text : Texts]

\* A directory under runtimes/: whether it has a readable runtime.toml, and its
\* files.
Dir == [meta : BOOLEAN, files : UNION {[paths -> Entry] : paths \in SUBSET Path}]

ASSUME StateAssumption ==
  /\ None \notin Dir
  /\ Stocks \subseteq [Package -> Stored]

Steps == {"check", "clear", "make", "compose", "verify", "rename",
          "next", "judge", "drop"}

\* Where verify_runtime_dir is with a package.
Stages == {"get", "intact", "list", "compare"}

\* Types; and what a build has made room for stays free until it is renamed
\* there, as a rename would fail on any other directory (build).
TypeOK ==
  /\ stored \in [Package -> Stored]
  /\ spoilt \subseteq Package \X (0..MaxChanges) \X Path
  /\ runtimes \in [Id -> {None} \union Dir]
  /\ tmp \in {None} \union Dir
  /\ cmd.pc \in Steps \union {"idle", "failed"}
  /\ cmd.id \in {None} \union Id /\ cmd.queue \subseteq Id
  /\ cmd.left \subseteq Package /\ cmd.placed \subseteq Path
  /\ cmd.src \in Stored
  /\ cmd.stage \in Stages /\ cmd.todo \subseteq Path /\ cmd.expected \subseteq Path
  /\ cmd.all \in BOOLEAN /\ cmd.calm \in BOOLEAN /\ cmd.steady \in BOOLEAN
  /\ cmd.pc \in {"compose", "verify", "rename"} => tmp # None
  /\ cmd.pc \in {"make", "compose", "verify", "rename"} => runtimes[cmd.id] = None
  /\ cmd.src # None => cmd.pc \in {"compose", "check", "verify", "judge"}
  /\ cmd.placed # {} => cmd.pc = "compose" /\ cmd.placed \subseteq DOMAIN tmp.files
  /\ changes \in 0..MaxChanges
  /\ untouched \subseteq Id /\ good \subseteq Id /\ swept \in BOOLEAN

EmptyDir == [meta |-> FALSE, files |-> <<>>]

Idle == [pc |-> "idle", id |-> None, all |-> FALSE, queue |-> {}, left |-> {},
         src |-> None, placed |-> {}, stage |-> "get", todo |-> {}, expected |-> {},
         calm |-> TRUE, steady |-> TRUE]

Init ==
  /\ stored \in Stocks
  /\ spoilt = {}
  /\ runtimes = [id \in Id |-> None]
  /\ tmp = None
  /\ cmd = Idle
  /\ changes = 0
  /\ untouched = {} /\ good = {} /\ swept = FALSE

At(step) == cmd.pc = step

LockOf(id) == id[1]
ModeOf(id) == id[2]

PathsOf(k, e) == DOMAIN Files[k][e]

\* Whether a file in the way of another: its path leads through it.
InTheWay(d, q) == \E other \in DOMAIN d.files : <<q, other>> \in Inside

\* Whether q is a directory of d.
IsDirectory(d, q) == \E other \in DOMAIN d.files : <<other, q>> \in Inside

\* Whether a path leads to a file of a package in the store.
Has(k, q) == stored[k] # None /\ q \in PathsOf(k, stored[k].ed)

\* The files of a directory when there is one more, or another at its path.
With(files, q, f) ==
  [p \in DOMAIN files \union {q} |-> IF p = q THEN f ELSE files[p]]

\* The text a reader finds at a path of a package in the store.
Reads(k, q) ==
  IF <<k, stored[k].add, q>> \in spoilt THEN Foreign ELSE Files[k][stored[k].ed][q]

\* place_file, from what the store has at that path.
Placed(mode, k, q) ==
  CASE mode = "symlink"  -> [how |-> mode, pkg |-> k, add |-> None, text |-> None]
    [] mode = "hardlink" -> [how |-> mode, pkg |-> k, add |-> stored[k].add,
                             text |-> Files[k][stored[k].ed][q]]
    [] mode = "copy"     -> [how |-> mode, pkg |-> None, add |-> None,
                             text |-> Reads(k, q)]

\* verify_lockfile_ready: the store has what is locked, by its content hash.
Ready(lock) == \A k \in DOMAIN lock : stored[k] # None /\ stored[k].ed = lock[k]

-----------------------------------------------------------------------------
(* Commands.                                                               *)

\* Every runtime command first deletes all .tmp-runtime-* directories.
Begin ==
  /\ cmd.pc \in {"idle", "failed"}
  /\ tmp' = None
  /\ swept' = FALSE
  /\ UNCHANGED <<world, runtimes, untouched>>

Run(step, id) == [Idle EXCEPT !.pc = step, !.id = id]

Verifying(step, id) == [Run(step, id) EXCEPT !.left = DOMAIN LockOf(id)]

Goto(step) == cmd' = [cmd EXCEPT !.pc = step]

\* On to another step, with nothing of a verification in hand.
Turn(step) == cmd' = [cmd EXCEPT !.pc = step, !.left = {}, !.src = None,
                                 !.stage = "get", !.todo = {}, !.expected = {}]

\* Mutant of Build: a runtime with the right runtime.toml is reused as it is.
BuildTrusting(id) ==
  /\ Begin
  /\ \/ /\ runtimes[id] # None /\ runtimes[id].meta
        /\ good' = good \union {id}
        /\ cmd' = Idle
     \/ /\ runtimes[id] = None
        /\ cmd' = Run(IF Ready(LockOf(id)) THEN "make" ELSE "failed", id)
        /\ UNCHANGED good

\* Mutant of Build: what is left of a directory is composed over.
BuildOver(id) ==
  /\ Begin
  /\ UNCHANGED good
  /\ \/ /\ ~Ready(LockOf(id))
        /\ cmd' = Run("failed", id)
     \/ /\ Ready(LockOf(id))
        /\ cmd' = IF runtimes[id] # None /\ runtimes[id].meta
                  THEN Verifying("check", id) ELSE Run("make", id)

\* `lar runtime build`, `lar run`, install and update: a directory with the
\* right runtime.toml is looked into, any other directory is deleted.
Build(id) ==
  /\ Begin
  /\ UNCHANGED good
  /\ \/ /\ ~Ready(LockOf(id))
        /\ cmd' = Run("failed", id)
     \/ /\ Ready(LockOf(id))
        /\ \/ runtimes[id] = None /\ cmd' = Run("make", id)
           \/ runtimes[id] # None /\ runtimes[id].meta /\ cmd' = Verifying("check", id)
           \/ runtimes[id] # None /\ ~runtimes[id].meta /\ cmd' = Run("clear", id)

\* `lar runtime gc [--all]`
Gc(all) ==
  /\ Begin
  /\ good' = IF all THEN {} ELSE good
  /\ cmd' = [Idle EXCEPT !.pc = "next", !.all = all,
                         !.queue = {id \in Id : runtimes[id] # None}]

\* `lar runtime list`, `inspect` and `verify` change nothing else.
Look ==
  /\ Begin
  /\ tmp # None
  /\ cmd' = Idle
  /\ UNCHANGED good

\* A build reports an error, having deleted its own temporary directory.  It
\* is remembered as long as nothing has changed since the build began.
Fail ==
  /\ cmd' = IF cmd.calm THEN Run("failed", cmd.id) ELSE Idle
  /\ tmp' = None
  /\ UNCHANGED <<world, runtimes, history>>

\* A kill, or an error of a call.
Interrupt ==
  /\ cmd.pc \in Steps
  /\ cmd' = Idle
  /\ UNCHANGED <<world, runtimes, tmp, history>>

-----------------------------------------------------------------------------
(* Composing: build, compose_files, link_tree.                             *)

MakeTmp ==
  /\ At("make")
  /\ tmp' = EmptyDir
  /\ cmd' = [cmd EXCEPT !.pc = "compose", !.left = DOMAIN LockOf(cmd.id)]
  /\ UNCHANGED <<world, runtimes, history>>

\* The package whose turn it is, in the order of ids.
Current == Min(cmd.left)

OpenPackage ==
  /\ At("compose")
  /\ cmd.left # {} /\ cmd.src = None
  /\ \/ /\ stored[Current] = None
        /\ Fail
     \/ /\ stored[Current] # None
        /\ cmd' = [cmd EXCEPT !.src = stored[Current], !.placed = {}]
        /\ UNCHANGED <<world, runtimes, tmp, history>>

\* The files that a listing may come upon: a directory is read when its turn
\* comes, and the package may be another one by then.
Listed ==
  PathsOf(Current, cmd.src.ed)
    \union IF stored[Current] = None THEN {} ELSE PathsOf(Current, stored[Current].ed)

\* link_tree: no two packages have a file at the same path.
Claimed(q) == q \in DOMAIN tmp.files

\* One file of the package, in the order of the directory, any order.
Place(q) ==
  /\ At("compose")
  /\ cmd.src # None
  /\ q \in Listed \ cmd.placed
  /\ LET mode == ModeOf(cmd.id)
         fits == /\ ~Claimed(q) /\ ~InTheWay(tmp, q) /\ ~IsDirectory(tmp, q)
                 /\ mode = "symlink" \/ Has(Current, q)
     IN  \/ /\ ~fits
            /\ Fail
         \/ /\ fits
            /\ tmp' = [tmp EXCEPT !.files = With(@, q, Placed(mode, Current, q))]
            /\ cmd' = [cmd EXCEPT !.placed = @ \union {q}]
            /\ UNCHANGED <<world, runtimes, history>>

\* All files are placed; or the package has gone, and the listing ends there
\* or with an error.
ClosePackage ==
  /\ At("compose")
  /\ cmd.src # None
  /\ \/ /\ PathsOf(Current, cmd.src.ed) = cmd.placed \/ stored[Current] # cmd.src
        /\ cmd' = [cmd EXCEPT !.left = @ \ {Current}, !.src = None, !.placed = {}]
        /\ UNCHANGED <<world, runtimes, tmp, history>>
     \/ stored[Current] # cmd.src /\ Fail

WriteMeta ==
  /\ At("compose")
  /\ cmd.left = {}
  /\ tmp' = [tmp EXCEPT !.meta = TRUE]
  /\ cmd' = [cmd EXCEPT !.pc = "verify", !.left = DOMAIN LockOf(cmd.id)]
  /\ UNCHANGED <<world, runtimes, history>>

-----------------------------------------------------------------------------
(* Verifying: verify_runtime_dir, one package after another, a look at the *)
(* store at a time.                                                        *)

\* The directory under scrutiny: the new one, a runtime to reuse or to collect.
Subject == IF At("verify") THEN tmp ELSE runtimes[cmd.id]

Scrutiny == cmd.pc \in {"check", "verify", "judge"}

Stage(stage) == Scrutiny /\ cmd.left # {} /\ cmd.stage = stage

\* store.get finds the package, with the content hash that is locked.
AsHashed == stored[Current] # None /\ stored[Current].ed = LockOf(cmd.id)[Current]

GetStored ==
  /\ Stage("get")
  /\ AsHashed
  /\ cmd' = [cmd EXCEPT !.stage = "intact", !.src = stored[Current]]
  /\ UNCHANGED <<world, runtimes, tmp, history>>

\* verify_package_dir: what is there by now is whole.
Intact ==
  /\ stored[Current] # None
  /\ \A q \in Path : <<Current, stored[Current].add, q>> \notin spoilt

CheckStored ==
  /\ Stage("intact")
  /\ Intact
  /\ cmd' = [cmd EXCEPT !.stage = "list"]
  /\ UNCHANGED <<world, runtimes, tmp, history>>

\* collect_file_rels: the files of the package; or, if it has gone meanwhile,
\* some of those it had or has, and none where there is no files/ any more.
ListFiles ==
  /\ Stage("list")
  /\ \E rels \in SUBSET Listed :
       /\ stored[Current] = cmd.src => rels = Listed
       /\ cmd' = [cmd EXCEPT !.stage = "compare", !.todo = rels]
  /\ UNCHANGED <<world, runtimes, tmp, history>>

\* Mutant of Matches: files are looked for by their names.
MatchesByName(q) == Has(Current, q) /\ q \in DOMAIN Subject.files

\* check_placed_file: the runtime's file is what would be placed there now.
Matches(q) ==
  /\ Has(Current, q)
  /\ q \in DOMAIN Subject.files
  /\ Subject.files[q] = Placed(ModeOf(cmd.id), Current, q)

Compare(q) ==
  /\ Stage("compare")
  /\ q \in cmd.todo
  /\ Matches(q)
  /\ cmd' = [cmd EXCEPT !.todo = @ \ {q}, !.expected = @ \union {q}]
  /\ UNCHANGED <<world, runtimes, tmp, history>>

PackageDone ==
  /\ Stage("compare")
  /\ cmd.todo = {}
  /\ cmd' = [cmd EXCEPT !.left = @ \ {Current}, !.src = None, !.stage = "get"]
  /\ UNCHANGED <<world, runtimes, tmp, history>>

\* Mutant of NothingElse: only the files of the last package are expected.
NothingElseOfLast ==
  DOMAIN Subject.files \subseteq
    LET k == Max(DOMAIN LockOf(cmd.id)) IN PathsOf(k, LockOf(cmd.id)[k])

\* No file in the runtime but those that were compared.
NothingElse == DOMAIN Subject.files \subseteq cmd.expected

\* A check fails.  What has been replaced while it was read need not be whole.
VerifyFailed ==
  \/ cmd.left = {} /\ ~NothingElse
  \/ Stage("get") /\ ~AsHashed
  \/ Stage("intact") /\ (~Intact \/ stored[Current] # cmd.src)
  \/ Stage("compare") /\ \E q \in cmd.todo : ~InTheWay(Subject, q) /\ ~Matches(q)

\* An error of another kind: a package that goes away while it is listed or
\* compared, or a path of the runtime that leads through a file.
Unreadable ==
  \/ Stage("list") /\ stored[Current] # cmd.src
  \/ Stage("compare") /\ \E q \in cmd.todo :
       /\ ~Matches(q)
       /\ InTheWay(Subject, q) \/ (q \in DOMAIN Subject.files /\ ~Has(Current, q))

\* The runtime is reused, renamed into place, or kept.
Verified ==
  /\ Scrutiny
  /\ cmd.left = {}
  /\ NothingElse
  /\ \/ /\ At("check")
        /\ cmd' = Idle
        /\ good' = IF cmd.calm THEN good \union {cmd.id} ELSE good
        /\ UNCHANGED <<world, runtimes, tmp, untouched, swept>>
     \/ /\ At("verify") /\ Turn("rename")
        /\ UNCHANGED <<world, runtimes, tmp, history>>
     \/ /\ At("judge") /\ Turn("next")
        /\ UNCHANGED <<world, runtimes, tmp, history>>

\* It is deleted, or the new one given up; gc ends with an error of another
\* kind.
Refuted ==
  /\ Scrutiny
  /\ VerifyFailed \/ Unreadable
  /\ \/ /\ At("check") /\ Turn("clear")
        /\ UNCHANGED <<world, runtimes, tmp, history>>
     \/ At("verify") /\ Fail
     \/ /\ At("judge") /\ VerifyFailed /\ Turn("drop")
        /\ UNCHANGED <<world, runtimes, tmp, history>>
     \/ /\ At("judge") /\ Unreadable /\ cmd' = Idle
        /\ UNCHANGED <<world, runtimes, tmp, history>>

Rename ==
  /\ At("rename")
  /\ runtimes' = [runtimes EXCEPT ![cmd.id] = tmp]
  /\ tmp' = None
  /\ untouched' = IF cmd.steady THEN untouched \union {cmd.id}
                ELSE untouched \ {cmd.id}
  /\ good' = IF cmd.calm THEN good \union {cmd.id} ELSE good
  /\ cmd' = Idle
  /\ UNCHANGED <<world, swept>>

-----------------------------------------------------------------------------
(* Deleting: remove_dir_all in build and in gc.                            *)

\* The directory without one of its files.
Less(d) ==
  {[d EXCEPT !.files = Restrict(@, DOMAIN @ \ {q})] : q \in DOMAIN d.files}
    \union (IF d.meta THEN {[d EXCEPT !.meta = FALSE]} ELSE {})

Delete ==
  /\ cmd.pc \in {"clear", "drop"}
  /\ \/ /\ runtimes[cmd.id] # EmptyDir
        /\ \E d \in Less(runtimes[cmd.id]) : runtimes' = [runtimes EXCEPT ![cmd.id] = d]
        /\ UNCHANGED cmd
     \/ /\ runtimes[cmd.id] = EmptyDir
        /\ runtimes' = [runtimes EXCEPT ![cmd.id] = None]
        /\ Goto(IF At("clear") THEN "make" ELSE "next")
  /\ untouched' = untouched \ {cmd.id}
  /\ UNCHANGED <<world, tmp, good, swept>>

\* Mutant of NextCandidate: a directory without runtime.toml is passed over.
NextCandidateListed(id) ==
  /\ At("next")
  /\ id \in cmd.queue
  /\ cmd' = [cmd EXCEPT !.queue = @ \ {id}, !.id = id, !.left = DOMAIN LockOf(id),
               !.pc = IF ~runtimes[id].meta THEN "next"
                      ELSE IF cmd.all THEN "drop" ELSE "judge"]
  /\ UNCHANGED <<world, runtimes, tmp, history>>

\* gc: what has no readable runtime.toml is an orphan.
NextCandidate(id) ==
  /\ At("next")
  /\ id \in cmd.queue
  /\ cmd' = [cmd EXCEPT !.queue = @ \ {id}, !.id = id, !.left = DOMAIN LockOf(id),
               !.pc = IF cmd.all \/ ~runtimes[id].meta THEN "drop" ELSE "judge"]
  /\ UNCHANGED <<world, runtimes, tmp, history>>

GcEnd ==
  /\ At("next")
  /\ cmd.queue = {}
  /\ cmd' = Idle
  /\ swept' = cmd.calm
  /\ UNCHANGED <<world, runtimes, tmp, untouched, good>>

-----------------------------------------------------------------------------
(* Other commands, applications and users.                                 *)

\* takes: something is removed from the store or written to there.
Change(takes) ==
  /\ good' = {} /\ swept' = FALSE
  /\ cmd' = IF cmd.pc \in Steps
            THEN [cmd EXCEPT !.calm = FALSE, !.steady = @ /\ ~(takes /\ At("verify"))]
            ELSE Idle
  /\ UNCHANGED tmp

Count == changes < MaxChanges /\ changes' = changes + 1

\* An addition comes after a removal, so the removals number the additions.
StoreAdd(k, e) ==
  /\ Change(FALSE)
  /\ stored[k] = None
  /\ stored' = [stored EXCEPT ![k] = [ed |-> e, add |-> changes]]
  /\ UNCHANGED <<changes, spoilt, runtimes, untouched>>

StoreRemove(k) ==
  /\ Count /\ Change(TRUE)
  /\ stored[k] # None
  /\ stored' = [stored EXCEPT ![k] = None]
  /\ UNCHANGED <<spoilt, runtimes, untouched>>

\* An application writes to a file of its runtime: through a link into the store.
Write(id, q) ==
  /\ Count
  /\ runtimes[id] # None /\ q \in DOMAIN runtimes[id].files
  /\ LET f == runtimes[id].files[q]
     IN  \/ /\ f.how = "symlink" /\ Has(f.pkg, q) /\ Change(TRUE)
            /\ spoilt' = spoilt \union {<<f.pkg, stored[f.pkg].add, q>>}
            /\ UNCHANGED <<runtimes, untouched>>
         \/ /\ f.how = "hardlink" /\ Change(TRUE)
            /\ spoilt' = spoilt \union {<<f.pkg, f.add, q>>}
            /\ UNCHANGED <<runtimes, untouched>>
         \/ /\ f.how = "copy" /\ Change(FALSE)
            /\ runtimes' = [runtimes EXCEPT ![id].files[q].text = Foreign]
            /\ untouched' = untouched \ {id}
            /\ UNCHANGED spoilt
  /\ UNCHANGED stored

\* A file of a runtime, or its runtime.toml, is deleted.
Lose(id) ==
  /\ Count /\ Change(FALSE)
  /\ runtimes[id] # None
  /\ \E d \in Less(runtimes[id]) : runtimes' = [runtimes EXCEPT ![id] = d]
  /\ untouched' = untouched \ {id}
  /\ UNCHANGED <<stored, spoilt>>

\* A file is saved in a runtime, in place of what was there.
Own == [how |-> "copy", pkg |-> None, add |-> None, text |-> Foreign]

SaveFile(id, q) ==
  /\ Count /\ Change(FALSE)
  /\ runtimes[id] # None
  /\ ~InTheWay(runtimes[id], q) /\ ~IsDirectory(runtimes[id], q)
  /\ runtimes' = [runtimes EXCEPT ![id].files = With(@, q, Own)]
  /\ untouched' = untouched \ {id}
  /\ UNCHANGED <<stored, spoilt>>

Next ==
  \/ \E id \in Id : Build(id)
  \/ \E all \in BOOLEAN : Gc(all)
  \/ Look
  \/ MakeTmp \/ OpenPackage \/ ClosePackage \/ WriteMeta
  \/ \E q \in Path : Place(q)
  \/ GetStored \/ CheckStored \/ ListFiles \/ PackageDone
  \/ \E q \in Path : Compare(q)
  \/ Verified \/ Refuted \/ Rename \/ Delete
  \/ \E id \in Id : NextCandidate(id)
  \/ GcEnd
  \/ Interrupt
  \/ \E k \in Package : StoreRemove(k) \/ \E e \in Edition : StoreAdd(k, e)
  \/ \E id \in Id : Lose(id) \/ \E q \in Path : Write(id, q) \/ SaveFile(id, q)

Spec == Init /\ [][Next]_vars

-----------------------------------------------------------------------------
(* Properties.                                                             *)

\* Reference: a directory with exactly the files of the locked packages, each
\* with the package's text where the runtime has a text, or linked to it.
AsLocked(id, d) ==
  LET lock == LockOf(id)
  IN  /\ d.meta
      /\ DOMAIN d.files = UNION {PathsOf(k, lock[k]) : k \in DOMAIN lock}
      /\ \A k \in DOMAIN lock : \A q \in PathsOf(k, lock[k]) :
           /\ d.files[q].how = ModeOf(id)
           /\ ModeOf(id) = "symlink" \/ d.files[q].text = Files[k][lock[k]][q]
           /\ ModeOf(id) = "copy" \/ d.files[q].pkg = k

\* A runtime that a build renamed into place, and that nobody has written to
\* since, is what its lockfile says, file by file: whatever happened to the
\* store while it was composed, and after, and unless something was removed
\* from the store or written to there while it was verified (build,
\* verify_runtime_dir).  The exception is real: a package that is removed when
\* files/ is looked for, after its hash and its files have been found good,
\* passes with no file compared.
WholeAsLocked == \A id \in untouched : AsLocked(id, runtimes[id])

\* The text an application reads at a path of its runtime.
Seen(id, q) ==
  LET f == runtimes[id].files[q]
  IN  CASE f.how = "symlink"  -> IF Has(f.pkg, q) THEN Reads(f.pkg, q) ELSE None
        [] f.how = "hardlink" -> IF <<f.pkg, f.add, q>> \in spoilt THEN Foreign ELSE f.text
        [] f.how = "copy"     -> f.text

\* Runs(id): an application started from the runtime finds the locked files.
Runs(id) ==
  /\ runtimes[id] # None
  /\ AsLocked(id, runtimes[id])
  /\ \A k \in DOMAIN LockOf(id) : \A q \in PathsOf(k, LockOf(id)[k]) :
       Seen(id, q) = Files[k][LockOf(id)[k]][q]

\* What a build delivered, new or reused, after whatever had been done to the
\* directory before, runs; and it stays so through kills, builds, looks and
\* collections until somebody changes store or files (build, gc).
Delivered == \A id \in good : Runs(id)

\* Reference: nothing is in the way of a build.
Buildable(lock) ==
  /\ Ready(lock)
  /\ \A k \in DOMAIN lock, q \in Path : <<k, stored[k].add, q>> \notin spoilt
  /\ \A j, k \in DOMAIN lock : j # k =>
       \A p \in PathsOf(j, lock[j]), q \in PathsOf(k, lock[k]) :
         p # q /\ <<p, q>> \notin Inside

\* A build fails only for a reason that lies in the lockfile and the store,
\* never because of what is left of an earlier runtime or command (build).
FailsForReason ==
  At("failed") => ~Buildable(LockOf(cmd.id))

\* After a collection that was not disturbed, whatever is left runs (gc).
SweptRuns == swept => tmp = None /\ \A id \in Id : runtimes[id] = None \/ Runs(id)
=============================================================================
