------------------------------ MODULE Installs ------------------------------
(***************************************************************************)
(* The install lifecycle of lar-manager: `lar install`, `lar update`,      *)
(* `lar rollback` and `lar uninstall` over one prefix, next to the two     *)
(* commands that take away what they build on, `lar store remove` and      *)
(* `lar runtime gc`.                                                       *)
(*                                                                         *)
(* Nothing in the prefix is locked.  A command is a sequence of file       *)
(* system steps, modelled here one action per step that another command,   *)
(* or the next command after a kill, can tell apart.  Several commands may *)
(* run at once (Proc), and a command may stop after any step (Interrupt):  *)
(* killed, or left by `?` on an I/O error.                                 *)
(*                                                                         *)
(* A generation is what an install record names: the root package and the  *)
(* packages its lockfile resolved to.  runtime_id hashes exactly these, so *)
(* a generation is also the name of its runtime directory, and two apps    *)
(* never share one.                                                        *)
(***************************************************************************)
EXTENDS Naturals, FiniteSets

CONSTANTS
  App,          \* application ids
  Version,      \* semver versions of the root packages, ordered as naturals
  Lib,          \* versioned packages other than the roots
  Resolutions,  \* the sets of Lib a lockfile may resolve to
  Headless,     \* the roots <<app, version>> whose package.toml has no [entry]
  Proc,         \* concurrently running `lar` processes
  PerApp,       \* TRUE: users never run two commands on one app at a time
  OneBuilder,   \* TRUE: users never run two commands that build at a time
  Collecting,   \* TRUE: users run `lar runtime gc`
  InterruptAt,  \* the program points at which a command may stop half-way or
                \* the system may refuse what it asks for
  None          \* no generation

(***************************************************************************)
(* The program points of a command, named for the step it does next.       *)
(***************************************************************************)
Points == {"compose", "build", "rename_runtime", "stage", "unlink", "rename",
           "publish", "link", "desktop", "drop",
           "undesktop", "unexport", "reap", "reap_previous", "forget",
           "unstore", "collect"}

Generation == [app: App, ver: Version, deps: Resolutions]

ASSUME ConstantsAssumption ==
  /\ Version \subseteq Nat
  /\ Resolutions \subseteq SUBSET Lib
  /\ Headless \subseteq App \X Version
  /\ PerApp \in BOOLEAN
  /\ OneBuilder \in BOOLEAN
  /\ Collecting \in BOOLEAN
  /\ InterruptAt \subseteq Points
  /\ Lib \cap (App \X Version) = {}
  /\ None \notin Generation \union App \union (App \X Version) \union Lib

Package == (App \X Version) \union Lib
Root(g) == <<g.app, g.ver>>
Pkgs(g) == {Root(g)} \union g.deps
Maybe(S) == S \union {None}

VARIABLES
  install,   \* installs/{app}: the records in install.toml and previous.toml
  staging,   \* each process's directory under installs/: .tmp-build-* with a
             \* lockfile, .tmp-install-* with the next records, or none
  composed,  \* each process's .tmp-runtime-* directory: none, torn or whole
  runtimes,  \* runtimes/{runtime_id}: absent, torn (partly deleted) or whole
  exports,   \* the generation an app's command metadata and links start
  desktop,   \* whether the app's .desktop files are published
  stored,    \* the packages in the store
  proc,      \* each process's command: program point and local variables
  damaged    \* history: apps that an uninstall left half taken down, until a
             \* fresh install or an uninstall completes

vars == <<install, staging, composed, runtimes, exports, desktop, stored, proc,
          damaged>>

Idle == [pc |-> "idle", app |-> None, rec |-> None, disp |-> None,
         older |-> None, pkg |-> None]

Blank == [active |-> None, previous |-> None]

Init ==
  /\ install = [a \in App |-> Blank]
  /\ staging = [p \in Proc |-> "none"]
  /\ composed = [p \in Proc |-> "none"]
  /\ runtimes = [g \in Generation |-> "absent"]
  /\ exports = [a \in App |-> None]
  /\ desktop = [a \in App |-> FALSE]
  /\ stored = {}
  /\ proc = [p \in Proc |-> Idle]
  /\ damaged = {}

-----------------------------------------------------------------------------
(***************************************************************************)
(* Starting a command.                                                     *)
(***************************************************************************)

At(p, point) == proc[p].pc = point
Goto(p, point) == proc' = [proc EXCEPT ![p].pc = point]
Stop(p) == proc' = [proc EXCEPT ![p] = Idle]
Run(p, pc, a, rec, disp, older) ==
  proc' = [proc EXCEPT ![p] = [pc |-> pc, app |-> a, rec |-> rec,
                               disp |-> disp, older |-> older, pkg |-> None]]

\* What the users' discipline allows: under PerApp no other command is at work
\* on app a, and no package is being removed.
MayWork(p, a) ==
  /\ At(p, "idle")
  /\ PerApp => \A q \in Proc \ {p} :
                  proc[q].app # a /\ proc[q].pkg = None

\* Under PerApp packages are removed and runtimes collected with no other
\* command running.
MaySweep(p) ==
  /\ At(p, "idle")
  /\ PerApp => \A q \in Proc \ {p} : At(q, "idle")

Building == {"compose", "build", "rename_runtime"}

\* Under OneBuilder nothing that builds or lists runtimes overlaps a build.
MayBuild(p) ==
  OneBuilder => \A q \in Proc \ {p} : proc[q].pc \notin Building

\* Every manager command first deletes all staging directories it finds,
\* whoever made them.
CleanupTmpInstalls == staging' = [q \in Proc |-> "none"]

\* Every runtime command first deletes all .tmp-runtime-* directories.  Another
\* process may go on to use its directory before it is quite gone.
CleanupTmpRuntimes(p, own) ==
  \E torn \in SUBSET {q \in Proc \ {p} : composed[q] # "none"} :
     composed' = [q \in Proc |-> IF q = p THEN own
                                 ELSE IF q \in torn THEN "torn" ELSE "none"]

\* Mutant: the store keyed by application, not by version.
KeepByApp(g) == stored' = stored \union {g.app}

Keep(g) == stored' = stored \union {Root(g)}

\* `lar install [--force]`: ensure_root stores the root package even if the
\* app turns out to be installed already.
Install(p, g, force) ==
  LET here == install[g.app] IN
  /\ MayWork(p, g.app) /\ MayBuild(p)
  /\ CleanupTmpInstalls
  /\ Keep(g)
  /\ IF here.active # None /\ ~force
     THEN UNCHANGED proc
     ELSE Run(p, "compose", g.app, g, here.active,
              IF here.active # None THEN here.previous ELSE None)
  /\ UNCHANGED <<install, composed, runtimes, exports, desktop, damaged>>

\* `lar update`: a version strictly newer than the active one was published.
Update(p, g) ==
  LET here == install[g.app] IN
  /\ MayWork(p, g.app) /\ MayBuild(p)
  /\ here.active # None
  /\ g.ver > here.active.ver
  /\ CleanupTmpInstalls
  /\ Keep(g)
  /\ Run(p, "compose", g.app, g, here.active, here.previous)
  /\ UNCHANGED <<install, composed, runtimes, exports, desktop, damaged>>

\* `lar rollback`: the previous record becomes active and keeps the active one
\* as its previous.  It drops no runtime: what was previous is now active.
Rollback(p, a) ==
  /\ MayWork(p, a)
  /\ install[a].active # None
  /\ install[a].previous # None
  /\ CleanupTmpInstalls
  /\ Run(p, "stage", a, install[a].previous, install[a].active,
         install[a].previous)
  /\ UNCHANGED <<install, composed, runtimes, exports, desktop, stored,
                 damaged>>

\* `lar uninstall`: rec and disp are the records whose runtimes go.
Uninstall(p, a) ==
  /\ MayWork(p, a)
  /\ install[a].active # None
  /\ CleanupTmpInstalls
  /\ Run(p, "undesktop", a, install[a].active, install[a].previous, None)
  /\ UNCHANGED <<install, composed, runtimes, exports, desktop, stored,
                 damaged>>

\* `lar list`, `lar launch`, and every command its first checks refuse: not
\* installed, nothing to roll back to, up to date.
Housekeep(p) ==
  /\ At(p, "idle")
  /\ CleanupTmpInstalls
  /\ UNCHANGED <<install, composed, runtimes, exports, desktop, stored, proc,
                 damaged>>

-----------------------------------------------------------------------------
(***************************************************************************)
(* Composing the new generation: compose_install and lar-runtime's build.  *)
(***************************************************************************)

\* Resolving fetches the packages of the lockfile one after another.  It fails
\* if no version fits or no source has it, if the root left the store, or if the
\* host lacks a required capability.
Resolve(p) ==
  /\ At(p, "compose")
  /\ \/ /\ \E k \in proc[p].rec.deps \ stored : stored' = stored \union {k}
        /\ UNCHANGED proc
     \/ Stop(p) /\ UNCHANGED stored
  /\ UNCHANGED <<install, staging, composed, runtimes, exports, desktop, damaged>>

\* verify_lockfile_ready passed: the lockfile goes into a .tmp-build directory.
WriteLock(p) ==
  /\ At(p, "compose")
  /\ Pkgs(proc[p].rec) \subseteq stored
  /\ staging' = [staging EXCEPT ![p] = "lock"]
  /\ Goto(p, "build")
  /\ UNCHANGED <<install, composed, runtimes, exports, desktop, stored,
                 damaged>>

\* A runtime that verifies is reused; what is left of a torn one is deleted and
\* a new one composed in a .tmp-runtime directory.  The lockfile, or a package it
\* names, may be gone: the command fails.
Build(p) ==
  LET g == proc[p].rec
      ready == staging[p] = "lock" /\ Pkgs(g) \subseteq stored
  IN
  /\ At(p, "build")
  /\ \/ /\ ~ready
        /\ Stop(p)
        /\ CleanupTmpRuntimes(p, "none")
        /\ UNCHANGED <<runtimes, staging>>
     \/ /\ ready /\ runtimes[g] = "whole"
        /\ Goto(p, "stage")
        /\ CleanupTmpRuntimes(p, "none")
        /\ staging' = [staging EXCEPT ![p] = "none"]
        /\ UNCHANGED runtimes
     \/ /\ ready /\ runtimes[g] # "whole"
        /\ Goto(p, "rename_runtime")
        /\ CleanupTmpRuntimes(p, "whole")
        /\ runtimes' = [runtimes EXCEPT ![g] = "absent"]
        /\ UNCHANGED staging
  /\ UNCHANGED <<install, exports, desktop, stored, damaged>>

\* The composed tree, verified against the store, is renamed into place, unless
\* another process put a runtime there first or its cleanup was seen to be
\* deleting this one.
RenameRuntime(p) ==
  LET g == proc[p].rec IN
  /\ At(p, "rename_runtime")
  /\ \/ /\ composed[p] # "none"
        /\ runtimes[g] = "absent" /\ Pkgs(g) \subseteq stored
        /\ runtimes' = [runtimes EXCEPT ![g] = composed[p]]
        /\ staging' = [staging EXCEPT ![p] = "none"]
        /\ Goto(p, "stage")
     \/ /\ \/ composed[p] # "whole"
           \/ runtimes[g] # "absent" \/ ~(Pkgs(g) \subseteq stored)
        /\ Stop(p)
        /\ UNCHANGED <<runtimes, staging>>
  /\ composed' = [composed EXCEPT ![p] = "none"]
  /\ UNCHANGED <<install, exports, desktop, stored, damaged>>

-----------------------------------------------------------------------------
(***************************************************************************)
(* Switching the records: activate_install, and the same steps in          *)
(* rollback.                                                               *)
(***************************************************************************)

\* Both records are written to a fresh .tmp-install directory.
Stage(p) ==
  /\ At(p, "stage")
  /\ staging' = [staging EXCEPT ![p] = "records"]
  /\ Goto(p, "unlink")
  /\ UNCHANGED <<install, composed, runtimes, exports, desktop, stored,
                 damaged>>

\* remove_dir_all deletes the files of installs/{app} in directory order, any
\* order, and then the directory.
DeleteRecordFile(a) ==
  \/ /\ install[a].active # None
     /\ install' = [install EXCEPT ![a].active = None]
  \/ /\ install[a].previous # None
     /\ install' = [install EXCEPT ![a].previous = None]

Unlink(p) ==
  /\ At(p, "unlink")
  /\ \/ DeleteRecordFile(proc[p].app) /\ UNCHANGED proc
     \/ install[proc[p].app] = Blank /\ Goto(p, "rename") /\ UNCHANGED install
  /\ UNCHANGED <<staging, composed, runtimes, exports, desktop, stored,
                 damaged>>

\* Mutant: the generation before the displaced one stays the previous one.
RecordedKeepingOlder(p) == [active |-> proc[p].rec, previous |-> proc[p].older]

\* The records a command stages.
Recorded(p) == [active |-> proc[p].rec, previous |-> proc[p].disp]

\* The rename fails if another command's cleanup took the staging directory or
\* another command renamed its own there first.
Rename(p) ==
  LET a == proc[p].app IN
  /\ At(p, "rename")
  /\ IF staging[p] = "records" /\ install[a] = Blank
     THEN /\ install' = [install EXCEPT ![a] = Recorded(p)]
          /\ staging' = [staging EXCEPT ![p] = "none"]
          /\ Goto(p, "publish")
     ELSE Stop(p) /\ UNCHANGED <<install, staging>>
  /\ UNCHANGED <<composed, runtimes, exports, desktop, stored, damaged>>

-----------------------------------------------------------------------------
(***************************************************************************)
(* Publishing the active generation: exports::publish, desktop::publish,   *)
(* then dropping the runtime no record names any more.                     *)
(***************************************************************************)

HasEntry(g) == Root(g) \notin Headless

\* Fails on a root package that left the store and on a missing runtime;
\* otherwise first takes down whatever the app had exported.
Publish(p) ==
  LET g == proc[p].rec IN
  /\ At(p, "publish")
  /\ IF Root(g) \notin stored \/ (HasEntry(g) /\ runtimes[g] = "absent")
     THEN Stop(p) /\ UNCHANGED exports
     ELSE /\ exports' = [exports EXCEPT ![proc[p].app] = None]
          /\ Goto(p, IF HasEntry(g) THEN "link" ELSE "desktop")
  /\ UNCHANGED <<install, staging, composed, runtimes, desktop, stored,
                 damaged>>

\* Metadata and links of the commands; fails if the entry binary is not a file,
\* which a torn runtime may or may not still have.
Link(p) ==
  LET g == proc[p].rec IN
  /\ At(p, "link")
  /\ \/ /\ runtimes[g] # "absent"
        /\ exports' = [exports EXCEPT ![proc[p].app] = g]
        /\ Goto(p, "desktop")
     \/ runtimes[g] # "whole" /\ Stop(p) /\ UNCHANGED exports
  /\ UNCHANGED <<install, staging, composed, runtimes, desktop, stored,
                 damaged>>

\* Mutant: a root without [entry] leaves the menu entry of the last one.
PublishDesktopOnly(p) ==
  /\ At(p, "desktop")
  /\ Root(proc[p].rec) \in stored
  /\ desktop' = [desktop EXCEPT ![proc[p].app] = @ \/ HasEntry(proc[p].rec)]
  /\ Goto(p, "drop")
  /\ UNCHANGED <<install, staging, composed, runtimes, exports, stored,
                 damaged>>

\* Rewrites the menu entry, or removes it under a root without [entry].
PublishDesktop(p) ==
  LET g == proc[p].rec IN
  /\ At(p, "desktop")
  /\ IF Root(g) \notin stored \/ (HasEntry(g) /\ exports[proc[p].app] = None)
     THEN Stop(p) /\ UNCHANGED desktop
     ELSE /\ desktop' = [desktop EXCEPT ![proc[p].app] = HasEntry(g)]
          /\ Goto(p, "drop")
  /\ UNCHANGED <<install, staging, composed, runtimes, exports, stored,
                 damaged>>

\* remove_dir_all on a runtime directory: first part of it, then the rest.
DeleteRuntime(g) ==
  \/ runtimes[g] = "whole" /\ runtimes' = [runtimes EXCEPT ![g] = "torn"]
  \/ runtimes[g] # "absent" /\ runtimes' = [runtimes EXCEPT ![g] = "absent"]

\* Mutant: only the displaced generation is kept.
SupersededByOther(p) == IF proc[p].older = proc[p].disp THEN None ELSE proc[p].older

\* The generation that was previous before this command, unless it is now
\* active or previous again.
Superseded(p) ==
  IF proc[p].older \in {proc[p].rec, proc[p].disp} THEN None ELSE proc[p].older

\* What cannot be deleted is left: the command ends there, as if interrupted.
DropOlder(p) ==
  /\ At(p, "drop")
  /\ IF Superseded(p) # None /\ runtimes[Superseded(p)] # "absent"
     THEN DeleteRuntime(Superseded(p)) /\ UNCHANGED <<proc, damaged>>
     ELSE /\ Stop(p)
          /\ damaged' = IF proc[p].disp = None THEN damaged \ {proc[p].app}
                                               ELSE damaged
          /\ UNCHANGED runtimes
  /\ UNCHANGED <<install, staging, composed, exports, desktop, stored>>

-----------------------------------------------------------------------------
(***************************************************************************)
(* Uninstalling.                                                           *)
(***************************************************************************)

RemoveDesktop(p) ==
  /\ At(p, "undesktop")
  /\ desktop' = [desktop EXCEPT ![proc[p].app] = FALSE]
  /\ Goto(p, "unexport")
  /\ UNCHANGED <<install, staging, composed, runtimes, exports, stored,
                 damaged>>

RemoveExports(p) ==
  /\ At(p, "unexport")
  /\ exports' = [exports EXCEPT ![proc[p].app] = None]
  /\ Goto(p, "reap")
  /\ UNCHANGED <<install, staging, composed, runtimes, desktop, stored,
                 damaged>>

Present(g) == g # None /\ runtimes[g] # "absent"

\* The active runtime goes first, then the previous one.
Doomed(p) ==
  IF At(p, "reap") THEN proc[p].rec
  ELSE IF proc[p].disp = proc[p].rec THEN None ELSE proc[p].disp

\* A runtime that cannot be deleted, or not to the end, is left behind: the
\* command goes on.
ReapRuntimes(p) ==
  /\ proc[p].pc \in {"reap", "reap_previous"}
  /\ \/ Present(Doomed(p)) /\ DeleteRuntime(Doomed(p)) /\ UNCHANGED proc
     \/ /\ ~Present(Doomed(p)) \/ proc[p].pc \in InterruptAt
        /\ Goto(p, IF At(p, "reap") THEN "reap_previous" ELSE "forget")
        /\ UNCHANGED runtimes
  /\ UNCHANGED <<install, staging, composed, exports, desktop, stored,
                 damaged>>

ForgetRecords(p) ==
  LET a == proc[p].app IN
  /\ At(p, "forget")
  /\ \/ DeleteRecordFile(a) /\ UNCHANGED <<proc, damaged>>
     \/ /\ install[a] = Blank
        /\ Stop(p)
        /\ damaged' = damaged \ {a}
        /\ UNCHANGED install
  /\ UNCHANGED <<staging, composed, runtimes, exports, desktop, stored>>

-----------------------------------------------------------------------------
(***************************************************************************)
(* The commands that take things away, and the end of a command half-way.  *)
(***************************************************************************)

\* Mutant: previous.toml pins nothing.
PinnedByActive(k) ==
  \E a \in App : install[a].active # None /\ k \in Pkgs(install[a].active)

\* Named by either record of an app.
Pinned(k) ==
  \E a \in App : \E g \in {install[a].active, install[a].previous} :
     g # None /\ k \in Pkgs(g)

\* Mutant: --force skips the pins as it skips the referrers.
StoreRemoveForced(p, k) ==
  /\ MaySweep(p)
  /\ k \in stored
  /\ proc' = [proc EXCEPT ![p] = [Idle EXCEPT !.pc = "unstore", !.pkg = k]]
  /\ UNCHANGED <<install, staging, composed, runtimes, exports, desktop, stored,
                 damaged>>

\* `lar store remove`, and for --force each package of the cascade: refused if
\* pinned or not there.  install_referrers cleans staged records too.  Which
\* packages depend on k is not modelled: any unpinned k may go.
StoreRemove(p, k) ==
  /\ MaySweep(p)
  /\ staging' = [q \in Proc |-> IF staging[q] = "records" THEN "none"
                                                          ELSE staging[q]]
  /\ IF Pinned(k) \/ k \notin stored
     THEN UNCHANGED proc
     ELSE proc' = [proc EXCEPT ![p] = [Idle EXCEPT !.pc = "unstore", !.pkg = k]]
  /\ UNCHANGED <<install, composed, runtimes, exports, desktop, stored,
                 damaged>>

RemoveOne(p) ==
  /\ At(p, "unstore")
  /\ stored' = stored \ {proc[p].pkg}
  /\ Stop(p)
  /\ UNCHANGED <<install, staging, composed, runtimes, exports, desktop,
                 damaged>>

\* A runtime gc finds broken: its metadata or tree is incomplete, or a package
\* of its lockfile is not in the store.
Broken(g) ==
  \/ runtimes[g] = "torn"
  \/ runtimes[g] = "whole" /\ ~(Pkgs(g) \subseteq stored)

\* `lar runtime gc` (without --all) on one runtime directory.
Gc(p, g) ==
  /\ Collecting
  /\ MaySweep(p) /\ MayBuild(p)
  /\ Broken(g)
  /\ CleanupTmpRuntimes(p, "none")
  /\ Run(p, "collect", g.app, g, None, None)
  /\ UNCHANGED <<install, staging, runtimes, exports, desktop, stored,
                 damaged>>

\* `lar runtime list` and `inspect`, and a gc that finds nothing broken.
ListRuntimes(p) ==
  /\ At(p, "idle") /\ MayBuild(p)
  /\ CleanupTmpRuntimes(p, "none")
  /\ UNCHANGED <<install, staging, runtimes, exports, desktop, stored, proc,
                 damaged>>

Collect(p) ==
  LET g == proc[p].rec IN
  /\ At(p, "collect")
  /\ \/ Present(g) /\ DeleteRuntime(g) /\ UNCHANGED proc
     \/ ~Present(g) /\ Stop(p) /\ UNCHANGED runtimes
  /\ UNCHANGED <<install, staging, composed, exports, desktop, stored,
                 damaged>>

\* The points at which an uninstall has the app half taken down.
Dismantling == {"reap", "reap_previous", "forget"}

\* The process dies, or the step it is at returns an error.
Interrupt(p) ==
  /\ proc[p].pc \in InterruptAt
  /\ Stop(p)
  /\ damaged' = IF proc[p].pc \in Dismantling
                THEN damaged \union {proc[p].app} ELSE damaged
  /\ UNCHANGED <<install, staging, composed, runtimes, exports, desktop,
                 stored>>

-----------------------------------------------------------------------------
Begin(p) ==
  \/ \E g \in Generation :
        (\E force \in BOOLEAN : Install(p, g, force)) \/ Update(p, g) \/ Gc(p, g)
  \/ \E a \in App : Rollback(p, a) \/ Uninstall(p, a)
  \/ \E k \in Package : StoreRemove(p, k)
  \/ Housekeep(p) \/ ListRuntimes(p)

Continue(p) ==
  \/ Resolve(p) \/ WriteLock(p) \/ Build(p) \/ RenameRuntime(p)
  \/ Stage(p) \/ Unlink(p) \/ Rename(p)
  \/ Publish(p) \/ Link(p) \/ PublishDesktop(p) \/ DropOlder(p)
  \/ RemoveDesktop(p) \/ RemoveExports(p) \/ ReapRuntimes(p) \/ ForgetRecords(p)
  \/ RemoveOne(p) \/ Collect(p)

Next == \E p \in Proc : Begin(p) \/ Continue(p) \/ Interrupt(p)

Spec == Init /\ [][Next]_vars
-----------------------------------------------------------------------------
(***************************************************************************)
(* Properties.                                                             *)
(***************************************************************************)

Commands == [pc: Points \union {"idle"}, app: Maybe(App), rec: Maybe(Generation),
             disp: Maybe(Generation), older: Maybe(Generation),
             pkg: Maybe(Package)]

\* The prefix and the processes hold values of these types (record.rs, and the
\* locals of the functions of ops.rs).
TypeOK ==
  /\ install \in [App -> [active: Maybe(Generation), previous: Maybe(Generation)]]
  /\ staging \in [Proc -> {"none", "lock", "records"}]
  /\ composed \in [Proc -> {"none", "torn", "whole"}]
  /\ runtimes \in [Generation -> {"absent", "torn", "whole"}]
  /\ exports \in [App -> Maybe(Generation)]
  /\ desktop \in [App -> BOOLEAN]
  /\ stored \subseteq Package
  /\ proc \in [Proc -> Commands]
  /\ damaged \subseteq App

\* An uninstall is deleting the app's runtimes and records, or a command on the
\* app stopped at a fragile point and nothing repaired it since.
Dismantled(a) ==
  \/ a \in damaged
  \/ \E p \in Proc : proc[p].app = a /\ proc[p].pc \in Dismantling

\* The app's commands on PATH start.
Startable(a) ==
  exports[a] # None /\ ~Dismantled(a) => runtimes[exports[a]] = "whole"

\* A command on PATH starts from a complete runtime at every step of every
\* command, also after a kill: the displaced runtime stays until the exports
\* moved on, the older one goes only after that (install, update: publish, then
\* remove_runtime_dir) and rollback deletes none.  Only gc may break it: an
\* export that interrupted commands left behind both records is not pinned, and
\* once its packages are removed gc takes its runtime.
ExportsStayStartable ==
  [][\A a \in App : Startable(a) =>
       \/ Startable(a)'
       \/ \E p \in Proc : At(p, "collect") /\ proc[p].rec = exports[a]]_vars

\* Both records of an app keep a complete runtime, so `lar launch` and
\* `lar rollback` (and the rollback of the rollback) never meet RuntimeMissing,
\* also what a kill inside the switch left of the records.  gc spares them because
\* their packages are pinned.  Builds that overlap are left out: what they do to
\* each other violates BuildsVerified.
RecordsRunnable ==
  \A a \in App : \A g \in {install[a].active, install[a].previous} :
     g # None /\ ~Dismantled(a) => runtimes[g] = "whole"

\* "Compose under .tmp-runtime-*, verify the tree, rename into place"
\* (docs/implementation/runtime.md:46): a runtime directory comes into being
\* whole.  The code violates it: every build, list, inspect and gc removes the
\* "leftover" directories of "failed or crashed builds" (catalog.rs:192) without
\* asking whether their builds still run.
BuildsVerified ==
  [][\A g \in Generation :
       runtimes[g] = "absent" /\ runtimes'[g] # "absent" => runtimes'[g] = "whole"]_vars

\* No package of an active or previous record leaves the store: the pins are
\* read from both files, also from what a kill left of them, and no command
\* that is about to write a record overlaps the removal.
PinsHold == \A k \in Package : Pinned(k) => k \in stored

\* When no command stops after it has changed more than temporary directories, a
\* finished command leaves the exports and the menu entry of each app at its
\* active generation, and no runtime that neither record names (the older,
\* displaced and new generations of install --force and update may coincide in
\* any way).
Settled ==
  (\A p \in Proc : At(p, "idle")) =>
    /\ \A a \in App :
         LET g == install[a].active IN
         IF g # None /\ HasEntry(g) THEN exports[a] = g /\ desktop[a]
                                    ELSE exports[a] = None /\ ~desktop[a]
    /\ \A g \in Generation : runtimes[g] # "absent" =>
         g \in {install[g.app].active, install[g.app].previous}

\* What the user sees of installs/{app}: a command between deleting the old
\* directory and renaming the new one still counts as the old records, and a
\* directory without install.toml as not installed.
Shown(a) ==
  LET here == install[a]
      switching == {p \in Proc : proc[p].app = a /\ proc[p].pc \in {"unlink", "rename"}}
  IN IF switching # {}
     THEN LET c == proc[CHOOSE p \in switching : TRUE]
          IN [active |-> c.disp, previous |-> c.older]
     ELSE IF here.active = None THEN Blank ELSE here

Leaving == {a \in App : \E p \in Proc : proc[p].app = a /\ At(p, "forget")}

Abstract == INSTANCE Generations
              WITH records <- [a \in App |-> Shown(a)], leaving <- Leaving

\* Switching the records is atomic for whoever reads them after the command: the
\* commands implement the abstract lifecycle of Generations.
ImplementsGenerations == Abstract!Spec
=============================================================================
