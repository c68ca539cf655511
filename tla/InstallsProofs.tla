--------------------------- MODULE InstallsProofs ---------------------------
(***************************************************************************)
(* Theorems about Installs, for any apps, versions, libraries and          *)
(* processes.                                                              *)
(***************************************************************************)
EXTENDS Installs, TLAPS

\* Either there is one process, or the users keep to one command per app and
\* remove packages and collect runtimes only while nothing else runs.
Disciplined == PerApp \/ \A p, q \in Proc : p = q

\* Likewise for the commands that build.
BuildsAlone == OneBuilder \/ \A p, q \in Proc : p = q

Working(p) == proc[p].pc # "idle"

\* No two commands work on one app, and a removal or collection is alone on it.
Exclusive ==
  \A p, q \in Proc : p # q /\ Working(p) /\ Working(q) =>
     /\ proc[p].app # proc[q].app
     /\ proc[p].pkg = None

Switching == {"stage", "unlink", "rename"}
Publishing == {"publish", "link", "desktop", "drop"}
Uninstalling == {"undesktop", "unexport", "reap", "reap_previous", "forget"}

\* A generation an app's record, exports or command names is one of that app's.
Of(g, a) == g # None => g.app = a

Owned ==
  /\ \A a \in App : /\ Of(install[a].active, a)
                    /\ Of(install[a].previous, a)
                    /\ Of(exports[a], a)
  /\ \A p \in Proc :
       LET c == proc[p] IN
       /\ c.pc \in {"idle", "unstore"} => c.app = None
       /\ c.pc = "unstore" <=> c.pkg # None
       /\ c.pc = "collect" => Collecting
       /\ c.pc \notin {"idle", "unstore"} =>
            /\ c.app \in App
            /\ c.rec \in Generation
            /\ Of(c.rec, c.app) /\ Of(c.disp, c.app) /\ Of(c.older, c.app)

\* At most one command builds, and nobody takes its temporary runtime from it.
Builds ==
  /\ \A p, q \in Proc : p # q => ~(proc[p].pc \in Building /\ proc[q].pc \in Building)
  /\ \A p \in Proc : proc[p].pc = "rename_runtime" => composed[p] = "whole"

\* Where a command stands between its reads and its writes of the prefix.
Progress ==
  \A p \in Proc :
    LET c == proc[p] IN
    /\ c.pc \in Publishing =>
         install[c.app] = [active |-> c.rec, previous |-> c.disp]
    /\ c.pc \in {"desktop", "drop"} => exports[c.app] \in {None, c.rec}
    /\ c.pc \in Dismantling => exports[c.app] = None

\* Packages: those of the records, those a command is about to record, and
\* never one that is being removed.
InStore(g) == g # None => Pkgs(g) \subseteq stored

Pins ==
  /\ \A a \in App : InStore(install[a].active) /\ InStore(install[a].previous)
  /\ \A p \in Proc :
       LET c == proc[p] IN
       /\ c.pc \in Building \union Switching => InStore(c.disp)
       /\ c.pc \in Switching => InStore(c.rec)
       /\ c.pc = "unstore" => ~Pinned(c.pkg)

\* Runtimes: those of the records and exports, and those a command is about to
\* record.  A fresh install rebuilds its runtime also in a damaged app.
Whole(g) == g # None => runtimes[g] = "whole"

Runtimes ==
  /\ \A a \in App : ~Dismantled(a) =>
       Whole(install[a].active) /\ Whole(install[a].previous)
  /\ \A p \in Proc :
       LET c == proc[p] IN
       /\ c.pc \in Building \union Switching /\ c.app \notin damaged =>
            Whole(c.disp)
       /\ c.pc \in Switching \union Publishing
            /\ (c.app \notin damaged \/ c.disp = None) => Whole(c.rec)
       /\ c.pc = "collect" /\ c.app \notin damaged =>
            c.rec \notin {install[c.app].active, install[c.app].previous}

-----------------------------------------------------------------------------
(***************************************************************************)
(* Type correctness.                                                       *)
(***************************************************************************)

LEMMA TypeInit == Init => TypeOK
BY DEF Init, TypeOK, Blank, Idle, Commands, Points, Maybe

\* What a process is after a step: the fields of the new command, one by one,
\* and the other processes as they were.
LEMMA CommandFields ==
  ASSUME TypeOK, NEW p \in Proc
  PROVE  /\ proc[p].pc \in Points \union {"idle"}
         /\ proc[p].app \in App \union {None}
         /\ proc[p].rec \in Generation \union {None}
         /\ proc[p].disp \in Generation \union {None}
         /\ proc[p].older \in Generation \union {None}
         /\ proc[p].pkg \in Package \union {None}
<1>1. proc[p] \in Commands
  BY DEF TypeOK
<1> QED BY <1>1 DEF Commands, Maybe

LEMMA ProcGoto ==
  ASSUME TypeOK, NEW p \in Proc, NEW point \in Points, Goto(p, point)
  PROVE  /\ proc' \in [Proc -> Commands]
         /\ \A q \in Proc \ {p} : proc'[q] = proc[q]
         /\ proc'[p].pc = point
         /\ proc'[p].app = proc[p].app /\ proc'[p].rec = proc[p].rec
         /\ proc'[p].disp = proc[p].disp /\ proc'[p].older = proc[p].older
         /\ proc'[p].pkg = proc[p].pkg
<1>1. proc \in [Proc -> Commands] /\ proc[p] \in Commands
  BY DEF TypeOK
<1>2. proc' = [proc EXCEPT ![p] = [proc[p] EXCEPT !.pc = point]]
  BY <1>1 DEF Goto
<1>3. [proc[p] EXCEPT !.pc = point] \in Commands
  BY <1>1 DEF Commands
<1>4. proc'[p] = [proc[p] EXCEPT !.pc = point]
  BY <1>1, <1>2
<1>5. proc' \in [Proc -> Commands] /\ \A q \in Proc \ {p} : proc'[q] = proc[q]
  BY <1>1, <1>2, <1>3
<1> QED BY <1>1, <1>4, <1>5 DEF Commands

LEMMA ProcStop ==
  ASSUME TypeOK, NEW p \in Proc, Stop(p)
  PROVE  /\ proc' \in [Proc -> Commands]
         /\ \A q \in Proc \ {p} : proc'[q] = proc[q]
         /\ proc'[p] = Idle
<1>1. proc \in [Proc -> Commands]
  BY DEF TypeOK
<1>2. Idle \in Commands
  BY DEF Idle, Commands, Maybe
<1> QED BY <1>1, <1>2 DEF Stop

LEMMA ProcRun ==
  ASSUME TypeOK, NEW p \in Proc, NEW point \in Points, NEW a \in App,
         NEW rec \in Generation, NEW disp \in Maybe(Generation),
         NEW older \in Maybe(Generation), Run(p, point, a, rec, disp, older)
  PROVE  /\ proc' \in [Proc -> Commands]
         /\ \A q \in Proc \ {p} : proc'[q] = proc[q]
         /\ proc'[p].pc = point /\ proc'[p].app = a /\ proc'[p].rec = rec
         /\ proc'[p].disp = disp /\ proc'[p].older = older
         /\ proc'[p].pkg = None
<1>1. proc \in [Proc -> Commands]
  BY DEF TypeOK
<1>2. [pc |-> point, app |-> a, rec |-> rec, disp |-> disp,
       older |-> older, pkg |-> None] \in Commands
  BY DEF Commands, Maybe
<1> QED BY <1>1, <1>2 DEF Run

\* The records of an app.
LEMMA RecordFields ==
  ASSUME TypeOK, NEW a \in App
  PROVE  /\ install[a].active \in Maybe(Generation)
         /\ install[a].previous \in Maybe(Generation)
         /\ install[a] = [active |-> install[a].active,
                          previous |-> install[a].previous]
BY DEF TypeOK

LEMMA RootIsPackage ==
  ASSUME NEW g \in Generation
  PROVE  g.app \in App /\ g.ver \in Version /\ Pkgs(g) \subseteq Package
BY ConstantsAssumption DEF Generation, Pkgs, Root, Package

LEMMA CleanupType ==
  ASSUME NEW p \in Proc, NEW own \in {"none", "whole"}, CleanupTmpRuntimes(p, own)
  PROVE  composed' \in [Proc -> {"none", "torn", "whole"}]
BY DEF CleanupTmpRuntimes

LEMMA TypeBegin ==
  ASSUME TypeOK, NEW p \in Proc, Begin(p)
  PROVE  TypeOK'
<1> USE DEF Points
<1>0. stored \subseteq Package /\ proc \in [Proc -> Commands]
  BY DEF TypeOK
<1>1. ASSUME NEW g \in Generation, NEW force \in BOOLEAN, Install(p, g, force)
      PROVE  TypeOK'
  <2>1. g.app \in App /\ stored \union {Root(g)} \subseteq Package
    BY <1>0, RootIsPackage DEF Pkgs
  <2> DEFINE here == install[g.app]
             older == IF here.active # None THEN here.previous ELSE None
  <2>3. here.active \in Maybe(Generation) /\ older \in Maybe(Generation)
    BY <2>1, RecordFields DEF Maybe
  <2>4. UNCHANGED proc \/ Run(p, "compose", g.app, g, here.active, older)
    BY <1>1 DEF Install
  <2>2. proc' \in [Proc -> Commands]
    BY <1>0, <2>1, <2>3, <2>4, ProcRun
  <2> QED
    BY <1>1, <2>1, <2>2 DEF TypeOK, Install, CleanupTmpInstalls, Keep
<1>2. ASSUME NEW g \in Generation, Update(p, g)
      PROVE  TypeOK'
  <2>1. g.app \in App /\ stored \union {Root(g)} \subseteq Package
    BY <1>0, RootIsPackage DEF Pkgs
  <2>2. proc' \in [Proc -> Commands]
    BY <1>2, <2>1, ProcRun, RecordFields DEF Update
  <2> QED
    BY <1>2, <2>1, <2>2 DEF TypeOK, Update, CleanupTmpInstalls, Keep
<1>3. ASSUME NEW g \in Generation, Gc(p, g)
      PROVE  TypeOK'
  <2>1. proc' \in [Proc -> Commands]
    BY <1>3, RootIsPackage, ProcRun DEF Gc, Maybe
  <2> QED
    BY <1>3, <2>1, CleanupType DEF TypeOK, Gc
<1>4. ASSUME NEW a \in App, Rollback(p, a)
      PROVE  TypeOK'
  <2> DEFINE here == install[a]
  <2>1. proc' \in [Proc -> Commands]
    <3>1. Run(p, "stage", a, here.previous, here.active, here.previous)
      BY <1>4 DEF Rollback
    <3>2. here.active # None /\ here.previous # None
      BY <1>4 DEF Rollback
    <3>3. here.active \in Generation /\ here.previous \in Generation
      BY <3>2, RecordFields DEF Maybe
    <3>4. "stage" \in Points
      BY DEF Points
    <3> HIDE DEF here
    <3> QED BY <3>1, <3>3, <3>4, ProcRun DEF Maybe
  <2> QED
    BY <1>4, <2>1 DEF TypeOK, Rollback, CleanupTmpInstalls
<1>5. ASSUME NEW a \in App, Uninstall(p, a)
      PROVE  TypeOK'
  <2>1. proc' \in [Proc -> Commands]
    BY <1>5, ProcRun, RecordFields DEF Uninstall, Maybe
  <2> QED
    BY <1>5, <2>1 DEF TypeOK, Uninstall, CleanupTmpInstalls
<1>6. ASSUME NEW k \in Package, StoreRemove(p, k)
      PROVE  TypeOK'
  <2>1. [Idle EXCEPT !.pc = "unstore", !.pkg = k] \in Commands
    BY DEF Idle, Commands, Maybe
  <2>2. proc' \in [Proc -> Commands]
    BY <1>6, <1>0, <2>1 DEF StoreRemove
  <2> QED
    BY <1>6, <2>2 DEF TypeOK, StoreRemove
<1>7. CASE Housekeep(p)
  BY <1>7 DEF TypeOK, Housekeep, CleanupTmpInstalls
<1>8. CASE ListRuntimes(p)
  BY <1>8, CleanupType DEF TypeOK, ListRuntimes
<1> QED BY <1>1, <1>2, <1>3, <1>4, <1>5, <1>6, <1>7, <1>8 DEF Begin

\* What the deleting helpers do to the types.
LEMMA DeleteRuntimeType ==
  ASSUME TypeOK, NEW g, DeleteRuntime(g)
  PROVE  runtimes' \in [Generation -> {"absent", "torn", "whole"}]
BY DEF TypeOK, DeleteRuntime

LEMMA DeleteRecordFileType ==
  ASSUME TypeOK, NEW a \in App, DeleteRecordFile(a)
  PROVE  install' \in [App -> [active: Maybe(Generation),
                               previous: Maybe(Generation)]]
<1> DEFINE Pair == [active: Maybe(Generation), previous: Maybe(Generation)]
<1>1. install \in [App -> Pair] /\ install[a] \in Pair
  BY DEF TypeOK
<1>2. /\ [install[a] EXCEPT !.active = None] \in Pair
      /\ [install[a] EXCEPT !.previous = None] \in Pair
  BY <1>1 DEF Maybe
<1>3. \/ install' = [install EXCEPT ![a] = [install[a] EXCEPT !.active = None]]
      \/ install' = [install EXCEPT ![a] = [install[a] EXCEPT !.previous = None]]
  BY <1>1 DEF DeleteRecordFile
<1> QED BY <1>1, <1>2, <1>3

LEMMA TypeContinue ==
  ASSUME TypeOK, Owned, NEW p \in Proc, Continue(p) \/ Interrupt(p)
  PROVE  TypeOK'
<1> USE DEF Points, At
<1>0. /\ stored \subseteq Package
      /\ proc \in [Proc -> Commands]
      /\ proc[p].pc \notin {"idle", "unstore"} =>
           proc[p].app \in App /\ proc[p].rec \in Generation
  BY DEF TypeOK, Owned
<1>1. CASE Resolve(p)
  <2>1. stored' \subseteq Package
    BY <1>0, <1>1, RootIsPackage DEF TypeOK, Resolve, Pkgs
  <2> QED BY <1>0, <1>1, <2>1, ProcStop DEF TypeOK, Resolve
<1>2. CASE WriteLock(p)
  BY <1>2, ProcGoto DEF TypeOK, WriteLock
<1>3. CASE Build(p)
  BY <1>0, <1>3, ProcGoto, ProcStop, CleanupType DEF TypeOK, Build
<1>4. CASE RenameRuntime(p)
  BY <1>0, <1>4, ProcGoto, ProcStop DEF TypeOK, RenameRuntime
<1>5. CASE Stage(p)
  BY <1>5, ProcGoto DEF TypeOK, Stage
<1>6. CASE Unlink(p)
  BY <1>0, <1>6, ProcGoto, DeleteRecordFileType DEF TypeOK, Unlink
<1>7. CASE Rename(p)
  <2>1. [active |-> proc[p].rec, previous |-> proc[p].disp]
           \in [active: Maybe(Generation), previous: Maybe(Generation)]
    BY CommandFields DEF Maybe
  <2>2. install' \in [App -> [active: Maybe(Generation),
                              previous: Maybe(Generation)]]
    BY <1>7, <2>1 DEF TypeOK, Rename, Recorded
  <2> QED
    BY <1>0, <1>7, <2>2, ProcGoto, ProcStop DEF TypeOK, Rename
<1>8. CASE Publish(p)
  BY <1>0, <1>8, ProcGoto, ProcStop DEF TypeOK, Publish, Maybe
<1>9. CASE Link(p)
  BY <1>0, <1>9, ProcGoto, ProcStop DEF TypeOK, Link, Maybe
<1>10. CASE PublishDesktop(p)
  BY <1>0, <1>10, ProcGoto, ProcStop DEF TypeOK, PublishDesktop, HasEntry
<1>11. CASE DropOlder(p)
  BY <1>0, <1>11, ProcStop, DeleteRuntimeType DEF TypeOK, DropOlder
<1>12. CASE RemoveDesktop(p)
  BY <1>12, ProcGoto DEF TypeOK, RemoveDesktop
<1>13. CASE RemoveExports(p)
  BY <1>13, ProcGoto DEF TypeOK, RemoveExports, Maybe
<1>14. CASE ReapRuntimes(p)
  BY <1>14, ProcGoto, DeleteRuntimeType DEF TypeOK, ReapRuntimes
<1>15. CASE ForgetRecords(p)
  BY <1>0, <1>15, ProcStop, DeleteRecordFileType DEF TypeOK, ForgetRecords
<1>16. CASE RemoveOne(p)
  BY <1>0, <1>16, ProcStop DEF TypeOK, RemoveOne
<1>17. CASE Collect(p)
  BY <1>17, ProcStop, DeleteRuntimeType DEF TypeOK, Collect
<1>18. CASE Interrupt(p)
  BY <1>0, <1>18, ProcStop DEF TypeOK, Interrupt, Dismantling
<1> QED
  BY <1>1, <1>2, <1>3, <1>4, <1>5, <1>6, <1>7, <1>8, <1>9, <1>10, <1>11, <1>12,
     <1>13, <1>14, <1>15, <1>16, <1>17, <1>18 DEF Continue

-----------------------------------------------------------------------------
(***************************************************************************)
(* What a step leaves alone.                                               *)
(***************************************************************************)

\* Nothing of any other app changes.
Elsewhere(p) ==
  \A a \in App \ {proc[p].app} :
     /\ install'[a] = install[a]
     /\ exports'[a] = exports[a]
     /\ a \in damaged' <=> a \in damaged
     /\ \A g \in Generation : g.app = a => runtimes'[g] = runtimes[g]

\* The process goes on with the same command, or is done with it.
SameCommand(p) ==
  \/ proc'[p] = proc[p]
  \/ proc'[p] = Idle
  \/ /\ proc[p].pc \notin {"unstore", "collect"}
     /\ proc'[p].pc \notin {"idle", "unstore", "collect"}
     /\ proc'[p].app = proc[p].app /\ proc'[p].rec = proc[p].rec
     /\ proc'[p].disp = proc[p].disp /\ proc'[p].older = proc[p].older
     /\ proc'[p].pkg = proc[p].pkg

LEMMA DeleteRuntimeFrame ==
  ASSUME TypeOK, NEW d, DeleteRuntime(d)
  PROVE  \A g \in Generation : g # d => runtimes'[g] = runtimes[g]
BY DEF TypeOK, DeleteRuntime

LEMMA DeleteRecordFileFrame ==
  ASSUME TypeOK, NEW b \in App, DeleteRecordFile(b)
  PROVE  /\ \A a \in App \ {b} : install'[a] = install[a]
         /\ install'[b].active \in {install[b].active, None}
         /\ install'[b].previous \in {install[b].previous, None}
<1>1. install \in [App -> [active: Maybe(Generation), previous: Maybe(Generation)]]
  BY DEF TypeOK
<1>2. \/ install' = [install EXCEPT ![b] = [install[b] EXCEPT !.active = None]]
      \/ install' = [install EXCEPT ![b] = [install[b] EXCEPT !.previous = None]]
  BY <1>1 DEF DeleteRecordFile
<1> QED BY <1>1, <1>2

LEMMA ContinueFrame ==
  ASSUME TypeOK, Owned, NEW p \in Proc, Continue(p) \/ Interrupt(p)
  PROVE  /\ Working(p)
         /\ Elsewhere(p)
         /\ SameCommand(p)
         /\ \A q \in Proc \ {p} : proc'[q] = proc[q]
         /\ proc[p].pc # "unstore" => stored \subseteq stored'
<1> USE DEF Points, At, Working, SameCommand
<1>0. /\ proc \in [Proc -> Commands]
      /\ install \in [App -> [active: Maybe(Generation), previous: Maybe(Generation)]]
      /\ exports \in [App -> Maybe(Generation)]
      /\ runtimes \in [Generation -> {"absent", "torn", "whole"}]
      /\ proc[p].pc \notin {"idle", "unstore"} =>
           /\ proc[p].app \in App /\ proc[p].rec \in Generation
           /\ Of(proc[p].rec, proc[p].app) /\ Of(proc[p].disp, proc[p].app)
           /\ Of(proc[p].older, proc[p].app)
  BY DEF TypeOK, Owned
<1>a. None \notin Generation
  BY ConstantsAssumption
<1>1. CASE Resolve(p)
  BY <1>0, <1>1, ProcStop DEF Resolve, Elsewhere
<1>2. CASE WriteLock(p)
  BY <1>2, ProcGoto DEF WriteLock, Elsewhere
<1>3. CASE Build(p)
  BY <1>0, <1>3, <1>a, ProcGoto, ProcStop DEF Build, Elsewhere, Of
<1>4. CASE RenameRuntime(p)
  BY <1>0, <1>4, <1>a, ProcGoto, ProcStop DEF RenameRuntime, Elsewhere, Of
<1>5. CASE Stage(p)
  BY <1>5, ProcGoto DEF Stage, Elsewhere
<1>6. CASE Unlink(p)
  BY <1>0, <1>6, ProcGoto, DeleteRecordFileFrame DEF Unlink, Elsewhere
<1>7. CASE Rename(p)
  BY <1>0, <1>7, ProcGoto, ProcStop DEF Rename, Elsewhere
<1>8. CASE Publish(p)
  BY <1>0, <1>8, ProcGoto, ProcStop DEF Publish, Elsewhere
<1>9. CASE Link(p)
  BY <1>0, <1>9, ProcGoto, ProcStop DEF Link, Elsewhere
<1>10. CASE PublishDesktop(p)
  BY <1>0, <1>10, ProcGoto, ProcStop DEF PublishDesktop, Elsewhere
<1>11. CASE DropOlder(p)
  BY <1>0, <1>11, <1>a, ProcStop, DeleteRuntimeFrame
     DEF DropOlder, Superseded, Elsewhere, Of
<1>12. CASE RemoveDesktop(p)
  BY <1>12, ProcGoto DEF RemoveDesktop, Elsewhere
<1>13. CASE RemoveExports(p)
  BY <1>0, <1>13, ProcGoto DEF RemoveExports, Elsewhere
<1>14. CASE ReapRuntimes(p)
  BY <1>0, <1>14, <1>a, ProcGoto, DeleteRuntimeFrame
     DEF ReapRuntimes, Doomed, Present, Elsewhere, Of
<1>15. CASE ForgetRecords(p)
  BY <1>0, <1>15, ProcStop, DeleteRecordFileFrame DEF ForgetRecords, Elsewhere
<1>16. CASE RemoveOne(p)
  BY <1>16, ProcStop DEF RemoveOne, Elsewhere
<1>17. CASE Collect(p)
  BY <1>0, <1>17, <1>a, ProcStop, DeleteRuntimeFrame
     DEF Collect, Present, Elsewhere, Of
<1>18. CASE Interrupt(p)
  BY <1>0, <1>18, ConstantsAssumption, ProcStop DEF Interrupt, Elsewhere
<1> QED
  BY <1>1, <1>2, <1>3, <1>4, <1>5, <1>6, <1>7, <1>8, <1>9, <1>10, <1>11, <1>12,
     <1>13, <1>14, <1>15, <1>16, <1>17, <1>18 DEF Continue

\* A command begins with what its process reads of the app's records, on an app
\* no other command works on, or alone.
BeginsOn(p, a) ==
  /\ MayWork(p, a)
  /\ proc'[p].app = a
  /\ proc'[p].pkg = None
  /\ \/ /\ proc'[p].pc = "compose"
        /\ proc'[p].disp = install[a].active
        /\ proc'[p].older = IF install[a].active # None THEN install[a].previous
                                                       ELSE None
     \/ /\ proc'[p].pc = "stage"
        /\ proc'[p].rec = install[a].previous
        /\ proc'[p].disp = install[a].active
        /\ proc'[p].disp # None
        /\ proc'[p].older = install[a].previous
     \/ /\ proc'[p].pc = "undesktop"
        /\ proc'[p].rec = install[a].active
        /\ proc'[p].disp = install[a].previous
        /\ proc'[p].older = None
  /\ proc'[p].rec \in Generation
  /\ Of(proc'[p].rec, a)

Removes(p, k) ==
  /\ MaySweep(p)
  /\ ~Pinned(k)
  /\ proc'[p] = [Idle EXCEPT !.pc = "unstore", !.pkg = k]

Collects(p, g) ==
  /\ MaySweep(p)
  /\ Collecting
  /\ Broken(g)
  /\ proc'[p].pc = "collect" /\ proc'[p].app = g.app /\ proc'[p].rec = g
  /\ proc'[p].disp = None /\ proc'[p].older = None /\ proc'[p].pkg = None

LEMMA BeginFrame ==
  ASSUME TypeOK, Owned, NEW p \in Proc, Begin(p)
  PROVE  /\ ~Working(p)
         /\ UNCHANGED <<install, exports, desktop, runtimes, damaged>>
         /\ stored \subseteq stored'
         /\ \A q \in Proc \ {p} : proc'[q] = proc[q]
         /\ \/ proc'[p] = proc[p]
            \/ \E a \in App : BeginsOn(p, a)
            \/ \E k \in Package : Removes(p, k)
            \/ \E g \in Generation : Collects(p, g)
<1> USE DEF Points, Working, At
<1>0. proc \in [Proc -> Commands] /\ None \notin Generation
  BY ConstantsAssumption DEF TypeOK
<1>1. ASSUME NEW g \in Generation, NEW force \in BOOLEAN, Install(p, g, force)
      PROVE  /\ ~Working(p)
             /\ UNCHANGED <<install, exports, desktop, runtimes, damaged>>
             /\ stored \subseteq stored'
             /\ \A q \in Proc \ {p} : proc'[q] = proc[q]
             /\ proc'[p] = proc[p] \/ BeginsOn(p, g.app)
  <2> DEFINE here == install[g.app]
             older == IF here.active # None THEN here.previous ELSE None
  <2>1. /\ g.app \in App
        /\ here.active \in Maybe(Generation) /\ here.previous \in Maybe(Generation)
        /\ older \in Maybe(Generation)
    BY RootIsPackage, RecordFields DEF Maybe
  <2>2. CASE here.active # None /\ ~force
    BY <1>1, <2>2 DEF Install, MayWork, Keep
  <2>3. CASE ~(here.active # None /\ ~force)
    <3>1. Run(p, "compose", g.app, g, here.active, older)
      BY <1>1, <2>3 DEF Install
    <3>2. /\ \A q \in Proc \ {p} : proc'[q] = proc[q]
          /\ proc'[p].pc = "compose" /\ proc'[p].app = g.app
          /\ proc'[p].rec = g /\ proc'[p].disp = here.active
          /\ proc'[p].older = older /\ proc'[p].pkg = None
      BY <2>1, <3>1, ProcRun
    <3> QED
      BY <1>1, <3>2 DEF Install, MayWork, Keep, BeginsOn, Of
  <2> QED BY <2>2, <2>3
<1>2. ASSUME NEW g \in Generation, Update(p, g)
      PROVE  /\ ~Working(p)
             /\ UNCHANGED <<install, exports, desktop, runtimes, damaged>>
             /\ stored \subseteq stored'
             /\ \A q \in Proc \ {p} : proc'[q] = proc[q]
             /\ BeginsOn(p, g.app)
  <2>1. /\ g.app \in App
        /\ install[g.app].active \in Maybe(Generation)
        /\ install[g.app].previous \in Maybe(Generation)
    BY RootIsPackage, RecordFields
  <2>2. Run(p, "compose", g.app, g, install[g.app].active,
            install[g.app].previous)
    BY <1>2 DEF Update
  <2>3. /\ \A q \in Proc \ {p} : proc'[q] = proc[q]
        /\ proc'[p].pc = "compose" /\ proc'[p].app = g.app
        /\ proc'[p].rec = g /\ proc'[p].disp = install[g.app].active
        /\ proc'[p].older = install[g.app].previous /\ proc'[p].pkg = None
    BY <2>1, <2>2, ProcRun
  <2> QED
    BY <1>2, <2>1, <2>3 DEF Update, MayWork, Keep, BeginsOn, Of
<1>3. ASSUME NEW g \in Generation, Gc(p, g)
      PROVE  /\ ~Working(p)
             /\ UNCHANGED <<install, exports, desktop, runtimes, damaged>>
             /\ stored \subseteq stored'
             /\ \A q \in Proc \ {p} : proc'[q] = proc[q]
             /\ Collects(p, g)
  <2>1. Run(p, "collect", g.app, g, None, None) /\ None \in Maybe(Generation)
    BY <1>3 DEF Gc, Maybe
  <2>2. /\ \A q \in Proc \ {p} : proc'[q] = proc[q]
        /\ proc'[p].pc = "collect" /\ proc'[p].app = g.app
        /\ proc'[p].rec = g /\ proc'[p].disp = None
        /\ proc'[p].older = None /\ proc'[p].pkg = None
    BY <2>1, RootIsPackage, ProcRun
  <2> QED
    BY <1>3, <2>2 DEF Gc, MaySweep, Collects
<1>4. ASSUME NEW a \in App, Rollback(p, a) \/ Uninstall(p, a)
      PROVE  /\ ~Working(p)
             /\ UNCHANGED <<install, exports, desktop, runtimes, damaged>>
             /\ stored \subseteq stored'
             /\ \A q \in Proc \ {p} : proc'[q] = proc[q]
             /\ BeginsOn(p, a)
  <2>1. Of(install[a].active, a) /\ Of(install[a].previous, a)
    BY DEF Owned
  <2>2. CASE Rollback(p, a)
    <3>0. /\ Run(p, "stage", a, install[a].previous, install[a].active, install[a].previous)
          /\ install[a].previous \in Generation
          /\ install[a].active \in Maybe(Generation)
          /\ install[a].previous \in Maybe(Generation)
      BY <2>2, RecordFields DEF Rollback, Maybe
    <3>1. /\ \A q \in Proc \ {p} : proc'[q] = proc[q]
          /\ proc'[p].pc = "stage" /\ proc'[p].app = a
          /\ proc'[p].rec = install[a].previous
          /\ proc'[p].disp = install[a].active
          /\ proc'[p].older = install[a].previous /\ proc'[p].pkg = None
      BY <3>0, ProcRun
    <3> QED
      BY <2>1, <2>2, <3>1, RecordFields DEF Rollback, MayWork, BeginsOn, Maybe
  <2>3. CASE Uninstall(p, a)
    <3>0. /\ Run(p, "undesktop", a, install[a].active, install[a].previous, None)
          /\ install[a].active \in Generation
          /\ install[a].previous \in Maybe(Generation)
          /\ None \in Maybe(Generation)
      BY <2>3, RecordFields DEF Uninstall, Maybe
    <3>1. /\ \A q \in Proc \ {p} : proc'[q] = proc[q]
          /\ proc'[p].pc = "undesktop" /\ proc'[p].app = a
          /\ proc'[p].rec = install[a].active
          /\ proc'[p].disp = install[a].previous
          /\ proc'[p].older = None /\ proc'[p].pkg = None
      BY <3>0, ProcRun
    <3> QED
      BY <2>1, <2>3, <3>1, RecordFields DEF Uninstall, MayWork, BeginsOn, Maybe
  <2> QED BY <1>4, <2>2, <2>3
<1>5. ASSUME NEW k \in Package, StoreRemove(p, k)
      PROVE  /\ ~Working(p)
             /\ UNCHANGED <<install, exports, desktop, runtimes, damaged>>
             /\ stored \subseteq stored'
             /\ \A q \in Proc \ {p} : proc'[q] = proc[q]
             /\ proc'[p] = proc[p] \/ Removes(p, k)
  BY <1>5, <1>0 DEF StoreRemove, MaySweep, Removes
<1>6. CASE Housekeep(p)
  BY <1>6 DEF Housekeep
<1>7. CASE ListRuntimes(p)
  BY <1>7 DEF ListRuntimes
<1> QED BY <1>1, <1>2, <1>3, <1>4, <1>5, <1>6, <1>7, RootIsPackage DEF Begin

-----------------------------------------------------------------------------
(***************************************************************************)
(* Commands keep apart, name their own app's generations, and find the     *)
(* prefix as they left it.                                                 *)
(***************************************************************************)

LEMMA ExclusiveBegin ==
  ASSUME Disciplined, TypeOK, Owned, Exclusive, NEW p \in Proc, Begin(p)
  PROVE  Exclusive'
<1>1. CASE \A q, r \in Proc : q = r
  BY <1>1 DEF Exclusive
<1>2. CASE PerApp
  <2>1. CASE proc'[p] = proc[p]
    BY <2>1, BeginFrame DEF Exclusive, Working
  <2>2. ASSUME NEW a \in App, BeginsOn(p, a)
        PROVE  Exclusive'
    BY <1>2, <2>2, BeginFrame DEF Exclusive, Working, BeginsOn, MayWork
  <2>3. ASSUME MaySweep(p)
        PROVE  Exclusive'
    BY <1>2, <2>3, BeginFrame DEF Exclusive, Working, MaySweep, At
  <2> QED BY <2>1, <2>2, <2>3, BeginFrame DEF Removes, Collects
<1> QED BY <1>1, <1>2 DEF Disciplined

LEMMA ExclusiveContinue ==
  ASSUME TypeOK, Owned, Exclusive, NEW p \in Proc, Continue(p) \/ Interrupt(p)
  PROVE  Exclusive'
BY ContinueFrame DEF Exclusive, Working, SameCommand, Idle

LEMMA OwnedBegin ==
  ASSUME TypeOK, Owned, NEW p \in Proc, Begin(p)
  PROVE  Owned'
<1>1. \A a \in App : /\ Of(install'[a].active, a)
                     /\ Of(install'[a].previous, a)
                     /\ Of(exports'[a], a)
  BY BeginFrame DEF Owned, Of
<1> DEFINE Fine(c) ==
      /\ c.pc \in {"idle", "unstore"} => c.app = None
      /\ c.pc = "unstore" <=> c.pkg # None
      /\ c.pc = "collect" => Collecting
      /\ c.pc \notin {"idle", "unstore"} =>
           /\ c.app \in App
           /\ c.rec \in Generation
           /\ Of(c.rec, c.app) /\ Of(c.disp, c.app) /\ Of(c.older, c.app)
<1>2. \A q \in Proc : Fine(proc[q])
  BY DEF Owned
<1>3. Fine(proc'[p])
  <2>1. CASE proc'[p] = proc[p]
    BY <1>2, <2>1
  <2>2. ASSUME NEW a \in App, BeginsOn(p, a)
        PROVE  Fine(proc'[p])
    <3>1. Of(install[a].active, a) /\ Of(install[a].previous, a)
      BY DEF Owned
    <3> QED BY <2>2, <3>1 DEF BeginsOn, Of
  <2>3. ASSUME NEW k \in Package, Removes(p, k)
        PROVE  Fine(proc'[p])
    BY <2>3, ConstantsAssumption DEF Removes, Idle, Package
  <2>4. ASSUME NEW g \in Generation, Collects(p, g)
        PROVE  Fine(proc'[p])
    BY <2>4, RootIsPackage DEF Collects, Of
  <2> QED BY <2>1, <2>2, <2>3, <2>4, BeginFrame
<1>4. \A q \in Proc : Fine(proc'[q])
  BY <1>2, <1>3, BeginFrame
<1> QED BY <1>1, <1>4 DEF Owned

LEMMA OwnedContinue ==
  ASSUME TypeOK, Owned, NEW p \in Proc, Continue(p) \/ Interrupt(p)
  PROVE  Owned'
<1> DEFINE Fine(c) ==
      /\ c.pc \in {"idle", "unstore"} => c.app = None
      /\ c.pc = "unstore" <=> c.pkg # None
      /\ c.pc = "collect" => Collecting
      /\ c.pc \notin {"idle", "unstore"} =>
           /\ c.app \in App
           /\ c.rec \in Generation
           /\ Of(c.rec, c.app) /\ Of(c.disp, c.app) /\ Of(c.older, c.app)
<1>1. \A q \in Proc : Fine(proc[q])
  BY DEF Owned
<1>2. Fine(proc'[p])
  BY <1>1, ContinueFrame DEF SameCommand, Idle, Working
<1>3. \A q \in Proc : Fine(proc'[q])
  BY <1>1, <1>2, ContinueFrame
<1> DEFINE Mine(a) == /\ Of(install[a].active, a)
                      /\ Of(install[a].previous, a)
                      /\ Of(exports[a], a)
<1>4. \A a \in App : Mine(a)
  BY DEF Owned
<1>5. ASSUME NEW a \in App \ {proc[p].app}
      PROVE  Mine(a)'
  BY <1>4, ContinueFrame DEF Elsewhere
<1>6. ASSUME NEW a \in App, a = proc[p].app
      PROVE  Mine(a)'
  <2> USE DEF At
  <2>0. /\ Mine(a) /\ Of(None, a)
        /\ proc[p].pc \notin {"idle", "unstore"} =>
              Of(proc[p].rec, a) /\ Of(proc[p].disp, a)
        /\ install \in [App -> [active: Maybe(Generation), previous: Maybe(Generation)]]
        /\ exports \in [App -> Maybe(Generation)]
    BY <1>1, <1>4, <1>6 DEF TypeOK, Of
  <2>1. CASE Unlink(p) \/ ForgetRecords(p)
    <3>1. /\ install'[a].active \in {install[a].active, None}
          /\ install'[a].previous \in {install[a].previous, None}
          /\ UNCHANGED exports
      BY <1>6, <2>1, DeleteRecordFileFrame DEF Unlink, ForgetRecords
    <3> QED BY <2>0, <3>1
  <2>2. CASE Rename(p)
    BY <1>6, <2>0, <2>2 DEF Rename, Recorded
  <2>3. CASE Publish(p) \/ Link(p) \/ RemoveExports(p)
    BY <1>6, <2>0, <2>3 DEF Publish, Link, RemoveExports
  <2>4. CASE UNCHANGED <<install, exports>>
    BY <2>0, <2>4
  <2> QED
    BY <2>1, <2>2, <2>3, <2>4
       DEF Continue, Resolve, WriteLock, Build, RenameRuntime, Stage,
           PublishDesktop, DropOlder, RemoveDesktop, ReapRuntimes, RemoveOne,
           Collect, Interrupt
<1> QED BY <1>3, <1>5, <1>6 DEF Owned

-----------------------------------------------------------------------------
(***************************************************************************)
(* Pinned packages stay in the store.                                      *)
(***************************************************************************)

PinClaims(c) ==
  /\ c.pc \in Building \union Switching => InStore(c.disp)
  /\ c.pc \in Switching => InStore(c.rec)
  /\ c.pc = "unstore" => ~Pinned(c.pkg)

LEMMA PinsBegin ==
  ASSUME TypeOK, Owned, Pins, NEW p \in Proc, Begin(p)
  PROVE  Pins'
<1> USE DEF Building, Switching
<1>1. \A g : InStore(g) => InStore(g)'
  BY BeginFrame DEF InStore
<1>2. \A k : Pinned(k)' <=> Pinned(k)
  BY BeginFrame DEF Pinned
<1>3. \A a \in App : InStore(install[a].active)' /\ InStore(install[a].previous)'
  BY <1>1, BeginFrame DEF Pins
<1>4. ASSUME NEW q \in Proc, proc'[q] = proc[q]
      PROVE  PinClaims(proc[q])'
  BY <1>1, <1>2, <1>4 DEF Pins, PinClaims
<1>5. PinClaims(proc[p])'
  <2>1. CASE proc'[p] = proc[p]
    BY <2>1, <1>4
  <2>2. ASSUME NEW a \in App, BeginsOn(p, a)
        PROVE  PinClaims(proc[p])'
    <3>1. InStore(install[a].active)' /\ InStore(install[a].previous)'
      BY <1>3
    <3>2. UNCHANGED install
      BY BeginFrame
    <3> QED BY <2>2, <3>1, <3>2 DEF BeginsOn, PinClaims
  <2>3. ASSUME NEW k \in Package, Removes(p, k)
        PROVE  PinClaims(proc[p])'
    BY <2>3, <1>2 DEF Removes, PinClaims, Idle
  <2>4. ASSUME NEW g \in Generation, Collects(p, g)
        PROVE  PinClaims(proc[p])'
    BY <2>4 DEF Collects, PinClaims
  <2> QED BY <2>1, <2>2, <2>3, <2>4, BeginFrame
<1> QED BY <1>3, <1>4, <1>5, BeginFrame DEF Pins, PinClaims

\* While a command is at work, no other process is about to remove a package.
LEMMA NobodyRemoves ==
  ASSUME Owned, Exclusive, NEW p \in Proc, Working(p), NEW q \in Proc \ {p}
  PROVE  proc[q].pc # "unstore"
BY DEF Owned, Exclusive, Working

\* The package removed is pinned by no record and no other command is at work.
LEMMA PinsRemoveOne ==
  ASSUME TypeOK, Owned, Exclusive, Pins, NEW p \in Proc, RemoveOne(p)
  PROVE  Pins'
<1> USE DEF Building, Switching, At
<1>1. /\ proc[p].pc = "unstore" /\ ~Pinned(proc[p].pkg)
      /\ UNCHANGED install
      /\ stored' = stored \ {proc[p].pkg}
      /\ proc'[p] = Idle /\ \A q \in Proc \ {p} : proc'[q] = proc[q]
  BY ProcStop DEF RemoveOne, Pins
<1>2. \A q \in Proc \ {p} : proc[q].pc = "idle"
  <2>1. \A q \in Proc \ {p} : Working(q) => proc[p].pkg = None
    BY <1>1 DEF Exclusive, Working
  <2> QED BY <1>1, <2>1 DEF Owned, Working
<1>3. \A a \in App : InStore(install[a].active)' /\ InStore(install[a].previous)'
  <2>1. \A a \in App : \A g \in {install[a].active, install[a].previous} :
           g # None => proc[p].pkg \notin Pkgs(g)
    BY <1>1 DEF Pinned
  <2> QED BY <1>1, <2>1 DEF Pins, InStore
<1>4. \A q \in Proc : proc'[q].pc = "idle"
  BY <1>1, <1>2 DEF Idle
<1> QED BY <1>3, <1>4 DEF Pins

LEMMA PinsContinue ==
  ASSUME TypeOK, Owned, Exclusive, Pins, NEW p \in Proc,
         Continue(p) \/ Interrupt(p)
  PROVE  Pins'
<1> USE DEF Building, Switching, At, Points
<1>1. CASE RemoveOne(p)
  BY <1>1, PinsRemoveOne
<1>2. CASE ~RemoveOne(p)
  <2>0. /\ proc \in [Proc -> Commands]
        /\ install \in [App -> [active: Maybe(Generation), previous: Maybe(Generation)]]
        /\ PinClaims(proc[p])
        /\ None \notin Generation
    BY ConstantsAssumption DEF TypeOK, Pins, PinClaims
  <2>1. stored \subseteq stored'
    BY <1>2, <2>0, ContinueFrame
       DEF Continue, Resolve, WriteLock, Build, RenameRuntime, Stage, Unlink,
           Rename, Publish, Link, PublishDesktop, DropOlder, RemoveDesktop,
           RemoveExports, ReapRuntimes, ForgetRecords, Collect, Interrupt
  <2>2. \A g : InStore(g) => InStore(g)'
    BY <2>1 DEF InStore
  <2>3. ASSUME NEW a \in App
        PROVE  InStore(install[a].active)' /\ InStore(install[a].previous)'
    <3>0. InStore(install[a].active) /\ InStore(install[a].previous) /\ InStore(None)
      BY DEF Pins, InStore
    <3>1. CASE Unlink(p) \/ ForgetRecords(p)
      <4>1. proc[p].app \in App
        BY <3>1 DEF Owned, Unlink, ForgetRecords
      <4>2. /\ install'[a].active \in {install[a].active, None}
            /\ install'[a].previous \in {install[a].previous, None}
        BY <3>1, <4>1, DeleteRecordFileFrame DEF Unlink, ForgetRecords
      <4> QED BY <2>2, <3>0, <4>2
    <3>2. CASE Rename(p)
      <4>1. \/ install'[a] = install[a]
            \/ install'[a] = [active |-> proc[p].rec, previous |-> proc[p].disp]
        BY <2>0, <3>2 DEF Rename, Recorded
      <4>2. InStore(proc[p].rec) /\ InStore(proc[p].disp)
        BY <2>0, <3>2 DEF PinClaims, Rename
      <4> QED BY <2>2, <3>0, <4>1, <4>2
    <3>3. CASE UNCHANGED install
      BY <2>2, <3>0, <3>3
    <3> QED
      BY <1>2, <3>1, <3>2, <3>3
         DEF Continue, Resolve, WriteLock, Build, RenameRuntime, Stage,
             Publish, Link, PublishDesktop, DropOlder, RemoveDesktop,
             RemoveExports, ReapRuntimes, Collect, Interrupt
  <2>4. ASSUME NEW q \in Proc \ {p}
        PROVE  PinClaims(proc[q])'
    <3>1. proc'[q] = proc[q] /\ proc[q].pc # "unstore"
      BY ContinueFrame, NobodyRemoves
    <3>2. PinClaims(proc[q])
      BY DEF Pins, PinClaims
    <3> QED BY <2>2, <3>1, <3>2 DEF PinClaims
  <2>5. PinClaims(proc[p])'
    <3>1. CASE proc'[p].pc \notin Building \union Switching
      <4>1. proc'[p].pc # "unstore"
        <5>1. CASE proc[p].pc = "unstore"
          BY <1>2, <5>1, ProcStop
             DEF Idle, Continue, Resolve, WriteLock, Build, RenameRuntime,
                 Stage, Unlink, Rename, Publish, Link, PublishDesktop, DropOlder,
                 RemoveDesktop, RemoveExports, ReapRuntimes, ForgetRecords,
                 Collect, Interrupt
        <5>2. CASE proc[p].pc # "unstore"
          BY <5>2, ContinueFrame DEF SameCommand, Idle
        <5> QED BY <5>1, <5>2
      <4> QED BY <3>1, <4>1 DEF PinClaims
    <3>2. CASE WriteLock(p) \/ Resolve(p)
      BY <2>0, <2>2, <3>2, ProcGoto, ProcStop DEF PinClaims, WriteLock, Resolve, Idle
    <3>3. CASE Build(p) \/ RenameRuntime(p)
      <4>1. CASE proc'[p].pc \in Switching
        <5>1. InStore(proc[p].rec)
          BY <3>3, <4>1, ProcGoto, ProcStop DEF Build, RenameRuntime, InStore, Idle
        <5> QED
          BY <2>0, <2>2, <3>3, <4>1, <5>1, ProcGoto, ProcStop
             DEF PinClaims, Build, RenameRuntime, Idle
      <4>2. CASE proc'[p].pc \notin Switching
        BY <2>0, <2>2, <3>3, <4>2, ProcGoto, ProcStop
           DEF PinClaims, Build, RenameRuntime, Idle
      <4> QED BY <4>1, <4>2
    <3>4. CASE Stage(p) \/ Unlink(p)
      BY <2>0, <2>2, <3>4, ProcGoto DEF PinClaims, Stage, Unlink
    <3>5. CASE proc'[p] = Idle
      BY <3>5 DEF PinClaims, Idle
    <3> QED
      BY <1>2, <3>1, <3>2, <3>3, <3>4, <3>5, <2>0, ProcGoto, ProcStop
         DEF Continue, Rename, Publish, Link, PublishDesktop, DropOlder,
             RemoveDesktop, RemoveExports, ReapRuntimes, ForgetRecords, Collect,
             Interrupt
  <2> QED BY <2>3, <2>4, <2>5 DEF Pins, PinClaims
<1> QED BY <1>1, <1>2

-----------------------------------------------------------------------------
(***************************************************************************)
(* Theorems: types and pins.                                               *)
(***************************************************************************)

LEMMA OwnedInit == Init => Owned
BY DEF Init, Owned, Of, Blank, Idle

LEMMA ApartInit == Init => Exclusive /\ Pins
BY DEF Init, Exclusive, Working, Pins, InStore, Building, Switching, Blank, Idle

LEMMA OwnedStep ==
  ASSUME TypeOK, Owned, [Next]_vars
  PROVE  TypeOK' /\ Owned'
<1>1. ASSUME NEW p \in Proc, Begin(p)
      PROVE  TypeOK' /\ Owned'
  BY <1>1, TypeBegin, OwnedBegin
<1>2. ASSUME NEW p \in Proc, Continue(p) \/ Interrupt(p)
      PROVE  TypeOK' /\ Owned'
  BY <1>2, TypeContinue, OwnedContinue
<1>3. CASE UNCHANGED vars
  BY <1>3 DEF vars, TypeOK, Owned, Of
<1> QED BY <1>1, <1>2, <1>3 DEF Next

LEMMA PinsStep ==
  ASSUME Disciplined, TypeOK, Owned, Exclusive, Pins, [Next]_vars
  PROVE  Exclusive' /\ Pins'
<1>1. ASSUME NEW p \in Proc, Begin(p)
      PROVE  Exclusive' /\ Pins'
  BY <1>1, ExclusiveBegin, PinsBegin
<1>2. ASSUME NEW p \in Proc, Continue(p) \/ Interrupt(p)
      PROVE  Exclusive' /\ Pins'
  BY <1>2, ExclusiveContinue, PinsContinue
<1>3. CASE UNCHANGED vars
  BY <1>3 DEF vars, Exclusive, Working, Pins, InStore, Pinned, Building, Switching
<1> QED BY <1>1, <1>2, <1>3 DEF Next

LEMMA PinsSuffice == Pins => PinsHold
BY DEF Pins, PinsHold, Pinned, InStore

\* The prefix and the locals of every command keep their types, under any
\* interleaving of any number of commands and with kills anywhere (Installs
\* models ops.rs, install_pins.rs and the catalog's gc).
THEOREM TypeCorrect == Spec => []TypeOK
<1>1. Init => TypeOK /\ Owned
  BY TypeInit, OwnedInit
<1>2. TypeOK /\ Owned /\ [Next]_vars => (TypeOK /\ Owned)'
  BY OwnedStep
<1> QED BY <1>1, <1>2, PTL DEF Spec

\* `lar store remove` never takes a package that the active or the previous
\* record of an app names (install_referrers in install_pins.rs reads the pins
\* before the removal), whatever is killed, as long as no command that writes
\* records runs next to it.
THEOREM PinsAreKept ==
  ASSUME Disciplined
  PROVE  Spec => []PinsHold
<1>1. Init => TypeOK /\ Owned /\ Exclusive /\ Pins
  BY TypeInit, OwnedInit, ApartInit
<1>2. TypeOK /\ Owned /\ Exclusive /\ Pins /\ [Next]_vars
        => (TypeOK /\ Owned /\ Exclusive /\ Pins)'
  BY OwnedStep, PinsStep
<1> QED BY <1>1, <1>2, PinsSuffice, PTL DEF Spec

-----------------------------------------------------------------------------
(***************************************************************************)
(* Where a command stands.                                                 *)
(***************************************************************************)

Stands(c) ==
  /\ c.pc \in Publishing =>
       install[c.app] = [active |-> c.rec, previous |-> c.disp]
  /\ c.pc \in {"desktop", "drop"} => exports[c.app] \in {None, c.rec}
  /\ c.pc \in Dismantling => exports[c.app] = None

LEMMA ProgressBegin ==
  ASSUME TypeOK, Owned, Progress, NEW p \in Proc, Begin(p)
  PROVE  Progress'
<1> USE DEF Publishing, Dismantling
<1>1. \A q \in Proc : Stands(proc[q])
  BY DEF Progress, Stands
<1>2. ASSUME NEW q \in Proc, proc'[q] = proc[q]
      PROVE  Stands(proc[q])'
  BY <1>1, <1>2, BeginFrame DEF Stands
<1>3. Stands(proc[p])'
  <2>1. CASE proc'[p] = proc[p]
    BY <2>1, <1>2
  <2>2. CASE proc'[p] # proc[p]
    <3>1. proc'[p].pc \in {"compose", "stage", "undesktop", "unstore", "collect"}
      BY <2>2, BeginFrame DEF BeginsOn, Removes, Collects, Idle
    <3> QED BY <3>1 DEF Stands
  <2> QED BY <2>1, <2>2
<1>4. \A q \in Proc : Stands(proc[q])'
  BY <1>2, <1>3, BeginFrame
<1> QED BY <1>4 DEF Progress, Stands

\* The other commands are on other apps.
LEMMA OthersElsewhere ==
  ASSUME TypeOK, Owned, Exclusive, NEW p \in Proc, Continue(p) \/ Interrupt(p),
         NEW q \in Proc \ {p}, proc[q].pc \notin {"idle", "unstore"}
  PROVE  /\ proc'[q] = proc[q]
         /\ proc[q].app \in App \ {proc[p].app}
         /\ install'[proc[q].app] = install[proc[q].app]
         /\ exports'[proc[q].app] = exports[proc[q].app]
         /\ proc[q].app \in damaged' <=> proc[q].app \in damaged
         /\ \A g \in Generation : g.app = proc[q].app => runtimes'[g] = runtimes[g]
<1>1. Working(p) /\ Working(q) /\ proc'[q] = proc[q]
  BY ContinueFrame DEF Working
<1>2. proc[q].app \in App \ {proc[p].app}
  BY <1>1 DEF Owned, Exclusive
<1> QED BY <1>1, <1>2, ContinueFrame DEF Elsewhere

LEMMA ProgressContinue ==
  ASSUME TypeOK, Owned, Exclusive, Progress, NEW p \in Proc,
         Continue(p) \/ Interrupt(p)
  PROVE  Progress'
<1> USE DEF Publishing, Dismantling, At, Points
<1>1. \A q \in Proc : Stands(proc[q])
  BY DEF Progress, Stands
<1>2. ASSUME NEW q \in Proc \ {p}
      PROVE  Stands(proc[q])'
  <2>1. CASE proc[q].pc \in {"idle", "unstore"}
    BY <2>1, ContinueFrame DEF Stands
  <2>2. CASE proc[q].pc \notin {"idle", "unstore"}
    BY <1>1, <2>2, OthersElsewhere DEF Stands
  <2> QED BY <2>1, <2>2
<1>3. Stands(proc[p])'
  <2>0. /\ Stands(proc[p])
        /\ proc[p].pc \notin {"idle", "unstore"} => proc[p].app \in App
        /\ install \in [App -> [active: Maybe(Generation), previous: Maybe(Generation)]]
        /\ exports \in [App -> Maybe(Generation)]
    BY <1>1 DEF TypeOK, Owned
  <2>1. CASE proc'[p] = Idle
    BY <2>1 DEF Stands, Idle
  <2>2. CASE \/ Resolve(p) \/ WriteLock(p) \/ Build(p) \/ RenameRuntime(p)
             \/ Stage(p) \/ Unlink(p) \/ RemoveDesktop(p) \/ Collect(p)
    BY <2>2, <2>1, ProcGoto, ProcStop
       DEF Resolve, WriteLock, Build, RenameRuntime, Stage, Unlink,
           RemoveDesktop, Collect, Stands
  <2>3. CASE Rename(p)
    BY <2>0, <2>1, <2>3, ProcGoto, ProcStop DEF Rename, Recorded, Stands
  <2>4. CASE Publish(p)
    BY <2>0, <2>1, <2>4, ProcGoto, ProcStop DEF Publish, Stands
  <2>5. CASE Link(p)
    BY <2>0, <2>1, <2>5, ProcGoto, ProcStop DEF Link, Stands
  <2>6. CASE PublishDesktop(p)
    BY <2>0, <2>1, <2>6, ProcGoto, ProcStop DEF PublishDesktop, Stands
  <2>7. CASE DropOlder(p)
    BY <2>0, <2>1, <2>7, ProcStop DEF DropOlder, Stands
  <2>8. CASE RemoveExports(p)
    BY <2>0, <2>8, ProcGoto DEF RemoveExports, Stands
  <2>9. CASE ReapRuntimes(p)
    BY <2>0, <2>9, ProcGoto DEF ReapRuntimes, Stands
  <2>10. CASE ForgetRecords(p)
    BY <2>0, <2>1, <2>10, ProcStop DEF ForgetRecords, Stands
  <2> QED
    BY <2>1, <2>2, <2>3, <2>4, <2>5, <2>6, <2>7, <2>8, <2>9, <2>10, ProcStop
       DEF Continue, RemoveOne, Interrupt
<1> QED BY <1>2, <1>3 DEF Progress, Stands

-----------------------------------------------------------------------------
(***************************************************************************)
(* One build at a time.                                                    *)
(***************************************************************************)

\* A command that starts to build, or that cleans temporary runtimes, found
\* nobody building.
LEMMA BeginBuilding ==
  ASSUME TypeOK, Owned, NEW p \in Proc, Begin(p)
  PROVE  /\ UNCHANGED composed \/ MayBuild(p)
         /\ proc'[p].pc \in Building => MayBuild(p)
         /\ proc'[p].pc # "rename_runtime"
<1>1. proc'[p].pc # "rename_runtime"
  BY BeginFrame DEF Working, BeginsOn, Removes, Collects, Idle
<1>2. CASE MayBuild(p)
  BY <1>1, <1>2
<1>3. CASE ~MayBuild(p)
  <2>0. proc \in [Proc -> Commands] /\ proc[p].pc = "idle"
    BY BeginFrame DEF TypeOK, Working
  <2>1. ASSUME NEW a \in App, Rollback(p, a) \/ Uninstall(p, a)
        PROVE  UNCHANGED composed /\ proc'[p].pc \notin Building
    BY <2>0, <2>1 DEF Rollback, Uninstall, Run, Building
  <2>2. ASSUME NEW k \in Package, StoreRemove(p, k)
        PROVE  UNCHANGED composed /\ proc'[p].pc \notin Building
    BY <2>0, <2>2 DEF StoreRemove, Idle, Building
  <2>3. CASE Housekeep(p)
    BY <2>0, <2>3 DEF Housekeep, Building
  <2> QED
    BY <1>1, <1>3, <2>1, <2>2, <2>3 DEF Begin, Install, Update, Gc, ListRuntimes
<1> QED BY <1>2, <1>3

LEMMA BuildsBegin ==
  ASSUME BuildsAlone, TypeOK, Owned, Builds, NEW p \in Proc, Begin(p)
  PROVE  Builds'
<1>1. \A q \in Proc \ {p} : proc'[q] = proc[q]
  BY BeginFrame
<1>2. MayBuild(p) => \A q \in Proc \ {p} : proc[q].pc \notin Building
  BY DEF BuildsAlone, MayBuild
<1>3. \A q, r \in Proc : q # r =>
         ~(proc'[q].pc \in Building /\ proc'[r].pc \in Building)
  BY <1>1, <1>2, BeginBuilding DEF Builds
<1>4. \A q \in Proc : proc'[q].pc = "rename_runtime" => composed'[q] = "whole"
  BY <1>1, <1>2, BeginBuilding DEF Builds, Building
<1> QED BY <1>3, <1>4 DEF Builds

LEMMA BuildsContinue ==
  ASSUME TypeOK, Owned, Builds, NEW p \in Proc, Continue(p) \/ Interrupt(p)
  PROVE  Builds'
<1> USE DEF Building, At, Points
<1>0. /\ proc \in [Proc -> Commands]
      /\ composed \in [Proc -> {"none", "torn", "whole"}]
      /\ \A q \in Proc \ {p} : proc'[q] = proc[q]
  BY ContinueFrame DEF TypeOK
<1>1. CASE Build(p)
  <2>1. proc'[p].pc = "rename_runtime" => composed'[p] = "whole"
    BY <1>1, ProcGoto, ProcStop DEF Build, CleanupTmpRuntimes, Idle
  <2>2. \A q \in Proc \ {p} : proc'[q].pc \notin Building
    BY <1>0, <1>1 DEF Build, Builds
  <2> QED BY <2>1, <2>2 DEF Builds
<1>2. CASE RenameRuntime(p)
  <2>1. \A q \in Proc \ {p} : proc'[q].pc \notin Building
    BY <1>0, <1>2 DEF RenameRuntime, Builds
  <2>2. proc'[p].pc # "rename_runtime"
    BY <1>2, ProcGoto, ProcStop DEF RenameRuntime, Idle
  <2> QED BY <2>1, <2>2 DEF Builds
<1>3. CASE ~Build(p) /\ ~RenameRuntime(p)
  <2>1. /\ UNCHANGED composed
        /\ proc'[p].pc \in Building => proc[p].pc \in Building
        /\ proc'[p].pc # "rename_runtime"
    <3>1. CASE proc'[p] = Idle /\ UNCHANGED composed
      BY <3>1 DEF Idle
    <3>2. CASE Resolve(p) \/ WriteLock(p) \/ Stage(p) \/ Unlink(p) \/ Rename(p)
               \/ Publish(p) \/ Link(p) \/ PublishDesktop(p)
      BY <3>1, <3>2, ProcGoto, ProcStop
         DEF Resolve, WriteLock, Stage, Unlink, Rename, Publish, Link,
             PublishDesktop
    <3>3. CASE DropOlder(p) \/ RemoveDesktop(p) \/ RemoveExports(p) \/ ReapRuntimes(p)
               \/ ForgetRecords(p) \/ RemoveOne(p) \/ Collect(p) \/ Interrupt(p)
      BY <3>1, <3>3, ProcGoto, ProcStop
         DEF DropOlder, RemoveDesktop, RemoveExports, ReapRuntimes, ForgetRecords,
             RemoveOne, Collect, Interrupt
    <3> QED BY <1>3, <3>2, <3>3 DEF Continue
  <2> QED BY <1>0, <2>1 DEF Builds
<1> QED BY <1>1, <1>2, <1>3

-----------------------------------------------------------------------------
(***************************************************************************)
(* Runtimes of the records.                                                *)
(***************************************************************************)

RunClaims(c) ==
  /\ c.pc \in Building \union Switching /\ c.app \notin damaged => Whole(c.disp)
  /\ c.pc \in Switching \union Publishing
       /\ (c.app \notin damaged \/ c.disp = None) => Whole(c.rec)
  /\ c.pc = "collect" /\ c.app \notin damaged =>
       c.rec \notin {install[c.app].active, install[c.app].previous}

\* A command that begins on app a finds no other taking it down.
LEMMA NobodyDismantles ==
  ASSUME Disciplined, Owned, NEW p \in Proc, NEW a \in App,
         MayWork(p, a) \/ MaySweep(p), a \notin damaged
  PROVE  ~Dismantled(a)
BY DEF Disciplined, Dismantled, Dismantling, MayWork, MaySweep, At

\* Only the command at work on an app can be taking it down.
LEMMA DismantledHere ==
  ASSUME Owned, Exclusive, NEW p \in Proc, Working(p), NEW a \in App,
         a = proc[p].app
  PROVE  Dismantled(a) <=> a \in damaged \/ proc[p].pc \in Dismantling
BY DEF Exclusive, Dismantled, Dismantling, Working

LEMMA RuntimesBegin ==
  ASSUME Disciplined, TypeOK, Owned, Pins, Runtimes, NEW p \in Proc, Begin(p)
  PROVE  Runtimes'
<1> USE DEF Building, Switching, Publishing
<1>0. \A a \in App : Dismantled(a)' <=> Dismantled(a)
  BY BeginFrame DEF Dismantled, Dismantling, Working, BeginsOn, Removes, Collects, Idle
<1>1. \A g : Whole(g)' <=> Whole(g)
  BY BeginFrame DEF Whole
<1>2. \A a \in App : ~Dismantled(a)' =>
         Whole(install[a].active)' /\ Whole(install[a].previous)'
  BY <1>0, <1>1, BeginFrame DEF Runtimes
<1>3. ASSUME NEW q \in Proc, proc'[q] = proc[q]
      PROVE  RunClaims(proc[q])'
  BY <1>1, <1>3, BeginFrame DEF Runtimes, RunClaims
<1>4. RunClaims(proc[p])'
  <2>1. CASE proc'[p] = proc[p]
    BY <2>1, <1>3
  <2>2. ASSUME NEW a \in App, BeginsOn(p, a)
        PROVE  RunClaims(proc[p])'
    <3>1. a \notin damaged => ~Dismantled(a)
      BY <2>2, NobodyDismantles DEF BeginsOn
    <3>2. a \notin damaged => Whole(install[a].active)' /\ Whole(install[a].previous)'
      BY <3>1, <1>0, <1>2
    <3>3. UNCHANGED <<install, damaged>>
      BY BeginFrame
    <3> QED BY <2>2, <3>2, <3>3 DEF BeginsOn, RunClaims
  <2>3. ASSUME NEW k \in Package, Removes(p, k)
        PROVE  RunClaims(proc[p])'
    BY <2>3 DEF Removes, RunClaims, Idle
  <2>4. ASSUME NEW g \in Generation, Collects(p, g)
        PROVE  RunClaims(proc[p])'
    <3>1. g.app \in App /\ g # None
      BY RootIsPackage, ConstantsAssumption
    <3>2. g.app \notin damaged => ~Dismantled(g.app)
      BY <2>4, <3>1, NobodyDismantles DEF Collects
    <3>3. ~(Whole(g) /\ InStore(g))
      BY <2>4, <3>1 DEF Collects, Broken, Whole, InStore
    <3>4. g.app \notin damaged =>
             g \notin {install[g.app].active, install[g.app].previous}
      BY <3>1, <3>2, <3>3 DEF Runtimes, Pins
    <3> QED BY <2>4, <3>4, BeginFrame DEF Collects, RunClaims
  <2> QED BY <2>1, <2>2, <2>3, <2>4, BeginFrame
<1>5. \A q \in Proc : RunClaims(proc[q])'
  BY <1>3, <1>4, BeginFrame
<1> QED BY <1>2, <1>5 DEF Runtimes, RunClaims

\* The apps and the commands a step is not about.
LEMMA RuntimesElsewhere ==
  ASSUME TypeOK, Owned, Exclusive, Runtimes, NEW p \in Proc,
         Continue(p) \/ Interrupt(p)
  PROVE  /\ \A a \in App \ {proc[p].app} : ~Dismantled(a)' =>
              Whole(install[a].active)' /\ Whole(install[a].previous)'
         /\ \A q \in Proc \ {p} : RunClaims(proc[q])'
<1> USE DEF Building, Switching, Publishing
<1>a. None \notin Generation
  BY ConstantsAssumption
<1>b. ASSUME NEW a \in App \ {proc[p].app}, NEW g \in Maybe(Generation),
             Of(g, a), Whole(g)
      PROVE  Whole(g)'
  BY <1>a, <1>b, ContinueFrame DEF Elsewhere, Whole, Of, Maybe
<1>1. ASSUME NEW a \in App \ {proc[p].app}, ~Dismantled(a)'
      PROVE  Whole(install[a].active)' /\ Whole(install[a].previous)'
  <2>1. ~Dismantled(a)
    BY <1>1, ContinueFrame DEF Dismantled, Dismantling, Elsewhere
  <2>2. Whole(install[a].active)' /\ Whole(install[a].previous)'
    <3>1. install'[a] = install[a]
      BY ContinueFrame DEF Elsewhere
    <3>2. /\ Whole(install[a].active) /\ Whole(install[a].previous)
          /\ Of(install[a].active, a) /\ Of(install[a].previous, a)
      BY <2>1 DEF Runtimes, Owned
    <3>3. install[a].active \in Maybe(Generation) /\ install[a].previous \in Maybe(Generation)
      BY RecordFields
    <3>4. \A g \in {install[a].active, install[a].previous} : Whole(g)'
      BY <1>b, <3>2, <3>3
    <3> QED BY <3>1, <3>4
  <2> QED BY <2>2
<1>2. ASSUME NEW q \in Proc \ {p}
      PROVE  RunClaims(proc[q])'
  <2>1. CASE proc[q].pc \in {"idle", "unstore"}
    BY <2>1, ContinueFrame DEF RunClaims
  <2>2. CASE proc[q].pc \notin {"idle", "unstore"}
    <3>1. /\ RunClaims(proc[q])
          /\ Of(proc[q].rec, proc[q].app) /\ Of(proc[q].disp, proc[q].app)
          /\ proc[q].rec \in Maybe(Generation) /\ proc[q].disp \in Maybe(Generation)
          /\ proc[q].app \in App \ {proc[p].app}
      BY <2>2, CommandFields, OthersElsewhere DEF Runtimes, RunClaims, Owned, Maybe
    <3>2. \A g \in {proc[q].rec, proc[q].disp} : Whole(g) => Whole(g)'
      BY <1>b, <3>1
    <3> QED BY <2>2, <3>1, <3>2, OthersElsewhere DEF RunClaims
  <2> QED BY <2>1, <2>2
<1> QED BY <1>1, <1>2

\* The app a step is about, and its command.
LEMMA RuntimesHere ==
  ASSUME TypeOK, Owned, Exclusive, Builds, Progress, Runtimes, NEW p \in Proc,
         Continue(p) \/ Interrupt(p), NEW a \in App, a = proc[p].app
  PROVE  /\ ~Dismantled(a)' =>
              Whole(install[a].active)' /\ Whole(install[a].previous)'
         /\ RunClaims(proc[p])'
<1> USE DEF Building, Switching, Publishing, Dismantling, At, Points
<1> DEFINE Kept == Whole(install[a].active) /\ Whole(install[a].previous)
<1>0. /\ proc \in [Proc -> Commands]
      /\ install \in [App -> [active: Maybe(Generation), previous: Maybe(Generation)]]
      /\ runtimes \in [Generation -> {"absent", "torn", "whole"}]
      /\ None \notin Generation
      /\ Working(p) /\ RunClaims(proc[p])
      /\ proc[p].pc # "unstore" /\ proc[p].rec \in Generation
      /\ a \notin damaged /\ proc[p].pc \notin Dismantling => Kept
  <2>1. Working(p) /\ RunClaims(proc[p])
    BY ContinueFrame DEF Runtimes, RunClaims
  <2>2. a # None
    BY ConstantsAssumption
  <2>3. proc[p].pc # "unstore" /\ proc[p].rec \in Generation
    BY <2>1, <2>2 DEF Owned, Working
  <2>4. a \notin damaged /\ proc[p].pc \notin Dismantling => Kept
    BY <2>1, DismantledHere DEF Runtimes
  <2> QED BY <2>1, <2>3, <2>4, ConstantsAssumption DEF TypeOK
<1>1. ~Dismantled(a)' =>
        /\ a \notin damaged'
        /\ proc'[p].app = a => proc'[p].pc \notin Dismantling
  BY DEF Dismantled
<1>2. proc'[p] = Idle => RunClaims(proc[p])'
  BY DEF RunClaims, Idle
<1>3. ASSUME NEW g, NEW d, g # d, g \in Maybe(Generation), Whole(g), DeleteRuntime(d)
      PROVE  Whole(g)'
  BY <1>3, DeleteRuntimeFrame DEF Whole, Maybe
<1>4. /\ install[a].active \in Maybe(Generation)
      /\ install[a].previous \in Maybe(Generation)
      /\ proc[p].disp \in Maybe(Generation) /\ proc[p].rec \in Maybe(Generation)
  BY RecordFields, CommandFields DEF Maybe
\* Steps that change neither records nor runtimes nor damage.
<1>5. CASE /\ \/ Resolve(p) \/ WriteLock(p) \/ Stage(p) \/ Publish(p) \/ Link(p)
              \/ PublishDesktop(p) \/ RemoveDesktop(p) \/ RemoveExports(p)
           /\ UNCHANGED <<install, runtimes, damaged>>
  <2>1. ~Dismantled(a)' => Kept'
    <3>1. proc[p].pc \notin Dismantling
      BY <1>5 DEF Resolve, WriteLock, Stage, Publish, Link, PublishDesktop,
                  RemoveDesktop, RemoveExports
    <3> QED BY <1>0, <1>1, <1>5, <3>1 DEF Whole
  <2>2. RunClaims(proc[p])'
    <3>1. /\ proc[p].pc \in Switching \union Publishing =>
               proc'[p].pc \notin Building
          /\ proc'[p].pc \in Switching => proc[p].pc \in Switching
          /\ proc'[p].pc \in Publishing => proc[p].pc \in Publishing
          /\ proc'[p].pc \in Building => proc[p].pc \in Building
          /\ proc'[p].pc # "collect"
          /\ proc'[p].pc # "idle" => /\ proc'[p].app = proc[p].app
                                     /\ proc'[p].rec = proc[p].rec
                                     /\ proc'[p].disp = proc[p].disp
      <4>1. CASE Resolve(p) \/ WriteLock(p)
        BY <4>1, ProcGoto, ProcStop, SMTT(30) DEF Resolve, WriteLock, Idle
      <4>2. CASE Stage(p) \/ Publish(p)
        BY <4>2, ProcGoto, ProcStop, SMTT(30) DEF Stage, Publish, Idle
      <4>3. CASE Link(p) \/ PublishDesktop(p)
        BY <4>3, ProcGoto, ProcStop, SMTT(30) DEF Link, PublishDesktop, Idle
      <4>4. CASE RemoveDesktop(p) \/ RemoveExports(p)
        BY <4>4, ProcGoto, ProcStop, SMTT(30) DEF RemoveDesktop, RemoveExports, Idle
      <4> QED BY <1>5, <4>1, <4>2, <4>3, <4>4
    <3>2. UNCHANGED <<runtimes, damaged>>
      BY <1>5
    <3> QED BY <1>0, <3>1, <3>2 DEF RunClaims, Whole
  <2> QED BY <2>1, <2>2
<1>6. CASE Build(p)
  <2>1. \A g \in Maybe(Generation) : Whole(g) => Whole(g)'
    BY <1>0, <1>6 DEF Build, Whole, Maybe
  <2>2. UNCHANGED <<install, damaged>> /\ proc[p].pc = "build"
    BY <1>6 DEF Build
  <2>3. ~Dismantled(a)' => Kept'
    BY <1>0, <1>1, <1>4, <2>1, <2>2
  <2>4. RunClaims(proc[p])'
    <3>1. CASE proc'[p].pc = "stage"
      <4>1. /\ runtimes[proc[p].rec] = "whole" /\ UNCHANGED runtimes
            /\ proc'[p].app = proc[p].app /\ proc'[p].rec = proc[p].rec
            /\ proc'[p].disp = proc[p].disp
        BY <1>6, <3>1, ProcGoto, ProcStop DEF Build, Idle
      <4> QED BY <1>0, <2>2, <3>1, <4>1 DEF RunClaims, Whole
    <3>2. CASE proc'[p].pc # "stage"
      BY <1>0, <1>2, <1>4, <1>6, <2>1, <2>2, <3>2, ProcGoto, ProcStop
         DEF Build, RunClaims
    <3> QED BY <3>1, <3>2
  <2> QED BY <2>3, <2>4
<1>7. CASE RenameRuntime(p)
  <2>1. \A g \in Maybe(Generation) : Whole(g) => Whole(g)'
    BY <1>0, <1>7 DEF RenameRuntime, Whole, Maybe
  <2>2. UNCHANGED <<install, damaged>> /\ proc[p].pc = "rename_runtime"
    BY <1>7 DEF RenameRuntime
  <2>3. ~Dismantled(a)' => Kept'
    BY <1>0, <1>1, <1>4, <2>1, <2>2
  <2>4. RunClaims(proc[p])'
    <3>1. CASE proc'[p].pc = "stage"
      <4>1. /\ runtimes'[proc[p].rec] = "whole"
            /\ proc'[p].app = proc[p].app /\ proc'[p].rec = proc[p].rec
            /\ proc'[p].disp = proc[p].disp
        BY <1>0, <1>7, <3>1, ProcGoto, ProcStop DEF Builds, RenameRuntime, Idle
      <4> QED BY <1>0, <1>4, <2>1, <2>2, <3>1, <4>1 DEF RunClaims, Whole
    <3>2. CASE proc'[p].pc # "stage"
      BY <1>2, <1>7, <3>2, ProcGoto, ProcStop DEF RenameRuntime
    <3> QED BY <3>1, <3>2
  <2> QED BY <2>3, <2>4
<1>8. CASE Unlink(p)
  <2>1. UNCHANGED <<runtimes, damaged>> /\ proc[p].pc = "unlink"
    BY <1>8 DEF Unlink
  <2>2. /\ install'[a].active \in {install[a].active, None}
        /\ install'[a].previous \in {install[a].previous, None}
    BY <1>8, DeleteRecordFileFrame DEF Unlink
  <2>3. ~Dismantled(a)' => Kept'
    BY <1>0, <1>1, <2>1, <2>2 DEF Whole
  <2>4. RunClaims(proc[p])'
    BY <1>0, <1>8, <2>1, ProcGoto DEF Unlink, RunClaims, Whole
  <2> QED BY <2>3, <2>4
<1>9. CASE Rename(p)
  <2>1. CASE proc'[p] = Idle
    <3>1. UNCHANGED <<install, runtimes, damaged>> /\ proc[p].pc = "rename"
      BY <1>9, <2>1, ProcGoto DEF Rename, Idle
    <3> QED BY <1>0, <1>1, <1>2, <2>1, <3>1 DEF Whole
  <2>2. CASE proc'[p] # Idle
    <3>1. /\ install'[a] = [active |-> proc[p].rec, previous |-> proc[p].disp]
          /\ UNCHANGED <<runtimes, damaged>> /\ proc[p].pc = "rename"
          /\ proc'[p].pc = "publish" /\ proc'[p].app = proc[p].app
          /\ proc'[p].rec = proc[p].rec /\ proc'[p].disp = proc[p].disp
      BY <1>0, <1>9, <2>2, ProcGoto, ProcStop DEF Rename, Recorded
    <3> QED BY <1>0, <1>1, <3>1 DEF RunClaims, Whole
  <2> QED BY <2>1, <2>2
<1>10. CASE DropOlder(p)
  <2>0. /\ proc[p].pc = "drop" /\ UNCHANGED install
        /\ install[a] = [active |-> proc[p].rec, previous |-> proc[p].disp]
    BY <1>10 DEF DropOlder, Progress
  <2>1. CASE proc'[p] = Idle /\ UNCHANGED runtimes
    <3>1. a \notin damaged' => a \notin damaged \/ proc[p].disp = None
      BY <1>10, <2>1, <1>0 DEF DropOlder, Idle
    <3>2. a \notin damaged' => Kept
      BY <1>0, <2>0, <3>1 DEF RunClaims, Whole
    <3> QED BY <1>1, <1>2, <2>0, <2>1, <3>2 DEF Whole
  <2>2. CASE /\ UNCHANGED <<proc, damaged>>
             /\ Superseded(p) # None /\ DeleteRuntime(Superseded(p))
    <3>1. proc[p].rec # Superseded(p) /\ proc[p].disp # Superseded(p)
      BY <2>2 DEF Superseded
    <3>2. /\ Whole(proc[p].rec) => Whole(proc[p].rec)'
          /\ Whole(proc[p].disp) => Whole(proc[p].disp)'
      BY <1>3, <1>4, <2>2, <3>1
    <3>3. ~Dismantled(a)' => Kept'
      BY <1>0, <1>1, <2>0, <2>2, <3>2
    <3>4. RunClaims(proc[p])'
      BY <1>0, <2>0, <2>2, <3>2 DEF RunClaims
    <3> QED BY <3>3, <3>4
  <2> QED BY <1>10, <2>1, <2>2, ProcStop DEF DropOlder
<1>11. CASE ReapRuntimes(p)
  <2>1. /\ proc'[p].app = a /\ proc'[p].pc \in Dismantling
    BY <1>11, ProcGoto DEF ReapRuntimes
  <2> QED BY <1>1, <2>1 DEF RunClaims
<1>12. CASE ForgetRecords(p)
  <2>1. CASE proc'[p] = Idle /\ install[a] = Blank /\ UNCHANGED install
    BY <1>2, <2>1 DEF Blank, Whole
  <2>2. CASE UNCHANGED proc
    BY <1>1, <1>12, <2>2 DEF ForgetRecords, RunClaims
  <2> QED BY <1>12, <2>1, <2>2, ProcStop DEF ForgetRecords
<1>13. CASE Collect(p)
  <2>0. /\ proc[p].pc = "collect" /\ UNCHANGED <<install, damaged>>
    BY <1>13 DEF Collect
  <2>1. CASE UNCHANGED proc /\ DeleteRuntime(proc[p].rec)
    <3>1. a \notin damaged => install[a].active # proc[p].rec /\ install[a].previous # proc[p].rec
      BY <1>0, <2>0 DEF RunClaims
    <3>2. ~Dismantled(a)' => Kept'
      BY <1>0, <1>1, <1>3, <1>4, <2>0, <2>1, <3>1
    <3> QED BY <1>0, <2>0, <2>1, <3>2 DEF RunClaims
  <2>2. CASE proc'[p] = Idle /\ UNCHANGED runtimes
    BY <1>0, <1>1, <1>2, <2>0, <2>2 DEF Whole
  <2> QED BY <1>13, <2>1, <2>2, ProcStop DEF Collect
<1>14. CASE Interrupt(p)
  <2>1. proc'[p] = Idle /\ UNCHANGED <<install, runtimes>>
    BY <1>14, ProcStop DEF Interrupt
  <2>2. a \notin damaged' => a \notin damaged /\ proc[p].pc \notin Dismantling
    BY <1>14 DEF Interrupt, Dismantling
  <2> QED BY <1>0, <1>1, <1>2, <2>1, <2>2 DEF Whole
<1> QED
  BY <1>0, <1>5, <1>6, <1>7, <1>8, <1>9, <1>10, <1>11, <1>12, <1>13, <1>14
     DEF Continue, Resolve, WriteLock, Stage, Publish, Link, PublishDesktop,
         RemoveDesktop, RemoveExports, RemoveOne

LEMMA RuntimesContinue ==
  ASSUME TypeOK, Owned, Exclusive, Builds, Progress, Runtimes, NEW p \in Proc,
         Continue(p) \/ Interrupt(p)
  PROVE  Runtimes'
<1>1. \A q \in Proc : RunClaims(proc[q])'
  <2>1. CASE proc[p].app \in App
    BY <2>1, RuntimesElsewhere, RuntimesHere
  <2>2. CASE proc[p].app \notin App
    <3>1. proc[p].pc = "unstore"
      BY <2>2, ContinueFrame DEF Owned, Working
    <3>2. RunClaims(proc[p])'
      BY <3>1, ContinueFrame DEF SameCommand, RunClaims, Idle, Building,
         Switching, Publishing
    <3> QED BY <3>2, RuntimesElsewhere
  <2> QED BY <2>1, <2>2
<1>2. \A a \in App : ~Dismantled(a)' =>
         Whole(install[a].active)' /\ Whole(install[a].previous)'
  BY RuntimesElsewhere, RuntimesHere
<1> QED BY <1>1, <1>2 DEF Runtimes, RunClaims

-----------------------------------------------------------------------------
(***************************************************************************)
(* Runtimes of the exports.                                                *)
(***************************************************************************)

LEMMA ExportsBegin ==
  ASSUME TypeOK, Owned, NEW p \in Proc, Begin(p), NEW a \in App, Startable(a)
  PROVE  Startable(a)'
<1> USE DEF Dismantling
<1>1. Dismantled(a)' <=> Dismantled(a)
  BY BeginFrame DEF Dismantled, Working, BeginsOn, Removes, Collects, Idle
<1> QED BY <1>1, BeginFrame DEF Startable

LEMMA ExportsHere ==
  ASSUME TypeOK, Owned, Exclusive, Builds, Progress, Runtimes,
         NEW p \in Proc, Continue(p) \/ Interrupt(p),
         NEW a \in App, a = proc[p].app, Startable(a),
         ~(proc[p].pc = "collect" /\ proc[p].rec = exports[a]), ~Dismantled(a)'
  PROVE  Whole(exports[a])'
<1> USE DEF Building, Switching, Publishing, Dismantling, At, Points
<1>0. /\ proc \in [Proc -> Commands]
      /\ exports \in [App -> Maybe(Generation)]
      /\ exports[a] \in Maybe(Generation)
      /\ runtimes \in [Generation -> {"absent", "torn", "whole"}]
      /\ None \notin Generation
      /\ RunClaims(proc[p]) /\ Stands(proc[p])
      /\ proc[p].pc \notin {"idle", "unstore"}
      /\ proc[p].rec \in Generation
      /\ a \notin damaged /\ proc[p].pc \notin Dismantling => Whole(exports[a])
  <2>1. Working(p) /\ RunClaims(proc[p]) /\ Stands(proc[p])
    BY ContinueFrame DEF Runtimes, RunClaims, Progress, Stands
  <2>2. proc[p].pc \notin {"idle", "unstore"} /\ proc[p].rec \in Generation
    BY <2>1, ConstantsAssumption DEF Owned, Working
  <2>3. a \notin damaged /\ proc[p].pc \notin Dismantling => Whole(exports[a])
    BY <2>1, DismantledHere DEF Startable, Whole
  <2> QED BY <2>1, <2>2, <2>3, ConstantsAssumption DEF TypeOK
<1>1. /\ a \notin damaged'
      /\ proc'[p].app = a => proc'[p].pc \notin Dismantling
  BY DEF Dismantled
<1>2. CASE UNCHANGED <<exports, runtimes>>
  <2>1. CASE a \notin damaged /\ proc[p].pc \notin Dismantling
    BY <1>0, <1>2, <2>1 DEF Whole
  <2>2. CASE DropOlder(p)
    BY <1>0, <1>1, <1>2, <2>2 DEF DropOlder, Stands, RunClaims, Whole
  <2>3. CASE ReapRuntimes(p)
    BY <1>1, <2>3, ProcGoto DEF ReapRuntimes
  <2>4. CASE ForgetRecords(p)
    BY <1>0, <1>2, <2>4 DEF ForgetRecords, Stands, Whole
  <2>5. CASE Interrupt(p)
    BY <1>1, <2>1, <2>5 DEF Interrupt, Dismantling
  <2>6. CASE Rename(p)
    BY <1>1, <2>1, <2>6 DEF Rename
  <2> QED
    BY <1>0, <1>1, <2>1, <2>2, <2>3, <2>4, <2>5, <2>6
       DEF Continue, Resolve, WriteLock, Build, RenameRuntime, Stage, Unlink,
           Publish, Link, PublishDesktop, RemoveDesktop, RemoveExports,
           RemoveOne, Collect
<1>3. CASE Build(p) \/ RenameRuntime(p)
  <2>1. Whole(exports[a])
    BY <1>0, <1>1, <1>3 DEF Build, RenameRuntime
  <2> QED BY <1>0, <1>3, <2>1 DEF Build, RenameRuntime, Whole, Maybe
<1>4. CASE Publish(p) \/ RemoveExports(p)
  <2>1. CASE exports'[a] = None
    BY <2>1 DEF Whole
  <2>2. CASE UNCHANGED exports
    BY <1>2, <1>4, <2>2 DEF Publish, RemoveExports
  <2> QED BY <1>0, <1>4, <2>1, <2>2 DEF Publish, RemoveExports
<1>5. CASE Link(p)
  <2>1. CASE UNCHANGED exports
    BY <1>2, <1>5, <2>1 DEF Link
  <2>2. CASE exports'[a] = proc[p].rec
    <3>1. UNCHANGED <<runtimes, damaged>> /\ proc[p].pc = "link"
      BY <1>5 DEF Link
    <3> QED BY <1>0, <1>1, <2>2, <3>1 DEF RunClaims, Whole
  <2> QED BY <1>0, <1>5, <2>1, <2>2 DEF Link
<1>6. CASE DropOlder(p) /\ DeleteRuntime(Superseded(p))
  <2>1. /\ proc[p].pc = "drop" /\ UNCHANGED exports
        /\ exports[a] \in {None, proc[p].rec}
        /\ proc[p].rec # Superseded(p) \/ Superseded(p) = None
    BY <1>0, <1>6 DEF DropOlder, Stands, Superseded
  <2>2. CASE Superseded(p) # None /\ UNCHANGED damaged
    <3>1. Whole(exports[a]) /\ exports[a] # Superseded(p)
      BY <1>0, <1>1, <2>1, <2>2
    <3>2. exports[a] # None => runtimes'[exports[a]] = runtimes[exports[a]]
      BY <1>0, <1>6, <3>1, DeleteRuntimeFrame DEF Maybe
    <3> QED BY <2>1, <3>1, <3>2 DEF Whole
  <2>3. CASE UNCHANGED runtimes
    BY <1>2, <2>1, <2>3
  <2> QED BY <1>6, <2>2, <2>3 DEF DropOlder
<1>7. CASE ReapRuntimes(p)
  BY <1>1, <1>7, ProcGoto DEF ReapRuntimes
<1>8. CASE Collect(p) /\ DeleteRuntime(proc[p].rec)
  <2>1. proc[p].pc = "collect" /\ UNCHANGED <<exports, damaged>>
    BY <1>8 DEF Collect
  <2>2. Whole(exports[a]) /\ exports[a] # proc[p].rec
    BY <1>0, <1>1, <2>1
  <2>3. exports[a] # None => runtimes'[exports[a]] = runtimes[exports[a]]
    BY <1>0, <1>8, <2>2, DeleteRuntimeFrame DEF Maybe
  <2> QED BY <2>1, <2>2, <2>3 DEF Whole
<1> QED
  BY <1>0, <1>2, <1>3, <1>4, <1>5, <1>6, <1>7, <1>8
     DEF Continue, Resolve, WriteLock, Stage, Unlink, Rename, PublishDesktop,
         DropOlder, RemoveDesktop, ForgetRecords, RemoveOne, Collect, Interrupt

LEMMA ExportsContinue ==
  ASSUME TypeOK, Owned, Exclusive, Builds, Progress, Runtimes,
         NEW p \in Proc, Continue(p) \/ Interrupt(p), NEW a \in App, Startable(a),
         ~(proc[p].pc = "collect" /\ proc[p].rec = exports[a])
  PROVE  Startable(a)'
<1> SUFFICES ASSUME ~Dismantled(a)' PROVE Whole(exports[a])'
  BY DEF Startable, Whole
<1>1. CASE a # proc[p].app
  <2>1. ~Dismantled(a)
    BY <1>1, ContinueFrame DEF Dismantled, Dismantling, Elsewhere
  <2>2. exports[a] \in Maybe(Generation) /\ Of(exports[a], a) /\ Whole(exports[a])
    BY <2>1 DEF Startable, Whole, Owned, TypeOK
  <2> QED
    BY <1>1, <2>2, ContinueFrame, ConstantsAssumption DEF Elsewhere, Whole, Of, Maybe
<1> QED BY <1>1, ExportsHere

-----------------------------------------------------------------------------
(***************************************************************************)
(* Theorems: what can be launched, rolled back to and started.             *)
(***************************************************************************)

LEMMA RunsInit == Init => Builds /\ Progress /\ Runtimes
BY DEF Init, Builds, Progress, Runtimes, Whole, Building, Switching, Publishing,
       Dismantling, Blank, Idle

LEMMA BuildsStep ==
  ASSUME BuildsAlone, TypeOK, Owned, Builds, [Next]_vars
  PROVE  Builds'
<1>1. CASE UNCHANGED vars
  BY <1>1 DEF vars, Builds
<1> QED BY <1>1, BuildsBegin, BuildsContinue DEF Next

LEMMA RunsStep ==
  ASSUME Disciplined, TypeOK, Owned, Exclusive, Builds, Pins,
         Progress, Runtimes, [Next]_vars
  PROVE  Progress' /\ Runtimes'
<1>1. ASSUME NEW p \in Proc, Begin(p)
      PROVE  Progress' /\ Runtimes'
  BY <1>1, ProgressBegin, RuntimesBegin
<1>2. ASSUME NEW p \in Proc, Continue(p) \/ Interrupt(p)
      PROVE  Progress' /\ Runtimes'
  BY <1>2, ProgressContinue, RuntimesContinue
<1>3. CASE UNCHANGED vars
  BY <1>3 DEF vars, Progress, Runtimes, Whole, Dismantled, Building, Switching,
     Publishing
<1> QED BY <1>1, <1>2, <1>3 DEF Next

\* Under the discipline, an app that no command left half taken down keeps the
\* runtimes of both its records: install and update drop only the generation
\* that neither record names any more, rollback none, and gc spares what is
\* pinned (ops.rs, catalog.rs).
THEOREM RecordsStayRunnable ==
  ASSUME Disciplined, BuildsAlone
  PROVE  Spec => []RecordsRunnable
<1> DEFINE Inv == /\ TypeOK /\ Owned /\ Exclusive /\ Pins
                  /\ Builds /\ Progress /\ Runtimes
<1>1. Init => Inv
  BY TypeInit, OwnedInit, ApartInit, RunsInit
<1>2. Inv /\ [Next]_vars => Inv'
  BY OwnedStep, PinsStep, BuildsStep, RunsStep
<1>3. Inv => RecordsRunnable
  BY DEF Runtimes, RecordsRunnable, Whole
<1> QED BY <1>1, <1>2, <1>3, PTL DEF Spec

\* Under the discipline, a published command that starts from a complete runtime
\* still does after every step of every command and every kill, unless gc is
\* taking that very runtime: the exports move to the new generation before the
\* older runtime goes, and leave an app before its runtimes do (ops.rs,
\* exports.rs).
THEOREM ExportsStayRunnable ==
  ASSUME Disciplined, BuildsAlone
  PROVE  Spec => ExportsStayStartable
<1> DEFINE Inv == /\ TypeOK /\ Owned /\ Exclusive /\ Pins
                  /\ Builds /\ Progress /\ Runtimes
           Spares(a) == \/ Startable(a)'
                        \/ \E p \in Proc : At(p, "collect") /\ proc[p].rec = exports[a]
           Stay == \A a \in App : Startable(a) => Spares(a)
<1>1. Init => Inv
  BY TypeInit, OwnedInit, ApartInit, RunsInit
<1>2. Inv /\ [Next]_vars => Inv'
  BY OwnedStep, PinsStep, BuildsStep, RunsStep
<1>3. Inv /\ [Next]_vars => [Stay]_vars
  <2> SUFFICES ASSUME Inv, NEW p \in Proc, Begin(p) \/ Continue(p) \/ Interrupt(p),
                      NEW a \in App, Startable(a)
               PROVE  Spares(a)
    BY DEF Next
  <2>1. CASE Begin(p)
    BY <2>1, ExportsBegin
  <2>2. CASE Continue(p) \/ Interrupt(p)
    BY <2>2, ExportsContinue DEF At
  <2> QED BY <2>1, <2>2
<1> QED BY <1>1, <1>2, <1>3, PTL DEF Spec, ExportsStayStartable

-----------------------------------------------------------------------------
(***************************************************************************)
(* What finished commands leave.                                           *)
(***************************************************************************)

\* One command at a time.
Alone == \A p, q \in Proc : p = q

\* The points up to which a command has changed only temporary directories.
BeforeChanges == Building \union {"undesktop", "unstore"}

\* The exports and the menu entry of app b are those of g, and no runtimes of
\* the app but those in S are there.
Shows(b, g) ==
  IF g # None /\ HasEntry(g) THEN exports[b] = g /\ desktop[b]
                             ELSE exports[b] = None /\ ~desktop[b]

Remains(b, S) ==
  \A g \in Generation : g.app = b /\ runtimes[g] # "absent" => g \in S

Rested(b) ==
  /\ Shows(b, install[b].active)
  /\ Remains(b, {install[b].active, install[b].previous})
  /\ install[b].active = None => install[b].previous = None

\* What command c has brought about on its app.
Halfway(c) ==
  /\ c.pc \in Building \union {"undesktop"} => Rested(c.app)
  /\ c.pc \in Building => install[c.app] = [active |-> c.disp, previous |-> c.older]
  /\ c.pc = "rename" => install[c.app] = Blank
  /\ c.pc \in Switching \union Publishing => Remains(c.app, {c.rec, c.disp, c.older})
  /\ c.pc = "link" => HasEntry(c.rec)
  /\ c.pc \in {"desktop", "drop"} =>
       exports[c.app] = IF HasEntry(c.rec) THEN c.rec ELSE None
  /\ c.pc = "drop" => desktop[c.app] = HasEntry(c.rec)
  /\ c.pc \in {"undesktop", "unexport", "reap"} => Remains(c.app, {c.rec, c.disp})
  /\ c.pc = "reap_previous" => Remains(c.app, {c.disp} \ {c.rec})
  /\ c.pc = "forget" => Remains(c.app, {})
  /\ c.pc \in {"unexport", "reap", "reap_previous", "forget"} => ~desktop[c.app]
  /\ c.pc # "collect"

Orderly ==
  /\ damaged = {}
  /\ \A b \in App : (\A p \in Proc : proc[p].app # b) => Rested(b)
  /\ \A p \in Proc : Halfway(proc[p])
  /\ \A p \in Proc : proc[p].pc \in {"unlink", "rename"} => staging[p] = "records"

LEMMA OrderlyInit == Init => Orderly
<1> SUFFICES ASSUME Init PROVE Orderly
  OBVIOUS
<1>1. /\ \A b \in App : install[b] = Blank /\ exports[b] = None /\ desktop[b] = FALSE
      /\ \A g \in Generation : runtimes[g] = "absent"
      /\ \A p \in Proc : proc[p] = Idle
      /\ damaged = {}
  BY DEF Init
<1>2. \A b \in App : Rested(b)
  BY <1>1 DEF Rested, Shows, Remains, Blank
<1>3. Idle.pc = "idle"
  BY DEF Idle
<1>4. \A p \in Proc : Halfway(proc[p])
  BY <1>1, <1>3 DEF Halfway, Building, Switching, Publishing
<1>5. QED
  BY <1>1, <1>2, <1>3, <1>4 DEF Orderly

LEMMA RestedStays ==
  ASSUME NEW b \in App, Rested(b), install'[b] = install[b],
         exports'[b] = exports[b], desktop'[b] = desktop[b],
         \A g \in Generation : g.app = b /\ runtimes'[g] # "absent"
                                 => runtimes[g] # "absent"
  PROVE  Rested(b)'
BY DEF Rested, Shows, Remains

LEMMA RemainsStays ==
  ASSUME NEW b \in App, NEW S, Remains(b, S),
         \A g \in Generation : g.app = b /\ runtimes'[g] # "absent"
                                 => runtimes[g] # "absent"
  PROVE  Remains(b, S)'
BY DEF Remains

LEMMA DeletingOnlyTakes ==
  ASSUME TypeOK, NEW d, DeleteRuntime(d)
  PROVE  \A g \in Generation : runtimes'[g] # "absent" => runtimes[g] # "absent"
BY DEF TypeOK, DeleteRuntime

\* A rested prefix gives a collection nothing to do.
LEMMA NothingBroken ==
  ASSUME TypeOK, Owned, Pins, Runtimes, damaged = {},
         \A b \in App : Rested(b), \A q \in Proc : ~Working(q),
         NEW g \in Generation
  PROVE  ~Broken(g)
<1>1. g.app \in App /\ ~Dismantled(g.app)
  BY RootIsPackage DEF Dismantled, Dismantling, Working
<1>2. CASE runtimes[g] = "absent"
  BY <1>2 DEF Broken
<1>3. CASE g \in {install[g.app].active, install[g.app].previous}
  <2>1. g # None
    BY ConstantsAssumption
  <2>2. Whole(g) /\ InStore(g)
    BY <1>1, <1>3 DEF Pins, Runtimes
  <2>3. QED
    BY <2>1, <2>2 DEF Whole, InStore, Broken
<1>4. QED
  BY <1>1, <1>2, <1>3 DEF Rested, Remains

LEMMA OrderlyBegin ==
  ASSUME Alone, TypeOK, Owned, Pins, Runtimes, Orderly, NEW p \in Proc, Begin(p)
  PROVE  Orderly'
<1>1. /\ proc[p].pc = "idle" /\ proc[p].app = None
      /\ UNCHANGED <<install, exports, desktop, runtimes, damaged>>
  BY BeginFrame DEF Working, Owned
<1>2. \A b \in App : Rested(b) /\ Rested(b)'
  <2>1. \A b \in App : Rested(b)
    BY <1>1, ConstantsAssumption DEF Alone, Orderly
  <2>2. QED
    BY <1>1, <2>1, RestedStays
<1>3. PICK d : d = proc'[p]
  OBVIOUS
<1>4. Halfway(d)' /\ d.pc \notin {"unlink", "rename"}
  <2> USE DEF Building, Switching, Publishing
  <2>1. CASE d = proc[p]
    BY <1>1, <2>1 DEF Halfway
  <2>2. ASSUME NEW a \in App, BeginsOn(p, a)
        PROVE  Halfway(d)' /\ d.pc \notin {"unlink", "rename"}
    <3>1. d.app = a /\ Rested(a)' /\ Rested(a)
      BY <1>2, <1>3, <2>2 DEF BeginsOn
    <3>2. CASE d.pc = "compose"
      <4>1. d.disp = install[a].active /\ d.older = install[a].previous
        BY <1>3, <2>2, <3>1, <3>2 DEF BeginsOn, Rested
      <4>2. install'[a] = [active |-> d.disp, previous |-> d.older]
        BY <1>1, <4>1, RecordFields
      <4>3. QED
        BY <3>1, <3>2, <4>2 DEF Halfway
    <3>3. CASE d.pc = "stage"
      <4>1. d.disp = install'[a].active /\ d.older = install'[a].previous
        BY <1>1, <1>3, <2>2, <3>3 DEF BeginsOn
      <4>2. Remains(a, {d.rec, d.disp, d.older})'
        BY <3>1, <4>1 DEF Rested, Remains
      <4>3. QED
        BY <3>1, <3>3, <4>2 DEF Halfway
    <3>4. CASE d.pc = "undesktop"
      <4>1. d.rec = install'[a].active /\ d.disp = install'[a].previous
        BY <1>1, <1>3, <2>2, <3>4 DEF BeginsOn
      <4>2. Remains(a, {d.rec, d.disp})'
        BY <3>1, <4>1 DEF Rested, Remains
      <4>3. QED
        BY <3>1, <3>4, <4>2 DEF Halfway
    <3>5. QED
      BY <1>3, <2>2, <3>2, <3>3, <3>4 DEF BeginsOn
  <2>3. ASSUME NEW k \in Package, Removes(p, k)
        PROVE  Halfway(d)' /\ d.pc \notin {"unlink", "rename"}
    <3>1. d.pc = "unstore"
      BY <1>3, <2>3 DEF Removes, Idle
    <3>2. QED
      BY <3>1 DEF Halfway
  <2>4. ASSUME NEW g \in Generation, Collects(p, g)
        PROVE  FALSE
    <3>1. \A q \in Proc : ~Working(q)
      BY <1>1 DEF Alone, Working
    <3>2. QED
      BY <1>2, <2>4, <3>1, NothingBroken DEF Collects, Orderly
  <2>5. QED
    BY <1>3, <2>1, <2>2, <2>3, <2>4, BeginFrame
<1>5. Halfway(proc[p])' /\ damaged' = {}
  BY <1>1, <1>3, <1>4 DEF Halfway, Orderly
<1>6. \A q \in Proc : q = p
  BY DEF Alone
<1>7. QED
  BY <1>2, <1>3, <1>4, <1>5, <1>6 DEF Orderly

\* The command goes on, or ends and leaves its app rested.
LEMMA OrderlyHere ==
  ASSUME InterruptAt \subseteq BeforeChanges, TypeOK, Owned, Exclusive, Builds, Pins,
         Progress, Runtimes, Orderly, NEW p \in Proc, NEW c, c = proc[p],
         Continue(p) \/ Interrupt(p), c.app \in App
  PROVE  /\ damaged' = {}
         /\ Halfway(proc[p])'
         /\ proc'[p].pc \in {"unlink", "rename"} => staging'[p] = "records"
         /\ proc'[p] = Idle => Rested(c.app)'
<1> USE DEF At, Points
<1> DEFINE Fine(d) == /\ Halfway(d)'
                      /\ d.pc \in {"unlink", "rename"} => staging'[p] = "records"
                      /\ d = Idle => Rested(c.app)'
<1>a. PICK a \in App : a = c.app
  OBVIOUS
<1>d. PICK d : d = proc'[p]
  OBVIOUS
<1>t. /\ c.rec \in Generation /\ c.rec # None /\ None \notin Generation
      /\ install \in [App -> [active: Maybe(Generation), previous: Maybe(Generation)]]
      /\ runtimes \in [Generation -> {"absent", "torn", "whole"}]
      /\ exports \in [App -> Maybe(Generation)] /\ desktop \in [App -> BOOLEAN]
      /\ damaged = {} /\ Halfway(c)
      /\ c.pc \in {"unlink", "rename"} => staging[p] = "records"
      /\ c.pc # "unstore" /\ c.pc # "idle"
      /\ Of(c.rec, a)
  BY <1>a, ConstantsAssumption DEF Owned, TypeOK, Orderly
\* What a command that goes on keeps of what it has brought about.
<1>g. ASSUME NEW point \in Points, Goto(p, point)
      PROVE  /\ d.pc = point /\ d # Idle /\ d.app = a /\ d.rec = c.rec
             /\ d.disp = c.disp /\ d.older = c.older
  BY <1>a, <1>d, <1>g, ProcGoto DEF Idle
<1>i. Stop(p) => d = Idle /\ Halfway(d)' /\ d.pc = "idle"
  BY <1>d, ProcStop DEF Idle, Halfway, Building, Switching, Publishing
<1>1. ASSUME Rested(a), UNCHANGED <<install, exports, desktop>>,
             \A g \in Generation : runtimes'[g] # "absent" => runtimes[g] # "absent"
      PROVE  Rested(a)'
  BY <1>1, RestedStays
<1>2. ASSUME NEW S, Remains(a, S),
             \A g \in Generation : runtimes'[g] # "absent" => runtimes[g] # "absent"
      PROVE  Remains(a, S)'
  BY <1>2, RemainsStays
<1>3. CASE c.pc \in Building
  <2>1. /\ Rested(a) /\ install[a] = [active |-> c.disp, previous |-> c.older]
    BY <1>a, <1>t, <1>3 DEF Halfway
  <2>2. Remains(a, {c.rec, c.disp, c.older})
    BY <2>1 DEF Rested, Remains
  <2>3. CASE UNCHANGED <<install, exports, desktop, runtimes, damaged>>
             /\ (UNCHANGED proc \/ Stop(p))
    BY <1>1, <1>3, <1>a, <1>d, <1>i, <1>t, <2>1, <2>3
       DEF Halfway, Building, Switching, Publishing
  <2>4. CASE WriteLock(p)
    <3>1. /\ UNCHANGED <<install, exports, desktop, runtimes, damaged>>
          /\ Goto(p, "build")
      BY <2>4 DEF WriteLock
    <3>2. Rested(a)'
      BY <1>1, <2>1, <3>1
    <3>3. QED
      BY <1>d, <1>g, <1>t, <2>1, <3>1, <3>2 DEF Halfway, Building, Switching, Publishing
  <2>5. CASE Build(p)
    <3>1. /\ \A g \in Generation : runtimes'[g] # "absent" => runtimes[g] # "absent"
          /\ UNCHANGED <<install, exports, desktop, damaged>>
      BY <1>t, <2>5 DEF Build
    <3>2. Rested(a)' /\ Remains(a, {c.rec, c.disp, c.older})'
      BY <1>1, <1>2, <2>1, <2>2, <3>1
    <3>3. Stop(p) \/ Goto(p, "stage") \/ Goto(p, "rename_runtime")
      BY <2>5 DEF Build
    <3>4. CASE Stop(p)
      BY <1>a, <1>d, <1>i, <1>t, <3>1, <3>2, <3>4 DEF Halfway
    <3>5. CASE Goto(p, "stage") \/ Goto(p, "rename_runtime")
      BY <1>d, <1>g, <1>t, <2>1, <3>1, <3>2, <3>5
         DEF Halfway, Building, Switching, Publishing
    <3>6. QED
      BY <3>3, <3>4, <3>5
  <2>6. CASE RenameRuntime(p)
    <3>1. UNCHANGED <<install, exports, desktop, damaged>>
      BY <2>6 DEF RenameRuntime
    <3>2. CASE Stop(p) /\ UNCHANGED runtimes
      BY <2>3, <3>1, <3>2
    <3>3. CASE Goto(p, "stage") /\ runtimes' = [runtimes EXCEPT ![c.rec] = composed[p]]
      <4>1. Remains(a, {c.rec, c.disp, c.older})'
        BY <1>t, <2>2, <3>3 DEF Remains
      <4>2. QED
        BY <1>d, <1>g, <1>t, <3>1, <3>3, <4>1
           DEF Halfway, Building, Switching, Publishing
    <3>4. QED
      BY <2>6, <3>2, <3>3 DEF RenameRuntime
  <2>7. CASE Resolve(p) \/ Interrupt(p)
    BY <1>3, <2>3, <2>7 DEF Resolve, Interrupt, Dismantling, Building
  <2>8. QED
    BY <1>3, <2>4, <2>5, <2>6, <2>7
       DEF Building, Continue, Stage, Unlink, Rename, Publish, Link, PublishDesktop,
           DropOlder, RemoveDesktop, RemoveExports, ReapRuntimes, ForgetRecords,
           RemoveOne, Collect
<1>4. CASE c.pc \in Switching
  <2>1. Remains(a, {c.rec, c.disp, c.older})
    BY <1>a, <1>t, <1>4 DEF Halfway
  <2>2. /\ UNCHANGED <<runtimes, exports, desktop>>
        /\ Stage(p) \/ Unlink(p) \/ Rename(p)
    BY <1>4
       DEF Switching, BeforeChanges, Building, Continue, Resolve, WriteLock, Build,
           RenameRuntime, Stage, Unlink, Rename, Publish, Link, PublishDesktop,
           DropOlder, RemoveDesktop, RemoveExports, ReapRuntimes, ForgetRecords,
           RemoveOne, Collect, Interrupt
  <2>3. Remains(a, {c.rec, c.disp, c.older})'
    BY <1>2, <2>1, <2>2
  <2>4. CASE Stage(p)
    <3>1. staging'[p] = "records"
      BY <2>4 DEF Stage, TypeOK
    <3>2. QED
      BY <1>d, <1>g, <1>t, <2>3, <2>4, <3>1
         DEF Stage, Halfway, Building, Switching, Publishing
  <2>5. CASE Unlink(p)
    <3>1. UNCHANGED <<staging, damaged>> /\ staging[p] = "records" /\ c.pc = "unlink"
      BY <1>t, <2>5 DEF Unlink
    <3>2. CASE UNCHANGED proc
      BY <1>a, <1>d, <1>t, <2>3, <3>1, <3>2
         DEF Halfway, Building, Switching, Publishing, Idle
    <3>3. CASE install[a] = Blank /\ Goto(p, "rename") /\ UNCHANGED install
      BY <1>d, <1>g, <1>t, <2>3, <3>1, <3>3
         DEF Halfway, Building, Switching, Publishing
    <3>4. QED
      BY <1>a, <2>5, <3>2, <3>3 DEF Unlink
  <2>6. CASE Rename(p)
    <3>1. staging[p] = "records" /\ install[a] = Blank
      BY <1>a, <1>t, <2>6 DEF Rename, Halfway
    <3>2. Goto(p, "publish") /\ UNCHANGED damaged
      BY <1>a, <2>6, <3>1 DEF Rename
    <3>3. QED
      BY <1>d, <1>g, <1>t, <2>3, <3>2 DEF Halfway, Building, Switching, Publishing
  <2>7. QED
    BY <2>2, <2>4, <2>5, <2>6
<1>5. CASE c.pc \in Publishing
  <2>1. /\ Remains(a, {c.rec, c.disp, c.older})
        /\ install[a] = [active |-> c.rec, previous |-> c.disp]
    BY <1>a, <1>t, <1>5 DEF Halfway, Progress
  <2>2. /\ Publish(p) \/ Link(p) \/ PublishDesktop(p) \/ DropOlder(p)
        /\ UNCHANGED install
    BY <1>5
       DEF Publishing, BeforeChanges, Building, Continue, Resolve, WriteLock, Build,
           RenameRuntime, Stage, Unlink, Rename, Publish, Link, PublishDesktop,
           DropOlder, RemoveDesktop, RemoveExports, ReapRuntimes, ForgetRecords,
           RemoveOne, Collect, Interrupt
  <2>3. Root(c.rec) \in stored /\ runtimes[c.rec] = "whole"
    <3>1. InStore(c.rec) /\ Whole(c.rec)
      BY <1>a, <1>t, <1>5, <2>1 DEF Pins, Runtimes
    <3>2. QED
      BY <1>t, <3>1 DEF InStore, Whole, Pkgs
  <2>4. UNCHANGED runtimes => Remains(a, {c.rec, c.disp, c.older})'
    BY <1>2, <2>1
  <2>5. CASE Publish(p)
    <3>1. /\ exports' = [exports EXCEPT ![a] = None] /\ UNCHANGED <<runtimes, damaged>>
          /\ Goto(p, IF HasEntry(c.rec) THEN "link" ELSE "desktop")
      BY <1>a, <2>3, <2>5 DEF Publish
    <3>2. /\ d.pc = IF HasEntry(c.rec) THEN "link" ELSE "desktop"
          /\ d.app = a /\ d.rec = c.rec /\ d.disp = c.disp /\ d.older = c.older
          /\ d # Idle
      BY <1>g, <3>1
    <3>3. exports'[a] = None
      BY <1>t, <3>1
    <3>4. QED
      BY <1>d, <1>t, <2>4, <3>1, <3>2, <3>3
         DEF Halfway, Building, Switching, Publishing
  <2>6. CASE Link(p)
    <3>1. /\ exports' = [exports EXCEPT ![a] = c.rec] /\ UNCHANGED <<runtimes, damaged>>
          /\ Goto(p, "desktop") /\ HasEntry(c.rec)
      BY <1>a, <1>t, <2>3, <2>6 DEF Link, Halfway
    <3>2. exports'[a] = c.rec
      BY <1>t, <3>1
    <3>3. QED
      BY <1>d, <1>g, <1>t, <2>4, <3>1, <3>2
         DEF Halfway, Building, Switching, Publishing
  <2>7. CASE PublishDesktop(p)
    <3>1. exports[a] = IF HasEntry(c.rec) THEN c.rec ELSE None
      BY <1>a, <1>t, <2>7 DEF PublishDesktop, Halfway
    <3>2. /\ desktop' = [desktop EXCEPT ![a] = HasEntry(c.rec)]
          /\ UNCHANGED <<exports, runtimes, damaged>> /\ Goto(p, "drop")
      BY <1>a, <1>t, <2>3, <2>7, <3>1 DEF PublishDesktop
    <3>3. desktop'[a] = HasEntry(c.rec)
      BY <1>t, <3>2
    <3>4. QED
      BY <1>d, <1>g, <1>t, <2>4, <3>1, <3>2, <3>3
         DEF Halfway, Building, Switching, Publishing
  <2>8. CASE DropOlder(p)
    <3>1. /\ exports[a] = IF HasEntry(c.rec) THEN c.rec ELSE None
          /\ desktop[a] = HasEntry(c.rec) /\ UNCHANGED <<exports, desktop>>
      BY <1>a, <1>t, <2>8 DEF DropOlder, Halfway
    <3>2. CASE DeleteRuntime(Superseded(p)) /\ UNCHANGED <<proc, damaged>>
      <4>1. Remains(a, {c.rec, c.disp, c.older})'
        BY <1>2, <2>1, <3>2, DeletingOnlyTakes
      <4>2. QED
        BY <1>a, <1>d, <1>t, <2>8, <3>1, <3>2, <4>1
           DEF DropOlder, Halfway, Building, Switching, Publishing, Idle
    <3>3. CASE /\ Superseded(p) # None => runtimes[Superseded(p)] = "absent"
               /\ Stop(p) /\ UNCHANGED runtimes
      <4>1. damaged' = {}
        BY <1>t, <2>8, <3>3 DEF DropOlder
      <4>2. Remains(a, {c.rec, c.disp})'
        <5>1. ASSUME NEW g \in Generation, g.app = a, runtimes[g] # "absent"
              PROVE  g \in {c.rec, c.disp}
          BY <1>t, <2>1, <3>3, <5>1 DEF Remains, Superseded
        <5>2. QED
          BY <3>3, <5>1 DEF Remains
      <4>3. install'[a].active = c.rec /\ install'[a].previous = c.disp
        BY <2>1, <2>2
      <4>4. Rested(a)'
        BY <1>t, <3>1, <4>2, <4>3 DEF Rested, Shows
      <4>5. QED
        BY <1>a, <1>d, <1>i, <3>3, <4>1, <4>4
    <3>4. QED
      BY <2>8, <3>2, <3>3 DEF DropOlder
  <2>9. QED
    BY <2>2, <2>5, <2>6, <2>7, <2>8
<1>6. CASE c.pc = "undesktop"
  <2>1. Rested(a) /\ Remains(a, {c.rec, c.disp})
    BY <1>a, <1>t, <1>6 DEF Halfway
  <2>2. CASE RemoveDesktop(p)
    <3>1. Remains(a, {c.rec, c.disp})' /\ desktop'[a] = FALSE
      BY <1>2, <1>a, <1>t, <2>1, <2>2 DEF RemoveDesktop
    <3>2. QED
      BY <1>d, <1>g, <1>t, <2>2, <3>1
         DEF RemoveDesktop, Halfway, Building, Switching, Publishing
  <2>3. CASE Interrupt(p)
    BY <1>1, <1>6, <1>a, <1>d, <1>i, <1>t, <2>1, <2>3 DEF Interrupt, Dismantling, Halfway
  <2>4. QED
    BY <1>6, <2>2, <2>3
       DEF Continue, Resolve, WriteLock, Build, RenameRuntime, Stage, Unlink, Rename,
           Publish, Link, PublishDesktop, DropOlder, RemoveExports, ReapRuntimes,
           ForgetRecords, RemoveOne, Collect
<1>7. CASE c.pc \in {"unexport", "reap", "reap_previous", "forget"}
  <2>1. /\ ~desktop[a] /\ UNCHANGED desktop
        /\ RemoveExports(p) \/ ReapRuntimes(p) \/ ForgetRecords(p)
    BY <1>7, <1>a, <1>t
       DEF Halfway, BeforeChanges, Building, Continue, Resolve, WriteLock, Build,
           RenameRuntime, Stage, Unlink, Rename, Publish, Link, PublishDesktop,
           DropOlder, RemoveDesktop, RemoveExports, ReapRuntimes, ForgetRecords,
           RemoveOne, Collect, Interrupt
  <2>2. CASE RemoveExports(p)
    <3>1. Remains(a, {c.rec, c.disp})' /\ UNCHANGED damaged /\ Goto(p, "reap")
      BY <1>2, <1>a, <1>t, <2>2 DEF RemoveExports, Halfway
    <3>2. QED
      BY <1>d, <1>g, <1>t, <2>1, <3>1 DEF Halfway, Building, Switching, Publishing
  <2>3. CASE ReapRuntimes(p)
    <3>0. PICK left : left = IF c.pc = "reap" THEN {c.rec, c.disp} ELSE {c.disp} \ {c.rec}
      OBVIOUS
    <3>1. /\ c.pc \in {"reap", "reap_previous"} /\ UNCHANGED damaged
          /\ Remains(a, left)
      BY <1>a, <1>t, <2>3, <3>0 DEF ReapRuntimes, Halfway
    <3>2. CASE UNCHANGED proc
      <4>1. Remains(a, left)'
        BY <1>2, <2>3, <3>1, <3>2, DeletingOnlyTakes, ProcGoto
           DEF ReapRuntimes
      <4>2. QED
        BY <1>a, <1>d, <1>t, <2>1, <3>0, <3>1, <3>2, <4>1
           DEF Halfway, Building, Switching, Publishing, Idle
    <3>3. CASE /\ ~Present(Doomed(p)) /\ UNCHANGED runtimes
               /\ Goto(p, IF c.pc = "reap" THEN "reap_previous" ELSE "forget")
      <4>0. PICK gone : gone = Doomed(p)
        OBVIOUS
      <4>1. Remains(a, left \ {gone})'
        BY <1>t, <3>1, <3>3, <4>0 DEF Remains, Present
      <4>2. left \ {gone} = IF c.pc = "reap" THEN {c.disp} \ {c.rec}
                                             ELSE {}
        BY <3>0, <4>0 DEF Doomed
      <4>3. QED
        <5>1. CASE c.pc = "reap"
          <6>1. Goto(p, "reap_previous") /\ Remains(a, {c.disp} \ {c.rec})'
            BY <3>3, <4>1, <4>2, <5>1
          <6> QED
            BY <1>d, <1>g, <1>t, <2>1, <3>1, <6>1
               DEF Halfway, Building, Switching, Publishing
        <5>2. CASE c.pc = "reap_previous"
          <6>1. Goto(p, "forget") /\ Remains(a, {})'
            BY <3>3, <4>1, <4>2, <5>2 DEF Remains
          <6> QED
            BY <1>d, <1>g, <1>t, <2>1, <3>1, <6>1
               DEF Halfway, Building, Switching, Publishing
        <5> QED BY <3>1, <5>1, <5>2
    <3>4. QED
      BY <2>3, <3>1, <3>2, <3>3 DEF ReapRuntimes, BeforeChanges, Building
  <2>4. CASE ForgetRecords(p)
    <3>1. /\ c.pc = "forget" /\ Remains(a, {}) /\ UNCHANGED <<runtimes, exports>>
          /\ exports[a] = None
      BY <1>a, <1>t, <2>4 DEF ForgetRecords, Halfway, Progress, Dismantling
    <3>2. Remains(a, {})'
      BY <1>2, <3>1
    <3>3. CASE UNCHANGED <<proc, damaged>>
      BY <1>a, <1>d, <1>t, <2>1, <3>1, <3>2, <3>3
         DEF Halfway, Building, Switching, Publishing, Idle
    <3>4. CASE install[a] = Blank /\ Stop(p) /\ UNCHANGED install
      <4>1. damaged' = {}
        BY <1>a, <1>t, <2>4 DEF ForgetRecords
      <4>2. Rested(a)'
        BY <2>1, <3>1, <3>2, <3>4 DEF Rested, Shows, Remains, Blank
      <4>3. QED
        BY <1>a, <1>d, <1>i, <3>4, <4>1, <4>2
    <3>5. QED
      BY <1>a, <2>4, <3>3, <3>4 DEF ForgetRecords
  <2>5. QED
    BY <2>1, <2>2, <2>3, <2>4
<1>8. c.pc # "collect"
  BY <1>t DEF Halfway
<1>9. c.pc \in Points \union {"idle"}
  BY CommandFields
<1>10. QED
  BY <1>3, <1>4, <1>5, <1>6, <1>7, <1>8, <1>9, <1>t DEF Building, Switching, Publishing

LEMMA OrderlyContinue ==
  ASSUME Alone, InterruptAt \subseteq BeforeChanges, TypeOK, Owned, Exclusive, Builds,
         Pins, Progress, Runtimes, Orderly, NEW p \in Proc, Continue(p) \/ Interrupt(p)
  PROVE  Orderly'
<1>1. PICK c : c = proc[p]
  OBVIOUS
<1>2. \A q \in Proc : q = p
  BY DEF Alone
<1>3. ASSUME NEW b \in App, b # c.app
      PROVE  Rested(b)'
  <2>1. Rested(b)
    BY <1>1, <1>2, <1>3 DEF Orderly
  <2>2. desktop'[b] = desktop[b]
    BY <1>1, <1>3
       DEF TypeOK, Continue, Resolve, WriteLock, Build, RenameRuntime, Stage, Unlink,
           Rename, Publish, Link, PublishDesktop, DropOlder, RemoveDesktop,
           RemoveExports, ReapRuntimes, ForgetRecords, RemoveOne, Collect, Interrupt
  <2>3. /\ install'[b] = install[b] /\ exports'[b] = exports[b]
        /\ \A g \in Generation : g.app = b => runtimes'[g] = runtimes[g]
    BY <1>1, <1>3, ContinueFrame DEF Elsewhere
  <2>4. QED
    BY <2>1, <2>2, <2>3, RestedStays
<1>4. CASE c.app \in App
  <2>1. /\ damaged' = {}
        /\ Halfway(proc[p])'
        /\ proc'[p].pc \in {"unlink", "rename"} => staging'[p] = "records"
        /\ proc'[p] = Idle => Rested(c.app)'
    BY <1>1, <1>4, OrderlyHere
  <2>2. ASSUME NEW b \in App, b = c.app, proc'[p].app # b
        PROVE  Rested(b)'
    <3>1. proc'[p] = Idle
      BY <1>1, <2>2, ContinueFrame DEF SameCommand
    <3>2. QED
      BY <2>1, <2>2, <3>1
  <2>3. QED
    BY <1>2, <1>3, <2>1, <2>2 DEF Orderly
<1>5. CASE c.app \notin App
  <2>1. c.pc = "unstore"
    BY <1>1, <1>5, ContinueFrame DEF Owned, Working
  <2>2. damaged' = {} /\ proc'[p] = Idle
    BY <1>1, <2>1, ProcStop
       DEF Points, At, Continue, Resolve, WriteLock, Build, RenameRuntime, Stage, Unlink,
           Rename, Publish, Link, PublishDesktop, DropOlder, RemoveDesktop,
           RemoveExports, ReapRuntimes, ForgetRecords, RemoveOne, Collect, Interrupt,
           Dismantling, Orderly
  <2>3. Halfway(proc[p])' /\ proc'[p].pc = "idle"
    BY <2>2 DEF Halfway, Idle, Building, Switching, Publishing
  <2>4. QED
    BY <1>2, <1>3, <1>5, <2>2, <2>3 DEF Orderly
<1>6. QED
  BY <1>4, <1>5

\* When commands follow one another and none stops after it has changed more
\* than temporary directories, a finished command leaves exactly the commands,
\* the menu entry and the runtimes that the records call for (install, update,
\* rollback, uninstall in ops.rs).
THEOREM FinishedIsSettled ==
  ASSUME Alone, InterruptAt \subseteq BeforeChanges
  PROVE  Spec => []Settled
<1> DEFINE Inv == /\ TypeOK /\ Owned /\ Exclusive /\ Pins
                  /\ Builds /\ Progress /\ Runtimes /\ Orderly
<1>0. Disciplined /\ BuildsAlone
  BY DEF Alone, Disciplined, BuildsAlone
<1>1. Init => Inv
  BY TypeInit, OwnedInit, ApartInit, RunsInit, OrderlyInit
<1>2. Inv /\ [Next]_vars => Inv'
  <2>1. Inv /\ [Next]_vars => (TypeOK /\ Owned /\ Exclusive /\ Pins
                                 /\ Builds /\ Progress /\ Runtimes)'
    BY <1>0, OwnedStep, PinsStep, BuildsStep, RunsStep
  <2>2. ASSUME Inv, [Next]_vars
        PROVE  Orderly'
    <3>1. CASE UNCHANGED vars
      BY <2>2, <3>1 DEF vars, Orderly, Halfway, Rested, Shows, Remains
    <3>2. QED
      BY <2>2, <3>1, OrderlyBegin, OrderlyContinue DEF Next
  <2>3. QED
    BY <2>1, <2>2
<1>3. Inv => Settled
  <2> SUFFICES ASSUME Owned, Orderly, \A q \in Proc : At(q, "idle")
               PROVE  Settled
    BY DEF Settled
  <2>1. \A b \in App : Rested(b)
    BY ConstantsAssumption DEF Orderly, Owned, At
  <2>2. \A g \in Generation : g.app \in App
    BY RootIsPackage
  <2>3. QED
    BY <2>1, <2>2 DEF Settled, Rested, Shows, Remains
<1> QED BY <1>1, <1>2, <1>3, PTL DEF Spec

=============================================================================
