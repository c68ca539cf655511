------------------------- MODULE InstallsRefinement -------------------------
(***************************************************************************)
(* One command at a time, not stopped between deleting installs/{app} and  *)
(* renaming the staged directory into its place, implements Generations,   *)
(* for any apps, versions and libraries.                                   *)
(***************************************************************************)
EXTENDS InstallsProofs

\* A command may stop anywhere else.
SwitchCompletes == InterruptAt \cap {"unlink", "rename"} = {}

\* What a command read of the records is still there when it replaces them, and
\* so is what it staged.
Tracks ==
  \A p \in Proc :
    LET c == proc[p] IN
    /\ c.pc \in Building \union {"stage"} =>
         /\ c.disp = install[c.app].active
         /\ c.older = IF c.disp # None THEN install[c.app].previous ELSE None
    /\ c.pc \in {"undesktop", "unexport", "reap", "reap_previous"} => install[c.app].active # None
    /\ c.pc \in {"unlink", "rename"} => staging[p] = "records"
    /\ c.pc = "rename" => install[c.app] = Blank

-----------------------------------------------------------------------------
LEMMA TracksInit == Init => Tracks
BY DEF Init, Tracks, Idle, Building

\* What a command that begins has read.
LEMMA BeginReads ==
  ASSUME TypeOK, NEW p \in Proc, Begin(p), At(p, "idle")
  PROVE  LET c == proc'[p] IN
         /\ c.pc \in Building \union {"stage"} =>
              /\ c.disp = install[c.app].active
              /\ c.older = IF c.disp # None THEN install[c.app].previous ELSE None
         /\ c.pc \in {"undesktop", "unexport", "reap", "reap_previous"} => install[c.app].active # None
         /\ c.pc \notin {"unlink", "rename", "forget"}
<1> DEFINE Fine(c) ==
      /\ c.pc \in Building \union {"stage"} =>
           /\ c.disp = install[c.app].active
           /\ c.older = IF c.disp # None THEN install[c.app].previous ELSE None
      /\ c.pc \in {"undesktop", "unexport", "reap", "reap_previous"} => install[c.app].active # None
      /\ c.pc \notin {"unlink", "rename", "forget"}
<1> USE DEF Building, Points, At
<1>0. proc \in [Proc -> Commands]
  BY DEF TypeOK
<1>1. ASSUME NEW g \in Generation, NEW force \in BOOLEAN, Install(p, g, force)
      PROVE  Fine(proc'[p])
  BY <1>0, <1>1 DEF Install, Run
<1>2. ASSUME NEW g \in Generation, Update(p, g)
      PROVE  Fine(proc'[p])
  BY <1>0, <1>2 DEF Update, Run
<1>3. ASSUME NEW g \in Generation, Gc(p, g)
      PROVE  Fine(proc'[p])
  BY <1>0, <1>3 DEF Gc, Run
<1>4. ASSUME NEW a \in App, Rollback(p, a) \/ Uninstall(p, a)
      PROVE  Fine(proc'[p])
  BY <1>0, <1>4 DEF Rollback, Uninstall, Run
<1>5. ASSUME NEW k \in Package, StoreRemove(p, k)
      PROVE  Fine(proc'[p])
  BY <1>0, <1>5 DEF StoreRemove, Idle
<1>6. CASE Housekeep(p) \/ ListRuntimes(p)
  BY <1>0, <1>6 DEF Housekeep, ListRuntimes
<1>7. Fine(proc'[p])
  BY <1>1, <1>2, <1>3, <1>4, <1>5, <1>6 DEF Begin
<1> QED BY <1>7

LEMMA TracksStep ==
  ASSUME Alone, TypeOK, Owned, Tracks, [Next]_vars
  PROVE  Tracks'
<1> USE DEF Building, Points, At
<1> DEFINE Fine(p) ==
      LET c == proc[p] IN
      /\ c.pc \in Building \union {"stage"} =>
           /\ c.disp = install[c.app].active
           /\ c.older = IF c.disp # None THEN install[c.app].previous ELSE None
      /\ c.pc \in {"undesktop", "unexport", "reap", "reap_previous"} => install[c.app].active # None
      /\ c.pc \in {"unlink", "rename"} => staging[p] = "records"
      /\ c.pc = "rename" => install[c.app] = Blank
<1>0. proc \in [Proc -> Commands] /\ staging \in [Proc -> {"none", "lock", "records"}]
  BY DEF TypeOK
<1>1. ASSUME NEW p \in Proc, Begin(p)
      PROVE  Fine(p)'
  BY <1>1, BeginReads, BeginFrame DEF Working
<1>2. ASSUME NEW p \in Proc, Continue(p) \/ Interrupt(p)
      PROVE  Fine(p)'
  <2>0. Fine(p)
    BY DEF Tracks
  <2>1. CASE proc'[p] = Idle
    BY <2>1 DEF Idle
  <2>2. CASE Resolve(p) \/ WriteLock(p)
    BY <2>0, <2>1, <2>2, ProcGoto, ProcStop DEF Resolve, WriteLock
  <2>3. CASE Build(p) \/ RenameRuntime(p)
    BY <2>0, <2>1, <2>3, ProcGoto, ProcStop DEF Build, RenameRuntime
  <2>4. CASE Stage(p)
    BY <1>0, <2>4, ProcGoto DEF Stage
  <2>5. CASE Unlink(p)
    BY <2>0, <2>5, ProcGoto DEF Unlink
  <2>6. CASE Rename(p)
    BY <2>1, <2>6, ProcGoto, ProcStop DEF Rename
  <2>7. CASE Publish(p) \/ Link(p) \/ PublishDesktop(p) \/ DropOlder(p)
    BY <2>1, <2>7, ProcGoto, ProcStop
       DEF Publish, HasEntry, Link, PublishDesktop, DropOlder
  <2>8. CASE RemoveDesktop(p) \/ RemoveExports(p) \/ ReapRuntimes(p)
    BY <2>0, <2>8, ProcGoto DEF RemoveDesktop, RemoveExports, ReapRuntimes
  <2>9. CASE ForgetRecords(p) \/ Collect(p)
    BY <2>1, <2>9, ProcStop DEF ForgetRecords, Collect
  <2> QED
    BY <1>2, <2>1, <2>2, <2>3, <2>4, <2>5, <2>6, <2>7, <2>8, <2>9, ProcStop
       DEF Continue, RemoveOne, Interrupt
<1>3. CASE UNCHANGED vars
  BY <1>3 DEF vars, Tracks
<1>4. ASSUME NEW p \in Proc, Begin(p) \/ Continue(p) \/ Interrupt(p)
      PROVE  Tracks'
  <2>1. Fine(p)'
    BY <1>1, <1>2, <1>4
  <2>2. \A q \in Proc : q = p
    BY DEF Alone
  <2> QED BY <2>1, <2>2 DEF Tracks
<1> QED BY <1>3, <1>4 DEF Next

-----------------------------------------------------------------------------
(***************************************************************************)
(* The mapping.                                                            *)
(***************************************************************************)

Records == [a \in App |-> Shown(a)]

\* With one process, what is shown depends on that process alone.
LEMMA ShownBy ==
  ASSUME Alone, NEW p \in Proc, NEW a \in App
  PROVE  /\ Shown(a) = IF proc[p].app = a /\ proc[p].pc \in {"unlink", "rename"}
                       THEN [active |-> proc[p].disp, previous |-> proc[p].older]
                       ELSE IF install[a].active = None THEN Blank ELSE install[a]
         /\ a \in Leaving <=> proc[p].app = a /\ proc[p].pc = "forget"
<1>1. \A q \in Proc : q = p
  BY DEF Alone
<1>2. CASE proc[p].app = a /\ proc[p].pc \in {"unlink", "rename"}
  <2>1. {q \in Proc : proc[q].app = a /\ proc[q].pc \in {"unlink", "rename"}} = {p}
    BY <1>1, <1>2
  <2>2. (CHOOSE q \in {p} : TRUE) = p
    OBVIOUS
  <2>3. Shown(a) = [active |-> proc[p].disp, previous |-> proc[p].older]
    BY <2>1, <2>2 DEF Shown
  <2> QED BY <1>1, <1>2, <2>3 DEF Leaving, At
<1>3. CASE ~(proc[p].app = a /\ proc[p].pc \in {"unlink", "rename"})
  <2>1. {q \in Proc : proc[q].app = a /\ proc[q].pc \in {"unlink", "rename"}} = {}
    BY <1>1, <1>3
  <2> QED BY <1>1, <1>3, <2>1 DEF Shown, Leaving, At
<1> QED BY <1>2, <1>3

\* The same after a step.
LEMMA ShownNext ==
  ASSUME Alone, NEW p \in Proc, NEW a \in App
  PROVE  /\ Shown(a)' = IF proc'[p].app = a /\ proc'[p].pc \in {"unlink", "rename"}
                        THEN [active |-> proc'[p].disp, previous |-> proc'[p].older]
                        ELSE IF install'[a].active = None THEN Blank ELSE install'[a]
         /\ a \in Leaving' <=> proc'[p].app = a /\ proc'[p].pc = "forget"
<1>1. \A q \in Proc : q = p
  BY DEF Alone
<1>2. CASE proc'[p].app = a /\ proc'[p].pc \in {"unlink", "rename"}
  <2>1. {q \in Proc : proc'[q].app = a /\ proc'[q].pc \in {"unlink", "rename"}} = {p}
    BY <1>1, <1>2
  <2>2. (CHOOSE q \in {p} : TRUE) = p
    OBVIOUS
  <2>3. Shown(a)' = [active |-> proc'[p].disp, previous |-> proc'[p].older]
    BY <2>1, <2>2 DEF Shown
  <2> QED BY <1>1, <1>2, <2>3 DEF Leaving, At
<1>3. CASE ~(proc'[p].app = a /\ proc'[p].pc \in {"unlink", "rename"})
  <2>1. {q \in Proc : proc'[q].app = a /\ proc'[q].pc \in {"unlink", "rename"}} = {}
    BY <1>1, <1>3
  <2> QED BY <1>1, <1>3, <2>1 DEF Shown, Leaving, At
<1> QED BY <1>2, <1>3

LEMMA ShownElsewhere ==
  ASSUME Alone, TypeOK, Owned, NEW p \in Proc, Continue(p) \/ Interrupt(p),
         NEW a \in App \ {proc[p].app}
  PROVE  Shown(a)' = Shown(a) /\ (a \in Leaving' <=> a \in Leaving)
<1>1. install'[a] = install[a] /\ proc'[p].app # a
  <2>1. install'[a] = install[a]
    BY ContinueFrame DEF Elsewhere
  <2>2. proc'[p].app \in {proc[p].app, None}
    BY ContinueFrame DEF SameCommand, Idle
  <2> QED BY <2>1, <2>2, ConstantsAssumption
<1> QED BY <1>1, ShownBy, ShownNext

LEMMA InitMaps == Init => Abstract!Init
<1> SUFFICES ASSUME Init PROVE Abstract!Init
  OBVIOUS
<1>1. \A a \in App : Shown(a) = Blank
  <2>1. \A p \in Proc : proc[p].pc = "idle"
    BY DEF Init, Idle
  <2>2. \A a \in App : {p \in Proc : proc[p].app = a /\ proc[p].pc \in {"unlink", "rename"}} = {}
    BY <2>1
  <2> QED BY <2>2 DEF Shown, Init, Blank
<1>2. Leaving = {}
  BY DEF Init, Leaving, At, Idle
<1> QED BY <1>1, <1>2 DEF Abstract!Init, Abstract!Blank, Blank

\* A change of one app's records.
LEMMA OneBecomes ==
  ASSUME NEW a \in App, NEW active, NEW previous,
         \A b \in App \ {a} : Shown(b)' = Shown(b),
         Shown(a)' = [active |-> active, previous |-> previous]
  PROVE  Abstract!Becomes(a, active, previous)
BY DEF Abstract!Becomes

-----------------------------------------------------------------------------
(***************************************************************************)
(* Every step is a step of Generations or leaves what is shown as it was.  *)
(***************************************************************************)

Unseen == UNCHANGED <<Records, Leaving>>

LEMMA NothingSeen ==
  ASSUME Alone, NEW p \in Proc,
         \A a \in App : Shown(a)' = Shown(a) /\ (a \in Leaving' <=> a \in Leaving)
  PROVE  Unseen
BY DEF Unseen, Records, Leaving

LEMMA BeginUnseen ==
  ASSUME Alone, TypeOK, Owned, NEW p \in Proc, Begin(p)
  PROVE  Unseen
<1>1. /\ proc[p].pc = "idle" /\ UNCHANGED install
      /\ proc'[p].pc \notin {"unlink", "rename", "forget"}
  BY BeginReads, BeginFrame DEF Working, At
<1> QED BY <1>1, ShownBy, ShownNext, NothingSeen

\* Steps that neither touch the records nor enter or leave a point at which
\* what is shown differs from them.
LEMMA QuietUnseen ==
  ASSUME Alone, TypeOK, Owned, NEW p \in Proc, Continue(p) \/ Interrupt(p),
         UNCHANGED install,
         proc[p].pc \notin {"unlink", "rename", "forget"},
         proc'[p].pc \notin {"unlink", "rename", "forget"}
  PROVE  Unseen
BY ShownBy, ShownNext, NothingSeen

LEMMA ContinueMaps ==
  ASSUME Alone, SwitchCompletes, TypeOK, Owned, Tracks, NEW p \in Proc,
         Continue(p) \/ Interrupt(p)
  PROVE  Abstract!Next \/ Unseen
<1> USE DEF At, Points
<1> SUFFICES ASSUME NEW a, a = proc[p].app
             PROVE  Abstract!Next \/ Unseen
  OBVIOUS
<1>0. /\ proc \in [Proc -> Commands]
      /\ install \in [App -> [active: Maybe(Generation), previous: Maybe(Generation)]]
      /\ proc[p].pc \notin {"idle", "unstore"} =>
           a \in App /\ proc[p].rec \in Generation /\ proc[p].rec.app = a
      /\ None \notin Generation
  BY ConstantsAssumption DEF TypeOK, Owned, Of
<1>1. CASE /\ UNCHANGED install
           /\ proc[p].pc \notin {"unlink", "rename", "forget"}
           /\ proc'[p].pc \notin {"unlink", "rename", "forget"}
  BY <1>1, QuietUnseen
<1>2. CASE Stage(p)
  <2>1. /\ proc'[p].pc = "unlink" /\ proc'[p].app = a /\ UNCHANGED install
        /\ proc'[p].disp = proc[p].disp /\ proc'[p].older = proc[p].older
        /\ proc[p].pc = "stage" /\ a \in App
    BY <1>0, <1>2, ProcGoto DEF Stage
  <2>2. /\ proc[p].disp = install[a].active
        /\ proc[p].older = IF proc[p].disp # None THEN install[a].previous ELSE None
    BY <2>1 DEF Tracks
  <2>3. install[a] = [active |-> install[a].active, previous |-> install[a].previous]
    BY <2>1, RecordFields
  <2>4. Shown(a)' = Shown(a) /\ (a \in Leaving' <=> a \in Leaving)
    BY <2>1, <2>2, <2>3, ShownBy, ShownNext DEF Blank
  <2> QED BY <2>1, <2>4, ShownElsewhere, NothingSeen
<1>3. CASE Unlink(p)
  <2>1. /\ proc'[p].pc \in {"unlink", "rename"} /\ proc'[p].app = a
        /\ proc'[p].disp = proc[p].disp /\ proc'[p].older = proc[p].older
        /\ proc[p].pc = "unlink" /\ a \in App
    BY <1>0, <1>3, ProcGoto DEF Unlink
  <2>2. Shown(a)' = Shown(a) /\ (a \in Leaving' <=> a \in Leaving)
    BY <2>1, ShownBy, ShownNext
  <2> QED BY <2>1, <2>2, ShownElsewhere, NothingSeen
<1>4. CASE Rename(p)
  <2>1. /\ proc[p].pc = "rename" /\ a \in App
        /\ staging[p] = "records" /\ install[a] = Blank
    BY <1>0, <1>4 DEF Rename, Tracks
  <2>2. /\ install'[a] = [active |-> proc[p].rec, previous |-> proc[p].disp]
        /\ proc'[p].pc = "publish"
    BY <1>0, <1>4, <2>1, ProcGoto DEF Rename, Recorded
  <2>3. /\ Shown(a) = [active |-> proc[p].disp, previous |-> proc[p].older]
        /\ Shown(a)' = [active |-> proc[p].rec, previous |-> proc[p].disp]
        /\ a \notin Leaving /\ a \notin Leaving'
    BY <1>0, <2>1, <2>2, ShownBy, ShownNext
  <2>4. Abstract!Becomes(a, proc[p].rec, proc[p].disp)
    BY <2>1, <2>3, ShownElsewhere, OneBecomes
  <2>5. UNCHANGED Leaving
    BY <2>1, <2>3, ShownElsewhere DEF Leaving
  <2>6. Abstract!Activate(a, proc[p].rec)
    BY <1>0, <2>1, <2>3, <2>4, <2>5 DEF Abstract!Activate
  <2> QED BY <1>0, <2>1, <2>6 DEF Abstract!Next
<1>5. CASE ReapRuntimes(p) /\ proc'[p].pc = "forget"
  <2>1. /\ proc[p].pc = "reap_previous" /\ a \in App /\ UNCHANGED install
        /\ proc'[p].app = a /\ install[a].active # None
    BY <1>0, <1>5, ProcGoto DEF ReapRuntimes, Tracks
  <2>2. /\ Shown(a) = install[a] /\ Shown(a)' = install[a]
        /\ a \in Leaving'
    BY <1>5, <2>1, ShownBy, ShownNext
  <2>3. UNCHANGED Records
    BY <2>1, <2>2, ShownElsewhere DEF Records
  <2>4. Leaving' = Leaving \union {a}
    BY <2>1, <2>2, ShownElsewhere DEF Leaving
  <2>5. Abstract!Leave(a)
    BY <2>1, <2>2, <2>3, <2>4 DEF Abstract!Leave, Records
  <2> QED BY <2>1, <2>5 DEF Abstract!Next
<1>6. CASE ForgetRecords(p) /\ UNCHANGED proc
  <2>1. /\ proc[p].pc = "forget" /\ a \in App
    BY <1>0, <1>6 DEF ForgetRecords
  <2>2. a \in Leaving /\ UNCHANGED Leaving
    BY <1>6, <2>1, ShownBy DEF Leaving
  <2>3. /\ Shown(a) = IF install[a].active = None THEN Blank ELSE install[a]
        /\ Shown(a)' = IF install'[a].active = None THEN Blank ELSE install'[a]
    BY <1>6, <2>1, ShownBy, ShownNext
  <2>4. CASE DeleteRecordFile(a)
    <3>1. CASE install'[a].active = None
      <4>1. Abstract!Becomes(a, None, None)
        BY <2>1, <2>3, <3>1, ShownElsewhere, OneBecomes DEF Blank
      <4>2. Abstract!Forget(a)
        BY <2>2, <4>1 DEF Abstract!Forget
      <4> QED BY <2>1, <4>2 DEF Abstract!Next
    <3>2. CASE install'[a].active # None
      <4>1. /\ install'[a] = [active |-> install[a].active, previous |-> None]
            /\ install[a].active # None
        <5>1. install[a] = [active |-> install[a].active,
                            previous |-> install[a].previous]
          BY <2>1, RecordFields
        <5>2. install' = [install EXCEPT ![a] = [install[a] EXCEPT !.previous = None]]
          BY <1>0, <2>1, <2>4, <3>2 DEF DeleteRecordFile
        <5>3. install[a].active # None
          BY <2>1, <2>4, <3>2, DeleteRecordFileFrame
        <5> QED BY <1>0, <2>1, <5>1, <5>2, <5>3
      <4>2. Abstract!Becomes(a, install[a].active, None)
        BY <2>1, <2>3, <3>2, <4>1, ShownElsewhere, OneBecomes
      <4>3. Records[a].active = install[a].active
        BY <2>1, <2>3, <4>1 DEF Records
      <4>4. Abstract!LosePrevious(a)
        BY <2>2, <4>2, <4>3 DEF Abstract!LosePrevious, Records
      <4> QED BY <2>1, <4>4 DEF Abstract!Next
    <3> QED BY <3>1, <3>2
  <2>5. CASE UNCHANGED install
    BY <2>1, <2>2, <2>3, <2>5, ShownElsewhere, NothingSeen
  <2> QED BY <1>6, <2>4, <2>5 DEF ForgetRecords
<1>7. CASE proc[p].pc = "forget" /\ proc'[p] = Idle /\ UNCHANGED install
  <2>1. a \in App /\ proc'[p].pc = "idle"
    BY <1>0, <1>7 DEF Idle
  <2>2. Shown(a)' = Shown(a) /\ a \in Leaving /\ a \notin Leaving'
    BY <1>7, <2>1, ShownBy, ShownNext
  <2>3. UNCHANGED Records /\ Leaving' = Leaving \ {a}
    BY <2>1, <2>2, ShownElsewhere DEF Records, Leaving
  <2>4. Abstract!Settle(a)
    BY <2>2, <2>3 DEF Abstract!Settle, Records
  <2> QED BY <2>1, <2>4 DEF Abstract!Next
<1>8. CASE \/ Resolve(p) \/ WriteLock(p) \/ Build(p) \/ RenameRuntime(p)
           \/ Publish(p) \/ Link(p) \/ PublishDesktop(p) \/ DropOlder(p)
           \/ RemoveDesktop(p) \/ RemoveExports(p) \/ RemoveOne(p) \/ Collect(p)
  <2> DEFINE Quiet == /\ UNCHANGED install
                      /\ proc[p].pc \notin {"unlink", "rename", "forget"}
                      /\ proc'[p].pc \notin {"unlink", "rename", "forget"}
  <2>1. Resolve(p) => Quiet
    BY ProcGoto, ProcStop DEF Resolve, Idle
  <2>2. WriteLock(p) => Quiet
    BY ProcGoto, ProcStop DEF WriteLock, Idle
  <2>3. Build(p) => Quiet
    BY ProcGoto, ProcStop DEF Build, Idle
  <2>4. RenameRuntime(p) => Quiet
    BY ProcGoto, ProcStop DEF RenameRuntime, Idle
  <2>5. Publish(p) => Quiet
    BY ProcGoto, ProcStop DEF Publish, HasEntry, Idle
  <2>6. Link(p) => Quiet
    BY ProcGoto, ProcStop DEF Link, Idle
  <2>7. PublishDesktop(p) => Quiet
    BY ProcGoto, ProcStop DEF PublishDesktop, HasEntry, Idle
  <2>8. DropOlder(p) => Quiet
    BY ProcGoto, ProcStop DEF DropOlder, Idle
  <2>9. RemoveDesktop(p) => Quiet
    BY ProcGoto, ProcStop DEF RemoveDesktop, Idle
  <2>10. RemoveExports(p) => Quiet
    BY ProcGoto, ProcStop DEF RemoveExports, Idle
  <2>11. RemoveOne(p) => Quiet
    BY ProcGoto, ProcStop DEF RemoveOne, Idle
  <2>12. Collect(p) => Quiet
    BY ProcGoto, ProcStop DEF Collect, Idle
  <2>13. Quiet
    BY <1>8, <2>1, <2>2, <2>3, <2>4, <2>5, <2>6, <2>7, <2>8, <2>9, <2>10, <2>11, <2>12
  <2> QED BY <2>13, <1>1
<1>9. CASE ReapRuntimes(p)
  BY <1>1, <1>5, <1>9, ProcGoto DEF ReapRuntimes
<1>10. CASE ForgetRecords(p)
  BY <1>6, <1>7, <1>10, ProcStop DEF ForgetRecords
<1>11. CASE Interrupt(p)
  <2>1. /\ proc'[p] = Idle /\ UNCHANGED install
        /\ proc[p].pc \notin {"unlink", "rename"}
    BY <1>11, ProcStop DEF Interrupt, SwitchCompletes
  <2> QED BY <1>1, <1>7, <2>1 DEF Idle
<1> QED
  BY <1>2, <1>3, <1>4, <1>8, <1>9, <1>10, <1>11 DEF Continue

\* One command at a time, stopped anywhere but while it switches the records,
\* shows the user an active and a previous generation that change together:
\* install, update and rollback in one step (activate_install and rollback in
\* ops.rs), uninstall by forgetting.
THEOREM SwitchesAreAtomic ==
  ASSUME Alone, SwitchCompletes
  PROVE  Spec => ImplementsGenerations
<1>1. Init => TypeOK /\ Owned /\ Tracks
  BY TypeInit, OwnedInit, TracksInit
<1>2. TypeOK /\ Owned /\ Tracks /\ [Next]_vars => (TypeOK /\ Owned /\ Tracks)'
  BY OwnedStep, TracksStep
<1>3. TypeOK /\ Owned /\ Tracks /\ [Next]_vars => [Abstract!Next]_(Abstract!vars)
  <2>1. ASSUME TypeOK, Owned, Tracks, Next
        PROVE  Abstract!Next \/ Unseen
    BY <2>1, BeginUnseen, ContinueMaps DEF Next
  <2>2. ASSUME UNCHANGED vars
        PROVE  Unseen
    BY <2>2 DEF vars, Unseen, Records, Leaving, Shown, At
  <2> QED BY <2>1, <2>2 DEF Abstract!vars, Unseen, Records
<1> QED
  BY <1>1, <1>2, <1>3, InitMaps, PTL DEF Spec, ImplementsGenerations, Abstract!Spec

=============================================================================
