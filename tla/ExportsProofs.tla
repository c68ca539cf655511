---------------------------- MODULE ExportsProofs ----------------------------
(***************************************************************************)
(* What a removal and a refused publish leave alone and leave behind, for  *)
(* any apps, commands and generations, with kills anywhere and a user who  *)
(* puts files of their own into the session's directory.                   *)
(*                                                                         *)
(* Progress says what the local variables of a command are at each point,  *)
(* Removal that the list of commands to remove stays what the metadata     *)
(* says the app owns: this is why nobody else's command is touched.        *)
(***************************************************************************)
EXTENDS Exports, TLAPS

Writing == {"open", "write", "bin", "rebin", "session", "resession"}

Progress ==
  /\ op = [pc |-> op.pc, doing |-> op.doing, app |-> op.app, gen |-> op.gen,
           cmds |-> op.cmds, cmd |-> op.cmd, at |-> op.at, copies |-> op.copies,
           result |-> op.result]
  /\ op.pc # "idle" => op.app \in App
  /\ op.cmds \subseteq Cmd
  /\ op.pc # "idle" /\ op.doing \in {"publish", "menu"} => op.gen \in Gen
  /\ op.pc \in {"publish", "check"} \union Writing => op.doing = "publish"
  /\ op.pc \in {"list", "unmeta", "unsession", "unbin", "unmenu"}
       => op.doing \in {"publish", "uninstall"}
  /\ op.pc \in {"libexec", "relink"} => op.doing \in {"publish", "menu", "launch"}
  /\ op.pc \in {"menu", "fill"} => op.doing = "menu"
  /\ op.pc \in {"libexec", "relink", "check", "menu", "fill"} /\ op.doing # "launch"
       => Binaries[op.gen] # <<>>
  /\ op.copies \subseteq Copies

Removal ==
  /\ op.pc = "unmeta" => op.cmds = Owned(op.app)
  /\ op.pc \in {"unsession", "unbin"} => op.cmds = Owned(op.app) /\ meta[op.cmd] = None
  /\ op.pc \in {"libexec", "relink", "check"} /\ op.doing = "publish"
       => Owned(op.app) = {}
  /\ op.pc = "idle" /\ op.result = "collision" => Owned(op.app) = {}

Inv == TypeOK /\ Progress /\ Removal

\* The values that stand for no generation are none.
LEMMA Markers ==
  /\ None \notin Gen /\ Torn \notin Gen
  /\ \A g \in Gen : /\ AppOf[g] \in App /\ Binaries[g] \in Seq(Cmd)
                    /\ \A n \in DOMAIN Binaries[g] : Binaries[g][n] \in Cmd
BY ConstantsAssumption

LEMMA InitInv == Init => Inv
<1> SUFFICES ASSUME Init PROVE Inv
  OBVIOUS
<1>1. op = Nothing /\ op.pc = "idle" /\ op.result = "none" /\ op.cmds = {} /\ op.copies = {}
  BY DEF Init, Nothing
<1>2. TypeOK
  BY <1>1 DEF Init, TypeOK, Points
<1>3. Progress
  BY <1>1 DEF Progress, Nothing, Writing
<1>4. Removal
  BY <1>1 DEF Removal
<1>5. QED
  BY <1>2, <1>3, <1>4 DEF Inv

\* A command that ends without a collision leaves nothing to be known.
LEMMA EndInv ==
  ASSUME Inv, End("done") \/ Fail,
         meta' \in [Cmd -> {None, Torn} \union Gen], bin' \in [Cmd -> {None, Lar}],
         session' \in [Cmd -> {None, Link, Foreign}], record' \in [App -> Gen \union {None}],
         libexec' \in BOOLEAN, menu' \in [App -> [Copies -> Cmd \union {None, Torn}]],
         broken' \in BOOLEAN
  PROVE  Inv'
<1>1. CASE End("done")
  <2>1. Progress'
    BY <1>1 DEF Inv, Progress, End, Writing
  <2>2. TypeOK'
    BY <1>1 DEF Inv, TypeOK, Progress, End, Points
  <2>3. Removal'
    BY <1>1 DEF Inv, Progress, Removal, End
  <2>4. QED
    BY <2>1, <2>2, <2>3 DEF Inv
<1>2. CASE Fail
  <2>1. Progress'
    BY <1>2 DEF Progress, Fail, Nothing, Writing
  <2>2. TypeOK'
    BY <1>2 DEF TypeOK, Fail, Nothing, Points
  <2>3. Removal'
    BY <1>2 DEF Removal, Fail, Nothing
  <2>4. QED
    BY <2>1, <2>2, <2>3 DEF Inv
<1>3. QED
  BY <1>1, <1>2

\* A step that leaves the files alone, and what is known of them to be shown.
LEMMA StepInv ==
  ASSUME Inv, UNCHANGED <<record, meta, bin, session, libexec, menu, broken>>,
         Progress', op'.pc \in Points,
         op'.pc \notin {"unsession", "unbin"} \union Writing,
         op'.pc \in {"menu", "fill", "unmenu"} => op'.copies # {},
         op'.pc = "unmeta" => op'.cmds = Owned(op'.app),
         op'.pc \in {"libexec", "relink", "check"} /\ op'.doing = "publish"
           => Owned(op'.app) = {},
         op'.pc = "idle" /\ op'.result = "collision" => Owned(op'.app) = {}
  PROVE  Inv'
<1>1. TypeOK'
  BY DEF Inv, TypeOK, Writing
<1>2. Removal'
  BY DEF Removal, Owned
<1>3. QED
  BY <1>1, <1>2 DEF Inv

\* What follows a removal, when nothing the app owns is left.
LEMMA RemovedInv ==
  ASSUME Inv, Removed, op.pc \in {"list", "unbin"},
         UNCHANGED <<record, meta, session, libexec, menu, broken>>,
         bin' \in [Cmd -> {None, Lar}], Owned(op.app) = {}
  PROVE  Inv'
<1>1. op.doing \in {"publish", "uninstall"} /\ op.app \in App
  BY DEF Inv, Progress
<1>2. \/ op.doing = "uninstall" /\ op' = [op EXCEPT !.pc = "forget"]
      \/ /\ op.doing = "publish" /\ op' = [op EXCEPT !.pc = "unmenu", !.copies = Copies]
      \/ /\ op.doing = "publish" /\ Binaries[op.gen] # <<>>
         /\ op' = [op EXCEPT !.pc = "libexec"]
  BY <1>1 DEF Removed
<1>3. Progress' /\ op'.pc \in {"forget", "unmenu", "libexec"} /\ op'.app = op.app
        /\ (op'.pc = "unmenu" => op'.copies = Copies)
  BY <1>1, <1>2 DEF Inv, Progress, Writing
<1>4. TypeOK'
  BY <1>3 DEF Inv, TypeOK, Points, Writing, Copies
<1>5. Removal'
  BY <1>3 DEF Removal, Owned
<1>6. QED
  BY <1>3, <1>4, <1>5 DEF Inv

LEMMA NextInv == Inv /\ [Next]_vars => Inv'
<1> SUFFICES ASSUME Inv, [Next]_vars PROVE Inv'
  OBVIOUS
<1> USE Markers DEF Inv, TypeOK, Progress, Removal, Points, Writing
<1>1. ASSUME NEW g \in Gen, Activate(g) PROVE Inv'
  BY <1>1 DEF Activate, Nothing, At
<1>2. ASSUME NEW a \in App, Uninstall(a) PROVE Inv'
  <2>1. /\ UNCHANGED <<record, meta, bin, session, libexec, menu, broken>>
        /\ op' = [pc |-> "unmenu", doing |-> "uninstall", app |-> a, gen |-> None,
                  cmds |-> {}, cmd |-> None, at |-> 1, copies |-> Copies,
                  result |-> "none"]
        /\ Copies # {}
    BY <1>2 DEF Uninstall, Nothing, Copies
  <2>2. Progress'
    BY <2>1
  <2>3. QED
    BY <2>1, <2>2, StepInv
<1>23. ASSUME NEW a \in App, Launch(a) PROVE Inv'
  BY <1>23 DEF Launch, Nothing, At
<1>3. CASE Publish
  <2>1. CASE Fail
    BY <1>3, <2>1, EndInv DEF Publish
  <2>2. CASE Goto("list")
    BY <1>3, <2>2 DEF Publish, At, Goto
  <2>3. QED
    BY <1>3, <2>1, <2>2 DEF Publish
<1>4. CASE List
  <2>1. CASE Owned(op.app) = {} /\ Removed
    BY <1>4, <2>1, RemovedInv DEF List, At
  <2>2. CASE op' = [op EXCEPT !.pc = "unmeta", !.cmds = Owned(op.app)]
    <3>1. /\ op.pc = "list" /\ op'.pc = "unmeta" /\ op'.cmds = Owned(op'.app)
          /\ Owned(op.app) \subseteq Cmd
      BY <1>4, <2>2 DEF List, At, Owned
    <3>2. Progress'
      BY <2>2, <3>1
    <3>3. QED
      BY <1>4, <3>1, <3>2, StepInv DEF List
  <2>3. QED
    BY <1>4, <2>1, <2>2 DEF List
<1>5. CASE DeleteMeta
  <2>1. PICK c \in op.cmds :
          /\ meta' = [meta EXCEPT ![c] = None]
          /\ op' = [op EXCEPT !.pc = "unsession", !.cmd = c, !.cmds = op.cmds \ {c}]
    BY <1>5 DEF DeleteMeta
  <2>2. op.pc = "unmeta" /\ c \in Cmd /\ op.cmds = Owned(op.app)
    BY <1>5, <2>1 DEF DeleteMeta, At
  <2>3. TypeOK' /\ Progress'
    BY <1>5, <2>1, <2>2 DEF DeleteMeta
  <2>4. op'.pc = "unsession" /\ op'.cmd = c /\ op'.app = op.app /\ op'.cmds = op.cmds \ {c}
    BY <2>1
  <2>5. meta'[c] = None /\ \A d \in Cmd \ {c} : meta'[d] = meta[d]
    BY <2>1, <2>2
  <2>6. op'.cmds = {d \in Cmd : meta'[d] \in Gen /\ AppOf[meta'[d]] = op'.app}
    BY <2>2, <2>4, <2>5 DEF Owned
  <2>7. Removal'
    BY <2>4, <2>5, <2>6 DEF Owned
  <2>8. QED
    BY <2>3, <2>7
<1>6. CASE DeleteSession
  BY <1>6 DEF DeleteSession, At, Goto, Owned
<1>7. CASE DeleteBin
  <2>1. op.pc = "unbin" /\ bin' \in [Cmd -> {None, Lar}] /\ op.cmds = Owned(op.app)
          /\ UNCHANGED <<record, meta, session, libexec, menu, broken>>
    BY <1>7 DEF DeleteBin, At
  <2>2. CASE op.cmds = {} /\ Removed
    BY <2>1, <2>2, RemovedInv
  <2>3. CASE Goto("unmeta")
    BY <2>1, <2>3 DEF Goto, Owned
  <2>4. QED
    BY <1>7, <2>2, <2>3 DEF DeleteBin
<1>8. CASE Unlink
  <2>1. CASE Fail
    BY <1>8, <2>1, EndInv DEF Unlink
  <2>2. CASE libexec' = FALSE /\ Goto("relink")
    BY <1>8, <2>2 DEF Unlink, At, Goto, Owned
  <2>3. QED
    BY <1>8, <2>1, <2>2 DEF Unlink
<1>9. CASE Relink
  <2>1. op.pc = "relink" /\ libexec' = TRUE /\ UNCHANGED <<record, meta, bin, session, menu, broken>>
    BY <1>9 DEF Relink, At
  <2>2. CASE Fail \/ End("done")
    BY <2>1, <2>2, EndInv
  <2>3. CASE op.doing = "publish" /\ Goto("check")
    BY <2>1, <2>3 DEF Goto, Owned
  <2>4. CASE op.doing = "menu" /\ op' = [op EXCEPT !.pc = "menu", !.copies = Copies]
    BY <2>1, <2>4 DEF Copies
  <2>5. QED
    BY <1>9, <2>1, <2>2, <2>3, <2>4 DEF Relink
<1>10. CASE Check
  <2>1. op.pc = "check" /\ Owned(op.app) = {} /\ Binaries[op.gen] # <<>> /\ op.gen \in Gen
          /\ UNCHANGED <<record, meta, bin, session, libexec, menu, broken>>
    BY <1>10 DEF Check, At
  <2>2. CASE End("collision")
    <3>1. Progress' /\ op'.pc = "idle" /\ op'.app = op.app
      BY <2>1, <2>2 DEF End
    <3>2. QED
      BY <2>1, <3>1, StepInv
  <2>3. CASE op' = [op EXCEPT !.pc = "open", !.at = 1]
    <3>1. 1 \in DOMAIN Binaries[op.gen]
      BY <2>1
    <3>2. QED
      BY <2>1, <2>3, <3>1
  <2>4. QED
    BY <1>10, <2>2, <2>3 DEF Check
<1>11. CASE OpenMeta
  <2>1. CASE Fail
    BY <1>11, <2>1, EndInv DEF OpenMeta
  <2>2. CASE meta' = [meta EXCEPT ![This] = Torn] /\ Goto("write")
    BY <1>11, <2>2 DEF OpenMeta, At, Goto, This
  <2>3. QED
    BY <1>11, <2>1, <2>2 DEF OpenMeta
<1>12. CASE WriteMeta
  BY <1>12 DEF WriteMeta, At, Goto, This
<1>13. CASE UnlinkBin \/ LinkBin
  <2>1. CASE UnlinkBin
    BY <2>1 DEF UnlinkBin, At, Goto, This
  <2>2. CASE LinkBin
    BY <2>2 DEF LinkBin, At, Goto, This
  <2>3. QED
    BY <1>13, <2>1, <2>2
<1>14. CASE UnlinkSession
  BY <1>14 DEF UnlinkSession, At, Goto, This
<1>15. CASE LinkSession
  <2>1. op.pc = "resession" /\ op.gen \in Gen /\ op.at \in DOMAIN Binaries[op.gen]
          /\ session' = [session EXCEPT ![This] = Link]
          /\ UNCHANGED <<record, meta, bin, libexec, menu, broken>>
    BY <1>15 DEF LinkSession, At
  <2>2. session' \in [Cmd -> {None, Link, Foreign}]
    BY <2>1 DEF This
  <2>3. CASE Fail
    BY <2>1, <2>2, <2>3, EndInv
  <2>4. CASE op.at < Len(Binaries[op.gen]) /\ op' = [op EXCEPT !.pc = "open", !.at = op.at + 1]
    <3>1. op.at + 1 \in DOMAIN Binaries[op.gen]
      BY <2>1, <2>4
    <3>2. QED
      BY <2>1, <2>2, <2>4, <3>1
  <2>5. CASE op' = [op EXCEPT !.pc = "libexec", !.doing = "menu"]
    <3>1. Binaries[op.gen] # <<>>
      BY <2>1
    <3>2. QED
      BY <2>1, <2>2, <2>5, <3>1
  <2>6. QED
    BY <1>15, <2>3, <2>4, <2>5 DEF LinkSession
<1>24. CASE EmptyMenu
  <2>1. op.pc = "menu" /\ op.doing = "menu" /\ op.app \in App /\ Goto("fill")
          /\ UNCHANGED <<record, meta, bin, session, libexec, broken>>
    BY <1>24 DEF EmptyMenu, At
  <2>2. menu' \in [App -> [Copies -> Cmd \union {None, Torn}]]
    BY <1>24, <2>1 DEF EmptyMenu
  <2>3. QED
    BY <2>1, <2>2 DEF Goto
<1>16. CASE FillMenu
  <2>1. op.pc = "fill" /\ op.gen \in Gen /\ op.app \in App /\ Binaries[op.gen] # <<>>
          /\ UNCHANGED <<record, meta, bin, session, libexec, broken>>
    BY <1>16 DEF FillMenu, At
  <2>2. PICK k \in op.copies :
          /\ menu' = [menu EXCEPT ![op.app][k] = Binaries[op.gen][1]]
          /\ IF op.copies = {k} THEN End("done")
             ELSE op' = [op EXCEPT !.pc = "menu", !.copies = op.copies \ {k}]
    BY <1>16 DEF FillMenu
  <2>3. Binaries[op.gen][1] \in Cmd
    BY <2>1
  <2>4. menu' \in [App -> [Copies -> Cmd \union {None, Torn}]]
    BY <2>1, <2>2, <2>3
  <2>5. CASE End("done")
    BY <2>1, <2>4, <2>5, EndInv
  <2>6. CASE op.copies # {k} /\ op' = [op EXCEPT !.pc = "menu", !.copies = op.copies \ {k}]
    BY <2>1, <2>2, <2>4, <2>6
  <2>7. QED
    BY <2>2, <2>5, <2>6
<1>17. CASE DeleteMenu
  <2>1. op.pc = "unmenu" /\ op.app \in App /\ op.doing \in {"publish", "uninstall"}
          /\ UNCHANGED <<record, meta, bin, session, libexec, broken>>
    BY <1>17 DEF DeleteMenu, At
  <2>2. PICK k \in op.copies :
          /\ menu' = [menu EXCEPT ![op.app][k] = None]
          /\ \/ op.copies # {k} /\ op' = [op EXCEPT !.copies = op.copies \ {k}]
             \/ op.doing = "uninstall" /\ op' = [op EXCEPT !.pc = "list", !.copies = {}]
             \/ End("done")
    BY <1>17 DEF DeleteMenu
  <2>4. menu' \in [App -> [Copies -> Cmd \union {None, Torn}]]
    BY <2>1, <2>2
  <2>5. CASE End("done")
    BY <2>1, <2>4, <2>5, EndInv
  <2>6. CASE op.copies # {k} /\ op' = [op EXCEPT !.copies = op.copies \ {k}]
    BY <2>1, <2>2, <2>4, <2>6
  <2>7. CASE op.doing = "uninstall" /\ op' = [op EXCEPT !.pc = "list", !.copies = {}]
    BY <2>1, <2>4, <2>7
  <2>8. QED
    BY <2>2, <2>5, <2>6, <2>7
<1>18. CASE Forget
  BY <1>18, EndInv DEF Forget, At
<1>19. CASE Kill
  BY <1>19, EndInv DEF Kill, At
<1>20. ASSUME NEW c \in Own, PutOwn(c) \/ TakeOwn(c) PROVE Inv'
  BY <1>20 DEF PutOwn, TakeOwn, At, Nothing
<1>21. CASE UNCHANGED vars
  BY <1>21 DEF vars, Owned
<1>22. QED
  BY <1>1, <1>2, <1>3, <1>4, <1>5, <1>6, <1>7, <1>8, <1>9, <1>10, <1>11, <1>12, <1>13,
     <1>14, <1>15, <1>16, <1>17, <1>18, <1>19, <1>20, <1>21, <1>23, <1>24 DEF Next

\* What is on disk and what a command holds is well typed, and a command in the
\* middle of a removal or a publish knows which file it is at, however often
\* others were killed.
THEOREM TypeCorrect == Spec => []TypeOK
<1>1. Inv => TypeOK
  BY DEF Inv
<1>2. QED
  BY <1>1, InitInv, NextInv, PTL DEF Spec

\* A publish that is refused for a file in the way leaves none of the app's
\* commands behind (publish).
THEOREM RefusalsLeaveNothing == Spec => []AllOrNothing
<1>1. Inv => AllOrNothing
  BY DEF Inv, Removal, AllOrNothing, Owned, At
<1>2. QED
  BY <1>1, InitInv, NextInv, PTL DEF Spec

-----------------------------------------------------------------------------
(***************************************************************************)
(* What a publish that succeeds has made.  The names before the one being  *)
(* written are complete and stay so, because no two binaries have the same *)
(* name; the app owns no other command, because the removal before it took *)
(* all of them.                                                            *)
(***************************************************************************)

\* A command that runs generation g.
Linked(c, g) == meta[c] = g /\ bin[c] = Lar /\ session[c] = Link

Chosen ==
  op.pc # "idle" /\ op.doing = "publish" =>
    /\ op.gen \in Gen /\ AppOf[op.gen] = op.app
    /\ op.pc # "publish" => ~Repeats(Binaries[op.gen])

Written ==
  op.pc \in Writing =>
    /\ \A n \in DOMAIN Binaries[op.gen] : n < op.at => Linked(Binaries[op.gen][n], op.gen)
    /\ Owned(op.app) \subseteq {Binaries[op.gen][n] : n \in 1 .. op.at}
    /\ op.pc = "write" => meta[This] = Torn
    /\ op.pc \in {"bin", "rebin", "session", "resession"} => meta[This] = op.gen
    /\ op.pc \in {"session", "resession"} => bin[This] = Lar

OnMenu == op.doing = "menu" /\ (op.pc # "idle" \/ op.result = "done")

Complete ==
  OnMenu =>
    /\ op.pc \in {"idle", "libexec", "relink", "menu", "fill"}
    /\ op.gen \in Gen /\ op.app \in App /\ Binaries[op.gen] # <<>>
    /\ Owned(op.app) = Names
    /\ \A c \in Names : Linked(c, op.gen)
    /\ op.pc \in {"idle", "menu", "fill"} =>
         /\ libexec
         /\ \A k \in Copies \ op.copies : menu[op.app][k] = Binaries[op.gen][1]
    /\ op.pc = "idle" => op.copies = {}

Published == Chosen /\ Written /\ Complete

LEMMA InitPublished == Init => Published
BY DEF Init, Nothing, Published, Chosen, Written, Complete, OnMenu, Writing

\* A command that ends before the menu is written has nothing to keep.
LEMMA EndPublished ==
  ASSUME Inv, NEW result, Fail \/ (End(result) /\ op.doing # "menu")
  PROVE  Published'
<1>1. CASE Fail
  BY <1>1 DEF Fail, Nothing, Published, Chosen, Written, Complete, OnMenu, Writing
<1>2. CASE End(result) /\ op.doing # "menu"
  BY <1>2 DEF End, Inv, Progress, Published, Chosen, Written, Complete, OnMenu, Writing
<1>3. QED
  BY <1>1, <1>2

\* So has one on its way to the first name.
LEMMA ChosenPublished ==
  ASSUME Inv, Published, op.pc # "idle", op.doing # "menu",
         op'.pc \notin {"idle", "publish"} \union Writing,
         op'.doing = op.doing, op'.app = op.app, op'.gen = op.gen,
         op.pc = "publish" => ~Repeats(Binaries[op.gen])
  PROVE  Published'
BY DEF Published, Chosen, Written, Complete, OnMenu, Writing

\* Only the files of the name being written change.
LEMMA WritingPublished ==
  ASSUME Inv, Published, op.pc \in Writing,
         op' = [op EXCEPT !.pc = op'.pc], op'.pc \in Writing,
         \A c \in Cmd \ {This} :
           UNCHANGED <<meta[c], bin[c], session[c]>>,
         meta'[This] \in {meta[This], Torn, op.gen},
         op'.pc = "write" => meta'[This] = Torn,
         op'.pc \in {"bin", "rebin", "session", "resession"} => meta'[This] = op.gen,
         op'.pc \in {"session", "resession"} => bin'[This] = Lar
  PROVE  Published'
<1>1. /\ op.doing = "publish" /\ op.gen \in Gen /\ op.app \in App
      /\ op.at \in DOMAIN Binaries[op.gen]
      /\ ~Repeats(Binaries[op.gen]) /\ AppOf[op.gen] = op.app
      /\ UNCHANGED <<op.doing, op.app, op.gen, op.at>> /\ This' = This
  BY DEF Inv, TypeOK, Progress, Writing, Published, Chosen, This
<1>2. Binaries[op.gen] \in Seq(Cmd) /\ This \in Cmd
  BY <1>1, Markers DEF This
<1>3. Chosen' /\ Complete'
  BY <1>1 DEF Published, Chosen, Complete, OnMenu, Writing
<1>4. ASSUME NEW n \in DOMAIN Binaries[op.gen], n < op.at
      PROVE  Linked(Binaries[op.gen][n], op.gen)'
  <2>1. Binaries[op.gen][n] \in Cmd \ {This} /\ Linked(Binaries[op.gen][n], op.gen)
    BY <1>1, <1>2, <1>4, Markers DEF Repeats, This, Published, Written
  <2>2. QED
    BY <1>1, <2>1 DEF Linked
<1>5. Owned(op.app)' \subseteq {Binaries[op.gen][n] : n \in 1 .. op.at}
  <2>1. Owned(op.app)' \subseteq Owned(op.app) \union {This}
    BY <1>1 DEF Owned
  <2>2. This \in {Binaries[op.gen][n] : n \in 1 .. op.at}
    BY <1>1, <1>2 DEF This
  <2>3. QED
    BY <2>1, <2>2 DEF Published, Written
<1>6. Written'
  BY <1>1, <1>4, <1>5 DEF Written
<1>7. QED
  BY <1>3, <1>6 DEF Published

LEMMA NextPublished == Inv /\ Published /\ [Next]_vars => Published'
<1> SUFFICES ASSUME Inv, Published, [Next]_vars PROVE Published'
  OBVIOUS
<1>1. ASSUME NEW g \in Gen, Activate(g) PROVE Published'
  BY <1>1 DEF Activate, Nothing, Published, Chosen, Written, Complete, OnMenu, Writing
<1>2. ASSUME NEW a \in App, Uninstall(a) \/ Launch(a) PROVE Published'
  BY <1>2 DEF Uninstall, Launch, Nothing, Published, Chosen, Written, Complete, OnMenu, Writing
<1>3. CASE Publish
  <2>1. op.pc = "publish" /\ op.doing = "publish"
    BY <1>3 DEF Publish, At, Inv, Progress
  <2>2. CASE Fail
    BY <2>2, EndPublished
  <2>3. CASE ~Repeats(Binaries[op.gen]) /\ Goto("list")
    <3>1. op' = [op EXCEPT !.pc = "list"] /\ op' = [op' EXCEPT !.pc = "list"]
      BY <2>3 DEF Goto, Inv, Progress
    <3>2. op'.pc = "list" /\ op'.doing = op.doing /\ op'.app = op.app /\ op'.gen = op.gen
      BY <3>1 DEF Inv, Progress
    <3>3. QED
      BY <2>1, <2>3, <3>2, ChosenPublished DEF Writing
  <2>4. QED
    BY <1>3, <2>2, <2>3 DEF Publish
<1>4. CASE List \/ DeleteMeta \/ DeleteSession \/ DeleteBin
  <2>1. /\ op.pc \in {"list", "unmeta", "unsession", "unbin"}
        /\ op.doing \in {"publish", "uninstall"}
    BY <1>4 DEF List, DeleteMeta, DeleteSession, DeleteBin, At, Inv, Progress
  <2>2. \/ Removed \/ Goto("unmeta") \/ Goto("unbin")
        \/ op' = [op EXCEPT !.pc = "unmeta", !.cmds = Owned(op.app)]
        \/ \E c \in op.cmds :
             op' = [op EXCEPT !.pc = "unsession", !.cmd = c, !.cmds = op.cmds \ {c}]
    BY <1>4 DEF List, DeleteMeta, DeleteSession, DeleteBin
  <2>3. /\ op'.pc \in {"forget", "unmenu", "libexec", "unmeta", "unbin", "unsession"}
        /\ op'.doing = op.doing /\ op'.app = op.app /\ op'.gen = op.gen
    BY <2>2 DEF Removed, Goto, Inv, Progress
  <2>4. QED
    BY <2>1, <2>3, ChosenPublished DEF Writing
<1>5. CASE Unlink
  <2>1. op.pc = "libexec"
    BY <1>5 DEF Unlink, At
  <2>2. CASE Fail
    BY <2>2, EndPublished
  <2>3. CASE Goto("relink")
    BY <1>5, <2>1, <2>3 DEF Unlink, Goto, Inv, Progress, Published, Chosen, Written, Complete,
           OnMenu, Writing, Owned, Names, Linked
  <2>4. QED
    BY <1>5, <2>2, <2>3 DEF Unlink
<1>6. CASE Relink
  <2>1. op.pc = "relink" /\ op.doing \in {"publish", "menu", "launch"}
    BY <1>6 DEF Relink, At, Inv, Progress
  <2>2. CASE (op.doing = "launch" /\ End("done")) \/ Fail
    BY <2>2, EndPublished
  <2>3. CASE op.doing = "publish" /\ Goto("check")
    BY <2>1, <2>3 DEF Goto, Inv, Progress, Published, Chosen, Written, Complete, OnMenu, Writing
  <2>4. CASE op.doing = "menu" /\ op' = [op EXCEPT !.pc = "menu", !.copies = Copies]
    BY <1>6, <2>1, <2>4 DEF Relink, Inv, Progress, Published, Chosen, Written, Complete,
           OnMenu, Writing, Owned, Names, Linked
  <2>5. QED
    BY <1>6, <2>1, <2>2, <2>3, <2>4 DEF Relink
<1>7. CASE Check
  <2>1. op.pc = "check" /\ op.doing = "publish" /\ Owned(op.app) = {} /\ op.gen \in Gen
          /\ UNCHANGED meta
    BY <1>7 DEF Check, At, Inv, Progress, Removal
  <2>2. CASE End("collision")
    BY <2>1, <2>2, EndPublished
  <2>3. CASE op' = [op EXCEPT !.pc = "open", !.at = 1]
    <3>1. /\ op'.pc = "open" /\ op'.at = 1 /\ op'.doing = "publish"
          /\ op'.app = op.app /\ op'.gen = op.gen
      BY <2>1, <2>3 DEF Inv, Progress
    <3>2. Owned(op.app)' = {}
      BY <2>1, <3>1 DEF Owned
    <3>3. \A n \in DOMAIN Binaries[op.gen] : ~(n < 1)
      BY <2>1, Markers
    <3>4. Chosen' /\ Complete'
      BY <2>1, <3>1 DEF Published, Chosen, Complete, OnMenu
    <3>5. Written'
      BY <3>1, <3>2, <3>3 DEF Written
    <3>6. QED
      BY <3>4, <3>5 DEF Published
  <2>4. QED
    BY <1>7, <2>2, <2>3 DEF Check
<1>8. CASE OpenMeta \/ WriteMeta \/ UnlinkBin \/ LinkBin \/ UnlinkSession
  <2>1. /\ op.pc \in {"open", "write", "bin", "rebin", "session"}
        /\ op.gen \in Gen /\ op.at \in DOMAIN Binaries[op.gen]
    BY <1>8 DEF OpenMeta, WriteMeta, UnlinkBin, LinkBin, UnlinkSession, At, Inv, TypeOK,
           Progress, Writing
  <2>2. This \in Cmd
    BY <2>1, Markers DEF This
  <2>3. CASE Fail
    BY <2>3, EndPublished
  <2>4. CASE ~Fail
    <3>1. \E point \in {"write", "bin", "rebin", "session", "resession"} : Goto(point)
      BY <1>8, <2>4 DEF OpenMeta, WriteMeta, UnlinkBin, LinkBin, UnlinkSession
    <3>2. op' = [op EXCEPT !.pc = op'.pc] /\ op'.pc \in Writing
      BY <3>1 DEF Goto, Inv, Progress, Writing
    <3>3. \A c \in Cmd \ {This} : UNCHANGED <<meta[c], bin[c], session[c]>>
      BY <1>8, <2>2, <2>4 DEF OpenMeta, WriteMeta, UnlinkBin, LinkBin, UnlinkSession, Inv, TypeOK
    <3>4. meta'[This] \in {meta[This], Torn, op.gen}
      BY <1>8, <2>2, <2>4 DEF OpenMeta, WriteMeta, UnlinkBin, LinkBin, UnlinkSession, Inv, TypeOK
    <3>5. /\ op'.pc = "write" => meta'[This] = Torn
          /\ op'.pc \in {"bin", "rebin", "session", "resession"} => meta'[This] = op.gen
          /\ op'.pc \in {"session", "resession"} => bin'[This] = Lar
      <4>1. CASE OpenMeta
        BY <4>1, <2>2, <2>4, <3>2 DEF OpenMeta, Goto, Inv, TypeOK, Progress
      <4>2. CASE WriteMeta
        BY <4>2, <2>2 DEF WriteMeta, Goto, Inv, TypeOK, Progress
      <4>3. CASE UnlinkBin
        BY <4>3 DEF UnlinkBin, At, Goto, Inv, Progress, Published, Written, Writing
      <4>4. CASE LinkBin
        BY <4>4, <2>2 DEF LinkBin, At, Goto, Inv, TypeOK, Progress, Published, Written, Writing
      <4>5. CASE UnlinkSession
        BY <4>5 DEF UnlinkSession, At, Goto, Inv, Progress, Published, Written, Writing
      <4>6. QED
        BY <1>8, <4>1, <4>2, <4>3, <4>4, <4>5
    <3>6. QED
      BY <2>1, <3>2, <3>3, <3>4, <3>5, WritingPublished DEF Writing
  <2>5. QED
    BY <2>3, <2>4
<1>18. CASE LinkSession /\ Fail
  BY <1>18, EndPublished
<1>9. CASE LinkSession /\ ~Fail
  <2>1. /\ op.pc = "resession" /\ op.gen \in Gen /\ op.at \in DOMAIN Binaries[op.gen]
        /\ op.doing = "publish" /\ op.app \in App /\ AppOf[op.gen] = op.app
        /\ session' = [session EXCEPT ![This] = Link]
        /\ UNCHANGED <<meta, bin, menu>>
        /\ Binaries[op.gen] \in Seq(Cmd)
        /\ op'.app = op.app /\ op'.gen = op.gen
    BY <1>9, Markers DEF LinkSession, End, At, Inv, TypeOK, Progress, Writing, Published, Chosen
  <2>2. This \in Cmd /\ meta[This] = op.gen /\ bin[This] = Lar /\ session'[This] = Link
    BY <2>1, Markers DEF This, Inv, TypeOK, Published, Written, Writing
  <2>3. \A n \in DOMAIN Binaries[op.gen] :
           n < op.at + 1 => Linked(Binaries[op.gen][n], op.gen)'
    <3> SUFFICES ASSUME NEW n \in DOMAIN Binaries[op.gen], n < op.at + 1
                 PROVE  Linked(Binaries[op.gen][n], op.gen)'
      OBVIOUS
    <3>1. CASE n = op.at
      BY <2>1, <2>2, <3>1 DEF This, Linked
    <3>2. CASE n < op.at
      <4>1. Linked(Binaries[op.gen][n], op.gen)
        BY <2>1, <3>2 DEF Published, Written, Writing
      <4>2. Binaries[op.gen][n] \in Cmd
        BY <2>1
      <4>3. QED
        BY <2>1, <4>1, <4>2 DEF Linked, Inv, TypeOK
    <3>3. QED
      BY <2>1, <3>1, <3>2
  <2>4. Owned(op.app)' \subseteq {Binaries[op.gen][n] : n \in 1 .. op.at}
    BY <2>1 DEF Owned, Published, Written, Writing
  <2>6. CASE op' = [op EXCEPT !.pc = "open", !.at = op.at + 1]
    <3>1. /\ op'.pc = "open" /\ op'.at = op.at + 1 /\ op'.doing = "publish"
          /\ op'.app = op.app /\ op'.gen = op.gen
      BY <2>1, <2>6 DEF Inv, Progress
    <3>2. Chosen' /\ Complete'
      BY <2>1, <3>1 DEF Published, Chosen, Complete, OnMenu
    <3>3. Owned(op.app)' \subseteq {Binaries[op.gen][n] : n \in 1 .. op.at + 1}
      BY <2>1, <2>4, <3>1
    <3>4. Written'
      BY <2>3, <3>1, <3>3 DEF Written, Linked
    <3>5. QED
      BY <3>2, <3>4 DEF Published
  <2>7. CASE ~(op.at < Len(Binaries[op.gen]))
             /\ op' = [op EXCEPT !.pc = "libexec", !.doing = "menu"]
    <3>1. op'.pc = "libexec" /\ op'.doing = "menu" /\ op'.app = op.app /\ op'.gen = op.gen
      BY <2>1, <2>7 DEF Inv, Progress
    <3>2. op.at = Len(Binaries[op.gen]) /\ DOMAIN Binaries[op.gen] = 1 .. op.at
            /\ Binaries[op.gen] # <<>>
      BY <2>1, <2>7
    <3>3. Names' = {Binaries[op.gen][n] : n \in 1 .. op.at}
      BY <3>1, <3>2 DEF Names
    <3>4. \A c \in Names' : Linked(c, op.gen)'
      <4>1. \A n \in 1 .. op.at : n < op.at + 1
        BY <2>1
      <4>2. QED
        BY <2>1, <2>3, <3>2, <3>3, <4>1 DEF Linked
    <3>5. Owned(op.app)' = Names'
      <4>1. Names' \subseteq Cmd
        BY <2>1, <3>2, <3>3
      <4>2. Names' \subseteq Owned(op.app)'
        BY <2>1, <3>1, <3>4, <4>1 DEF Linked, Owned
      <4>3. QED
        BY <2>4, <3>1, <3>3, <4>2
    <3>6. Complete'
      BY <2>1, <3>1, <3>2, <3>4, <3>5 DEF Complete, OnMenu, Linked
    <3>7. QED
      BY <3>1, <3>6 DEF Published, Chosen, Written, Writing
  <2>8. QED
    BY <1>9, <2>6, <2>7 DEF LinkSession
<1>17. CASE EmptyMenu
  <2>1. /\ op.pc = "menu" /\ op'.pc = "fill" /\ op.doing = "menu" /\ op.app \in App
        /\ UNCHANGED <<op.doing, op.app, op.gen, op.copies>>
        /\ UNCHANGED <<record, meta, bin, session, libexec, broken>>
    BY <1>17 DEF EmptyMenu, At, Goto, Inv, Progress
  <2>2. \A j \in Copies \ op.copies : menu'[op.app][j] = menu[op.app][j]
    BY <1>17, <2>1 DEF EmptyMenu, Inv, TypeOK
  <2>3. Complete'
    BY <2>1, <2>2 DEF Published, Complete, OnMenu, Owned, Names, Linked
  <2>4. QED
    BY <2>1, <2>3 DEF Published, Chosen, Written, Writing
<1>10. CASE FillMenu
  <2>1. op.pc = "fill" /\ op.doing = "menu" /\ op.app \in App /\ op.copies \subseteq Copies
          /\ UNCHANGED <<record, meta, bin, session, libexec, broken>>
    BY <1>10 DEF FillMenu, At, Inv, Progress
  <2>2. PICK k \in op.copies :
          /\ menu' = [menu EXCEPT ![op.app][k] = Binaries[op.gen][1]]
          /\ IF op.copies = {k} THEN End("done")
             ELSE op' = [op EXCEPT !.pc = "menu", !.copies = op.copies \ {k}]
    BY <1>10 DEF FillMenu
  <2>3. /\ op'.pc \in {"idle", "menu"} /\ op'.doing = "menu" /\ op'.app = op.app
        /\ op'.gen = op.gen /\ op'.copies = op.copies \ {k}
        /\ op'.pc = "idle" => op'.copies = {}
    BY <2>1, <2>2 DEF End, Inv, Progress
  <2>4. \A j \in Copies \ op'.copies : menu'[op.app][j] = Binaries[op.gen][1]
    BY <2>1, <2>2, <2>3 DEF Inv, TypeOK, Published, Complete, OnMenu
  <2>5. Complete'
    BY <2>1, <2>3, <2>4 DEF Published, Complete, OnMenu, Owned, Names, Linked
  <2>6. QED
    BY <2>3, <2>5 DEF Published, Chosen, Written, Writing
<1>11. CASE DeleteMenu
  <2>1. op.pc = "unmenu" /\ op.doing \in {"publish", "uninstall"}
    BY <1>11 DEF DeleteMenu, At, Inv, Progress
  <2>2. CASE End("done")
    BY <2>1, <2>2, EndPublished
  <2>3. CASE ~End("done")
    <3>1. /\ op'.pc \in {"unmenu", "list"} /\ op'.doing = op.doing /\ op'.app = op.app
          /\ op'.gen = op.gen
      BY <1>11, <2>1, <2>3 DEF DeleteMenu, Inv, Progress
    <3>2. QED
      BY <2>1, <3>1, ChosenPublished DEF Writing
  <2>4. QED
    BY <2>2, <2>3
<1>12. CASE Forget
  <2>1. op.doing # "menu"
    BY <1>12 DEF Forget, At, Published, Complete, OnMenu
  <2>2. QED
    BY <1>12, <2>1, EndPublished DEF Forget
<1>13. CASE Kill
  BY <1>13, EndPublished DEF Kill
<1>14. ASSUME NEW c \in Own, PutOwn(c) \/ TakeOwn(c) PROVE Published'
  BY <1>14 DEF PutOwn, TakeOwn, Nothing, Published, Chosen, Written, Complete, OnMenu, Writing
<1>15. CASE UNCHANGED vars
  BY <1>15 DEF vars, Published, Chosen, Written, Complete, OnMenu, Owned, Names, This, Linked
<1>16. QED
  BY <1>1, <1>2, <1>3, <1>4, <1>5, <1>6, <1>7, <1>8, <1>9, <1>10, <1>11, <1>12, <1>13,
     <1>14, <1>15, <1>17, <1>18 DEF Next


\* Whatever has been killed before: after an install, update or rollback that
\* succeeded, exactly the names of its generation are the app's commands, each
\* runs it, and so does the menu (publish, launch_cmd).
THEOREM PublishedCommandsRun == Spec => []PublishedRuns
<1>1. Inv /\ Published => PublishedRuns
  <2> SUFFICES ASSUME Inv, Published, At("idle"), op.doing = "menu", op.result = "done"
               PROVE  /\ Owned(op.app) = Names
                      /\ \A c \in Names : Runs(c, "path") = op.gen
                      /\ \A k \in Copies :
                           menu[op.app][k] \in Cmd /\ Runs(menu[op.app][k], "menu") = op.gen
    BY DEF PublishedRuns
  <2>1. /\ libexec /\ Owned(op.app) = Names /\ op.gen \in Gen /\ Binaries[op.gen] # <<>>
        /\ \A c \in Names : Linked(c, op.gen)
        /\ \A k \in Copies : menu[op.app][k] = Binaries[op.gen][1]
    BY DEF At, Published, Complete, OnMenu
  <2>2. \A c \in Names : Runs(c, "path") = op.gen /\ Runs(c, "menu") = op.gen
    BY <2>1 DEF Runs, Starts, Visits, Loaded, IsLarSession, IsLarBin, Linked
  <2>3. Binaries[op.gen][1] \in Names /\ Binaries[op.gen][1] \in Cmd
    BY <2>1, Markers DEF Names
  <2>4. QED
    BY <2>1, <2>2, <2>3
<1>2. QED
  BY <1>1, InitInv, NextInv, InitPublished, NextPublished, PTL DEF Spec

\* The only step of a command that touches a command of another app is the one
\* that begins to write a name of the generation being published: uninstalls
\* never do, nor do updates and rollbacks to what does not export that name
\* (list_cmds_for_app, remove, publish).
THEOREM OthersAreSpared == Spec => OthersStay
<1> DEFINE Spared ==
      \A c \in Cmd :
        ~At("idle") /\ meta[c] \in Gen /\ AppOf[meta[c]] # op.app =>
          \/ UNCHANGED <<meta[c], bin[c], session[c]>>
          \/ At("open") /\ c = This
<1>1. Inv /\ Published /\ [Next]_vars => [Spared]_vars
  <2> SUFFICES ASSUME Inv, Published, Next, op.pc # "idle",
                      NEW c \in Cmd, meta[c] \in Gen, AppOf[meta[c]] # op.app,
                      ~(op.pc = "open" /\ c = This)
               PROVE  UNCHANGED <<meta[c], bin[c], session[c]>>
    BY DEF vars, At
  <2>1. \/ DeleteMeta \/ DeleteSession \/ DeleteBin
        \/ OpenMeta \/ WriteMeta \/ UnlinkBin \/ LinkBin \/ UnlinkSession \/ LinkSession
        \/ UNCHANGED <<meta, bin, session>>
    BY DEF Next, Activate, Uninstall, Launch, Publish, List, Unlink, Relink, Check, EmptyMenu,
           FillMenu, DeleteMenu, Forget, PutOwn, TakeOwn, Kill, At
  <2>2. CASE DeleteMeta
    <3>1. op.pc = "unmeta" /\ c \notin op.cmds
      BY <2>2 DEF DeleteMeta, At, Inv, Removal, Owned
    <3>2. QED
      BY <2>2, <3>1 DEF DeleteMeta, Inv, TypeOK
  <2>3. CASE DeleteSession
    <3>1. c # op.cmd
      BY <2>3, Markers DEF DeleteSession, At, Inv, Removal
    <3>2. QED
      BY <2>3, <3>1 DEF DeleteSession, Inv, TypeOK
  <2>4. CASE DeleteBin
    <3>1. c # op.cmd
      BY <2>4, Markers DEF DeleteBin, At, Inv, Removal
    <3>2. QED
      BY <2>4, <3>1 DEF DeleteBin, Inv, TypeOK
  <2>5. CASE OpenMeta \/ WriteMeta \/ UnlinkBin \/ LinkBin \/ UnlinkSession \/ LinkSession
    <3>1. /\ op.pc \in Writing /\ op.doing = "publish" /\ op.gen \in Gen
          /\ op.at \in DOMAIN Binaries[op.gen]
      BY <2>5 DEF OpenMeta, WriteMeta, UnlinkBin, LinkBin, UnlinkSession, LinkSession,
             At, Inv, TypeOK, Progress, Writing
    <3>2. This \in Cmd /\ AppOf[op.gen] = op.app
      BY <3>1, Markers DEF This, Published, Chosen, Writing
    <3>3. c # This
      BY <3>1, <3>2, Markers DEF Published, Written, Writing
    <3>4. QED
      BY <2>5, <3>2, <3>3 DEF OpenMeta, WriteMeta, UnlinkBin, LinkBin, UnlinkSession,
             LinkSession, Inv, TypeOK
  <2>6. QED
    BY <2>1, <2>2, <2>3, <2>4, <2>5
<1>2. QED
  BY <1>1, InitInv, NextInv, InitPublished, NextPublished, PTL DEF Spec, OthersStay

-----------------------------------------------------------------------------
(***************************************************************************)
(* Metadata and links come and go together: all commands have both or      *)
(* neither, but for the one that is being removed or written.              *)
(***************************************************************************)

Subject ==
  IF op.pc \in {"unsession", "unbin"} THEN {op.cmd}
  ELSE IF op.pc \in {"write", "bin", "rebin"} THEN {This} ELSE {}

Pair(c) ==
  /\ meta[c] # Torn
  /\ bin[c] = Lar <=> meta[c] \in Gen
  /\ session[c] = Link => bin[c] = Lar

Paired ==
  ~broken =>
    /\ \A c \in Cmd \ Subject : Pair(c)
    /\ op.pc = "unbin" => session[op.cmd] = None

LEMMA InitPaired == Init => Paired
BY Markers, ConstantsAssumption DEF Init, Nothing, Paired, Pair

\* A step that leaves the files alone at a point without a subject.
LEMMA StillPaired ==
  ASSUME Paired, UNCHANGED <<meta, bin, session>>, broken' = broken,
         Subject = {}, Subject' = {}, op'.pc # "unbin"
  PROVE  Paired'
BY DEF Paired, Pair

LEMMA NextPaired == Inv /\ Published /\ Paired /\ [Next]_vars => Paired'
<1> SUFFICES ASSUME Inv, Published, Paired, [Next]_vars PROVE Paired'
  OBVIOUS
<1>1. CASE \/ \E g \in Gen : Activate(g)
           \/ \E a \in App : Uninstall(a) \/ Launch(a)
           \/ Publish \/ List \/ Unlink \/ Relink \/ Check
           \/ EmptyMenu \/ FillMenu \/ DeleteMenu \/ Forget
  <2>1. /\ UNCHANGED <<meta, bin, session, broken>>
        /\ op.pc \notin {"unsession", "unbin", "write", "bin", "rebin"}
    BY <1>1 DEF Activate, Uninstall, Launch, Publish, List, Unlink, Relink, Check,
           EmptyMenu, FillMenu, DeleteMenu, Forget, At
  <2>2. op'.pc \notin {"unsession", "unbin", "write", "bin", "rebin"}
    <3>1. CASE Fail
      BY <3>1 DEF Fail, Nothing
    <3>2. CASE \/ \E g \in Gen : Activate(g)
               \/ \E a \in App : Uninstall(a) \/ Launch(a)
      BY <3>2 DEF Activate, Uninstall, Launch, Nothing
    <3>5. CASE ~Fail /\ (Publish \/ List \/ Unlink \/ Relink)
      <4>1. CASE Publish \/ Unlink
        BY <3>5, <4>1 DEF Publish, Unlink, Goto, Inv, Progress
      <4>2. CASE List
        BY <4>2 DEF List, Removed, Inv, Progress
      <4>3. CASE Relink
        <5>1. Goto("check") \/ End("done") \/ op' = [op EXCEPT !.pc = "menu", !.copies = Copies]
          BY <3>5, <4>3 DEF Relink, At, Inv, Progress
        <5>2. QED
          BY <5>1 DEF Goto, End, Inv, Progress
      <4>4. QED
        BY <3>5, <4>1, <4>2, <4>3
    <3>3. CASE ~Fail /\ (Check \/ EmptyMenu \/ FillMenu \/ DeleteMenu \/ Forget)
      <4>1. op.pc \in {"check", "menu", "fill", "unmenu", "forget"}
        BY <3>3 DEF Check, EmptyMenu, FillMenu, DeleteMenu, Forget, At
      <4>2. op'.pc \in {op.pc, "idle", "open", "fill", "menu", "list"}
        BY <3>3 DEF Check, EmptyMenu, FillMenu, DeleteMenu, Forget, Goto, End, Inv, Progress
      <4>3. QED
        BY <4>1, <4>2
    <3>4. QED
      BY <1>1, <3>1, <3>2, <3>3, <3>5
  <2>3. QED
    BY <2>1, <2>2, StillPaired DEF Subject
<1>2. CASE DeleteMeta
  <2>1. PICK c \in op.cmds :
          /\ meta' = [meta EXCEPT ![c] = None]
          /\ op' = [op EXCEPT !.pc = "unsession", !.cmd = c, !.cmds = op.cmds \ {c}]
    BY <1>2 DEF DeleteMeta
  <2>2. op.pc = "unmeta" /\ op'.pc = "unsession" /\ op'.cmd = c
    BY <1>2, <2>1 DEF DeleteMeta, At, Inv, Progress
  <2>3. QED
    BY <1>2, <2>1, <2>2 DEF DeleteMeta, Paired, Pair, Subject, Inv, TypeOK
<1>3. CASE DeleteSession
  <2>1. /\ op.pc = "unsession" /\ op'.pc = "unbin" /\ op'.cmd = op.cmd /\ op.cmd \in Cmd
        /\ session' = [session EXCEPT ![op.cmd] = None]
    BY <1>3 DEF DeleteSession, At, Goto, Inv, Progress, TypeOK
  <2>2. QED
    BY <1>3, <2>1 DEF DeleteSession, Paired, Pair, Subject, Inv, TypeOK
<1>4. CASE DeleteBin
  <2>1. /\ op.pc = "unbin" /\ op.cmd \in Cmd /\ meta[op.cmd] = None
        /\ bin' = [bin EXCEPT ![op.cmd] = None]
        /\ UNCHANGED <<meta, session, broken>>
    BY <1>4 DEF DeleteBin, At, Inv, TypeOK, Removal
  <2>2. op'.pc \in {"forget", "unmenu", "libexec", "unmeta"}
    BY <1>4 DEF DeleteBin, Removed, Goto, Inv, Progress
  <2>3. ASSUME ~broken, NEW c \in Cmd PROVE Pair(c)'
    <3>1. CASE c = op.cmd
      BY <2>1, <2>3, <3>1, Markers, ConstantsAssumption DEF Paired, Pair, Inv, TypeOK
    <3>2. CASE c # op.cmd
      BY <2>1, <2>3, <3>2 DEF Paired, Pair, Subject, Inv, TypeOK
    <3>3. QED
      BY <3>1, <3>2
  <2>4. QED
    BY <2>1, <2>2, <2>3 DEF Paired, Subject
<1>5. CASE OpenMeta
  <2>1. /\ op.pc = "open" /\ op.gen \in Gen /\ op.at \in DOMAIN Binaries[op.gen]
        /\ UNCHANGED <<bin, session, broken>>
    BY <1>5 DEF OpenMeta, At, Inv, TypeOK, Progress, Writing
  <2>2. CASE Fail /\ UNCHANGED meta
    BY <2>1, <2>2, StillPaired DEF Subject, Fail, Nothing
  <2>3. CASE meta' = [meta EXCEPT ![This] = Torn] /\ Goto("write")
    <3>1. This \in Cmd /\ op'.pc = "write" /\ This' = This
      BY <2>1, <2>3, Markers DEF Goto, This, Inv, Progress
    <3>2. QED
      BY <2>1, <2>3, <3>1 DEF Paired, Pair, Subject, Inv, TypeOK
  <2>4. QED
    BY <1>5, <2>2, <2>3 DEF OpenMeta
<1>6. CASE WriteMeta \/ UnlinkBin
  <2>1. /\ op.pc \in {"write", "bin"} /\ op'.pc \in {"bin", "rebin"}
        /\ op.gen \in Gen /\ op.at \in DOMAIN Binaries[op.gen] /\ This' = This
    BY <1>6 DEF WriteMeta, UnlinkBin, At, Goto, This, Inv, TypeOK, Progress, Writing
  <2>2. This \in Cmd
    BY <2>1, Markers DEF This
  <2>3. \A c \in Cmd \ {This} : UNCHANGED <<meta[c], bin[c], session[c], broken>>
    BY <1>6, <2>2 DEF WriteMeta, UnlinkBin, Inv, TypeOK
  <2>4. QED
    BY <1>6, <2>1, <2>3 DEF WriteMeta, UnlinkBin, Paired, Pair, Subject
<1>7. CASE LinkBin
  <2>1. /\ op.pc = "rebin" /\ op'.pc = "session" /\ UNCHANGED <<meta, session, broken>>
        /\ op.gen \in Gen /\ op.at \in DOMAIN Binaries[op.gen] /\ meta[This] = op.gen
    BY <1>7 DEF LinkBin, At, Goto, Inv, TypeOK, Progress, Writing, Published, Written
  <2>2. This \in Cmd /\ bin' = [bin EXCEPT ![This] = Lar]
    BY <1>7, <2>1, Markers DEF This, LinkBin
  <2>3. ASSUME ~broken, NEW c \in Cmd PROVE Pair(c)'
    <3>1. CASE c = This
      BY <2>1, <2>2, <2>3, <3>1, Markers DEF Pair, Inv, TypeOK
    <3>2. CASE c # This
      BY <2>1, <2>2, <2>3, <3>2 DEF Paired, Pair, Subject, Inv, TypeOK
    <3>3. QED
      BY <3>1, <3>2
  <2>4. QED
    BY <2>1, <2>3 DEF Paired, Subject
<1>8. CASE UnlinkSession \/ LinkSession
  <2>1. /\ op.pc \in {"session", "resession"}
        /\ op'.pc \in {"resession", "open", "libexec", "idle"}
        /\ op.gen \in Gen /\ op.at \in DOMAIN Binaries[op.gen] /\ bin[This] = Lar
        /\ UNCHANGED <<meta, bin, broken>>
    <3>1. op.pc \in {"session", "resession"} /\ UNCHANGED <<meta, bin, broken>>
      BY <1>8 DEF UnlinkSession, LinkSession, At
    <3>2. /\ op.gen \in Gen /\ op.at \in DOMAIN Binaries[op.gen] /\ bin[This] = Lar
      BY <3>1 DEF Inv, TypeOK, Progress, Writing, Published, Written
    <3>3. op'.pc \in {"resession", "open", "libexec", "idle"}
      <4>1. CASE Fail
        BY <4>1 DEF Fail, Nothing
      <4>2. CASE ~Fail
        BY <1>8, <4>2 DEF UnlinkSession, LinkSession, Goto, Inv, Progress
      <4>3. QED
        BY <4>1, <4>2
    <3>4. QED
      BY <3>1, <3>2, <3>3
  <2>2. This \in Cmd
    BY <2>1, Markers DEF This
  <2>3. ASSUME ~broken, NEW c \in Cmd PROVE Pair(c)'
    <3>1. Pair(c)
      BY <2>1, <2>3 DEF Paired, Subject
    <3>2. session'[c] = session[c] \/ c = This
      BY <1>8, <2>2 DEF UnlinkSession, LinkSession, Inv, TypeOK
    <3>3. QED
      BY <2>1, <3>1, <3>2 DEF Pair
  <2>4. QED
    BY <2>1, <2>3 DEF Paired, Subject
<1>9. CASE Kill
  BY <1>9 DEF Kill, Paired
<1>10. ASSUME NEW c \in Own, PutOwn(c) \/ TakeOwn(c) PROVE Paired'
  <2>1. /\ op.pc = "idle" /\ op'.pc = "idle" /\ UNCHANGED <<meta, bin, broken>>
        /\ session' = [session EXCEPT ![c] = Foreign] \/ session' = [session EXCEPT ![c] = None]
    BY <1>10 DEF PutOwn, TakeOwn, At, Nothing
  <2>2. ASSUME ~broken, NEW d \in Cmd PROVE Pair(d)'
    <3>1. Pair(d)
      BY <2>1, <2>2 DEF Paired, Subject
    <3>2. session'[d] = session[d] \/ session'[d] \in {Foreign, None}
      BY <2>1 DEF Inv, TypeOK
    <3>3. QED
      BY <2>1, <3>1, <3>2, ConstantsAssumption DEF Pair
  <2>3. QED
    BY <2>1, <2>2 DEF Paired, Subject
<1>11. CASE UNCHANGED vars
  BY <1>11 DEF vars, Paired, Pair, Subject, This
<1>12. QED
  BY <1>1, <1>2, <1>3, <1>4, <1>5, <1>6, <1>7, <1>8, <1>9, <1>10, <1>11 DEF Next

\* Unless a command was killed, there is no torn metadata between commands, a
\* command has a link in the prefix exactly if it has metadata, and one in the
\* session only if it has both, also after publishes that were refused or failed
\* half-way (publish, remove).
THEOREM CommandsMatch == Spec => []Matched
<1>1. Paired => Matched
  BY DEF Paired, Pair, Subject, Matched, At
<1>2. QED
  BY <1>1, InitInv, NextInv, InitPublished, NextPublished, InitPaired, NextPaired, PTL DEF Spec

=============================================================================
