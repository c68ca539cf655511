------------------------------ MODULE Exports ------------------------------
(***************************************************************************)
(* The commands and menu entries of installed apps: lar-manager's exports, *)
(* desktop and launch_cmd, and the trampoline that runs them.              *)
(*                                                                         *)
(* A command is metadata {prefix}/share/lar/exports/{cmd}.toml, a link     *)
(* {prefix}/bin/{cmd} to {prefix}/libexec/lar-exec, and a link to that one *)
(* in the session's bin directory, ~/.local/bin.  Each is changed in a     *)
(* step of its own; a command may be killed between two of them.  Several  *)
(* apps may export one name, and the user may put files of their own into  *)
(* the session's directory.                                                *)
(*                                                                         *)
(* Installs has the life of the records and runtimes and one export per    *)
(* app.  Here a record is what an install, update or rollback has just     *)
(* made active.  One command runs at a time.                               *)
(***************************************************************************)
EXTENDS Naturals, Sequences

CONSTANTS
  App, Cmd,
  Gen,       \* generations of apps
  AppOf,     \* the app of a generation
  Binaries,  \* the command names of a generation's [entry].binaries in order,
             \* the default one first; none without an [entry]
  Own,       \* the command names under which the user puts files of their own
  None,      \* nothing there
  Torn,      \* metadata or a menu entry that is empty or cut off
  Lar,       \* a link to libexec/lar-exec
  Link,      \* a link from the session's directory to the prefix's
  Foreign    \* a file that lar has not made

ASSUME ConstantsAssumption ==
  /\ AppOf \in [Gen -> App]
  /\ Binaries \in [Gen -> Seq(Cmd)]
  /\ Own \subseteq Cmd
  /\ None \notin App \union Gen \union Cmd
  /\ Torn \notin Gen \union Cmd \union {None}
  /\ Lar # None /\ Foreign # None /\ Link \notin {None, Foreign}

VARIABLES
  record,   \* the active generation of each app
  meta,     \* the generation a command's metadata starts, Torn or None
  bin,      \* {prefix}/bin/{cmd}
  session,  \* ~/.local/bin/{cmd}
  libexec,  \* whether {prefix}/libexec/lar-exec is there
  menu,     \* the command started by the prefix's and the session's copy of an
            \* app's .desktop file, Torn or None
  op,       \* the command under way: program point and local variables
  broken    \* history: whether a command has ever been killed

vars == <<record, meta, bin, session, libexec, menu, op, broken>>

Copies == {"prefix", "session"}

\* Program points in the order of a publish; "unmenu" and "forget" are only
\* met by uninstall, or without an [entry].
Points == {"idle", "publish", "list", "unmeta", "unsession", "unbin",
           "libexec", "relink", "check", "open", "write", "bin", "rebin",
           "session", "resession", "menu", "fill", "unmenu", "forget"}

\* doing: what the command is for; cmds: commands to remove, or already written
\* ones; at: the command being written; copies: .desktop files still to do;
\* result: how the last command ended.
Nothing == [pc |-> "idle", doing |-> "nothing", app |-> None, gen |-> None,
            cmds |-> {}, cmd |-> None, at |-> 1, copies |-> {},
            result |-> "none"]

Init ==
  /\ record = [a \in App |-> None]
  /\ meta = [c \in Cmd |-> None]
  /\ bin = [c \in Cmd |-> None]
  /\ session = [c \in Cmd |-> None]
  /\ libexec = FALSE
  /\ menu = [a \in App |-> [k \in Copies |-> None]]
  /\ op = Nothing
  /\ broken = FALSE

At(point) == op.pc = point
Goto(point) == op' = [op EXCEPT !.pc = point]

\* A command ends; one that failed or was killed is forgotten.
End(result) == op' = [op EXCEPT !.pc = "idle", !.result = result,
                                !.cmds = {}, !.cmd = None, !.at = 1, !.copies = {}]
Fail == op' = Nothing

Names == {Binaries[op.gen][n] : n \in DOMAIN Binaries[op.gen]}
This == Binaries[op.gen][op.at]

-----------------------------------------------------------------------------
(***************************************************************************)
(* Commands.                                                               *)
(***************************************************************************)

\* install, update and rollback publish what they have made active.
Activate(g) ==
  /\ At("idle")
  /\ record' = [record EXCEPT ![AppOf[g]] = g]
  /\ op' = [Nothing EXCEPT !.pc = "publish", !.doing = "publish",
                           !.app = AppOf[g], !.gen = g]
  /\ UNCHANGED <<meta, bin, session, libexec, menu, broken>>

Uninstall(a) ==
  /\ At("idle") /\ record[a] # None
  /\ op' = [Nothing EXCEPT !.pc = "unmenu", !.doing = "uninstall", !.app = a,
                           !.copies = Copies]
  /\ UNCHANGED <<record, meta, bin, session, libexec, menu, broken>>

\* `lar launch` renews libexec/lar-exec before it looks at the record.
Launch(a) ==
  /\ At("idle")
  /\ op' = [Nothing EXCEPT !.pc = "libexec", !.doing = "launch", !.app = a]
  /\ UNCHANGED <<record, meta, bin, session, libexec, menu, broken>>

-----------------------------------------------------------------------------
(***************************************************************************)
(* exports::remove.                                                        *)
(***************************************************************************)

\* Mutant: the commands of the active generation, whoever has them now.
OwnedByName(a) ==
  IF record[a] = None THEN {}
  ELSE {Binaries[record[a]][n] : n \in DOMAIN Binaries[record[a]]}

\* list_cmds_for_app: the metadata says whose a command is; what does not parse
\* is nobody's.
Owned(a) == {c \in Cmd : meta[c] \in Gen /\ AppOf[meta[c]] = a}

\* What follows remove in publish and in uninstall.
Removed ==
  IF op.doing = "uninstall" THEN op' = [op EXCEPT !.pc = "forget"]
  ELSE IF Binaries[op.gen] = <<>>
  THEN op' = [op EXCEPT !.pc = "unmenu", !.copies = Copies]
  ELSE op' = [op EXCEPT !.pc = "libexec"]

List ==
  /\ At("list")
  /\ IF Owned(op.app) = {} THEN Removed
     ELSE op' = [op EXCEPT !.pc = "unmeta", !.cmds = Owned(op.app)]
  /\ UNCHANGED <<record, meta, bin, session, libexec, menu, broken>>

DeleteMeta ==
  /\ At("unmeta")
  /\ \E c \in op.cmds :
       /\ meta' = [meta EXCEPT ![c] = None]
       /\ op' = [op EXCEPT !.pc = "unsession", !.cmd = c, !.cmds = @ \ {c}]
  /\ UNCHANGED <<record, bin, session, libexec, menu, broken>>

\* Whatever is there under the command's name is deleted.
DeleteSession ==
  /\ At("unsession")
  /\ session' = [session EXCEPT ![op.cmd] = None]
  /\ Goto("unbin")
  /\ UNCHANGED <<record, meta, bin, libexec, menu, broken>>

\* Mutant: the prefix's link stays for the next publish.
DeleteBinNot ==
  /\ At("unbin")
  /\ IF op.cmds = {} THEN Removed ELSE Goto("unmeta")
  /\ UNCHANGED <<record, meta, bin, session, libexec, menu, broken>>

DeleteBin ==
  /\ At("unbin")
  /\ bin' = [bin EXCEPT ![op.cmd] = None]
  /\ IF op.cmds = {} THEN Removed ELSE Goto("unmeta")
  /\ UNCHANGED <<record, meta, session, libexec, menu, broken>>

-----------------------------------------------------------------------------
(***************************************************************************)
(* exports::publish.                                                       *)
(***************************************************************************)

Repeats(s) == \E i, j \in DOMAIN s : i # j /\ s[i] = s[j]

\* Mutant: what the app exported before stays.
PublishOver ==
  /\ At("publish")
  /\ IF Repeats(Binaries[op.gen]) THEN Fail
     ELSE IF Binaries[op.gen] = <<>> THEN Goto("list") ELSE Goto("libexec")
  /\ UNCHANGED <<record, meta, bin, session, libexec, menu, broken>>

\* Two binaries of one base name are refused before anything is removed, as
\* are a package that is not in the store and a runtime that is not there.
Publish ==
  /\ At("publish")
  /\ \/ IF Repeats(Binaries[op.gen]) THEN Fail ELSE Goto("list")
     \/ Fail
  /\ UNCHANGED <<record, meta, bin, session, libexec, menu, broken>>

\* ensure_libexec_lar_exec: there has to be a lar-exec next to lar.  Unlinking
\* and linking again are two steps.
Unlink ==
  /\ At("libexec")
  /\ \/ libexec' = FALSE /\ Goto("relink")
     \/ Fail /\ UNCHANGED libexec
  /\ UNCHANGED <<record, meta, bin, session, menu, broken>>

\* For publish the packages' platform needs are read next; one that is no
\* longer in the store ends it.
Relink ==
  /\ At("relink")
  /\ libexec' = TRUE
  /\ CASE op.doing = "publish" -> Goto("check") \/ Fail
       [] op.doing = "menu" -> op' = [op EXCEPT !.pc = "menu", !.copies = Copies]
       [] op.doing = "launch" -> End("done")
  /\ UNCHANGED <<record, meta, bin, session, menu, broken>>

\* is_lar_export: the links lead to lar-exec.
IsLarBin(c) == libexec /\ bin[c] = Lar
IsLarSession(c) == session[c] = Link /\ IsLarBin(c)

Collides(c) ==
  \/ bin[c] # None /\ ~IsLarBin(c)
  \/ session[c] # None /\ ~IsLarSession(c)

\* Every name is looked at before the first one is written.
Check ==
  /\ At("check")
  /\ IF \E c \in Names : Collides(c) THEN End("collision")
     ELSE op' = [op EXCEPT !.pc = "open", !.at = 1]
  /\ UNCHANGED <<record, meta, bin, session, libexec, menu, broken>>

\* Mutant: metadata that is there is not written again.
OpenMetaOnce ==
  /\ At("open")
  /\ \/ meta' = [meta EXCEPT ![This] = Torn] /\ meta[This] = None /\ Goto("write")
     \/ meta[This] # None /\ Goto("bin") /\ UNCHANGED meta
     \/ Fail /\ UNCHANGED meta
  /\ UNCHANGED <<record, bin, session, libexec, menu, broken>>

\* The binary has to be in the runtime.  fs::write empties the file first.
OpenMeta ==
  /\ At("open")
  /\ \/ meta' = [meta EXCEPT ![This] = Torn] /\ Goto("write")
     \/ Fail /\ UNCHANGED meta
  /\ UNCHANGED <<record, bin, session, libexec, menu, broken>>

WriteMeta ==
  /\ At("write")
  /\ meta' = [meta EXCEPT ![This] = op.gen]
  /\ Goto("bin")
  /\ UNCHANGED <<record, bin, session, libexec, menu, broken>>

\* replace_symlink, for both links.
UnlinkBin ==
  /\ At("bin")
  /\ bin' = [bin EXCEPT ![This] = None]
  /\ Goto("rebin")
  /\ UNCHANGED <<record, meta, session, libexec, menu, broken>>

LinkBin ==
  /\ At("rebin")
  /\ bin' = [bin EXCEPT ![This] = Lar]
  /\ Goto("session")
  /\ UNCHANGED <<record, meta, session, libexec, menu, broken>>

UnlinkSession ==
  /\ At("session")
  /\ session' = [session EXCEPT ![This] = None]
  /\ Goto("resession")
  /\ UNCHANGED <<record, meta, bin, libexec, menu, broken>>

\* Mutant: one command too many.
LinkSessionMore ==
  /\ At("resession")
  /\ session' = [session EXCEPT ![This] = Link]
  /\ IF op.at <= Len(Binaries[op.gen])
     THEN op' = [op EXCEPT !.pc = "open", !.at = @ + 1]
     ELSE \/ op' = [op EXCEPT !.pc = "libexec", !.doing = "menu"]
          \/ Fail
  /\ UNCHANGED <<record, meta, bin, libexec, menu, broken>>

\* After the last command desktop::publish follows; an icon that is not in the
\* package ends it.
LinkSession ==
  /\ At("resession")
  /\ session' = [session EXCEPT ![This] = Link]
  /\ IF op.at < Len(Binaries[op.gen])
     THEN op' = [op EXCEPT !.pc = "open", !.at = @ + 1]
     ELSE \/ op' = [op EXCEPT !.pc = "libexec", !.doing = "menu"]
          \/ Fail
  /\ UNCHANGED <<record, meta, bin, libexec, menu, broken>>

-----------------------------------------------------------------------------
(***************************************************************************)
(* desktop::publish and remove, the end of uninstall.                      *)
(***************************************************************************)

First(k) == k = "prefix" \/ "prefix" \notin op.copies

\* write_desktop_file: fs::write empties the file first.
EmptyMenu ==
  /\ At("menu")
  /\ \E k \in op.copies : First(k) /\ menu' = [menu EXCEPT ![op.app][k] = Torn]
  /\ Goto("fill")
  /\ UNCHANGED <<record, meta, bin, session, libexec, broken>>

\* The prefix's link of the default command is the entry's Exec.
FillMenu ==
  /\ At("fill")
  /\ \E k \in op.copies :
       /\ First(k)
       /\ menu' = [menu EXCEPT ![op.app][k] = Binaries[op.gen][1]]
       /\ IF op.copies = {k} THEN End("done")
          ELSE op' = [op EXCEPT !.pc = "menu", !.copies = @ \ {k}]
  /\ UNCHANGED <<record, meta, bin, session, libexec, broken>>

DeleteMenu ==
  /\ At("unmenu")
  /\ \E k \in op.copies :
       /\ First(k)
       /\ menu' = [menu EXCEPT ![op.app][k] = None]
       /\ IF op.copies # {k} THEN op' = [op EXCEPT !.copies = @ \ {k}]
          ELSE IF op.doing = "uninstall"
          THEN op' = [op EXCEPT !.pc = "list", !.copies = {}]
          ELSE End("done")
  /\ UNCHANGED <<record, meta, bin, session, libexec, broken>>

Forget ==
  /\ At("forget")
  /\ record' = [record EXCEPT ![op.app] = None]
  /\ End("done")
  /\ UNCHANGED <<meta, bin, session, libexec, menu, broken>>

-----------------------------------------------------------------------------
(***************************************************************************)
(* Kills and the user.                                                     *)
(***************************************************************************)

Kill ==
  /\ ~At("idle")
  /\ Fail
  /\ broken' = TRUE
  /\ UNCHANGED <<record, meta, bin, session, libexec, menu>>

\* The user puts a file of their own there, or takes it away.
PutOwn(c) ==
  /\ At("idle") /\ session[c] # Foreign
  /\ session' = [session EXCEPT ![c] = Foreign]
  /\ op' = Nothing
  /\ UNCHANGED <<record, meta, bin, libexec, menu, broken>>

TakeOwn(c) ==
  /\ At("idle") /\ session[c] = Foreign
  /\ session' = [session EXCEPT ![c] = None]
  /\ op' = Nothing
  /\ UNCHANGED <<record, meta, bin, libexec, menu, broken>>

Next ==
  \/ \E g \in Gen : Activate(g)
  \/ \E a \in App : Uninstall(a) \/ Launch(a)
  \/ Publish \/ List \/ DeleteMeta \/ DeleteSession \/ DeleteBin
  \/ Unlink \/ Relink \/ Check \/ OpenMeta \/ WriteMeta
  \/ UnlinkBin \/ LinkBin \/ UnlinkSession \/ LinkSession
  \/ EmptyMenu \/ FillMenu \/ DeleteMenu \/ Forget
  \/ Kill
  \/ \E c \in Own : PutOwn(c) \/ TakeOwn(c)

Spec == Init /\ [][Next]_vars

-----------------------------------------------------------------------------
(***************************************************************************)
(* The trampoline.                                                         *)
(***************************************************************************)

\* The directories resolve_export_from_argv0 visits from where a command is
\* invoked: a menu gives it the prefix's path, a path typed in full the
\* session's; a name found through PATH is all there is of argv[0], and is taken
\* to be in the working directory.
Visits(c, how) ==
  CASE how = "menu" -> {"bin"}
    [] how = "path" -> IF session[c] = Link THEN {"session", "bin"} ELSE {"session"}
    [] how = "name" -> {"working directory"}

\* Whether the kernel gets to lar-exec at all.
Starts(c, how) == IF how = "menu" THEN IsLarBin(c) ELSE IsLarSession(c)

\* load_export_meta; what does not parse ends the trampoline.
Loaded(c) == IF meta[c] \in Gen THEN meta[c] ELSE None

\* What exec_path_export runs: the generation, or nothing.
Runs(c, how) ==
  IF Starts(c, how) /\ "bin" \in Visits(c, how) THEN Loaded(c) ELSE None

-----------------------------------------------------------------------------
(***************************************************************************)
(* Properties.                                                             *)
(***************************************************************************)

\* Types.  A command in the middle of a removal or a publish knows which file
\* it is at.
TypeOK ==
  /\ record \in [App -> Gen \union {None}]
  /\ meta \in [Cmd -> {None, Torn} \union Gen]
  /\ bin \in [Cmd -> {None, Lar}]
  /\ session \in [Cmd -> {None, Link, Foreign}]
  /\ libexec \in BOOLEAN
  /\ menu \in [App -> [Copies -> Cmd \union {None, Torn}]]
  /\ op.pc \in Points
  /\ op.pc \in {"unsession", "unbin"} => op.cmd \in Cmd
  /\ op.pc \in {"open", "write", "bin", "rebin", "session", "resession"}
       => op.at \in DOMAIN Binaries[op.gen]
  /\ op.pc \in {"menu", "fill", "unmenu"} => op.copies # {}
  /\ broken \in BOOLEAN

\* Unless a command was killed, metadata and links of a command come and go
\* together, also when a publish is refused or fails half-way.
Matched ==
  At("idle") /\ ~broken =>
    \A c \in Cmd : /\ meta[c] # Torn
                   /\ bin[c] = Lar <=> meta[c] \in Gen
                   /\ session[c] = Link => bin[c] = Lar

\* Commands another app has taken over survive the uninstall, updates and
\* rollbacks of the app that had them first, and every other step of a command,
\* except that a publish writes the names its own generation exports: if one of
\* them is another app's by now, it is taken back (remove, publish).
OthersStay ==
  [][\A c \in Cmd :
       ~At("idle") /\ meta[c] \in Gen /\ AppOf[meta[c]] # op.app =>
         \/ UNCHANGED <<meta[c], bin[c], session[c]>>
         \/ At("open") /\ c = This]_vars

\* A publish refused for a file in the way leaves none of the app's commands
\* behind: not the earlier ones, and not some of the new ones.
AllOrNothing ==
  At("idle") /\ op.result = "collision" =>
    \A c \in Cmd : meta[c] \in Gen => AppOf[meta[c]] # op.app

\* Whatever has been killed before: when an install, update or rollback has
\* succeeded, exactly the commands of its generation are the app's, each runs
\* it, by path and from the menu, and the menu starts the default one.
PublishedRuns ==
  At("idle") /\ op.doing = "menu" /\ op.result = "done" =>
    /\ Owned(op.app) = Names
    /\ \A c \in Names : Runs(c, "path") = op.gen
    /\ \A k \in Copies :
         menu[op.app][k] \in Cmd /\ Runs(menu[op.app][k], "menu") = op.gen

\* "so menus and shells start the entry ELF through a native trampoline"
\* (desktop.md:3): a command that runs when its path is typed runs when its name
\* is.
NameRuns ==
  \A c \in Cmd : Runs(c, "path") \in Gen => Runs(c, "name") = Runs(c, "path")

=============================================================================
