---------------------------- MODULE PackageStore ----------------------------
(***************************************************************************)
(* The side-by-side package store of lar-store: Store::add, list and       *)
(* remove, the last with or without --force, by several processes and with *)
(* kills at any step.                                                      *)
(*                                                                         *)
(* `add` extracts an archive into a temporary directory, verifies it there *)
(* and renames it to {id}/{version}.  `remove` refuses while another       *)
(* package pins the version; with --force it removes those first,          *)
(* recursively.  Every operation begins by deleting all temporary          *)
(* directories, whoever is using them.                                     *)
(***************************************************************************)
EXTENDS Naturals, Sequences

CONSTANTS
  Package,      \* the (id, version) pairs
  Content,      \* what an archive of a package may hold
  Requires,     \* the packages pinned exactly under the [dependencies] of a
                \* package with a certain content
  PinSets,      \* the sets of packages that install records may pin
  Proc,         \* concurrently running `lar` processes
  Alone,        \* TRUE: users never run two of these commands at a time
  InterruptAt,  \* the program points at which a command may stop half-way
  None          \* no directory, no package

Points == {"clean", "extract", "payload", "verify", "check", "commit",
           "visit", "refer", "descend", "delete", "deleting"}

(***************************************************************************)
(* A package directory: package.toml, and manifest.json with files/.  open *)
(* holds the processes whose remove_dir_all is at work inside; they stay   *)
(* inside when the directory is renamed.                                   *)
(***************************************************************************)
Parts == {"toml", "payload"}
Directory == [content: Content, parts: SUBSET Parts, open: SUBSET Proc]
Maybe(S) == S \union {None}

ASSUME ConstantsAssumption ==
  /\ Requires \in [Package -> [Content -> SUBSET Package]]
  /\ PinSets \subseteq SUBSET Package
  /\ Alone \in BOOLEAN
  /\ InterruptAt \subseteq Points
  /\ None \notin Package \union Content \union Directory

Whole(d) == d # None /\ d.parts = Parts
HasToml(d) == d # None /\ "toml" \in d.parts

VARIABLES
  slot,     \* packages/{id}/{version}
  tmp,      \* each process's packages/.tmp-add-* directory
  pins,     \* the packages that install records name
  proc,     \* each process's command: program point and local variables
  damaged   \* history: packages whose deletion was broken off

vars == <<slot, tmp, pins, proc, damaged>>

\* path is the stack of cascade_remove, the innermost call first, todo the
\* referrers each call has still to remove, seen the set `visiting`.
NoTodo == [k \in Package |-> {}]
Idle == [pc |-> "idle", op |-> "none", content |-> None, path |-> <<>>,
         todo |-> NoTodo, seen |-> {}]

Init ==
  /\ slot = [k \in Package |-> None]
  /\ tmp = [p \in Proc |-> None]
  /\ pins = {}
  /\ proc = [p \in Proc |-> Idle]
  /\ damaged = {}

At(p, point) == proc[p].pc = point
Goto(p, point) == proc' = [proc EXCEPT ![p].pc = point]
Stop(p) == proc' = [proc EXCEPT ![p] = Idle]
Subject(p) == Head(proc[p].path)

MayRun(p) ==
  /\ At(p, "idle")
  /\ Alone => \A q \in Proc : At(q, "idle")

Start(p, op, c, path) ==
  /\ MayRun(p)
  /\ proc' = [proc EXCEPT ![p] = [Idle EXCEPT !.pc = "clean", !.op = op,
                                              !.content = c, !.path = path]]
  /\ UNCHANGED <<slot, tmp, pins, damaged>>

Add(p, k, c) == Start(p, "add", c, <<k>>)
Remove(p, k, force) == Start(p, IF force THEN "cascade" ELSE "remove", None, <<k>>)
List(p) == Start(p, "list", None, <<>>)

\* Installs and uninstalls change the pins; whatever a record pins was stored.
Pin(S) ==
  /\ Alone => \A q \in Proc : At(q, "idle")
  /\ \A k \in S : Whole(slot[k])
  /\ pins' = S
  /\ UNCHANGED <<slot, tmp, proc, damaged>>

-----------------------------------------------------------------------------
(***************************************************************************)
(* cleanup_tmp_adds.  add, list and remove call it first, and a removal    *)
(* again whenever it lists the store for referrers.                        *)
(***************************************************************************)

Inside(d, p) == d # None /\ p \in d.open
Within(p) == \/ \E q \in Proc : Inside(tmp[q], p)
             \/ \E k \in Package : Inside(slot[k], p)

Cleaning(p) == proc[p].pc \in {"clean", "refer"}

\* A directory found under packages/ whose name starts with .tmp-add-.
CleanOpen(p, q) ==
  /\ Cleaning(p) /\ ~Within(p)
  /\ tmp[q] # None
  /\ tmp' = [tmp EXCEPT ![q].open = @ \union {p}]
  /\ UNCHANGED <<slot, pins, proc, damaged>>

\* One of its files goes, whatever it is called by now.
CleanFile(p) ==
  /\ Cleaning(p)
  /\ \E part \in Parts :
       \/ /\ \E q \in Proc : /\ Inside(tmp[q], p)
                             /\ tmp' = [tmp EXCEPT ![q].parts = @ \ {part}]
          /\ UNCHANGED slot
       \/ /\ \E k \in Package : /\ Inside(slot[k], p)
                                /\ slot' = [slot EXCEPT ![k].parts = @ \ {part}]
          /\ UNCHANGED tmp
  /\ UNCHANGED <<pins, proc, damaged>>

\* The directory itself goes if it is empty and still has its old name.  Errors
\* are ignored.
CleanClose(p) ==
  /\ Cleaning(p)
  /\ \/ /\ \E q \in Proc :
             /\ Inside(tmp[q], p)
             /\ tmp' = IF tmp[q].parts = {}
                       THEN [tmp EXCEPT ![q] = None]
                       ELSE [tmp EXCEPT ![q].open = @ \ {p}]
        /\ UNCHANGED slot
     \/ /\ \E k \in Package :
             /\ Inside(slot[k], p) /\ slot[k].parts = {}
             /\ slot' = [slot EXCEPT ![k].open = @ \ {p}]
        /\ UNCHANGED tmp
  /\ UNCHANGED <<pins, proc, damaged>>

CleanupTmpAdds(p) ==
  (\E q \in Proc : CleanOpen(p, q)) \/ CleanFile(p) \/ CleanClose(p)

Cleaned(p) ==
  /\ At(p, "clean") /\ ~Within(p)
  /\ CASE proc[p].op = "add" -> Goto(p, "extract")
       [] proc[p].op = "list" -> Stop(p)
       [] OTHER -> Goto(p, "visit")
  /\ UNCHANGED <<slot, tmp, pins, damaged>>

-----------------------------------------------------------------------------
(***************************************************************************)
(* Store::add.                                                             *)
(***************************************************************************)

\* An add that fails deletes its temporary directory.
GiveUp(p) ==
  /\ tmp' = [tmp EXCEPT ![p] = None]
  /\ Stop(p)
  /\ UNCHANGED <<slot, pins, damaged>>

Unpacked(c) == [content |-> c, parts |-> {"toml"}, open |-> {}]

\* Mutant: the package taken for its content.
ExtractById(p) ==
  /\ At(p, "extract")
  /\ tmp' = [tmp EXCEPT ![p] = Unpacked(Subject(p))]
  /\ Goto(p, "payload")
  /\ UNCHANGED <<slot, pins, damaged>>

\* Mutant: extracts under the final name.
ExtractInPlace(p) ==
  /\ At(p, "extract")
  /\ slot' = [slot EXCEPT ![Subject(p)] = Unpacked(proc[p].content)]
  /\ Goto(p, "payload")
  /\ UNCHANGED <<tmp, pins, damaged>>

\* The directory and package.toml; then, at "payload", the rest.
Extract(p) ==
  /\ At(p, "extract")
  /\ tmp' = [tmp EXCEPT ![p] = Unpacked(proc[p].content)]
  /\ Goto(p, "payload")
  /\ UNCHANGED <<slot, pins, damaged>>

\* create_dir_all for the first payload file makes the directory again if it is
\* gone.
Filled(d, c) ==
  IF d = None
  THEN [Unpacked(c) EXCEPT !.parts = {"payload"}]
  ELSE [d EXCEPT !.parts = @ \union {"payload"}]

WritePayload(p) ==
  /\ At(p, "payload")
  /\ tmp' = [tmp EXCEPT ![p] = Filled(@, proc[p].content)]
  /\ Goto(p, "verify")
  /\ UNCHANGED <<slot, pins, damaged>>

\* verify_package_dir hashes the tree on disk.
Verify(p) ==
  /\ At(p, "verify")
  /\ \/ Whole(tmp[p]) /\ Goto(p, "check") /\ UNCHANGED <<slot, tmp, pins, damaged>>
     \/ ~Whole(tmp[p]) /\ GiveUp(p)

\* An existing (id, version) is never overwritten.
Check(p) ==
  /\ At(p, "check")
  /\ \/ /\ HasToml(tmp[p]) /\ slot[Subject(p)] = None
        /\ Goto(p, "commit")
        /\ UNCHANGED <<slot, tmp, pins, damaged>>
     \/ ~(HasToml(tmp[p]) /\ slot[Subject(p)] = None) /\ GiveUp(p)

\* Mutant: rename replaces what is there, as it does for a file.
FreeAlways(d) == d # None => d.parts \subseteq Parts

\* rename puts a directory only where there is none, or an empty one.
Free(d) == d # None => d.parts = {}

Commit(p) ==
  LET k == Subject(p) IN
  /\ At(p, "commit")
  /\ \/ /\ tmp[p] # None /\ Free(slot[k])
        /\ slot' = [slot EXCEPT ![k] = tmp[p]]
        /\ tmp' = [tmp EXCEPT ![p] = None]
        /\ damaged' = damaged \ {k}
        /\ Stop(p)
        /\ UNCHANGED pins
     \/ ~(tmp[p] # None /\ Free(slot[k])) /\ GiveUp(p)

-----------------------------------------------------------------------------
(***************************************************************************)
(* Store::remove, cascade_remove and remove_one.                           *)
(***************************************************************************)

\* Packages in the store whose package.toml pins k.  A directory without
\* package.toml is skipped.
Referrers(k) ==
  {r \in Package \ {k} : HasToml(slot[r]) /\ k \in Requires[r][slot[r].content]}

\* A call of cascade_remove returns to its caller, or the command ends.
Return(p) ==
  IF Tail(proc[p].path) = <<>>
  THEN Stop(p)
  ELSE proc' = [proc EXCEPT ![p].path = Tail(@), ![p].pc = "descend"]

\* remove looks for the directory only, cascade_remove reads package.toml too.
Found(p) ==
  /\ slot[Subject(p)] # None
  /\ proc[p].op = "cascade" => HasToml(slot[Subject(p)])

\* Mutant: the pins are checked for the package named on the command line only.
VisitUnpinned(p) ==
  LET k == Subject(p)
      pinned == k \in pins /\ Tail(proc[p].path) = <<>> IN
  /\ At(p, "visit")
  /\ \/ slot[k] = None /\ Return(p)
     \/ slot[k] # None /\ (pinned \/ ~Found(p)) /\ Stop(p)
     \/ /\ Found(p) /\ ~pinned
        /\ proc' = [proc EXCEPT ![p].pc = "refer", ![p].seen = @ \union {k}]
  /\ UNCHANGED <<slot, tmp, pins, damaged>>

\* Nothing to do for a package that is not there; refused, as the whole command
\* is, for one that an install pins or that cannot be read.
Visit(p) ==
  LET k == Subject(p) IN
  /\ At(p, "visit")
  /\ \/ slot[k] = None /\ Return(p)
     \/ slot[k] # None /\ (k \in pins \/ ~Found(p)) /\ Stop(p)
     \/ /\ Found(p) /\ k \notin pins
        /\ proc' = [proc EXCEPT ![p].pc = "refer", ![p].seen = @ \union {k}]
  /\ UNCHANGED <<slot, tmp, pins, damaged>>

\* Mutant: the dependents of dependents are not looked for.
ReferShallow(p) ==
  LET k == Subject(p) IN
  /\ At(p, "refer") /\ ~Within(p)
  /\ proc' = IF Tail(proc[p].path) = <<>>
             THEN [proc EXCEPT ![p].todo[k] = Referrers(k), ![p].pc = "descend"]
             ELSE [proc EXCEPT ![p].pc = "delete"]
  /\ UNCHANGED <<slot, tmp, pins, damaged>>

\* Without --force a referrer refuses the command.
Refer(p) ==
  LET k == Subject(p) IN
  /\ At(p, "refer") /\ ~Within(p)
  /\ IF proc[p].op = "cascade"
     THEN proc' = [proc EXCEPT ![p].todo[k] = Referrers(k), ![p].pc = "descend"]
     ELSE IF Referrers(k) = {} THEN Goto(p, "delete") ELSE Stop(p)
  /\ UNCHANGED <<slot, tmp, pins, damaged>>

\* Mutant: lists the referrers anew after each of them.
DescendRelisting(p) ==
  LET k == Subject(p) IN
  /\ At(p, "descend")
  /\ IF Referrers(k) = {}
     THEN Goto(p, "delete")
     ELSE \E r \in Referrers(k) :
            proc' = IF r \in proc[p].seen THEN proc
                    ELSE [proc EXCEPT ![p].pc = "visit", ![p].path = <<r>> \o @]
  /\ UNCHANGED <<slot, tmp, pins, damaged>>

\* The next referrer, unless a cycle led here from it; then the package itself.
Descend(p) ==
  LET k == Subject(p) IN
  /\ At(p, "descend")
  /\ \/ \E r \in proc[p].todo[k] :
          proc' = IF r \in proc[p].seen
                  THEN [proc EXCEPT ![p].todo[k] = @ \ {r}]
                  ELSE [proc EXCEPT ![p].todo[k] = @ \ {r}, ![p].pc = "visit",
                                    ![p].path = <<r>> \o @]
     \/ proc[p].todo[k] = {} /\ slot[k] # None /\ Goto(p, "delete")
     \/ proc[p].todo[k] = {} /\ slot[k] = None /\ Return(p)
  /\ UNCHANGED <<slot, tmp, pins, damaged>>

Delete(p) ==
  LET k == Subject(p) IN
  /\ At(p, "delete")
  /\ \/ /\ HasToml(slot[k])
        /\ slot' = [slot EXCEPT ![k].open = @ \union {p}]
        /\ Goto(p, "deleting")
     \/ ~HasToml(slot[k]) /\ Stop(p) /\ UNCHANGED slot
  /\ UNCHANGED <<tmp, pins, damaged>>

\* remove_dir_all: file after file in any order, then the directory.  Another
\* process may have finished the work.
RemoveOne(p) ==
  LET k == Subject(p) IN
  /\ At(p, "deleting")
  /\ \/ /\ Inside(slot[k], p)
        /\ \E part \in slot[k].parts :
             slot' = [slot EXCEPT ![k].parts = @ \ {part}]
        /\ UNCHANGED <<proc, damaged>>
     \/ /\ Inside(slot[k], p) /\ slot[k].parts = {}
        /\ slot' = [slot EXCEPT ![k] = None]
        /\ damaged' = damaged \ {k}
        /\ Return(p)
     \/ /\ ~Inside(slot[k], p)
        /\ Stop(p)
        /\ UNCHANGED <<slot, damaged>>
  /\ UNCHANGED <<tmp, pins>>

-----------------------------------------------------------------------------
Leave(p, d) == IF d = None THEN None ELSE [d EXCEPT !.open = @ \ {p}]

\* The process dies, or the call it is at returns an error.  Its temporary
\* directory is never used again, only deleted by the next command.
Interrupt(p) ==
  /\ proc[p].pc \in InterruptAt
  /\ Stop(p)
  /\ slot' = [k \in Package |-> Leave(p, slot[k])]
  /\ tmp' = [q \in Proc |-> IF q = p THEN None ELSE Leave(p, tmp[q])]
  /\ damaged' = damaged \union {k \in Package : Inside(slot[k], p)}
  /\ UNCHANGED pins

Begin(p) ==
  \/ \E k \in Package : \/ \E c \in Content : Add(p, k, c)
                        \/ \E force \in BOOLEAN : Remove(p, k, force)
  \/ List(p)

Continue(p) ==
  \/ CleanupTmpAdds(p) \/ Cleaned(p)
  \/ Extract(p) \/ WritePayload(p)
  \/ Verify(p) \/ Check(p) \/ Commit(p)
  \/ Visit(p) \/ Refer(p) \/ Descend(p) \/ Delete(p) \/ RemoveOne(p)

Next ==
  \/ \E p \in Proc : Begin(p) \/ Continue(p) \/ Interrupt(p)
  \/ \E S \in PinSets : Pin(S)

Spec == Init /\ [][Next]_vars

\* Once started, a process is scheduled again and again.
FairSpec == Spec /\ \A p \in Proc : WF_vars(Continue(p))
-----------------------------------------------------------------------------
(***************************************************************************)
(* Properties.                                                             *)
(***************************************************************************)

Commands == [pc: Points \union {"idle"},
             op: {"none", "add", "list", "remove", "cascade"},
             content: Maybe(Content), path: Seq(Package),
             todo: [Package -> SUBSET Package], seen: SUBSET Package]

\* The store and the processes hold values of these types (the locals of the
\* functions of store.rs).
TypeOK ==
  /\ slot \in [Package -> Maybe(Directory)]
  /\ tmp \in [Proc -> Maybe(Directory)]
  /\ pins \subseteq Package
  /\ proc \in [Proc -> Commands]
  /\ damaged \subseteq Package

\* A package in the store is complete, except while it is being removed and
\* after a removal that broke off: whatever add or remove was killed, and
\* whatever was cleaned up or added after that.
WholeOrGone ==
  \A k \in Package :
    slot[k] # None /\ k \notin damaged /\ (\A p \in Proc : ~Inside(slot[k], p))
      => Whole(slot[k])

\* No file of a package is ever replaced or added, also when several processes
\* add and remove the same version at once: rename is the only check that is
\* made together with the change.
Immutable ==
  [][\A k \in Package : slot[k] # None /\ slot[k].parts # {} /\ slot'[k] # None =>
       /\ slot'[k].content = slot[k].content
       /\ slot'[k].parts \subseteq slot[k].parts]_vars

\* No file of a package that an install pins is deleted, also not as the
\* dependent of what is removed with --force.
PinnedKept ==
  [][\A k \in pins : Whole(slot[k]) => slot'[k] # None /\ slot'[k].parts = Parts]_vars

Elems(s) == {s[i] : i \in DOMAIN s}

\* A package is removed only after the packages that pin it, except those that
\* it itself depends on: their removal is what led here.
DependentsFirst ==
  \A p \in Proc : At(p, "deleting") =>
    Referrers(Subject(p)) \subseteq Elems(proc[p].path)

\* Every command comes to an end: a cascade over packages that pin each other
\* in a circle too.
CommandsEnd == \A p \in Proc : proc[p].pc # "idle" ~> At(p, "idle")
=============================================================================
