------------------------------ MODULE Sources ------------------------------
(***************************************************************************)
(* The client's configuration of lar-repo: sources.toml, the package       *)
(* sources in priority order, and trust.toml, the trusted publisher keys,  *)
(* edited by `lar repo add`, `remove` and `move` and `lar repo trust add`  *)
(* and `remove`.                                                           *)
(*                                                                         *)
(* Every edit loads the file, changes the list in memory and saves it:     *)
(* the new text goes to {file}.toml.tmp, which is renamed over the file.   *)
(* Nothing is locked and the temporary name is the same for everybody, so  *)
(* two commands may write to one temporary file, or one may rename it      *)
(* under the other's hands.  A command may be killed after any step.       *)
(***************************************************************************)
EXTENDS Naturals, Sequences, SequencesExt

CONSTANTS
  Name,       \* names of sources
  Uri,        \* their addresses; a uri may also be some source's name
  Key,        \* publisher keys
  Proc,       \* concurrently running `lar` processes
  MaxSources, \* bound on the length of the list
  Alone,      \* TRUE: users run one of these commands at a time
  None,       \* no file, key, source or label
  Torn        \* a text that no process saved

Entry == [name: Name, uri: Uri]
Label == Name \union Uri
File == {"sources", "trust"}

ASSUME ConstantsAssumption ==
  /\ MaxSources \in Nat
  /\ Alone \in BOOLEAN
  /\ None \notin Key \union Label \union Entry
  /\ None # Torn
  /\ None \notin Seq(Entry) /\ Torn \notin Seq(Entry)
  /\ \A keys \in SUBSET Key : None # keys /\ Torn # keys

VARIABLES
  file,  \* sources.toml: a list of entries; trust.toml: a set of keys; or Torn
  tmp,   \* the temporary file of each: None, or what has been written to it
  fd,    \* the file a process writes to: the temporary file, the one that was
         \* renamed over sources.toml or trust.toml meanwhile, or neither
  proc   \* each process's command: program point and local variables

vars == <<file, tmp, fd, proc>>

\* A missing file and a file of no bytes both load as this: every field of
\* SourcesFile and TrustFile has a default.
Blank(f) == IF f = "sources" THEN <<>> ELSE {}

Idle == [pc |-> "idle", op |-> "none", entry |-> None, label |-> None,
         other |-> None, pos |-> 0, key |-> None, on |-> "sources",
         list |-> <<>>, keys |-> {}]

Init ==
  /\ file = [f \in File |-> Blank(f)]
  /\ tmp = [f \in File |-> None]
  /\ fd = [p \in Proc |-> "none"]
  /\ proc = [p \in Proc |-> Idle]

At(p, point) == proc[p].pc = point
Stop(p) == proc' = [proc EXCEPT ![p] = Idle]

-----------------------------------------------------------------------------
(***************************************************************************)
(* The lists the commands compute.                                         *)
(***************************************************************************)

Called(e, label) == e.name = label \/ e.uri = label

\* The first source of that name or uri, 0 if there is none.
Find(s, label) ==
  IF \E i \in DOMAIN s : Called(s[i], label)
  THEN CHOOSE i \in DOMAIN s : /\ Called(s[i], label)
                               /\ \A j \in 1 .. (i - 1) : ~Called(s[j], label)
  ELSE 0

\* Removes the entry, then inserts it at the position it asks for.
Place(s, from, to) == InsertAt(RemoveAt(s, from), to, s[from])

\* Mutant: the shift of the later positions by the removal is forgotten.
BeforePlain(s, from, other) == other

\* The position from which a move makes `from` the one just before `other`:
\* positions behind the one that is taken out shift down by one.
Before(s, from, other) == IF from < other THEN other - 1 ELSE other

After(s, from, other) == IF from < other THEN other ELSE other + 1

-----------------------------------------------------------------------------
(***************************************************************************)
(* Starting a command.                                                     *)
(***************************************************************************)

MayRun(p) ==
  /\ At(p, "idle")
  /\ Alone => \A q \in Proc : At(q, "idle")

Begin(p, cmd) ==
  /\ MayRun(p)
  /\ proc' = [proc EXCEPT ![p] = cmd]
  /\ UNCHANGED <<file, tmp, fd>>

\* Mutant: --skip-trust is not looked at.
RepoAddTrusting(p, e, k) ==
  Begin(p, [Idle EXCEPT !.pc = "check", !.op = "add", !.entry = e, !.key = k])

\* `lar repo add`: with --skip-trust (k is None) the source is just added;
\* otherwise k is the key given, or read from the source.
RepoAdd(p, e, k) ==
  Begin(p, [Idle EXCEPT !.pc = IF k = None THEN "load" ELSE "check",
                        !.op = "add", !.entry = e, !.key = k])

RepoRemove(p, label) ==
  Begin(p, [Idle EXCEPT !.pc = "load", !.op = "remove", !.label = label])

\* `lar repo move --to N` and `--top`.
MoveTo(p, label, n) ==
  Begin(p, [Idle EXCEPT !.pc = "load", !.op = "move", !.label = label,
                        !.pos = n])

\* `lar repo move --bottom`, `--before X` and `--after X` first read the file
\* for the position.
MoveBy(p, label, op, other) ==
  Begin(p, [Idle EXCEPT !.pc = "locate", !.op = op, !.label = label,
                        !.other = other])

TrustAdd(p, k) ==
  Begin(p, [Idle EXCEPT !.pc = "trust", !.op = "trust", !.key = k])

TrustRemove(p, k) ==
  Begin(p, [Idle EXCEPT !.pc = "trust", !.op = "distrust", !.key = k])

-----------------------------------------------------------------------------
(***************************************************************************)
(* Loading and editing.                                                    *)
(***************************************************************************)

\* A text that does not parse or validate ends the command.
Loaded(f) == file[f] # Torn

\* On with the saving of a new text.
SaveTrust(p, keys) ==
  proc' = [proc EXCEPT ![p].pc = "open", ![p].on = "trust", ![p].keys = keys]

SaveSources(p, list) ==
  proc' = [proc EXCEPT ![p].pc = "open", ![p].on = "sources", ![p].list = list]

Text(p) == IF proc[p].on = "sources" THEN proc[p].list ELSE proc[p].keys

\* Mutant: a key the user declines is only not added to the trusted ones.
CheckLenient(p) ==
  /\ At(p, "check")
  /\ \E point \in {"load", "trust"} : proc' = [proc EXCEPT ![p].pc = point]
  /\ UNCHANGED <<file, tmp, fd>>

\* Is the publisher's key trusted?  If not, the user accepts it or declines.
Check(p) ==
  /\ At(p, "check")
  /\ \/ /\ Loaded("trust") /\ proc[p].key \in file["trust"]
        /\ proc' = [proc EXCEPT ![p].pc = "load"]
     \/ /\ Loaded("trust") /\ proc[p].key \notin file["trust"]
        /\ proc' = [proc EXCEPT ![p].pc = "trust"]
     \/ /\ Loaded("trust") => proc[p].key \notin file["trust"]
        /\ Stop(p)
  /\ UNCHANGED <<file, tmp, fd>>

\* trust_add and trust_remove: the list of keys is kept sorted, a set here.
EditTrust(p) ==
  LET k == proc[p].key IN
  /\ At(p, "trust")
  /\ IF ~Loaded("trust") \/ (k \in file["trust"] <=> proc[p].op # "distrust")
     THEN Stop(p)
     ELSE SaveTrust(p, IF proc[p].op = "distrust" THEN file["trust"] \ {k}
                                                  ELSE file["trust"] \union {k})
  /\ UNCHANGED <<file, tmp, fd>>

\* The position --bottom, --before and --after stand for in the list as it is.
Target(cmd, s) ==
  LET from == Find(s, cmd.label)
      other == Find(s, cmd.other)
  IN  CASE cmd.op = "bottom" -> IF s = <<>> THEN 1 ELSE Len(s)
        [] cmd.op = "before" -> Before(s, from, other)
        [] cmd.op = "after" -> After(s, from, other)

Locate(p) ==
  LET s == file["sources"]
      from == Find(s, proc[p].label)
      other == Find(s, proc[p].other)
  IN  /\ At(p, "locate")
      /\ IF /\ Loaded("sources")
            /\ proc[p].op # "bottom" => from # 0 /\ other # 0 /\ from # other
         THEN proc' = [proc EXCEPT ![p].pc = "load", ![p].pos = Target(proc[p], s)]
         ELSE Stop(p)
      /\ UNCHANGED <<file, tmp, fd>>

\* add_source, remove_source and move_source.
Accepted(cmd, s) ==
  CASE cmd.op = "add" -> \A i \in DOMAIN s : s[i].name # cmd.entry.name
    [] cmd.op = "remove" -> Find(s, cmd.label) # 0
    [] OTHER -> cmd.pos \in DOMAIN s /\ Find(s, cmd.label) # 0

\* Mutant: the new source is put in front.
EditedInFront(cmd, s) ==
  CASE cmd.op = "add" -> <<cmd.entry>> \o s
    [] cmd.op = "remove" -> RemoveAt(s, Find(s, cmd.label))
    [] OTHER -> Place(s, Find(s, cmd.label), cmd.pos)

Edited(cmd, s) ==
  CASE cmd.op = "add" -> Append(s, cmd.entry)
    [] cmd.op = "remove" -> RemoveAt(s, Find(s, cmd.label))
    [] OTHER -> Place(s, Find(s, cmd.label), cmd.pos)

EditSources(p) ==
  LET s == file["sources"] IN
  /\ At(p, "load")
  /\ IF Loaded("sources") /\ Accepted(proc[p], s)
     THEN /\ Len(Edited(proc[p], s)) <= MaxSources
          /\ SaveSources(p, Edited(proc[p], s))
     ELSE Stop(p)
  /\ UNCHANGED <<file, tmp, fd>>

-----------------------------------------------------------------------------
(***************************************************************************)
(* Saving.                                                                 *)
(***************************************************************************)

\* Mutant: a temporary file that a dead command left is written over.
OpenLeftover(p) ==
  LET f == proc[p].on IN
  /\ At(p, "open")
  /\ tmp' = [tmp EXCEPT ![f] = IF @ = None THEN Blank(f) ELSE @]
  /\ fd' = [fd EXCEPT ![p] = "tmp"]
  /\ proc' = [proc EXCEPT ![p].pc = "write"]
  /\ UNCHANGED file

\* fs::write creates the temporary file or empties the one that is there.
Open(p) ==
  LET f == proc[p].on IN
  /\ At(p, "open")
  /\ tmp' = [tmp EXCEPT ![f] = Blank(f)]
  /\ fd' = [fd EXCEPT ![p] = "tmp"]
  /\ proc' = [proc EXCEPT ![p].pc = "write"]
  /\ UNCHANGED file

\* What a file holds once a process has written `new` from its start: a longer
\* text that another process wrote shows behind it.  Torn may be any text, also
\* one that loads; no more is needed of it here.
Overlay(f, old, new) ==
  IF old \in {Blank(f), new} THEN {new} ELSE {old, new, Torn}

\* The bytes go to the file that was opened, wherever it is now.
Put(p, outcomes(_)) ==
  LET f == proc[p].on IN
  \/ /\ fd[p] = "tmp"
     /\ \E text \in outcomes(tmp[f]) : tmp' = [tmp EXCEPT ![f] = text]
     /\ UNCHANGED file
  \/ /\ fd[p] = "live"
     /\ \E text \in outcomes(file[f]) : file' = [file EXCEPT ![f] = text]
     /\ UNCHANGED tmp
  \/ fd[p] = "gone" /\ UNCHANGED <<file, tmp>>

Write(p) ==
  /\ At(p, "write")
  /\ Put(p, LAMBDA old : Overlay(proc[p].on, old, Text(p)))
  /\ fd' = [fd EXCEPT ![p] = "none"]
  /\ proc' = [proc EXCEPT ![p].pc = "rename"]

\* After trust.toml `lar repo add` goes on to sources.toml.
Saved(p) ==
  IF proc[p].op = "add" /\ proc[p].on = "trust"
  THEN proc' = [proc EXCEPT ![p].pc = "load"]
  ELSE Stop(p)

\* Whoever is still writing to the temporary file now writes to the file
\* itself.  With the temporary file gone the rename fails.
Rename(p) ==
  LET f == proc[p].on IN
  /\ At(p, "rename")
  /\ IF tmp[f] = None
     THEN Stop(p) /\ UNCHANGED <<file, tmp, fd>>
     ELSE /\ file' = [file EXCEPT ![f] = tmp[f]]
          /\ tmp' = [tmp EXCEPT ![f] = None]
          /\ fd' = [q \in Proc |->
                      IF fd[q] = "none" \/ proc[q].on # f THEN fd[q]
                      ELSE IF fd[q] = "tmp" THEN "live" ELSE "gone"]
          /\ Saved(p)

\* Killed, or left on an I/O error; a write may be cut short.
Interrupt(p) ==
  /\ ~At(p, "idle")
  /\ IF At(p, "write") THEN Put(p, LAMBDA old : {old, Torn})
                       ELSE UNCHANGED <<file, tmp>>
  /\ fd' = [fd EXCEPT ![p] = "none"]
  /\ Stop(p)

-----------------------------------------------------------------------------
Start(p) ==
  \/ \E e \in Entry, k \in Key \union {None} : RepoAdd(p, e, k)
  \/ \E l \in Label : \/ RepoRemove(p, l)
                      \/ \E n \in 0 .. (MaxSources + 1) : MoveTo(p, l, n)
                      \/ MoveBy(p, l, "bottom", l)
                      \/ \E o \in Label, op \in {"before", "after"} :
                           MoveBy(p, l, op, o)
  \/ \E k \in Key : TrustAdd(p, k) \/ TrustRemove(p, k)

Next ==
  \E p \in Proc :
    \/ Start(p)
    \/ Check(p) \/ EditTrust(p) \/ Locate(p) \/ EditSources(p)
    \/ Open(p) \/ Write(p) \/ Rename(p)
    \/ Interrupt(p)

Spec == Init /\ [][Next]_vars

-----------------------------------------------------------------------------
(***************************************************************************)
(* Properties.                                                             *)
(***************************************************************************)

Lists == Seq(Entry)
KeySets == SUBSET Key

Commands ==
  [pc: {"idle", "check", "trust", "locate", "load", "open", "write", "rename"},
   op: {"none", "add", "remove", "move", "bottom", "before", "after", "trust",
        "distrust"},
   entry: Entry \union {None}, label: Label \union {None},
   other: Label \union {None}, pos: Nat, key: Key \union {None}, on: File,
   list: Lists, keys: KeySets]

\* Both files hold a list of their kind or a torn text, and so does what is
\* about to be saved to them.
TypeOK ==
  /\ file["sources"] \in {Torn} \union Lists
  /\ file["trust"] \in {Torn} \union KeySets
  /\ tmp["sources"] \in {Torn, None} \union Lists
  /\ tmp["trust"] \in {Torn, None} \union KeySets
  /\ DOMAIN file = File /\ DOMAIN tmp = File
  /\ fd \in [Proc -> {"none", "tmp", "live", "gone"}]
  /\ proc \in [Proc -> Commands]

\* "Atomically write sources.toml" (save_sources): whoever reads one of the two
\* files finds a text that some command saved.
SavedWhole == \A f \in File : file[f] # Torn

\* `lar repo add` lists a source only once the key it asked the user about is
\* trusted, however it was killed and run again before.  Only --skip-trust
\* lists one without.
ListsTrusted(p) ==
  Rename(p) /\ proc[p].op = "add" /\ proc[p].on = "sources"
     /\ proc[p].key # None
  => proc[p].key \in file["trust"]

TrustedBeforeListed == [][\A p \in Proc : ListsTrusted(p)]_vars

\* `--before X` and `--after X` put the source directly there, `--bottom` at the
\* end: the position is worked out before the source is taken out of the list,
\* in a list that is read again to be changed.
Arrives(p) ==
  LET cmd == proc[p]
      old == file["sources"]
      new == file'["sources"]
      moved == old[Find(old, cmd.label)]
      other == old[Find(old, cmd.other)]
  IN  Rename(p) =>
        CASE cmd.op = "before" -> \E i \in 2 .. Len(new) :
                                    new[i] = other /\ new[i - 1] = moved
          [] cmd.op = "after" -> \E i \in 2 .. Len(new) :
                                    new[i - 1] = other /\ new[i] = moved
          [] cmd.op = "bottom" -> new[Len(new)] = moved
          [] OTHER -> TRUE

MovesArrive == [][\A p \in Proc : Arrives(p)]_vars

\* One command at a time, killed anywhere, edits one source or one key at once,
\* and never disturbs the order of the others.
Order == INSTANCE SourceOrder WITH order <- file["sources"],
                                   trusted <- file["trust"]

ImplementsSourceOrder == Order!Spec

=============================================================================
