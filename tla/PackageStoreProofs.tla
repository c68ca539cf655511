------------------------- MODULE PackageStoreProofs -------------------------
(***************************************************************************)
(* Theorems about PackageStore for every value of its constants.           *)
(***************************************************************************)
EXTENDS PackageStore, TLAPS

-----------------------------------------------------------------------------
(***************************************************************************)
(* The stack of a cascade.                                                 *)
(***************************************************************************)

LEMMA ElemsAre ==
  ASSUME NEW S, NEW s \in Seq(S), NEW e
  PROVE  e \in Elems(s) <=> \E i \in 1..Len(s) : s[i] = e
<1>1. DOMAIN s = 1..Len(s)
  OBVIOUS
<1>. QED BY <1>1 DEF Elems

\* A call puts its package on top of the stack.
LEMMA Push ==
  ASSUME NEW S, NEW s \in Seq(S), NEW r \in S
  PROVE  /\ <<r>> \o s \in Seq(S)
         /\ <<r>> \o s # <<>>
         /\ Head(<<r>> \o s) = r
         /\ Elems(<<r>> \o s) = {r} \union Elems(s)
         /\ Elems(Tail(<<r>> \o s)) = Elems(s)
<1> DEFINE t == <<r>> \o s
<1>1. t \in Seq(S) /\ Len(t) = 1 + Len(s) /\ Len(s) \in Nat
  OBVIOUS
<1>2. t[1] = r /\ \A i \in 1..Len(s) : t[i + 1] = s[i]
  OBVIOUS
<1>3. t # <<>> /\ Head(t) = r
  BY <1>1, <1>2
<1>4. Tail(t) \in Seq(S) /\ Len(Tail(t)) = Len(s) /\ \A i \in 1..Len(s) : Tail(t)[i] = s[i]
  BY <1>1, <1>2, <1>3
<1>. HIDE DEF t
<1>5. ASSUME NEW e PROVE e \in Elems(t) <=> e = r \/ e \in Elems(s)
  <2>1. ASSUME NEW i \in 1..Len(t), t[i] = e, e # r PROVE \E j \in 1..Len(s) : s[j] = e
    <3>1. i - 1 \in 1..Len(s) /\ s[i - 1] = t[i]
      BY <1>1, <1>2, <2>1
    <3>. QED BY <3>1, <2>1
  <2>2. ASSUME NEW j \in 1..Len(s) PROVE j + 1 \in 1..Len(t) /\ t[j + 1] = s[j]
    BY <1>1, <1>2
  <2>3. 1 \in 1..Len(t)
    BY <1>1
  <2>. QED BY <1>1, <1>2, <2>1, <2>2, <2>3, ElemsAre
<1>6. Elems(t) = {r} \union Elems(s)
  BY <1>5
<1>7. Elems(Tail(t)) = Elems(s)
  <2>. SUFFICES ASSUME NEW e PROVE e \in Elems(Tail(t)) <=> e \in Elems(s)
    OBVIOUS
  <2>1. e \in Elems(Tail(t)) <=> \E i \in 1..Len(Tail(t)) : Tail(t)[i] = e
    BY <1>4, ElemsAre
  <2>2. e \in Elems(s) <=> \E i \in 1..Len(s) : s[i] = e
    BY ElemsAre
  <2>. QED BY <1>4, <2>1, <2>2
<1>. QED BY <1>1, <1>3, <1>6, <1>7 DEF t

\* The package on top, and those of the calls below.
LEMMA Pop ==
  ASSUME NEW S, NEW s \in Seq(S), s # <<>>
  PROVE  /\ Head(s) \in S
         /\ Tail(s) \in Seq(S)
         /\ Elems(s) \subseteq S
         /\ Elems(s) = {Head(s)} \union Elems(Tail(s))
<1>1. Len(s) \in Nat /\ Len(s) >= 1 /\ Head(s) = s[1]
  OBVIOUS
<1>2. /\ Tail(s) \in Seq(S)
      /\ Len(Tail(s)) = Len(s) - 1
      /\ \A i \in 1..Len(Tail(s)) : Tail(s)[i] = s[i + 1]
  BY <1>1
<1>3. Elems(s) \subseteq {Head(s)} \union Elems(Tail(s))
  <2> SUFFICES ASSUME NEW i \in 1..Len(s), s[i] # Head(s)
               PROVE  s[i] \in Elems(Tail(s))
    BY DEF Elems
  <2>1. i - 1 \in 1..Len(Tail(s)) /\ Tail(s)[i - 1] = s[i]
    BY <1>1, <1>2
  <2>. QED BY <2>1, <1>2 DEF Elems
<1>4. {Head(s)} \union Elems(Tail(s)) \subseteq Elems(s)
  BY <1>1, <1>2 DEF Elems
<1>5. Elems(s) \subseteq S
  BY DEF Elems
<1>. QED BY <1>1, <1>2, <1>3, <1>4, <1>5

-----------------------------------------------------------------------------
(***************************************************************************)
(* Types.                                                                  *)
(***************************************************************************)

Adding == {"extract", "payload", "verify", "check", "commit"}
Removing == {"visit", "refer", "descend", "delete", "deleting"}

\* Which locals a command has, and the points it can be at.
ShapeOf(c) ==
  /\ c.op = "none" <=> c.pc = "idle"
  /\ c.op = "list" => c.pc = "clean"
  /\ c.op = "add" => /\ c.content \in Content /\ c.path # <<>>
                     /\ c.pc \in Adding \union {"clean"}
  /\ c.op \in {"remove", "cascade"} => /\ c.path # <<>>
                                       /\ c.pc \in Removing \union {"clean"}

Typed == TypeOK /\ \A p \in Proc : ShapeOf(proc[p])

\* The locals after a step are those of a command.
ProcTyped == proc' \in [Proc -> Commands] /\ \A p \in Proc : ShapeOf(proc'[p])

LEMMA StepOf ==
  ASSUME Typed, NEW p \in Proc, NEW c \in Commands, ShapeOf(c),
         proc' = [proc EXCEPT ![p] = c]
  PROVE  ProcTyped
BY DEF Typed, TypeOK, ProcTyped

LEMMA StopTyped ==
  ASSUME Typed, NEW p \in Proc, Stop(p)
  PROVE  ProcTyped
<1>1. <<>> \in Seq(Package) /\ NoTodo \in [Package -> SUBSET Package]
  BY DEF NoTodo
<1>2. Idle \in Commands /\ ShapeOf(Idle)
  BY <1>1 DEF Idle, Commands, Maybe, ShapeOf
<1>. QED BY <1>2, StepOf DEF Stop

LEMMA GotoTyped ==
  ASSUME Typed, NEW p \in Proc, NEW point \in Points, Goto(p, point),
         \/ proc[p].op = "add" /\ point \in Adding
         \/ proc[p].op \in {"remove", "cascade"} /\ point \in Removing
  PROVE  ProcTyped
<1> DEFINE c == [proc[p] EXCEPT !.pc = point]
<1>1. proc[p] \in Commands /\ ShapeOf(proc[p])
  BY DEF Typed, TypeOK
<1>2. c \in Commands
  BY <1>1 DEF Commands
<1>3. /\ c.pc = point /\ c.op = proc[p].op
      /\ c.content = proc[p].content /\ c.path = proc[p].path
  BY <1>1 DEF Commands
<1>4. ShapeOf(c)
  BY <1>1, <1>3 DEF ShapeOf, Adding, Removing
<1>5. proc' = [proc EXCEPT ![p] = c]
  BY DEF Goto
<1>. QED BY <1>2, <1>4, <1>5, StepOf

\* The command at any point of a removal works on a package of its stack.
LEMMA AtRemoving ==
  ASSUME Typed, NEW p \in Proc, proc[p].pc \in Removing
  PROVE  /\ proc[p].op \in {"remove", "cascade"}
         /\ proc[p].path \in Seq(Package) /\ proc[p].path # <<>>
         /\ Subject(p) \in Package
         /\ Tail(proc[p].path) \in Seq(Package)
<1>1. proc[p] \in Commands /\ ShapeOf(proc[p])
  BY DEF Typed, TypeOK
<1>2. proc[p].op \in {"remove", "cascade"}
  BY <1>1 DEF ShapeOf, Commands, Adding, Removing
<1>3. proc[p].path \in Seq(Package) /\ proc[p].path # <<>>
  BY <1>1, <1>2 DEF ShapeOf, Commands
<1>. QED BY <1>2, <1>3, Pop DEF Subject

LEMMA AtAdding ==
  ASSUME Typed, NEW p \in Proc, proc[p].pc \in Adding
  PROVE  /\ proc[p].op = "add" /\ proc[p].content \in Content
         /\ Subject(p) \in Package
<1>1. proc[p] \in Commands /\ ShapeOf(proc[p])
  BY DEF Typed, TypeOK
<1>2. proc[p].op = "add"
  BY <1>1 DEF ShapeOf, Commands, Adding, Removing
<1>3. /\ proc[p].path \in Seq(Package) /\ proc[p].path # <<>>
      /\ proc[p].content \in Content
  BY <1>1, <1>2 DEF ShapeOf, Commands
<1>. QED BY <1>2, <1>3, Pop DEF Subject

LEMMA ReturnTyped ==
  ASSUME Typed, NEW p \in Proc, proc[p].pc \in Removing, Return(p)
  PROVE  ProcTyped
<1>1. CASE Tail(proc[p].path) = <<>>
  BY <1>1, StopTyped DEF Return
<1>2. CASE Tail(proc[p].path) # <<>>
  <2> DEFINE c == [proc[p] EXCEPT !.path = Tail(@), !.pc = "descend"]
  <2>1. proc[p] \in Commands /\ ShapeOf(proc[p])
    BY DEF Typed, TypeOK
  <2>2. c \in Commands /\ c.op \in {"remove", "cascade"}
    BY <2>1, AtRemoving DEF Commands, Points
  <2>3. c.path # <<>> /\ c.pc = "descend"
    BY <1>2, <2>1 DEF Commands
  <2>4. ShapeOf(c)
    BY <2>2, <2>3 DEF ShapeOf, Removing
  <2>5. proc' = [proc EXCEPT ![p] = c]
    BY <1>2 DEF Return
  <2>. QED BY <2>2, <2>4, <2>5, StepOf
<1>. QED BY <1>1, <1>2

\* What is on disk after a step is of the right type.
DiskTyped ==
  /\ slot' \in [Package -> Maybe(Directory)]
  /\ tmp' \in [Proc -> Maybe(Directory)]
  /\ pins' \subseteq Package
  /\ damaged' \subseteq Package

LEMMA BothTyped ==
  ASSUME ProcTyped, DiskTyped
  PROVE  Typed'
BY DEF ProcTyped, DiskTyped, Typed, TypeOK, ShapeOf

LEMMA DiskSame ==
  ASSUME Typed, UNCHANGED <<slot, tmp, pins, damaged>>
  PROVE  DiskTyped
BY DEF Typed, TypeOK, DiskTyped

LEMMA ProcSame ==
  ASSUME Typed, UNCHANGED proc
  PROVE  ProcTyped
BY DEF Typed, TypeOK, ProcTyped

LEMMA BeginTyped ==
  ASSUME Typed, NEW p \in Proc, Begin(p)
  PROVE  Typed'
<1>1. <<>> \in Seq(Package) /\ NoTodo \in [Package -> SUBSET Package]
  BY DEF NoTodo
<1>2. PICK op \in {"add", "remove", "cascade", "list"}, c \in Maybe(Content),
           path \in Seq(Package) :
        /\ Start(p, op, c, path)
        /\ op # "list" => path # <<>>
        /\ op = "add" => c \in Content
  <2>1. ASSUME NEW k \in Package PROVE <<k>> \in Seq(Package) /\ <<k>> # <<>>
    OBVIOUS
  <2>2. CASE \E k \in Package, c \in Content : Add(p, k, c)
    BY <2>1, <2>2 DEF Add, Maybe
  <2>3. CASE \E k \in Package, force \in BOOLEAN : Remove(p, k, force)
    BY <2>1, <2>3 DEF Remove, Maybe
  <2>4. CASE List(p)
    BY <1>1, <2>4 DEF List, Maybe
  <2>. QED BY <2>2, <2>3, <2>4 DEF Begin
<1> DEFINE d == [Idle EXCEPT !.pc = "clean", !.op = op, !.content = c, !.path = path]
<1>3. d \in Commands
  BY <1>1 DEF Idle, Commands, Maybe, Points
<1>4. ShapeOf(d)
  BY <1>2 DEF Idle, ShapeOf
<1>5. proc' = [proc EXCEPT ![p] = d] /\ UNCHANGED <<slot, tmp, pins, damaged>>
  BY <1>2 DEF Start
<1>. QED BY <1>3, <1>4, <1>5, StepOf, DiskSame, BothTyped

LEMMA CleanupTyped ==
  ASSUME Typed, NEW p \in Proc, CleanupTmpAdds(p)
  PROVE  Typed'
<1>1. UNCHANGED proc
  BY DEF CleanupTmpAdds, CleanOpen, CleanFile, CleanClose
<1>2. DiskTyped
  <2>. SUFFICES slot' \in [Package -> Maybe(Directory)] /\ tmp' \in [Proc -> Maybe(Directory)]
    BY DEF CleanupTmpAdds, CleanOpen, CleanFile, CleanClose, Typed, TypeOK, DiskTyped
  <2>1. ASSUME NEW q \in Proc, CleanOpen(p, q) PROVE DiskTyped
    BY <2>1 DEF CleanOpen, Typed, TypeOK, DiskTyped, Maybe, Directory
  <2>2. CASE CleanFile(p)
    BY <2>2 DEF CleanFile, Inside, Typed, TypeOK, Maybe, Directory
  <2>3. CASE CleanClose(p)
    BY <2>3 DEF CleanClose, Inside, Typed, TypeOK, Maybe, Directory
  <2>. QED BY <2>1, <2>2, <2>3 DEF CleanupTmpAdds, DiskTyped
<1>. QED BY <1>1, <1>2, ProcSame, BothTyped

LEMMA CleanedTyped ==
  ASSUME Typed, NEW p \in Proc, Cleaned(p)
  PROVE  Typed'
<1>1. proc[p] \in Commands /\ ShapeOf(proc[p]) /\ At(p, "clean")
  BY DEF Typed, TypeOK, Cleaned
<1>2. proc[p].op \in {"add", "list", "remove", "cascade"}
  BY <1>1 DEF ShapeOf, Commands, At
<1>3. ProcTyped
  <2>1. CASE proc[p].op = "add"
    BY <2>1, GotoTyped DEF Cleaned, Adding, Points
  <2>2. CASE proc[p].op = "list"
    BY <2>2, StopTyped DEF Cleaned
  <2>3. CASE proc[p].op \in {"remove", "cascade"}
    BY <2>3, GotoTyped DEF Cleaned, Removing, Points
  <2>. QED BY <1>2, <2>1, <2>2, <2>3
<1>. QED BY <1>3, DiskSame, BothTyped DEF Cleaned

LEMMA GiveUpTyped ==
  ASSUME Typed, NEW p \in Proc, GiveUp(p)
  PROVE  Typed'
<1>1. ProcTyped
  BY StopTyped DEF GiveUp
<1>2. DiskTyped
  BY DEF GiveUp, Typed, TypeOK, DiskTyped, Maybe
<1>. QED BY <1>1, <1>2, BothTyped

LEMMA AddTyped ==
  ASSUME Typed, NEW p \in Proc,
         Extract(p) \/ WritePayload(p) \/ Verify(p) \/ Check(p) \/ Commit(p)
  PROVE  Typed'
<1>1. proc[p].op = "add" /\ proc[p].content \in Content /\ Subject(p) \in Package
  BY AtAdding DEF Extract, WritePayload, Verify, Check, Commit, At, Adding
<1>2. Unpacked(proc[p].content) \in Directory
  BY <1>1 DEF Unpacked, Directory, Parts
<1>3. CASE Extract(p)
  <2>1. ProcTyped
    BY <1>1, <1>3, GotoTyped DEF Extract, Adding, Points
  <2>2. DiskTyped
    BY <1>2, <1>3 DEF Extract, Typed, TypeOK, DiskTyped, Maybe
  <2>. QED BY <2>1, <2>2, BothTyped
<1>4. CASE WritePayload(p)
  <2>1. ProcTyped
    BY <1>1, <1>4, GotoTyped DEF WritePayload, Adding, Points
  <2>2. [Unpacked(proc[p].content) EXCEPT !.parts = {"payload"}] \in Directory
    BY <1>2 DEF Directory, Parts
  <2>3. tmp[p] # None => [tmp[p] EXCEPT !.parts = @ \union {"payload"}] \in Directory
    BY DEF Typed, TypeOK, Maybe, Directory, Parts
  <2>4. Filled(tmp[p], proc[p].content) \in Directory
    BY <2>2, <2>3 DEF Filled
  <2>5. DiskTyped
    BY <1>4, <2>4 DEF WritePayload, Typed, TypeOK, DiskTyped, Maybe
  <2>. QED BY <2>1, <2>5, BothTyped
<1>5. CASE Verify(p)
  <2>1. CASE Goto(p, "check") /\ UNCHANGED <<slot, tmp, pins, damaged>>
    BY <1>1, <2>1, GotoTyped, DiskSame, BothTyped DEF Adding, Points
  <2>. QED BY <1>5, <2>1, GiveUpTyped DEF Verify
<1>6. CASE Check(p)
  <2>1. CASE Goto(p, "commit") /\ UNCHANGED <<slot, tmp, pins, damaged>>
    BY <1>1, <2>1, GotoTyped, DiskSame, BothTyped DEF Adding, Points
  <2>. QED BY <1>6, <2>1, GiveUpTyped DEF Check
<1>7. CASE Commit(p)
  <2>1. CASE /\ tmp[p] # None
             /\ slot' = [slot EXCEPT ![Subject(p)] = tmp[p]]
             /\ tmp' = [tmp EXCEPT ![p] = None]
             /\ damaged' = damaged \ {Subject(p)}
             /\ Stop(p)
             /\ UNCHANGED pins
    <3>1. DiskTyped
      BY <2>1 DEF Typed, TypeOK, DiskTyped, Maybe
    <3>. QED BY <2>1, <3>1, StopTyped, BothTyped
  <2>. QED BY <1>7, <2>1, GiveUpTyped DEF Commit
<1>. QED BY <1>3, <1>4, <1>5, <1>6, <1>7

LEMMA RemoveTyped ==
  ASSUME Typed, NEW p \in Proc,
         Visit(p) \/ Refer(p) \/ Descend(p) \/ Delete(p) \/ RemoveOne(p)
  PROVE  Typed'
<1> DEFINE k == Subject(p)
<1>1. proc[p].pc \in Removing
  BY DEF Visit, Refer, Descend, Delete, RemoveOne, At, Removing
<1>2. /\ proc[p].op \in {"remove", "cascade"}
      /\ proc[p].path \in Seq(Package) /\ proc[p].path # <<>>
      /\ k \in Package
  BY <1>1, AtRemoving
<1>3. proc[p] \in Commands /\ ShapeOf(proc[p])
  BY DEF Typed, TypeOK
\* The same command, a step further.
<1>4. ASSUME NEW d \in Commands, proc' = [proc EXCEPT ![p] = d],
             d.op = proc[p].op, d.path # <<>>, d.pc \in Removing
      PROVE  ProcTyped
  BY <1>2, <1>4, StepOf DEF ShapeOf, Removing
<1>. HIDE DEF k
<1>5. CASE Visit(p)
  <2>1. DiskTyped
    BY <1>5, DiskSame DEF Visit
  <2>2. CASE proc' = [proc EXCEPT ![p].pc = "refer", ![p].seen = @ \union {k}]
    <3> DEFINE d == [proc[p] EXCEPT !.pc = "refer", !.seen = @ \union {k}]
    <3>1. d \in Commands /\ d.op = proc[p].op /\ d.path = proc[p].path /\ d.pc = "refer"
      BY <1>2, <1>3 DEF Commands, Points
    <3>2. proc' = [proc EXCEPT ![p] = d]
      BY <2>2
    <3>3. ProcTyped
      BY <1>2, <1>4, <3>1, <3>2 DEF Removing
    <3>. QED BY <2>1, <3>3, BothTyped
  <2>. QED BY <1>1, <1>5, <2>1, <2>2, ReturnTyped, StopTyped, BothTyped DEF Visit, k
<1>6. CASE Refer(p)
  <2>1. DiskTyped
    BY <1>6, DiskSame DEF Refer
  <2>2. CASE proc' = [proc EXCEPT ![p].todo[k] = Referrers(k), ![p].pc = "descend"]
    <3> DEFINE d == [proc[p] EXCEPT !.todo[k] = Referrers(k), !.pc = "descend"]
    <3>1. Referrers(k) \subseteq Package
      BY DEF Referrers
    <3>2. d \in Commands /\ d.op = proc[p].op /\ d.path = proc[p].path /\ d.pc = "descend"
      BY <1>2, <1>3, <3>1 DEF Commands, Points
    <3>3. proc' = [proc EXCEPT ![p] = d]
      BY <2>2
    <3>4. ProcTyped
      BY <1>2, <1>4, <3>2, <3>3 DEF Removing
    <3>. QED BY <2>1, <3>4, BothTyped
  <2>3. CASE Goto(p, "delete")
    BY <1>2, <2>1, <2>3, GotoTyped, BothTyped DEF Removing, Points
  <2>. QED BY <1>6, <2>1, <2>2, <2>3, StopTyped, BothTyped DEF Refer, k
<1>7. CASE Descend(p)
  <2>1. DiskTyped
    BY <1>7, DiskSame DEF Descend
  <2>2. ASSUME NEW r \in proc[p].todo[k],
               proc' = [proc EXCEPT ![p].todo[k] = @ \ {r}]
        PROVE  ProcTyped
    <3> DEFINE d == [proc[p] EXCEPT !.todo[k] = @ \ {r}]
    <3>1. /\ d \in Commands /\ d.op = proc[p].op /\ d.path = proc[p].path
          /\ d.pc = proc[p].pc
      BY <1>2, <1>3 DEF Commands
    <3>2. proc' = [proc EXCEPT ![p] = d]
      BY <2>2
    <3>. QED BY <1>1, <1>2, <1>4, <3>1, <3>2
  <2>3. ASSUME NEW r \in proc[p].todo[k],
               proc' = [proc EXCEPT ![p].todo[k] = @ \ {r}, ![p].pc = "visit",
                                    ![p].path = <<r>> \o @]
        PROVE  ProcTyped
    <3> DEFINE d == [proc[p] EXCEPT !.todo[k] = @ \ {r}, !.pc = "visit",
                                    !.path = <<r>> \o proc[p].path]
    <3>1. r \in Package
      BY <1>2, <1>3, <2>3 DEF Commands
    <3>2. <<r>> \o proc[p].path \in Seq(Package) /\ <<r>> \o proc[p].path # <<>>
      BY <1>2, <3>1, Push
    <3>3. d \in Commands /\ d.op = proc[p].op /\ d.path # <<>> /\ d.pc = "visit"
      BY <1>2, <1>3, <3>2 DEF Commands, Points
    <3>4. proc' = [proc EXCEPT ![p] = d]
      BY <2>3
    <3>. QED BY <1>4, <3>3, <3>4 DEF Removing
  <2>4. CASE Goto(p, "delete")
    BY <1>2, <2>1, <2>4, GotoTyped, BothTyped DEF Removing, Points
  <2>5. CASE Return(p)
    BY <1>1, <2>1, <2>5, ReturnTyped, BothTyped
  <2>6. CASE \E r \in proc[p].todo[k] :
               \/ proc' = [proc EXCEPT ![p].todo[k] = @ \ {r}]
               \/ proc' = [proc EXCEPT ![p].todo[k] = @ \ {r}, ![p].pc = "visit",
                                       ![p].path = <<r>> \o @]
    BY <2>1, <2>2, <2>3, <2>6, BothTyped
  <2>. QED BY <1>7, <2>4, <2>5, <2>6 DEF Descend, k
<1>8. CASE Delete(p)
  <2>1. DiskTyped
    BY <1>2, <1>8 DEF Delete, Typed, TypeOK, DiskTyped, Maybe, Directory, HasToml, k
  <2>2. CASE Goto(p, "deleting")
    BY <1>2, <2>1, <2>2, GotoTyped, BothTyped DEF Removing, Points
  <2>. QED BY <1>8, <2>1, <2>2, StopTyped, BothTyped DEF Delete
<1>9. CASE RemoveOne(p)
  <2>1. DiskTyped
    BY <1>2, <1>9 DEF RemoveOne, Typed, TypeOK, DiskTyped, Maybe, Directory, Inside, k
  <2>2. ProcTyped
    BY <1>1, <1>9, ProcSame, ReturnTyped, StopTyped DEF RemoveOne
  <2>. QED BY <2>1, <2>2, BothTyped
<1>. QED BY <1>5, <1>6, <1>7, <1>8, <1>9

LEMMA InterruptTyped ==
  ASSUME Typed, NEW p \in Proc, Interrupt(p)
  PROVE  Typed'
<1>1. ASSUME NEW d \in Maybe(Directory) PROVE Leave(p, d) \in Maybe(Directory)
  BY <1>1 DEF Leave, Maybe, Directory
<1>2. DiskTyped
  BY <1>1 DEF Interrupt, Typed, TypeOK, DiskTyped, Maybe
<1>3. ProcTyped
  BY StopTyped DEF Interrupt
<1>. QED BY <1>2, <1>3, BothTyped

LEMMA InitTyped == Init => Typed
<1>1. <<>> \in Seq(Package) /\ NoTodo \in [Package -> SUBSET Package]
  BY DEF NoTodo
<1>2. Idle \in Commands /\ ShapeOf(Idle)
  BY <1>1 DEF Idle, Commands, Maybe, ShapeOf
<1>. QED BY <1>2 DEF Init, Typed, TypeOK, Maybe

LEMMA NextTyped == Typed /\ [Next]_vars => Typed'
<1>. SUFFICES ASSUME Typed, [Next]_vars PROVE Typed'
  OBVIOUS
<1>1. ASSUME NEW p \in Proc, Begin(p) \/ Continue(p) \/ Interrupt(p) PROVE Typed'
  BY <1>1, BeginTyped, CleanupTyped, CleanedTyped, AddTyped, RemoveTyped, InterruptTyped
     DEF Continue
<1>2. ASSUME NEW S \in PinSets, Pin(S) PROVE Typed'
  <2>1. DiskTyped
    BY <1>2, ConstantsAssumption DEF Pin, Typed, TypeOK, DiskTyped
  <2>. QED BY <1>2, <2>1, ProcSame, BothTyped DEF Pin
<1>3. CASE UNCHANGED vars
  BY <1>3, DiskSame, ProcSame, BothTyped DEF vars
<1>. QED BY <1>1, <1>2, <1>3 DEF Next

\* The locals and the point of every command fit its kind.
LEMMA AlwaysTyped == Spec => []Typed
BY InitTyped, NextTyped, PTL DEF Spec

\* Store and processes always hold values of the declared types (store.rs).
THEOREM TypeCorrect == Spec => []TypeOK
<1>1. Typed => TypeOK
  BY DEF Typed
<1>. QED BY <1>1, AlwaysTyped, PTL

-----------------------------------------------------------------------------
(***************************************************************************)
(* No file of a stored package is replaced or added, with any number of    *)
(* processes and kills.                                                    *)
(***************************************************************************)

\* What a step leaves of a package directory that has files.
Keeps(k) ==
  slot[k] # None /\ slot[k].parts # {} /\ slot'[k] # None =>
    /\ slot'[k].content = slot[k].content
    /\ slot'[k].parts \subseteq slot[k].parts

LEMMA CleanupKeeps ==
  ASSUME Typed, NEW p \in Proc, CleanupTmpAdds(p), NEW k \in Package
  PROVE  Keeps(k)
BY DEF CleanupTmpAdds, CleanOpen, CleanFile, CleanClose, Inside, Keeps,
       Typed, TypeOK, Maybe, Directory

LEMMA CommitKeeps ==
  ASSUME Typed, NEW p \in Proc, Commit(p), NEW k \in Package
  PROVE  Keeps(k)
<1>1. Subject(p) \in Package
  BY AtAdding DEF Commit, At, Adding
<1>2. CASE k # Subject(p) \/ UNCHANGED slot
  BY <1>1, <1>2 DEF Commit, GiveUp, Keeps, Typed, TypeOK
<1>3. CASE k = Subject(p) /\ ~UNCHANGED slot
  BY <1>1, <1>3 DEF Commit, GiveUp, Free, Keeps
<1>. QED BY <1>2, <1>3

LEMMA RemoveKeeps ==
  ASSUME Typed, NEW p \in Proc, Delete(p) \/ RemoveOne(p), NEW k \in Package
  PROVE  Keeps(k)
<1>1. Subject(p) \in Package
  BY AtRemoving DEF Delete, RemoveOne, At, Removing
<1>. QED BY <1>1 DEF Delete, RemoveOne, HasToml, Inside, Keeps, Typed, TypeOK,
                     Maybe, Directory

LEMMA InterruptKeeps ==
  ASSUME Typed, NEW p \in Proc, Interrupt(p), NEW k \in Package
  PROVE  Keeps(k)
BY DEF Interrupt, Leave, Keeps, Typed, TypeOK, Maybe, Directory

\* The files of a package that is in the store never change and never come
\* back: whatever processes add and remove at once, because the rename that ends
\* Store::add fails where there is a directory with files.
THEOREM StoreImmutable == Spec => Immutable
<1> DEFINE Step == \A k \in Package : Keeps(k)
<1>1. Typed /\ [Next]_vars => Step
  <2>. SUFFICES ASSUME Typed, [Next]_vars, NEW k \in Package PROVE Keeps(k)
    OBVIOUS
  <2>1. CASE UNCHANGED slot
    BY <2>1 DEF Keeps
  <2>2. ASSUME NEW p \in Proc, Continue(p) PROVE Keeps(k) \/ UNCHANGED slot
    <3>1. CASE CleanupTmpAdds(p)
      BY <3>1, CleanupKeeps
    <3>2. CASE Commit(p)
      BY <3>2, CommitKeeps
    <3>3. CASE Delete(p) \/ RemoveOne(p)
      BY <3>3, RemoveKeeps
    <3>4. CASE \/ Cleaned(p) \/ Extract(p) \/ WritePayload(p) \/ Verify(p) \/ Check(p)
               \/ Visit(p) \/ Refer(p) \/ Descend(p)
      BY <3>4 DEF Cleaned, Extract, WritePayload, Verify, Check, GiveUp, Visit, Refer, Descend
    <3>. QED BY <2>2, <3>1, <3>2, <3>3, <3>4 DEF Continue
  <2>3. ASSUME NEW p \in Proc, Begin(p) PROVE UNCHANGED slot
    BY <2>3 DEF Begin, Add, Remove, List, Start
  <2>. QED BY <2>1, <2>2, <2>3, InterruptKeeps DEF Next, Pin, vars
<1>2. Step => \A k \in Package : slot[k] # None /\ slot[k].parts # {} /\ slot'[k] # None =>
                /\ slot'[k].content = slot[k].content
                /\ slot'[k].parts \subseteq slot[k].parts
  BY DEF Keeps
<1>. HIDE DEF Step
<1>3. Typed /\ [Next]_vars =>
        [\A k \in Package : slot[k] # None /\ slot[k].parts # {} /\ slot'[k] # None =>
                /\ slot'[k].content = slot[k].content
                /\ slot'[k].parts \subseteq slot[k].parts]_vars
  BY <1>1, <1>2
<1>. QED BY <1>3, AlwaysTyped, PTL DEF Spec, Immutable

-----------------------------------------------------------------------------
(***************************************************************************)
(* One command at a time: what is in the store is complete.                *)
(***************************************************************************)

\* At most one command runs.
Exclusive == \A p, q \in Proc : proc[p].pc # "idle" /\ proc[q].pc # "idle" => p = q

\* Only an add has a temporary directory, whole from the verification on, and
\* nobody deletes it.
StagedAt(p) ==
  /\ tmp[p] # None => /\ tmp[p].open = {}
                      /\ proc[p].pc \in {"payload", "verify", "check", "commit"}
  /\ proc[p].pc \in {"check", "commit"} => Whole(tmp[p])

\* Only remove_one deletes inside a package directory.
Opened ==
  \A k \in Package, p \in Proc :
    Inside(slot[k], p) => At(p, "deleting") /\ Subject(p) = k

Tidy == Typed /\ Exclusive /\ (\A p \in Proc : StagedAt(p)) /\ Opened /\ WholeOrGone

LEMMA OthersIdle ==
  ASSUME Typed, Exclusive, Alone, NEW p \in Proc, NEW q \in Proc \ {p},
         Begin(p) \/ Continue(p) \/ Interrupt(p)
  PROVE  proc[q].pc = "idle" /\ proc'[q] = proc[q]
<1>1. proc'[q] = proc[q]
  <2>1. ASSUME NEW c, proc' = [proc EXCEPT ![p] = c] PROVE proc'[q] = proc[q]
    BY <2>1 DEF Typed, TypeOK
  <2>2. Stop(p) => proc'[q] = proc[q]
    BY <2>1 DEF Stop
  <2>3. ASSUME NEW point, Goto(p, point) PROVE proc'[q] = proc[q]
    BY <2>3 DEF Goto, Typed, TypeOK
  <2>4. Return(p) => proc'[q] = proc[q]
    BY <2>2 DEF Return, Typed, TypeOK
  <2>5. CASE Begin(p) \/ Interrupt(p)
    BY <2>2, <2>5 DEF Begin, Add, Remove, List, Start, Interrupt, Typed, TypeOK
  <2>6. CASE CleanupTmpAdds(p) \/ Cleaned(p)
    BY <2>2, <2>3, <2>6
       DEF CleanupTmpAdds, CleanOpen, CleanFile, CleanClose, Cleaned
  <2>7. CASE Extract(p) \/ WritePayload(p) \/ Verify(p) \/ Check(p) \/ Commit(p)
    BY <2>2, <2>3, <2>7 DEF Extract, WritePayload, Verify, Check, Commit, GiveUp
  <2>8. CASE Visit(p) \/ Refer(p)
    BY <2>2, <2>3, <2>4, <2>8 DEF Visit, Refer, Typed, TypeOK
  <2>9. CASE Descend(p)
    BY <2>3, <2>4, <2>9 DEF Descend, Typed, TypeOK
  <2>10. CASE Delete(p) \/ RemoveOne(p)
    BY <2>2, <2>3, <2>4, <2>10 DEF Delete, RemoveOne
  <2>. QED BY <2>5, <2>6, <2>7, <2>8, <2>9, <2>10 DEF Continue
<1>2. CASE Begin(p)
  BY <1>1, <1>2 DEF Begin, Add, Remove, List, Start, MayRun, At
<1>3. CASE Continue(p) \/ Interrupt(p)
  <2>1. proc[p].pc # "idle"
    BY <1>3, ConstantsAssumption
       DEF Continue, Interrupt, CleanupTmpAdds, CleanOpen, CleanFile, CleanClose, Cleaning,
           Cleaned, Extract, WritePayload, Verify, Check, Commit,
           Visit, Refer, Descend, Delete, RemoveOne, At, Points
  <2>. QED BY <1>1, <2>1 DEF Exclusive
<1>. QED BY <1>1, <1>2, <1>3

\* Nothing temporary is left when a command cleans up.
LEMMA NothingToClean ==
  ASSUME Tidy, NEW p \in Proc
  PROVE  ~CleanupTmpAdds(p)
<1>. SUFFICES ASSUME Cleaning(p) PROVE ~CleanupTmpAdds(p)
  BY DEF CleanupTmpAdds, CleanOpen, CleanFile, CleanClose
<1>1. \A q \in Proc : tmp[q] = None
  BY DEF Tidy, Exclusive, StagedAt, Cleaning
<1>2. \A k \in Package : ~Inside(slot[k], p)
  BY DEF Tidy, Opened, Cleaning, At
<1>. QED BY <1>1, <1>2 DEF CleanupTmpAdds, CleanOpen, CleanFile, CleanClose, Inside

\* A step of p keeps the store tidy if it leaves p's part of it tidy.
LEMMA TidyStep ==
  ASSUME Tidy, Alone, NEW p \in Proc, Begin(p) \/ Continue(p) \/ Interrupt(p),
         StagedAt(p)',
         \A q \in Proc \ {p} : tmp'[q] = None,
         \A k \in Package, q \in Proc :
           Inside(slot'[k], q) => q = p /\ At(p, "deleting")' /\ Subject(p)' = k,
         WholeOrGone'
  PROVE  Tidy'
<1>1. Typed'
  BY BeginTyped, CleanupTyped, CleanedTyped, AddTyped, RemoveTyped, InterruptTyped
     DEF Continue, Tidy
<1>2. \A q \in Proc \ {p} : proc[q].pc = "idle" /\ proc'[q].pc = "idle"
  BY OthersIdle DEF Tidy
<1>3. Exclusive'
  BY <1>2 DEF Exclusive
<1>4. \A q \in Proc : StagedAt(q)'
  BY <1>2 DEF StagedAt
<1>5. Opened'
  BY DEF Opened
<1>. QED BY <1>1, <1>3, <1>4, <1>5 DEF Tidy

LEMMA TidyNext == Tidy /\ Alone /\ [Next]_vars => Tidy'
<1>. SUFFICES ASSUME Tidy, Alone, [Next]_vars PROVE Tidy'
  OBVIOUS
<1>1. Typed /\ Exclusive /\ Opened /\ WholeOrGone /\ \A p \in Proc : StagedAt(p)
  BY DEF Tidy
<1>2. ASSUME NEW p \in Proc, Begin(p) \/ Continue(p) \/ Interrupt(p)
      PROVE  \A q \in Proc \ {p} : tmp[q] = None /\ \A k \in Package : ~Inside(slot[k], q)
  BY <1>1, <1>2, OthersIdle DEF StagedAt, Opened, At
\* A step of a command that leaves the store alone.
<1>3. ASSUME NEW p \in Proc, Begin(p) \/ Continue(p) \/ Interrupt(p),
             UNCHANGED <<slot, damaged>>,
             \A q \in Proc \ {p} : tmp'[q] = None,
             StagedAt(p)', ~At(p, "deleting")
      PROVE  Tidy'
  BY <1>1, <1>2, <1>3, TidyStep DEF Opened, WholeOrGone
<1>4. ASSUME NEW p \in Proc, Begin(p) PROVE Tidy'
  <2>1. PICK op, c, path : Start(p, op, c, path)
    BY <1>4 DEF Begin, Add, Remove, List
  <2>2. UNCHANGED <<slot, tmp, damaged>> /\ At(p, "idle") /\ proc'[p].pc = "clean"
    BY <1>1, <2>1 DEF Start, MayRun, Typed, TypeOK, Idle
  <2>. QED BY <1>1, <1>2, <1>3, <1>4, <2>2 DEF StagedAt, At
<1>5. ASSUME NEW p \in Proc, Continue(p), Cleaned(p) PROVE Tidy'
  <2>1. /\ UNCHANGED <<slot, tmp, damaged>> /\ At(p, "clean")
        /\ proc'[p].pc \in {"extract", "visit", "idle"}
    BY <1>1, <1>5 DEF Cleaned, Goto, Stop, Idle, Typed, TypeOK, Commands
  <2>. QED BY <1>1, <1>2, <1>3, <1>5, <2>1 DEF StagedAt, At
<1>6. ASSUME NEW p \in Proc, Continue(p), Extract(p) PROVE Tidy'
  <2>1. /\ UNCHANGED <<slot, damaged>> /\ At(p, "extract") /\ proc'[p].pc = "payload"
        /\ tmp' = [tmp EXCEPT ![p] = Unpacked(proc[p].content)]
    BY <1>1, <1>6 DEF Extract, Goto, Typed, TypeOK, Commands
  <2>2. StagedAt(p)'
    BY <1>1, <2>1 DEF StagedAt, Unpacked, Typed, TypeOK
  <2>. QED BY <1>1, <1>2, <1>3, <1>6, <2>1, <2>2 DEF Typed, TypeOK, At
<1>7. ASSUME NEW p \in Proc, Continue(p), WritePayload(p) PROVE Tidy'
  <2>1. /\ UNCHANGED <<slot, damaged>> /\ At(p, "payload") /\ proc'[p].pc = "verify"
        /\ tmp' = [tmp EXCEPT ![p] = Filled(tmp[p], proc[p].content)]
    BY <1>1, <1>7 DEF WritePayload, Goto, Typed, TypeOK, Commands
  <2>2. Filled(tmp[p], proc[p].content).open = {}
    <3>1. tmp[p] = None => Filled(tmp[p], proc[p].content).open = {}
      BY DEF Filled, Unpacked
    <3>2. tmp[p] # None => Filled(tmp[p], proc[p].content).open = tmp[p].open
      BY <1>1 DEF Filled, Typed, TypeOK, Maybe, Directory
    <3>. QED BY <1>1, <3>1, <3>2 DEF StagedAt
  <2>3. StagedAt(p)'
    BY <1>1, <2>1, <2>2 DEF StagedAt, Typed, TypeOK
  <2>. QED BY <1>1, <1>2, <1>3, <1>7, <2>1, <2>3 DEF Typed, TypeOK, At
<1>8. ASSUME NEW p \in Proc, Continue(p), GiveUp(p), ~At(p, "deleting") PROVE Tidy'
  <2>1. /\ UNCHANGED <<slot, damaged>> /\ proc'[p].pc = "idle"
        /\ tmp' = [tmp EXCEPT ![p] = None]
    BY <1>1, <1>8 DEF GiveUp, Stop, Idle, Typed, TypeOK
  <2>2. StagedAt(p)'
    BY <1>1, <2>1 DEF StagedAt, Typed, TypeOK
  <2>. QED BY <1>1, <1>2, <1>3, <1>8, <2>1, <2>2 DEF Typed, TypeOK
<1>9. ASSUME NEW p \in Proc, Continue(p), Verify(p) \/ Check(p) PROVE Tidy'
  <2>1. CASE GiveUp(p)
    BY <1>8, <1>9, <2>1 DEF Verify, Check, At
  <2>2. CASE ~GiveUp(p)
    <3>1. /\ UNCHANGED <<slot, tmp, damaged>> /\ Whole(tmp[p]) /\ ~At(p, "deleting")
          /\ proc'[p].pc \in {"check", "commit"}
      BY <1>1, <1>9, <2>2 DEF Verify, Check, Goto, At, StagedAt, Typed, TypeOK, Commands
    <3>. QED BY <1>1, <1>2, <1>3, <1>9, <3>1 DEF StagedAt
  <2>. QED BY <2>1, <2>2
<1>10. ASSUME NEW p \in Proc, Continue(p), Commit(p) PROVE Tidy'
  <2>1. CASE GiveUp(p)
    BY <1>8, <1>10, <2>1 DEF Commit, At
  <2>2. CASE ~GiveUp(p)
    <3> DEFINE k == Subject(p)
    <3>1. /\ k \in Package /\ Whole(tmp[p]) /\ tmp[p].open = {}
          /\ slot' = [slot EXCEPT ![k] = tmp[p]]
          /\ tmp' = [tmp EXCEPT ![p] = None]
          /\ damaged' = damaged \ {k}
          /\ proc'[p].pc = "idle"
      BY <1>1, <1>10, <2>2, AtAdding DEF Commit, At, Adding, Stop, Idle, StagedAt, Typed, TypeOK
    <3>2. ~At(p, "deleting")
      BY <1>10 DEF Commit, At
    <3>. HIDE DEF k
    <3>3. StagedAt(p)' /\ \A q \in Proc \ {p} : tmp'[q] = None
      BY <1>1, <1>2, <1>10, <3>1 DEF StagedAt, Typed, TypeOK
    <3>4. \A j \in Package, q \in Proc : ~Inside(slot'[j], q)
      BY <1>1, <1>2, <1>10, <3>1, <3>2 DEF Inside, Opened, Typed, TypeOK
    <3>5. ASSUME NEW j \in Package, slot'[j] # None, j \notin damaged'
          PROVE  Whole(slot'[j])
      <4>1. CASE j = k
        BY <1>1, <3>1, <4>1 DEF Typed, TypeOK
      <4>2. CASE j # k
        <5>1. slot'[j] = slot[j] /\ j \notin damaged
          BY <1>1, <3>1, <3>5, <4>2 DEF Typed, TypeOK
        <5>2. \A q \in Proc : ~Inside(slot[j], q)
          BY <3>4, <5>1
        <5>. QED BY <1>1, <3>5, <5>1, <5>2 DEF WholeOrGone
      <4>. QED BY <4>1, <4>2
    <3>. QED BY <1>10, <3>3, <3>4, <3>5, TidyStep DEF WholeOrGone
  <2>. QED BY <2>1, <2>2
<1>11. ASSUME NEW p \in Proc, Continue(p), Visit(p) \/ Refer(p) \/ Descend(p) PROVE Tidy'
  <2>1. /\ UNCHANGED <<slot, tmp, damaged>> /\ ~At(p, "deleting") /\ tmp[p] = None
    BY <1>1, <1>11 DEF Visit, Refer, Descend, At, StagedAt
  <2>2. proc'[p].pc \notin {"check", "commit"}
    <3>1. Stop(p) \/ Return(p) => proc'[p].pc \in {"idle", "descend"}
      BY <1>1 DEF Stop, Return, Idle, Typed, TypeOK, Commands
    <3>2. Goto(p, "delete") => proc'[p].pc = "delete"
      BY <1>1 DEF Goto, Typed, TypeOK, Commands
    <3>3. CASE Visit(p)
      BY <1>1, <3>1, <3>3 DEF Visit, Typed, TypeOK, Commands
    <3>4. CASE Refer(p)
      BY <1>1, <3>1, <3>2, <3>4 DEF Refer, Typed, TypeOK, Commands
    <3>5. CASE Descend(p)
      <4>1. proc[p].pc = "descend" /\ p \in DOMAIN proc /\ DOMAIN proc[p] = DOMAIN Idle
        BY <1>1, <3>5 DEF Descend, At, Typed, TypeOK, Commands, Idle
      <4>2. ASSUME NEW r, proc' = [proc EXCEPT ![p].todo[Subject(p)] = @ \ {r}]
            PROVE  proc'[p].pc = "descend"
        BY <4>1, <4>2 DEF Idle
      <4>3. ASSUME NEW r,
                   proc' = [proc EXCEPT ![p].todo[Subject(p)] = @ \ {r}, ![p].pc = "visit",
                                        ![p].path = <<r>> \o @]
            PROVE  proc'[p].pc = "visit"
        BY <4>1, <4>3 DEF Idle
      <4>4. CASE Goto(p, "delete") \/ Return(p)
        BY <3>1, <3>2, <4>4
      <4>5. CASE \E r \in proc[p].todo[Subject(p)] :
                   \/ proc' = [proc EXCEPT ![p].todo[Subject(p)] = @ \ {r}]
                   \/ proc' = [proc EXCEPT ![p].todo[Subject(p)] = @ \ {r}, ![p].pc = "visit",
                                           ![p].path = <<r>> \o @]
        BY <4>2, <4>3, <4>5
      <4>. QED BY <3>5, <4>4, <4>5 DEF Descend
    <3>. QED BY <1>11, <3>3, <3>4, <3>5
  <2>. QED BY <1>1, <1>2, <1>3, <1>11, <2>1, <2>2 DEF StagedAt
<1>12. ASSUME NEW p \in Proc, Continue(p), Delete(p) PROVE Tidy'
  <2> DEFINE k == Subject(p)
  <2>1. k \in Package /\ ~At(p, "deleting") /\ tmp[p] = None
    BY <1>1, <1>12, AtRemoving DEF Delete, At, Removing, StagedAt
  <2>2. CASE ~HasToml(slot[k])
    <3>1. UNCHANGED <<slot, tmp, damaged>> /\ proc'[p].pc = "idle"
      BY <1>1, <1>12, <2>2 DEF Delete, Stop, Idle, Typed, TypeOK
    <3>. QED BY <1>1, <1>2, <1>3, <1>12, <2>1, <3>1 DEF StagedAt
  <2>3. CASE HasToml(slot[k])
    <3>1. /\ slot' = [slot EXCEPT ![k].open = @ \union {p}]
          /\ UNCHANGED <<tmp, damaged>>
          /\ proc'[p].pc = "deleting" /\ proc'[p].path = proc[p].path
      BY <1>1, <1>12, <2>3 DEF Delete, Goto, Typed, TypeOK, Commands
    <3>2. slot[k] \in Directory /\ slot[k] # None
      BY <1>1, <2>1, <2>3 DEF HasToml, Typed, TypeOK, Maybe
    <3>3. /\ slot'[k] # None /\ slot'[k].open = slot[k].open \union {p}
          /\ \A j \in Package \ {k} : slot'[j] = slot[j]
      <4>1. [slot[k] EXCEPT !.open = @ \union {p}] \in Directory
        BY <3>2 DEF Directory
      <4>2. slot'[k] = [slot[k] EXCEPT !.open = @ \union {p}]
        BY <1>1, <2>1, <3>1 DEF Typed, TypeOK
      <4>3. slot'[k] # None
        BY <4>1, <4>2, ConstantsAssumption
      <4>4. slot'[k].open = slot[k].open \union {p}
        BY <3>2, <4>2 DEF Directory
      <4>5. \A j \in Package \ {k} : slot'[j] = slot[j]
        BY <1>1, <3>1 DEF Typed, TypeOK
      <4>. QED BY <4>3, <4>4, <4>5
    <3>. HIDE DEF k
    <3>4. StagedAt(p)' /\ \A q \in Proc \ {p} : tmp'[q] = None
      BY <1>1, <1>2, <1>12, <2>1, <3>1 DEF StagedAt
    <3>5. ASSUME NEW j \in Package, NEW q \in Proc, Inside(slot'[j], q)
          PROVE  q = p /\ j = k
      <4>1. q # p => ~Inside(slot[j], q)
        BY <1>2, <1>12
      <4>2. ~Inside(slot[j], p)
        BY <1>1, <2>1 DEF Opened
      <4>3. j # k => slot'[j] = slot[j]
        BY <3>3
      <4>. QED BY <3>2, <3>3, <3>5, <4>1, <4>2, <4>3 DEF Inside
    <3>6. At(p, "deleting")' /\ Subject(p)' = k
      BY <3>1 DEF At, Subject, k
    <3>7. Inside(slot'[k], p)
      BY <3>3 DEF Inside
    <3>8. WholeOrGone'
      <4>. SUFFICES ASSUME NEW j \in Package, slot'[j] # None, j \notin damaged', j # k
                    PROVE  Whole(slot'[j])
        BY <2>1, <3>7 DEF WholeOrGone
      <4>1. slot'[j] = slot[j] /\ \A q \in Proc : ~Inside(slot[j], q)
        BY <3>3, <3>5
      <4>. QED BY <1>1, <3>1, <4>1 DEF WholeOrGone
    <3>. QED BY <1>12, <3>4, <3>5, <3>6, <3>8, TidyStep
  <2>. QED BY <2>2, <2>3
<1>13. ASSUME NEW p \in Proc, Continue(p), RemoveOne(p) PROVE Tidy'
  <2> DEFINE k == Subject(p)
  <2>1. /\ k \in Package /\ At(p, "deleting") /\ tmp[p] = None /\ UNCHANGED tmp
        /\ \A j \in Package \ {k} : slot'[j] = slot[j]
    BY <1>1, <1>13, AtRemoving DEF RemoveOne, At, Removing, StagedAt, Typed, TypeOK
  <2>2. proc'[p].pc \notin {"check", "commit"}
    BY <1>1, <1>13 DEF RemoveOne, At, Stop, Return, Idle, Typed, TypeOK, Commands
  <2>3. StagedAt(p)' /\ \A q \in Proc \ {p} : tmp'[q] = None
    BY <1>1, <1>2, <1>13, <2>1, <2>2 DEF StagedAt
  <2>4. \A j \in Package \ {k}, q \in Proc : ~Inside(slot'[j], q)
    BY <1>1, <1>2, <1>13, <2>1 DEF Opened
  <2>5. \A j \in Package \ {k} : slot'[j] # None /\ j \notin damaged => Whole(slot'[j])
    BY <1>1, <2>1, <2>4 DEF WholeOrGone
  <2>6. CASE /\ Inside(slot[k], p)
             /\ \E part \in slot[k].parts : slot' = [slot EXCEPT ![k].parts = @ \ {part}]
             /\ UNCHANGED <<proc, damaged>>
    <3>1. slot'[k] # None /\ slot'[k].open = slot[k].open
      <4>1. PICK part \in slot[k].parts : slot'[k] = [slot[k] EXCEPT !.parts = @ \ {part}]
        BY <1>1, <2>1, <2>6 DEF Typed, TypeOK
      <4>2. slot[k] \in Directory
        BY <1>1, <2>1, <2>6 DEF Inside, Typed, TypeOK, Maybe
      <4>. QED BY <4>1, <4>2, ConstantsAssumption DEF Directory
    <3>. HIDE DEF k
    <3>2. \A q \in Proc : Inside(slot'[k], q) => q = p
      BY <1>2, <1>13, <2>1, <2>6, <3>1 DEF Inside
    <3>3. At(p, "deleting")' /\ Subject(p)' = k
      BY <2>1, <2>6 DEF At, Subject, k
    <3>4. Inside(slot'[k], p)
      BY <2>6, <3>1 DEF Inside
    <3>5. WholeOrGone'
      BY <2>1, <2>5, <2>6, <3>4 DEF WholeOrGone
    <3>. QED BY <1>13, <2>3, <2>4, <3>2, <3>3, <3>5, TidyStep
  <2>7. CASE slot' = [slot EXCEPT ![k] = None] /\ damaged' = damaged \ {k}
    <3>1. slot'[k] = None
      BY <1>1, <2>1, <2>7 DEF Typed, TypeOK
    <3>. HIDE DEF k
    <3>2. \A j \in Package, q \in Proc : ~Inside(slot'[j], q)
      BY <2>4, <3>1 DEF Inside
    <3>3. WholeOrGone'
      BY <2>5, <2>7, <3>1 DEF WholeOrGone
    <3>. QED BY <1>13, <2>3, <3>2, <3>3, TidyStep
  <2>8. CASE ~Inside(slot[k], p) /\ UNCHANGED <<slot, damaged>>
    <3>. HIDE DEF k
    <3>1. \A j \in Package, q \in Proc : ~Inside(slot'[j], q)
      BY <1>2, <1>13, <2>1, <2>4, <2>8
    <3>2. WholeOrGone'
      BY <1>1, <2>8, <3>1 DEF WholeOrGone
    <3>. QED BY <1>13, <2>3, <3>1, <3>2, TidyStep
  <2>. QED BY <1>13, <2>6, <2>7, <2>8 DEF RemoveOne
<1>14. ASSUME NEW p \in Proc, Interrupt(p) PROVE Tidy'
  <2>1. /\ slot' = [k \in Package |-> Leave(p, slot[k])]
        /\ tmp' = [q \in Proc |-> IF q = p THEN None ELSE Leave(p, tmp[q])]
        /\ damaged' = damaged \union {k \in Package : Inside(slot[k], p)}
        /\ proc'[p].pc = "idle"
    BY <1>1, <1>14 DEF Interrupt, Stop, Idle, Typed, TypeOK
  <2>2. StagedAt(p)' /\ \A q \in Proc \ {p} : tmp'[q] = None
    BY <1>1, <1>2, <1>14, <2>1 DEF StagedAt, Leave
  <2>3. ASSUME NEW k \in Package, slot[k] # None
        PROVE  /\ slot'[k].open = slot[k].open \ {p} /\ slot'[k].parts = slot[k].parts
               /\ slot'[k] # None
    <3>1. slot'[k] = [slot[k] EXCEPT !.open = @ \ {p}]
      BY <2>1, <2>3 DEF Leave
    <3>2. slot[k] \in Directory
      BY <1>1, <2>3 DEF Typed, TypeOK, Maybe
    <3>. QED BY <3>1, <3>2, ConstantsAssumption DEF Directory
  <2>4. \A k \in Package : slot[k] = None => slot'[k] = None
    BY <2>1 DEF Leave
  <2>5. \A k \in Package, q \in Proc : ~Inside(slot'[k], q)
    BY <1>2, <1>14, <2>3, <2>4 DEF Inside
  <2>6. ASSUME NEW k \in Package, slot'[k] # None, k \notin damaged' PROVE Whole(slot'[k])
    <3>1. slot[k] # None /\ k \notin damaged /\ \A q \in Proc : ~Inside(slot[k], q)
      BY <1>2, <1>14, <2>1, <2>4, <2>6
    <3>. QED BY <1>1, <2>3, <3>1 DEF WholeOrGone, Whole
  <2>. QED BY <1>14, <2>2, <2>5, <2>6, TidyStep DEF WholeOrGone
<1>15. ASSUME UNCHANGED <<slot, tmp, proc, damaged>>, Typed' PROVE Tidy'
  BY <1>1, <1>15 DEF Tidy, Exclusive, StagedAt, Opened, WholeOrGone, At, Subject
<1>16. Typed'
  BY <1>1, NextTyped
<1>17. ASSUME NEW p \in Proc, Continue(p) PROVE Tidy'
  BY <1>5, <1>6, <1>7, <1>9, <1>10, <1>11, <1>12, <1>13, <1>17, NothingToClean DEF Continue
<1>. QED BY <1>4, <1>14, <1>15, <1>16, <1>17 DEF Next, Pin, vars

LEMMA InitTidy == Init => Tidy
BY InitTyped DEF Init, Idle, Tidy, Exclusive, StagedAt, Opened, WholeOrGone, Inside

LEMMA AlwaysTidy ==
  ASSUME Alone
  PROVE  Spec => []Tidy
<1>1. Tidy /\ [Next]_vars => Tidy'
  BY TidyNext
<1>. QED BY <1>1, InitTidy, PTL DEF Spec

\* Commands run one at a time, killed anywhere: a package in the store is
\* complete unless its removal is under way or broke off (Store::add commits by
\* renaming a directory it has verified).
THEOREM StoreWholeOrGone ==
  ASSUME Alone
  PROVE  Spec => []WholeOrGone
<1>1. Tidy => WholeOrGone
  BY DEF Tidy
<1>. QED BY <1>1, AlwaysTidy, PTL

-----------------------------------------------------------------------------
(***************************************************************************)
(* One command at a time: what a removal deletes, and in which order.      *)
(***************************************************************************)

\* The packages of the calls of cascade_remove that have passed the pins check
\* and know their referrers.
Calls(c) == Elems(IF c.pc \in {"visit", "refer"} THEN Tail(c.path) ELSE c.path)

\* What has passed the pins check is not pinned.
UnpinnedAt(p) ==
  proc[p].pc \in Removing =>
    /\ Calls(proc[p]) \intersect pins = {}
    /\ proc[p].pc = "refer" => Subject(p) \notin pins

\* A referrer of what a call removes is still to be removed or has led to the
\* call, and what was visited is gone or has led to the call.
WorklistAt(p) ==
  LET c == proc[p] IN
  /\ c.pc = "clean" /\ c.op \in {"remove", "cascade"} =>
       Tail(c.path) = <<>> /\ c.seen = {}
  /\ c.op = "remove" => Tail(c.path) = <<>> /\ c.pc # "descend"
  /\ c.pc \in Removing => \A r \in c.seen : r \in Elems(c.path) \/ slot[r] = None
  /\ c.pc \in Removing /\ c.op = "cascade" =>
       \A k \in Calls(c) : Referrers(k) \subseteq c.todo[k] \union Elems(c.path)
  /\ c.pc \in {"delete", "deleting"} => Referrers(Subject(p)) \subseteq Elems(c.path)

Orderly == Tidy /\ \A p \in Proc : UnpinnedAt(p) /\ WorklistAt(p)

\* A step that adds no package and changes none.
Shrunk ==
  \A k \in Package :
    /\ HasToml(slot'[k]) => HasToml(slot[k]) /\ slot'[k].content = slot[k].content
    /\ slot[k] = None => slot'[k] = None

LEMMA ReferrersShrink ==
  ASSUME Shrunk, NEW k \in Package
  PROVE  Referrers(k)' \subseteq Referrers(k)
BY DEF Shrunk, Referrers

LEMMA NoElems == Elems(<<>>) = {}
BY DEF Elems

\* A call returns once its package is gone.
LEMMA ReturnOrderly ==
  ASSUME Typed, NEW p \in Proc, UnpinnedAt(p), WorklistAt(p),
         proc[p].pc \in {"visit", "descend", "deleting"},
         Return(p), Shrunk, slot'[Subject(p)] = None, pins' = pins
  PROVE  UnpinnedAt(p)' /\ WorklistAt(p)'
<1> DEFINE c == proc[p]
           k == Subject(p)
<1>1. c \in Commands /\ c.op \in {"remove", "cascade"} /\ k \in Package /\ c.pc \in Removing
  BY AtRemoving DEF Removing, Typed, TypeOK
<1>2. CASE Tail(c.path) = <<>>
  <2>1. proc'[p] = Idle
    BY <1>2 DEF Return, Stop, Typed, TypeOK
  <2>. QED BY <2>1 DEF Idle, UnpinnedAt, WorklistAt, Removing
<1>3. CASE Tail(c.path) # <<>>
  <2>1. /\ proc'[p].pc = "descend" /\ proc'[p].op = c.op /\ proc'[p].path = Tail(c.path)
        /\ proc'[p].todo = c.todo /\ proc'[p].seen = c.seen
    BY <1>1, <1>3 DEF Return, Typed, TypeOK, Commands
  <2>2. c.op = "cascade"
    BY <1>1, <1>3 DEF WorklistAt
  <2>3. /\ Elems(c.path) = {k} \union Elems(Tail(c.path))
        /\ Elems(c.path) \subseteq Package
    BY <1>1, AtRemoving, Pop DEF Subject
  <2>4. Elems(Tail(c.path)) \subseteq Calls(c)
    BY <2>3 DEF Calls
  <2>5. Calls(proc'[p]) = Elems(Tail(c.path))
    BY <2>1 DEF Calls
  <2>6. UnpinnedAt(p)'
    <3>1. Elems(Tail(c.path)) \intersect pins = {}
      BY <1>1, <2>4 DEF UnpinnedAt
    <3>. QED BY <2>1, <2>5, <3>1 DEF UnpinnedAt, Calls
  <2>7. \A r \in c.seen : r \in Elems(Tail(c.path)) \/ slot'[r] = None
    BY <1>1, <2>3 DEF WorklistAt, Shrunk, Commands
  <2>8. ASSUME NEW j \in Elems(Tail(c.path))
        PROVE  Referrers(j)' \subseteq c.todo[j] \union Elems(Tail(c.path))
    <3>1. Referrers(j) \subseteq c.todo[j] \union Elems(c.path)
      BY <1>1, <2>2, <2>4, <2>8 DEF WorklistAt
    <3>2. Referrers(j)' \subseteq Referrers(j) /\ k \notin Referrers(j)'
      BY <2>3, <2>8, ReferrersShrink DEF Referrers, HasToml
    <3>. QED BY <2>3, <3>1, <3>2
  <2>9. WorklistAt(p)'
    <3>. HIDE DEF k
    <3>. QED BY <2>1, <2>2, <2>5, <2>7, <2>8 DEF WorklistAt, Calls
  <2>. QED BY <2>6, <2>9
<1>. QED BY <1>2, <1>3

\* A call takes its next step.
LEMMA VisitOrderly ==
  ASSUME Typed, NEW p \in Proc, UnpinnedAt(p), WorklistAt(p), Visit(p)
  PROVE  UnpinnedAt(p)' /\ WorklistAt(p)'
<1> DEFINE c == proc[p]
           k == Subject(p)
<1>1. /\ c \in Commands /\ c.op \in {"remove", "cascade"} /\ k \in Package /\ c.pc = "visit"
      /\ c.pc \in Removing /\ UNCHANGED <<slot, pins>>
  BY AtRemoving DEF Visit, At, Removing, Typed, TypeOK
<1>2. CASE slot[k] = None /\ Return(p)
  BY <1>1, <1>2, ReturnOrderly DEF Shrunk
<1>3. CASE Stop(p)
  <2>1. proc'[p] = Idle
    BY <1>3 DEF Stop, Typed, TypeOK
  <2>. QED BY <2>1 DEF Idle, UnpinnedAt, WorklistAt, Removing
<1>4. CASE /\ k \notin pins
           /\ proc' = [proc EXCEPT ![p].pc = "refer", ![p].seen = @ \union {k}]
  <2>1. /\ proc'[p].pc = "refer" /\ proc'[p].op = c.op /\ proc'[p].path = c.path
        /\ proc'[p].todo = c.todo /\ proc'[p].seen = c.seen \union {k}
    BY <1>1, <1>4 DEF Typed, TypeOK, Commands
  <2>2. Calls(proc'[p]) = Calls(c) /\ k \in Elems(c.path)
    BY <1>1, <2>1, AtRemoving, Pop DEF Calls, Subject
  <2>3. UnpinnedAt(p)'
    BY <1>1, <1>4, <2>1, <2>2 DEF UnpinnedAt, Calls, Subject
  <2>4. \A j : Referrers(j)' = Referrers(j)
    BY <1>1 DEF Referrers
  <2>5. WorklistAt(p)'
    BY <1>1, <2>1, <2>2, <2>4 DEF WorklistAt, Calls
  <2>. QED BY <2>3, <2>5
<1>. QED BY <1>2, <1>3, <1>4 DEF Visit

LEMMA ReferOrderly ==
  ASSUME Typed, NEW p \in Proc, UnpinnedAt(p), WorklistAt(p), Refer(p)
  PROVE  UnpinnedAt(p)' /\ WorklistAt(p)'
<1> DEFINE c == proc[p]
           k == Subject(p)
<1>1. /\ c \in Commands /\ c.op \in {"remove", "cascade"} /\ k \in Package /\ c.pc = "refer"
      /\ c.pc \in Removing /\ UNCHANGED <<slot, pins>>
  BY AtRemoving DEF Refer, At, Removing, Typed, TypeOK
<1>2. \A j : Referrers(j)' = Referrers(j)
  BY <1>1 DEF Referrers
<1>3. /\ Elems(c.path) = {k} \union Calls(c) /\ Elems(c.path) \subseteq Package
      /\ Elems(c.path) \intersect pins = {}
  BY <1>1, AtRemoving, Pop DEF Calls, Subject, UnpinnedAt
<1>4. CASE Stop(p)
  <2>1. proc'[p] = Idle
    BY <1>4 DEF Stop, Typed, TypeOK
  <2>. QED BY <2>1 DEF Idle, UnpinnedAt, WorklistAt, Removing
<1>5. CASE c.op = "cascade"
  <2>1. /\ proc'[p].pc = "descend" /\ proc'[p].op = c.op /\ proc'[p].path = c.path
        /\ proc'[p].todo = [c.todo EXCEPT ![k] = Referrers(k)] /\ proc'[p].seen = c.seen
    BY <1>1, <1>5 DEF Refer, Typed, TypeOK, Commands
  <2>2. Calls(proc'[p]) = Elems(c.path)
    BY <2>1 DEF Calls
  <2>3. UnpinnedAt(p)'
    BY <1>1, <1>3, <2>1, <2>2 DEF UnpinnedAt, Calls
  <2>4. ASSUME NEW j \in Elems(c.path)
        PROVE  Referrers(j) \subseteq proc'[p].todo[j] \union Elems(c.path)
    <3>1. CASE j = k
      BY <1>1, <2>1, <3>1 DEF Commands
    <3>2. CASE j # k
      <4>1. proc'[p].todo[j] = c.todo[j] /\ j \in Calls(c)
        BY <1>1, <1>3, <2>1, <2>4, <3>2 DEF Commands
      <4>. QED BY <1>1, <1>5, <4>1 DEF WorklistAt
    <3>. QED BY <3>1, <3>2
  <2>5. WorklistAt(p)'
    <3>. HIDE DEF k
    <3>. QED BY <1>1, <1>2, <1>5, <2>1, <2>2, <2>4 DEF WorklistAt, Calls
  <2>. QED BY <2>3, <2>5
<1>6. CASE c.op = "remove" /\ Referrers(k) = {} /\ Goto(p, "delete")
  <2>1. /\ proc'[p].pc = "delete" /\ proc'[p].op = c.op /\ proc'[p].path = c.path
        /\ proc'[p].todo = c.todo /\ proc'[p].seen = c.seen
    BY <1>1, <1>6 DEF Goto, Typed, TypeOK, Commands
  <2>2. UnpinnedAt(p)'
    BY <1>1, <1>3, <2>1 DEF UnpinnedAt, Calls
  <2>3. WorklistAt(p)'
    BY <1>1, <1>2, <1>6, <2>1 DEF WorklistAt, Subject
  <2>. QED BY <2>2, <2>3
<1>. QED BY <1>1, <1>4, <1>5, <1>6 DEF Refer

LEMMA DescendOrderly ==
  ASSUME Typed, NEW p \in Proc, UnpinnedAt(p), WorklistAt(p), Descend(p)
  PROVE  UnpinnedAt(p)' /\ WorklistAt(p)'
<1> DEFINE c == proc[p]
           k == Subject(p)
<1>1. /\ c \in Commands /\ k \in Package /\ c.pc = "descend"
      /\ c.pc \in Removing /\ c.path \in Seq(Package) /\ UNCHANGED <<slot, pins>>
  BY AtRemoving DEF Descend, At, Removing, Typed, TypeOK
<1>2. c.op = "cascade"
  BY <1>1, AtRemoving DEF WorklistAt
<1>3. \A j : Referrers(j)' = Referrers(j)
  BY <1>1 DEF Referrers
<1>4. /\ k \in Elems(c.path) /\ Calls(c) = Elems(c.path) /\ Elems(c.path) \subseteq Package
      /\ Elems(c.path) \intersect pins = {}
  BY <1>1, AtRemoving, Pop DEF Calls, Subject, UnpinnedAt
<1>5. /\ \A r \in c.seen : r \in Elems(c.path) \/ slot[r] = None
      /\ \A j \in Elems(c.path) : Referrers(j) \subseteq c.todo[j] \union Elems(c.path)
  BY <1>1, <1>2, <1>4 DEF WorklistAt
<1>6. \A j : \A r \in Referrers(j) : slot[r] # None
  BY DEF Referrers, HasToml
<1>. HIDE DEF k
<1>7. ASSUME NEW r \in c.todo[k], r \in c.seen,
             proc' = [proc EXCEPT ![p].todo[k] = @ \ {r}]
      PROVE  UnpinnedAt(p)' /\ WorklistAt(p)'
  <2>1. /\ proc'[p].pc = "descend" /\ proc'[p].op = c.op /\ proc'[p].path = c.path
        /\ proc'[p].todo = [c.todo EXCEPT ![k] = @ \ {r}] /\ proc'[p].seen = c.seen
    BY <1>1, <1>7 DEF Typed, TypeOK, Commands
  <2>2. Calls(proc'[p]) = Elems(c.path)
    BY <2>1 DEF Calls
  <2>3. UnpinnedAt(p)'
    BY <1>1, <1>4, <2>1, <2>2 DEF UnpinnedAt, Calls
  <2>4. ASSUME NEW j \in Elems(c.path)
        PROVE  Referrers(j) \subseteq proc'[p].todo[j] \union Elems(c.path)
    <3>1. c.todo[j] \subseteq proc'[p].todo[j] \union {r}
      BY <1>1, <1>4, <2>1, <2>4 DEF Commands
    <3>. QED BY <1>5, <1>6, <1>7, <3>1
  <2>5. WorklistAt(p)'
    BY <1>1, <1>2, <1>3, <1>5, <2>1, <2>2, <2>4 DEF WorklistAt, Calls
  <2>. QED BY <2>3, <2>5
<1>8. ASSUME NEW r \in c.todo[k],
             proc' = [proc EXCEPT ![p].todo[k] = @ \ {r}, ![p].pc = "visit",
                                  ![p].path = <<r>> \o @]
      PROVE  UnpinnedAt(p)' /\ WorklistAt(p)'
  <2>1. /\ proc'[p].pc = "visit" /\ proc'[p].op = c.op
        /\ proc'[p].path = <<r>> \o c.path
        /\ proc'[p].todo = [c.todo EXCEPT ![k] = @ \ {r}] /\ proc'[p].seen = c.seen
    BY <1>1, <1>8 DEF Typed, TypeOK, Commands
  <2>2. r \in Package
    BY <1>1, <1>8 DEF Commands
  <2>3. /\ Elems(proc'[p].path) = {r} \union Elems(c.path)
        /\ Calls(proc'[p]) = Elems(c.path)
    BY <1>1, <2>1, <2>2, Push DEF Calls
  <2>4. UnpinnedAt(p)'
    BY <1>1, <1>4, <2>1, <2>3 DEF UnpinnedAt, Calls
  <2>5. ASSUME NEW j \in Elems(c.path)
        PROVE  Referrers(j) \subseteq proc'[p].todo[j] \union Elems(proc'[p].path)
    <3>1. c.todo[j] \subseteq proc'[p].todo[j] \union {r}
      BY <1>1, <1>4, <2>1, <2>5 DEF Commands
    <3>. QED BY <1>5, <2>3, <3>1
  <2>6. WorklistAt(p)'
    BY <1>1, <1>2, <1>3, <1>5, <2>1, <2>3, <2>5 DEF WorklistAt, Calls
  <2>. QED BY <2>4, <2>6
<1>9. CASE c.todo[k] = {} /\ Goto(p, "delete")
  <2>1. /\ proc'[p].pc = "delete" /\ proc'[p].op = c.op /\ proc'[p].path = c.path
        /\ proc'[p].todo = c.todo /\ proc'[p].seen = c.seen
    BY <1>1, <1>9 DEF Goto, Typed, TypeOK, Commands
  <2>2. Calls(proc'[p]) = Elems(c.path) /\ Subject(p)' = k
    BY <2>1 DEF Calls, Subject, k
  <2>3. UnpinnedAt(p)'
    BY <1>1, <1>4, <2>1, <2>2 DEF UnpinnedAt, Calls
  <2>4. Referrers(k) \subseteq Elems(c.path)
    BY <1>4, <1>5, <1>9
  <2>5. WorklistAt(p)'
    BY <1>1, <1>2, <1>3, <1>5, <2>1, <2>2, <2>4 DEF WorklistAt, Calls
  <2>. QED BY <2>3, <2>5
<1>10. CASE slot[k] = None /\ Return(p)
  BY <1>1, <1>10, ReturnOrderly DEF Shrunk, k
<1>. QED BY <1>7, <1>8, <1>9, <1>10 DEF Descend, k

LEMMA DeleteOrderly ==
  ASSUME Typed, NEW p \in Proc, UnpinnedAt(p), WorklistAt(p), Delete(p) \/ RemoveOne(p)
  PROVE  UnpinnedAt(p)' /\ WorklistAt(p)'
<1> DEFINE c == proc[p]
           k == Subject(p)
<1>1. /\ c \in Commands /\ c.op \in {"remove", "cascade"} /\ k \in Package
      /\ c.pc \in {"delete", "deleting"} /\ c.pc \in Removing /\ UNCHANGED pins
  BY AtRemoving DEF Delete, RemoveOne, At, Removing, Typed, TypeOK
<1>2. Elems(c.path) \subseteq Package /\ Calls(c) = Elems(c.path)
  BY <1>1, AtRemoving, Pop DEF Calls
<1>3. Shrunk
  BY <1>1 DEF Delete, RemoveOne, Inside, HasToml, Shrunk, Typed, TypeOK, Maybe, Directory
<1>4. CASE Stop(p)
  <2>1. proc'[p] = Idle
    BY <1>4 DEF Stop, Typed, TypeOK
  <2>. QED BY <2>1 DEF Idle, UnpinnedAt, WorklistAt, Removing
<1>5. CASE Goto(p, "deleting") \/ UNCHANGED proc
  <2>1. /\ proc'[p].pc \in {"delete", "deleting"} /\ proc'[p].op = c.op /\ proc'[p].path = c.path
        /\ proc'[p].todo = c.todo /\ proc'[p].seen = c.seen
    BY <1>1, <1>5 DEF Goto, Typed, TypeOK, Commands
  <2>2. Calls(proc'[p]) = Elems(c.path) /\ Subject(p)' = k
    BY <2>1 DEF Calls, Subject
  <2>3. UnpinnedAt(p)'
    BY <1>1, <1>2, <2>1, <2>2 DEF UnpinnedAt, Calls
  <2>4. \A j \in Package : Referrers(j)' \subseteq Referrers(j)
    BY <1>3, ReferrersShrink
  <2>. HIDE DEF k
  <2>5. \A j \in Package : j = k => Referrers(j)' \subseteq Elems(c.path)
    BY <1>1, <2>4 DEF WorklistAt, k
  <2>6. c.op = "cascade" =>
          \A j \in Elems(c.path) : Referrers(j)' \subseteq c.todo[j] \union Elems(c.path)
    BY <1>1, <1>2, <2>4 DEF WorklistAt
  <2>7. \A r \in c.seen : r \in Elems(c.path) \/ slot'[r] = None
    BY <1>1, <1>3 DEF WorklistAt, Shrunk, Commands
  <2>8. c.op = "remove" => Tail(c.path) = <<>>
    BY DEF WorklistAt
  <2>9. Referrers(Subject(p))' \subseteq Elems(c.path)
    BY <1>1, <2>2, <2>5
  <2>10. WorklistAt(p)'
    BY <1>1, <2>1, <2>2, <2>6, <2>7, <2>8, <2>9 DEF WorklistAt
  <2>. QED BY <2>3, <2>10
<1>6. CASE RemoveOne(p) /\ slot' = [slot EXCEPT ![k] = None] /\ Return(p)
  <2>1. slot'[k] = None /\ c.pc = "deleting"
    BY <1>1, <1>6 DEF RemoveOne, At, Typed, TypeOK
  <2>. QED BY <1>1, <1>3, <1>6, <2>1, ReturnOrderly
<1>. QED BY <1>4, <1>5, <1>6 DEF Delete, RemoveOne

\* A step of p concerns the others, which are idle, only through what is pinned
\* and stored.
LEMMA OrderlyStep ==
  ASSUME Orderly, Alone, NEW p \in Proc, Begin(p) \/ Continue(p) \/ Interrupt(p),
         UnpinnedAt(p)' /\ WorklistAt(p)'
  PROVE  Orderly'
<1>1. Tidy'
  BY TidyNext DEF Orderly, Next
<1>2. ASSUME NEW q \in Proc \ {p} PROVE UnpinnedAt(q)' /\ WorklistAt(q)'
  <2>1. Typed /\ Exclusive /\ proc[q].pc = "idle" /\ proc'[q] = proc[q]
    BY OthersIdle DEF Orderly, Tidy
  <2>2. proc'[q].pc = "idle" /\ proc'[q].op = "none"
    BY <2>1 DEF Typed, TypeOK, ShapeOf
  <2>. QED BY <2>2 DEF UnpinnedAt, WorklistAt, Removing
<1>. QED BY <1>1, <1>2 DEF Orderly

LEMMA OrderlyNext == Orderly /\ Alone /\ [Next]_vars => Orderly'
<1>. SUFFICES ASSUME Orderly, Alone, [Next]_vars PROVE Orderly'
  OBVIOUS
<1>1. Tidy /\ Typed /\ \A p \in Proc : UnpinnedAt(p) /\ WorklistAt(p)
  BY DEF Orderly, Tidy
<1>2. Tidy' /\ Typed'
  BY <1>1, TidyNext DEF Tidy
<1>3. ASSUME NEW p \in Proc, proc'[p] = Idle PROVE UnpinnedAt(p)' /\ WorklistAt(p)'
  BY <1>3 DEF Idle, UnpinnedAt, WorklistAt, Removing
<1>4. ASSUME NEW p \in Proc, proc'[p].op \notin {"remove", "cascade"}
      PROVE  UnpinnedAt(p)' /\ WorklistAt(p)'
  <2>1. proc'[p] \in Commands /\ ShapeOf(proc'[p])
    BY <1>2 DEF Typed, TypeOK, ShapeOf
  <2>2. proc'[p].pc \notin Removing
    BY <1>4, <2>1 DEF ShapeOf, Commands, Adding, Removing
  <2>. QED BY <1>4, <2>2 DEF UnpinnedAt, WorklistAt, Removing
<1>5. ASSUME NEW p \in Proc, Begin(p) PROVE UnpinnedAt(p)' /\ WorklistAt(p)'
  <2>1. PICK op, c, path : /\ Start(p, op, c, path)
                           /\ op \in {"remove", "cascade"} => Tail(path) = <<>>
    <3>1. \A k \in Package : Tail(<<k>>) = <<>>
      OBVIOUS
    <3>2. CASE \E k \in Package, force \in BOOLEAN : Remove(p, k, force)
      BY <3>1, <3>2 DEF Remove
    <3>3. CASE List(p)
      BY <3>3 DEF List
    <3>4. CASE \E k \in Package, c \in Content : Add(p, k, c)
      BY <3>4 DEF Add
    <3>. QED BY <1>5, <3>2, <3>3, <3>4 DEF Begin
  <2>2. /\ proc'[p].pc = "clean" /\ proc'[p].op = op /\ proc'[p].path = path
        /\ proc'[p].seen = {}
    BY <1>1, <2>1 DEF Start, Idle, Typed, TypeOK
  <2>. QED BY <2>1, <2>2 DEF UnpinnedAt, WorklistAt, Removing
<1>6. ASSUME NEW p \in Proc, Cleaned(p) PROVE UnpinnedAt(p)' /\ WorklistAt(p)'
  <2>1. CASE Stop(p)
    BY <1>1, <1>3, <2>1 DEF Stop, Typed, TypeOK
  <2>2. CASE proc[p].op = "add" /\ Goto(p, "extract")
    <3>1. proc'[p].op = "add"
      BY <1>1, <2>2 DEF Goto, Typed, TypeOK, Commands
    <3>. QED BY <1>4, <3>1
  <2>3. CASE proc[p].op \in {"remove", "cascade"} /\ Goto(p, "visit")
    <3>1. /\ proc'[p].pc = "visit" /\ proc'[p].op = proc[p].op
          /\ proc'[p].path = proc[p].path /\ proc'[p].seen = proc[p].seen
      BY <1>1, <2>3 DEF Goto, Typed, TypeOK, Commands
    <3>2. Tail(proc[p].path) = <<>> /\ proc[p].seen = {}
      BY <1>1, <1>6, <2>3 DEF Cleaned, At, WorklistAt
    <3>3. Calls(proc'[p]) = {}
      BY <3>1, <3>2, NoElems DEF Calls
    <3>. QED BY <3>1, <3>2, <3>3 DEF UnpinnedAt, WorklistAt, Calls
  <2>4. proc[p].op \in {"add", "list", "remove", "cascade"}
    BY <1>1, <1>6 DEF Cleaned, At, Typed, TypeOK, ShapeOf, Commands
  <2>. QED BY <1>6, <2>1, <2>2, <2>3, <2>4 DEF Cleaned
<1>7. ASSUME NEW p \in Proc,
             Extract(p) \/ WritePayload(p) \/ Verify(p) \/ Check(p) \/ Commit(p)
      PROVE  UnpinnedAt(p)' /\ WorklistAt(p)'
  <2>1. proc[p].op = "add"
    BY <1>1, <1>7, AtAdding DEF Extract, WritePayload, Verify, Check, Commit, At, Adding
  <2>2. CASE Stop(p)
    BY <1>1, <1>3, <2>2 DEF Stop, Typed, TypeOK
  <2>3. ASSUME NEW point, Goto(p, point) PROVE proc'[p].op = "add"
    BY <1>1, <2>1, <2>3 DEF Goto, Typed, TypeOK, Commands
  <2>. QED BY <1>4, <1>7, <2>2, <2>3
           DEF Extract, WritePayload, Verify, Check, Commit, GiveUp
<1>8. ASSUME NEW p \in Proc, Begin(p) \/ Continue(p) \/ Interrupt(p)
      PROVE  UnpinnedAt(p)' /\ WorklistAt(p)'
  <2>1. CASE Interrupt(p)
    BY <1>1, <1>3, <2>1 DEF Interrupt, Stop, Typed, TypeOK
  <2>2. ~CleanupTmpAdds(p)
    BY <1>1, NothingToClean
  <2>. QED BY <1>1, <1>5, <1>6, <1>7, <1>8, <2>1, <2>2, VisitOrderly, ReferOrderly,
              DescendOrderly, DeleteOrderly DEF Continue
<1>9. CASE \E S \in PinSets : Pin(S)
  <2>1. \A p \in Proc : proc'[p].pc = "idle" /\ proc'[p].op = "none"
    BY <1>1, <1>9 DEF Pin, At, Typed, ShapeOf
  <2>. QED BY <1>2, <1>4, <2>1 DEF Orderly
<1>10. CASE UNCHANGED vars
  <2>1. ASSUME NEW p \in Proc PROVE UnpinnedAt(p)' /\ WorklistAt(p)'
    <3>1. \A j : Referrers(j)' = Referrers(j)
      BY <1>10 DEF vars, Referrers
    <3>. QED BY <1>1, <1>10, <3>1 DEF vars, UnpinnedAt, WorklistAt, Calls, Subject
  <2>. QED BY <1>2, <2>1 DEF Orderly
<1>. QED BY <1>8, <1>9, <1>10, OrderlyStep DEF Next

LEMMA AlwaysOrderly ==
  ASSUME Alone
  PROVE  Spec => []Orderly
<1>1. Init => Orderly
  <2>1. ASSUME Init, NEW p \in Proc PROVE UnpinnedAt(p) /\ WorklistAt(p)
    BY <2>1 DEF Init, Idle, UnpinnedAt, WorklistAt, Removing
  <2>. QED BY <2>1, InitTidy DEF Orderly
<1>2. Orderly /\ [Next]_vars => Orderly'
  BY OrderlyNext
<1>. QED BY <1>1, <1>2, PTL DEF Spec

\* Commands run one at a time, killed anywhere: `remove --force` deletes a
\* package only after the packages that pin it (cascade_remove), those excepted
\* whose own removal it is part of.
THEOREM RemovalsAreOrdered ==
  ASSUME Alone
  PROVE  Spec => []DependentsFirst
<1>1. Orderly => DependentsFirst
  BY DEF Orderly, WorklistAt, DependentsFirst, At
<1>. QED BY <1>1, AlwaysOrderly, PTL

\* Commands run one at a time, killed anywhere: no removal deletes a file of a
\* package that an install pins, however deep the cascade that reaches it
\* (refuse_if_install_pinned is called for each).
THEOREM PinnedStays ==
  ASSUME Alone
  PROVE  Spec => PinnedKept
<1> DEFINE Kept(k) == k \in pins /\ Whole(slot[k]) => slot'[k] # None /\ slot'[k].parts = Parts
<1>1. ASSUME Orderly, [Next]_vars, NEW k \in Package PROVE Kept(k)
  <2>1. Typed /\ Tidy /\ \A p \in Proc : UnpinnedAt(p)
    BY <1>1 DEF Orderly, Tidy
  <2>2. slot[k] \in Maybe(Directory)
    BY <2>1 DEF Typed, TypeOK
  <2>3. CASE UNCHANGED slot
    BY <2>3 DEF Whole
  <2>4. ASSUME NEW p \in Proc, Commit(p) PROVE Kept(k)
    BY <2>1, <2>4 DEF Commit, GiveUp, Free, Whole, Parts, Typed, TypeOK
  <2>5. ASSUME NEW p \in Proc, Delete(p) PROVE Kept(k)
    <3>1. slot[k] # None => [slot[k] EXCEPT !.open = @ \union {p}] \in Directory
      BY <2>2 DEF Maybe, Directory
    <3>2. CASE slot'[k] = slot[k]
      BY <3>2 DEF Whole
    <3>3. CASE slot'[k] = [slot[k] EXCEPT !.open = @ \union {p}]
      BY <2>2, <3>1, <3>3, ConstantsAssumption DEF Whole, Maybe, Directory
    <3>. QED BY <2>1, <2>5, <3>2, <3>3 DEF Delete, Typed, TypeOK
  <2>6. ASSUME NEW p \in Proc, RemoveOne(p) PROVE Kept(k)
    <3>1. Subject(p) \in Elems(proc[p].path) /\ proc[p].pc = "deleting"
      BY <2>1, <2>6, AtRemoving, Pop, SMTT(30) DEF RemoveOne, At, Removing, Subject
    <3>2. Subject(p) \notin pins
      BY <2>1, <3>1 DEF UnpinnedAt, Calls, Removing
    <3>. QED BY <2>1, <2>6, <3>2 DEF RemoveOne, Whole, Typed, TypeOK
  <2>7. ASSUME NEW p \in Proc, Interrupt(p) PROVE Kept(k)
    <3>1. slot[k] # None => [slot[k] EXCEPT !.open = @ \ {p}] \in Directory
      BY <2>2 DEF Maybe, Directory
    <3>2. slot[k] # None => slot'[k] = [slot[k] EXCEPT !.open = @ \ {p}]
      BY <2>7 DEF Interrupt, Leave
    <3>. QED BY <2>2, <3>1, <3>2, ConstantsAssumption DEF Whole, Maybe, Directory
  <2>8. ASSUME NEW p \in Proc, Begin(p) \/ Continue(p) PROVE Kept(k)
    <3>1. ~CleanupTmpAdds(p)
      BY <2>1, NothingToClean
    <3>2. CASE \/ Begin(p) \/ Cleaned(p) \/ Extract(p) \/ WritePayload(p) \/ Verify(p)
               \/ Check(p) \/ Visit(p) \/ Refer(p) \/ Descend(p)
      BY <2>3, <3>2 DEF Begin, Add, Remove, List, Start, Cleaned, Extract, WritePayload,
                        Verify, Check, GiveUp, Visit, Refer, Descend
    <3>. QED BY <2>4, <2>5, <2>6, <2>8, <3>1, <3>2 DEF Continue
  <2>. QED BY <1>1, <2>3, <2>7, <2>8 DEF Next, Pin, vars
<1>2. Orderly => pins \subseteq Package
  BY DEF Orderly, Tidy, Typed, TypeOK
<1>3. Orderly /\ [Next]_vars =>
        [\A k \in pins : Whole(slot[k]) => slot'[k] # None /\ slot'[k].parts = Parts]_vars
  BY <1>1, <1>2
<1>. QED BY <1>3, AlwaysOrderly, PTL DEF Spec, PinnedKept

=============================================================================
