---------------------------- MODULE SourcesProofs ----------------------------
(***************************************************************************)
(* The configuration files of lar-repo under users who run one command at  *)
(* a time, killed anywhere: for any names, keys and lengths of the list.   *)
(*                                                                         *)
(* With one command at a time the list that a command has read is still    *)
(* the file's when it renames its own over it (Edits), and the temporary   *)
(* file holds only what it has written itself (Files).  Both fail as soon  *)
(* as two commands run at once.                                            *)
(***************************************************************************)
EXTENDS Sources, SequenceTheorems, WellFoundedInduction, TLAPS

Saving == {"open", "write", "rename"}
OnTrust == {"add", "trust", "distrust"}
OnSources == {"add", "remove", "move", "bottom", "before", "after"}

Solo == \A p, q \in Proc : p # q => At(p, "idle") \/ At(q, "idle")

\* What a command is for at each point.
Purpose(c) ==
  /\ c.pc = "check" => c.op = "add" /\ c.key \in Key
  /\ c.pc = "trust" => c.op \in OnTrust /\ c.key \in Key
  /\ c.pc = "locate" => c.op \in {"bottom", "before", "after"}
  /\ c.pc = "load" => c.op \in OnSources
  /\ c.pc \in Saving /\ c.on = "trust" => c.op \in OnTrust /\ c.key \in Key
  /\ c.pc \in Saving /\ c.on = "sources" => c.op \in OnSources
  /\ c.op = "add" => c.entry \in Entry

\* The temporary file is the command's own.
Files(p) ==
  /\ fd[p] = IF At(p, "write") THEN "tmp" ELSE "none"
  /\ At(p, "write") => tmp[proc[p].on] = Blank(proc[p].on)
  /\ At(p, "rename") => tmp[proc[p].on] = Text(p)

Aimed == {"bottom", "before", "after"}

\* The position that was worked out is the one in the list as it is.
Aims(c, s) ==
  /\ c.pos = Target(c, s)
  /\ c.op # "bottom" => /\ Find(s, c.label) # 0 /\ Find(s, c.other) # 0
                        /\ Find(s, c.label) # Find(s, c.other)

\* What is about to be saved is an edit of what is there.
Edits(c) ==
  /\ c.op \in Aimed /\ (c.pc = "load" \/ (c.pc \in Saving /\ c.on = "sources"))
       => Aims(c, file["sources"])
  /\ c.pc \in Saving /\ c.on = "sources" =>
       Accepted(c, file["sources"]) /\ c.list = Edited(c, file["sources"])
  /\ c.pc \in Saving /\ c.on = "trust" =>
       IF c.op = "distrust"
       THEN c.key \in file["trust"] /\ c.keys = file["trust"] \ {c.key}
       ELSE c.key \notin file["trust"] /\ c.keys = file["trust"] \union {c.key}
  /\ c.op = "add" /\ c.key # None /\ (c.pc = "load" \/ (c.pc \in Saving /\ c.on = "sources"))
       => c.key \in file["trust"]

Inv ==
  /\ TypeOK /\ SavedWhole /\ Solo
  /\ \A p \in Proc : Purpose(proc[p]) /\ Files(p) /\ Edits(proc[p])

-----------------------------------------------------------------------------
(* Lists.                                                                  *)

LEMMA Removing ==
  ASSUME NEW S, NEW s \in Seq(S), NEW i \in DOMAIN s
  PROVE  /\ RemoveAt(s, i) \in Seq(S)
         /\ Len(RemoveAt(s, i)) = Len(s) - 1
         /\ \A j \in 1 .. (Len(s) - 1) : RemoveAt(s, i)[j] = IF j < i THEN s[j] ELSE s[j + 1]
<1> DEFINE front == SubSeq(s, 1, i - 1)
           back == SubSeq(s, i + 1, Len(s))
<1>0. Len(s) \in Nat /\ i \in 1 .. Len(s)
  OBVIOUS
<1>1. /\ front \in Seq(S) /\ Len(front) = i - 1
      /\ \A j \in 1 .. (i - 1) : front[j] = s[j]
  BY SubSeqProperties
<1>2. /\ back \in Seq(S) /\ Len(back) = Len(s) - i
      /\ \A j \in 1 .. (Len(s) - i) : back[j] = s[i + j]
  BY SubSeqProperties
<1> HIDE DEF front, back
<1>3. /\ front \o back \in Seq(S) /\ Len(front \o back) = Len(s) - 1
      /\ \A j \in 1 .. (Len(s) - 1) :
           (front \o back)[j] = IF j <= i - 1 THEN front[j] ELSE back[j - (i - 1)]
  BY <1>1, <1>2, ConcatProperties, SMTT(20)
<1>4. \A j \in 1 .. (Len(s) - 1) : (front \o back)[j] = IF j < i THEN s[j] ELSE s[j + 1]
  <2> TAKE j \in 1 .. (Len(s) - 1)
  <2> j \in Nat /\ j < Len(s) /\ j > 0
    BY <1>0
  <2>1. CASE j < i
    BY <1>1, <1>3, <2>1
  <2>2. CASE j >= i
    <3>1. PICK k \in 1 .. (Len(s) - i) : k = j - (i - 1) /\ i + k = j + 1
      BY <1>0, <2>2
    <3>2. (front \o back)[j] = back[k]
      BY <1>0, <1>3, <2>2, <3>1, SMTT(20)
    <3>3. QED
      BY <1>0, <1>2, <2>2, <3>1, <3>2, SMTT(20)
  <2>3. j < i \/ j >= i
    BY <1>0
  <2>4. QED
    BY <2>1, <2>2, <2>3
<1>5. QED
  BY <1>3, <1>4 DEF RemoveAt, front, back

LEMMA Inserting ==
  ASSUME NEW S, NEW s \in Seq(S), NEW i \in 1 .. (Len(s) + 1), NEW e \in S
  PROVE  /\ InsertAt(s, i, e) \in Seq(S)
         /\ Len(InsertAt(s, i, e)) = Len(s) + 1
         /\ InsertAt(s, i, e)[i] = e
         /\ \A j \in 1 .. (i - 1) : InsertAt(s, i, e)[j] = s[j]
         /\ \A j \in i .. Len(s) : InsertAt(s, i, e)[j + 1] = s[j]
<1> DEFINE front == SubSeq(s, 1, i - 1)
           more == front \o <<e>>
           back == SubSeq(s, i, Len(s))
<1>0. Len(s) \in Nat
  OBVIOUS
<1>1. /\ front \in Seq(S) /\ Len(front) = i - 1
      /\ \A j \in 1 .. (i - 1) : front[j] = s[j]
  BY SubSeqProperties
<1>2. /\ back \in Seq(S) /\ Len(back) = Len(s) - i + 1
      /\ \A j \in 1 .. (Len(s) - i + 1) : back[j] = s[i + j - 1]
  BY SubSeqProperties
<1> HIDE DEF front, back
<1>3. /\ more \in Seq(S) /\ Len(more) = i /\ more[i] = e
      /\ \A j \in 1 .. (i - 1) : more[j] = s[j]
  BY <1>1
<1> HIDE DEF more
<1>4. /\ more \o back \in Seq(S) /\ Len(more \o back) = Len(s) + 1
      /\ \A j \in 1 .. (Len(s) + 1) :
           (more \o back)[j] = IF j <= i THEN more[j] ELSE back[j - i]
  BY <1>2, <1>3, ConcatProperties
<1>5. \A j \in i .. Len(s) : (more \o back)[j + 1] = s[j]
  <2> TAKE j \in i .. Len(s)
  <2>1. PICK k \in 1 .. (Len(s) - i + 1) : k = j + 1 - i /\ i + k - 1 = j
    BY <1>0
  <2>2. QED
    BY <1>0, <1>2, <1>4, <2>1
<1>6. (more \o back)[i] = e /\ \A j \in 1 .. (i - 1) : (more \o back)[j] = s[j]
  BY <1>0, <1>3, <1>4
<1>7. QED
  BY <1>4, <1>5, <1>6 DEF InsertAt, front, back, more

\* A source goes to the place it is sent to, the others keep their order.
LEMMA Placing ==
  ASSUME NEW S, NEW s \in Seq(S), NEW from \in DOMAIN s, NEW to \in DOMAIN s
  PROVE  /\ Place(s, from, to) \in Seq(S)
         /\ Len(Place(s, from, to)) = Len(s)
         /\ Place(s, from, to)[to] = s[from]
         /\ Order!Without(Place(s, from, to), to) = Order!Without(s, from)
         /\ RemoveAt(s, from) = Order!Without(s, from)
         /\ \A j \in 1 .. (to - 1) :
              Place(s, from, to)[j] = IF j < from THEN s[j] ELSE s[j + 1]
         /\ \A j \in to .. (Len(s) - 1) :
              Place(s, from, to)[j + 1] = IF j < from THEN s[j] ELSE s[j + 1]
<1> DEFINE rest == RemoveAt(s, from)
           placed == InsertAt(rest, to, s[from])
<1>1. /\ rest \in Seq(S) /\ Len(rest) = Len(s) - 1
      /\ \A j \in 1 .. (Len(s) - 1) : rest[j] = IF j < from THEN s[j] ELSE s[j + 1]
  BY Removing
<1> HIDE DEF rest
<1>0. Len(s) \in Nat /\ to \in 1 .. (Len(rest) + 1) /\ s[from] \in S
      /\ Len(rest) + 1 = Len(s)
  BY <1>1
<1>2. /\ placed \in Seq(S) /\ Len(placed) = Len(rest) + 1
      /\ placed[to] = s[from]
      /\ \A j \in 1 .. (to - 1) : placed[j] = rest[j]
      /\ \A j \in to .. Len(rest) : placed[j + 1] = rest[j]
  <2>1. rest \in Seq(S) /\ to \in 1 .. (Len(rest) + 1) /\ s[from] \in S
    BY <1>0, <1>1
  <2>2. placed \in Seq(S) /\ Len(placed) = Len(rest) + 1 /\ placed[to] = s[from]
    BY ONLY <2>1, Inserting
  <2>3. \A j \in 1 .. (to - 1) : placed[j] = rest[j]
    BY ONLY <2>1, Inserting, SMTT(20)
  <2>4. \A j \in to .. Len(rest) : placed[j + 1] = rest[j]
    BY ONLY <2>1, Inserting
  <2>5. QED
    BY <2>2, <2>3, <2>4
<1> HIDE DEF placed
<1>3. rest = Order!Without(s, from)
  BY <1>1 DEF Order!Without
<1>4. rest = Order!Without(placed, to)
  <2>1. Len(rest) \in Nat /\ to \in Nat
    BY <1>0, <1>1
  <2>2. ASSUME NEW j \in 1 .. Len(rest)
        PROVE  rest[j] = IF j < to THEN placed[j] ELSE placed[j + 1]
    BY <1>2, <2>1
  <2>3. rest = [j \in 1 .. Len(rest) |-> rest[j]]
    BY <1>1
  <2>4. rest = [j \in 1 .. Len(rest) |-> IF j < to THEN placed[j] ELSE placed[j + 1]]
    BY <2>2, <2>3
  <2>5. Len(placed) - 1 = Len(rest)
    BY <1>2, <2>1
  <2>6. QED
    BY <2>4, <2>5 DEF Order!Without
<1>5. /\ \A j \in 1 .. (to - 1) : placed[j] = IF j < from THEN s[j] ELSE s[j + 1]
      /\ \A j \in to .. (Len(s) - 1) : placed[j + 1] = IF j < from THEN s[j] ELSE s[j + 1]
  <2>1. \A j \in 1 .. (to - 1) : j \in 1 .. (Len(s) - 1)
    BY <1>0
  <2>2. \A j \in to .. (Len(s) - 1) : j \in 1 .. (Len(s) - 1) /\ j \in to .. Len(rest)
    BY <1>0, <1>1
  <2>3. QED
    BY <1>1, <1>2, <2>1, <2>2
<1>6. QED
  BY <1>0, <1>2, <1>3, <1>4, <1>5 DEF Place, rest, placed

LEMMA Finding ==
  ASSUME NEW s \in Lists, NEW label, Find(s, label) # 0
  PROVE  Find(s, label) \in DOMAIN s /\ Called(s[Find(s, label)], label)
<1> DEFINE T == {i \in DOMAIN s : Called(s[i], label)}
           Less == OpToRel(<, Nat)
<1>1. T # {} /\ T \subseteq Nat
  BY DEF Find, Lists
<1>2. \E x \in T : \A y \in T : ~ (<<y, x>> \in Less)
  BY <1>1, WFMin, NatLessThanWellFounded
<1>3. PICK i \in T : \A j \in T : <<j, i>> \notin Less
  BY <1>2
<1>4. \A j \in T : ~(j < i)
  BY <1>1, <1>3 DEF OpToRel
<1>5. \A j \in 1 .. (i - 1) : ~Called(s[j], label)
  <2>1. Len(s) \in Nat /\ i \in 1 .. Len(s)
    BY DEF Lists
  <2>2. QED
    BY <1>4, <2>1 DEF Lists
<1>6. QED
  BY <1>3, <1>5 DEF Find

LEMMA Editing ==
  ASSUME NEW c \in Commands, NEW s \in Lists, c.op \in OnSources,
         c.op = "add" => c.entry \in Entry, Accepted(c, s)
  PROVE  Edited(c, s) \in Lists
<1> USE DEF Lists
<1>1. CASE c.op = "add"
  BY <1>1 DEF Edited
<1>2. CASE c.op = "remove"
  <2>1. Find(s, c.label) \in DOMAIN s
    BY <1>2, Finding DEF Accepted
  <2>2. RemoveAt(s, Find(s, c.label)) \in Seq(Entry)
    BY <2>1, Removing
  <2>3. QED
    BY <1>2, <2>2 DEF Edited
<1>3. CASE c.op \notin {"add", "remove"}
  <2>1. Find(s, c.label) \in DOMAIN s /\ c.pos \in DOMAIN s
    BY <1>3, Finding DEF Accepted
  <2>2. Place(s, Find(s, c.label), c.pos) \in Seq(Entry)
    BY <2>1, Placing
  <2>3. QED
    BY <1>3, <2>2 DEF Edited
<1>4. QED
  BY <1>1, <1>2, <1>3

\* What a command does to the list depends on these of its variables only.
LEMMA SameEdit ==
  ASSUME NEW c, NEW d, NEW s,
         c.op = d.op, c.entry = d.entry, c.label = d.label, c.pos = d.pos,
         c.other = d.other
  PROVE  /\ (Accepted(c, s) <=> Accepted(d, s)) /\ Edited(c, s) = Edited(d, s)
         /\ (Aims(c, s) <=> Aims(d, s))
BY DEF Accepted, Edited, Aims, Target

-----------------------------------------------------------------------------
(* The invariant.                                                          *)

\* Everything of TypeOK but the commands themselves.
TextsOK ==
  /\ file["sources"] \in {Torn} \union Lists
  /\ file["trust"] \in {Torn} \union KeySets
  /\ tmp["sources"] \in {Torn, None} \union Lists
  /\ tmp["trust"] \in {Torn, None} \union KeySets
  /\ DOMAIN file = File /\ DOMAIN tmp = File
  /\ fd \in [Proc -> {"none", "tmp", "live", "gone"}]

LEMMA InitInv == Init => Inv
<1> SUFFICES ASSUME Init PROVE Inv
  OBVIOUS
<1>1. Idle \in Commands /\ Idle.pc = "idle" /\ Idle.op = "none"
  BY DEF Idle, Commands, File, Lists, KeySets
<1>2. TypeOK
  BY <1>1 DEF Init, TypeOK, File, Blank, Lists, KeySets
<1>3. SavedWhole
  <2>1. <<>> \in Seq(Entry) /\ {} \in SUBSET Key
    OBVIOUS
  <2>2. Torn # <<>> /\ Torn # {}
    BY <2>1, ConstantsAssumption
  <2>3. QED
    BY <2>2 DEF Init, SavedWhole, File, Blank
<1>4. Solo
  BY <1>1 DEF Init, Solo, At
<1>5. \A p \in Proc : Purpose(proc[p]) /\ Files(p) /\ Edits(proc[p])
  BY <1>1 DEF Init, Purpose, Files, Edits, At, Saving
<1>6. QED
  BY <1>2, <1>3, <1>4, <1>5 DEF Inv

\* A step of a command that runs alone: what is to be shown is about it only.
LEMMA OwnStep ==
  ASSUME Inv, NEW p \in Proc, NEW c \in Commands,
         \A q \in Proc \ {p} : At(q, "idle"),
         proc' = [proc EXCEPT ![p] = c],
         \A q \in Proc \ {p} : fd'[q] = fd[q],
         TextsOK', SavedWhole', Purpose(c), Files(p)', Edits(c)'
  PROVE  Inv'
<1>1. proc' \in [Proc -> Commands] /\ proc'[p] = c /\ \A q \in Proc \ {p} : proc'[q] = proc[q]
  BY DEF Inv, TypeOK
<1>2. TypeOK'
  BY <1>1 DEF TypeOK, TextsOK
<1>3. Solo'
  BY <1>1 DEF Solo, At
<1>4. ASSUME NEW q \in Proc PROVE Purpose(proc[q])' /\ Files(q)' /\ Edits(proc[q])'
  <2>1. CASE q = p
    BY <1>1, <2>1 DEF Purpose, Edits
  <2>2. CASE q # p
    <3>1. proc'[q] = proc[q] /\ proc[q].pc = "idle" /\ fd'[q] = "none" /\ Purpose(proc[q])
      BY <1>1, <2>2 DEF Inv, Files, At
    <3>2. QED
      BY <3>1 DEF Purpose, Files, Edits, At, Saving
  <2>3. QED
    BY <2>1, <2>2
<1>5. QED
  BY <1>2, <1>3, <1>4 DEF Inv

LEMMA Others ==
  ASSUME Inv, NEW p \in Proc, ~At(p, "idle")
  PROVE  \A q \in Proc \ {p} : At(q, "idle")
BY DEF Inv, Solo

\* A command starts.
LEMMA BeginInv ==
  ASSUME Inv, Alone, NEW p \in Proc, NEW c \in Commands, Begin(p, c), Purpose(c),
         c.pc \in {"check", "trust", "locate", "load"},
         c.pc = "load" => c.op \notin Aimed /\ (c.op = "add" => c.key = None)
  PROVE  Inv'
<1>1. /\ \A q \in Proc : At(q, "idle")
      /\ proc' = [proc EXCEPT ![p] = c] /\ UNCHANGED <<file, tmp, fd>>
  BY DEF Begin, MayRun
<1>2. TextsOK' /\ SavedWhole'
  BY <1>1 DEF Inv, TypeOK, TextsOK, SavedWhole
<1>3. proc'[p] = c /\ fd'[p] = "none"
  BY <1>1 DEF Inv, TypeOK, Files, At
<1>4. Files(p)' /\ Edits(c)'
  BY <1>3 DEF Files, Edits, At, Saving
<1>5. QED
  BY <1>1, <1>2, <1>4, OwnStep

\* A command ends or is killed.
LEMMA StopInv ==
  ASSUME Inv, NEW p \in Proc, ~At(p, "idle"), Stop(p),
         \A q \in Proc \ {p} : fd'[q] = fd[q], fd'[p] = "none",
         TextsOK', SavedWhole'
  PROVE  Inv'
<1>1. Idle \in Commands /\ Idle.pc = "idle" /\ Idle.op = "none"
  BY DEF Idle, Commands, File, Lists, KeySets
<1>2. proc' = [proc EXCEPT ![p] = Idle] /\ proc'[p] = Idle
  BY DEF Stop, Inv, TypeOK
<1>3. Purpose(Idle) /\ Files(p)' /\ Edits(Idle)'
  BY <1>1, <1>2 DEF Purpose, Files, Edits, At, Saving
<1>4. QED
  BY <1>1, <1>2, <1>3, Others, OwnStep

\* A step within memory.
LEMMA MemoryStep ==
  ASSUME Inv, NEW p \in Proc, ~At(p, "idle"), ~At(p, "write"), NEW c \in Commands,
         proc' = [proc EXCEPT ![p] = c], UNCHANGED <<file, tmp, fd>>,
         Purpose(c), Edits(c), c.pc \notin {"write", "rename"}
  PROVE  Inv'
<1>1. proc'[p] = c /\ fd'[p] = "none"
  BY DEF Inv, TypeOK, Files
<1>2. TextsOK' /\ SavedWhole'
  BY DEF Inv, TypeOK, TextsOK, SavedWhole
<1>3. Files(p)' /\ Edits(c)'
  BY <1>1 DEF Files, Edits, At
<1>4. QED
  BY <1>2, <1>3, Others, OwnStep

\* From one step of saving to the next.
LEMMA SavingStep ==
  ASSUME Inv, NEW p \in Proc, proc[p].pc \in Saving, NEW point \in Saving,
         NEW c, c = [proc[p] EXCEPT !.pc = point]
  PROVE  /\ c \in Commands /\ Purpose(c) /\ Edits(c)
         /\ c.pc = point /\ c.on = proc[p].on /\ c.list = proc[p].list /\ c.keys = proc[p].keys
<1>1. /\ c \in Commands
      /\ c.pc = point /\ c.on = proc[p].on /\ c.list = proc[p].list /\ c.keys = proc[p].keys
      /\ c.op = proc[p].op /\ c.entry = proc[p].entry /\ c.label = proc[p].label
      /\ c.pos = proc[p].pos /\ c.key = proc[p].key /\ c.other = proc[p].other
  BY DEF Inv, TypeOK, Commands, Saving
<1>2. Purpose(proc[p]) /\ Edits(proc[p])
  BY DEF Inv
<1>3. Purpose(c)
  BY <1>1, <1>2 DEF Purpose, Saving
<1>4. Edits(c)
  <2>1. /\ Accepted(c, file["sources"]) <=> Accepted(proc[p], file["sources"])
        /\ Edited(c, file["sources"]) = Edited(proc[p], file["sources"])
        /\ Aims(c, file["sources"]) <=> Aims(proc[p], file["sources"])
    BY <1>1, SameEdit, ZenonT(30)
  <2>2. QED
    BY <1>1, <1>2, <2>1 DEF Edits, Saving
<1>5. QED
  BY <1>1, <1>3, <1>4

\* What is saved is a text of its file's kind.
LEMMA TextOK ==
  ASSUME Inv, NEW p \in Proc
  PROVE  /\ proc[p].on \in File
         /\ proc[p].on = "sources" => Text(p) \in Lists
         /\ proc[p].on = "trust" => Text(p) \in KeySets
         /\ Text(p) # Torn /\ Text(p) # None
<1>1. proc[p] \in Commands
  BY DEF Inv, TypeOK
<1>2. proc[p].on \in File /\ proc[p].list \in Lists /\ proc[p].keys \in KeySets
  BY <1>1 DEF Commands
<1>3. \A list \in Lists : list # Torn /\ list # None
  BY ConstantsAssumption DEF Lists
<1>4. \A keys \in KeySets : keys # Torn /\ keys # None
  BY ConstantsAssumption DEF KeySets
<1>5. QED
  BY <1>2, <1>3, <1>4 DEF Text, File

LEMMA CheckInv ==
  ASSUME Inv, NEW p \in Proc, Check(p)
  PROVE  Inv'
<1>1. /\ At(p, "check") /\ ~At(p, "idle") /\ UNCHANGED <<file, tmp, fd>>
      /\ proc[p].op = "add" /\ proc[p].key \in Key
  BY DEF Check, At, Inv, Purpose
<1>2. CASE Stop(p)
  <2>1. TextsOK' /\ SavedWhole' /\ fd'[p] = "none"
    BY <1>1 DEF Inv, TypeOK, TextsOK, SavedWhole, Files, At
  <2>2. QED
    BY <1>1, <1>2, <2>1, StopInv
<1>3. ASSUME NEW point \in {"load", "trust"}, proc' = [proc EXCEPT ![p].pc = point],
             point = "load" => proc[p].key \in file["trust"]
      PROVE  Inv'
  <2> DEFINE c == [proc[p] EXCEPT !.pc = point]
  <2>1. c \in Commands /\ c.pc = point /\ proc' = [proc EXCEPT ![p] = c]
          /\ c.op = "add" /\ c.key = proc[p].key /\ c.entry = proc[p].entry
    BY <1>1, <1>3 DEF Inv, TypeOK, Commands
  <2>2. proc[p].entry \in Entry
    BY <1>1 DEF Inv, Purpose
  <2> HIDE DEF c
  <2>3. Purpose(c) /\ Edits(c) /\ c.pc \notin {"write", "rename"}
    BY <1>1, <1>3, <2>1, <2>2 DEF Purpose, Edits, Saving, OnTrust, OnSources, Aimed
  <2>4. QED
    BY <1>1, <2>1, <2>3, MemoryStep DEF At
<1>4. QED
  BY <1>2, <1>3 DEF Check

LEMMA EditTrustInv ==
  ASSUME Inv, NEW p \in Proc, EditTrust(p)
  PROVE  Inv'
<1>1. /\ At(p, "trust") /\ ~At(p, "idle") /\ UNCHANGED <<file, tmp, fd>>
      /\ proc[p].op \in OnTrust /\ proc[p].key \in Key
      /\ proc[p].op = "add" => proc[p].entry \in Entry
  BY DEF EditTrust, At, Inv, Purpose
<1>2. CASE Stop(p)
  <2>1. TextsOK' /\ SavedWhole' /\ fd'[p] = "none"
    BY <1>1 DEF Inv, TypeOK, TextsOK, SavedWhole, Files, At
  <2>2. QED
    BY <1>1, <1>2, <2>1, StopInv
<1>3. ASSUME NEW keys, SaveTrust(p, keys), file["trust"] \in KeySets,
             IF proc[p].op = "distrust"
             THEN proc[p].key \in file["trust"] /\ keys = file["trust"] \ {proc[p].key}
             ELSE proc[p].key \notin file["trust"] /\ keys = file["trust"] \union {proc[p].key}
      PROVE  Inv'
  <2> DEFINE c == [proc[p] EXCEPT !.pc = "open", !.on = "trust", !.keys = keys]
  <2>1. keys \in KeySets
    BY <1>1, <1>3 DEF KeySets
  <2>2. /\ c \in Commands /\ proc' = [proc EXCEPT ![p] = c]
        /\ c.pc = "open" /\ c.on = "trust" /\ c.keys = keys
        /\ c.op = proc[p].op /\ c.key = proc[p].key /\ c.entry = proc[p].entry
    <3>1. proc[p] \in Commands /\ proc \in [Proc -> Commands]
      BY DEF Inv, TypeOK
    <3>2. proc' = [proc EXCEPT ![p] = c]
      BY <1>3, <3>1 DEF SaveTrust
    <3>3. QED
      BY <2>1, <3>1, <3>2 DEF Commands, File
  <2> HIDE DEF c
  <2>3. Purpose(c) /\ Edits(c)
    BY <1>1, <1>3, <2>2 DEF Purpose, Edits, Saving, OnTrust
  <2>4. QED
    BY <1>1, <2>2, <2>3, MemoryStep DEF At
<1>4. QED
  <2>1. Loaded("trust") => file["trust"] \in KeySets
    BY DEF Inv, TypeOK, Loaded
  <2>2. QED
    BY <1>2, <1>3, <2>1 DEF EditTrust

LEMMA LocateInv ==
  ASSUME Inv, NEW p \in Proc, Locate(p)
  PROVE  Inv'
<1> DEFINE s == file["sources"]
           from == Find(s, proc[p].label)
           other == Find(s, proc[p].other)
<1>1. /\ At(p, "locate") /\ ~At(p, "idle") /\ UNCHANGED <<file, tmp, fd>>
      /\ proc[p].op \in {"bottom", "before", "after"}
  BY DEF Locate, At, Inv, Purpose
<1>2. CASE Stop(p)
  <2>1. TextsOK' /\ SavedWhole' /\ fd'[p] = "none"
    BY <1>1 DEF Inv, TypeOK, TextsOK, SavedWhole, Files, At
  <2>2. QED
    BY <1>1, <1>2, <2>1, StopInv
<1>3. CASE /\ s \in Lists
           /\ proc[p].op # "bottom" => from # 0 /\ other # 0 /\ from # other
           /\ proc' = [proc EXCEPT ![p].pc = "load", ![p].pos = Target(proc[p], s)]
  <2> DEFINE n == Target(proc[p], s)
             c == [proc[p] EXCEPT !.pc = "load", !.pos = n]
  <2>1. n \in Nat
    <3>1. CASE proc[p].op = "bottom"
      BY <1>3, <3>1 DEF Target, Lists
    <3>2. CASE proc[p].op \in {"before", "after"}
      <4>1. from \in 1 .. Len(s) /\ other \in 1 .. Len(s) /\ Len(s) \in Nat /\ from # other
        BY <1>3, <3>2, Finding DEF Lists
      <4>2. Before(s, from, other) \in Nat /\ After(s, from, other) \in Nat
        BY <4>1 DEF Before, After
      <4>3. QED
        BY <3>2, <4>2 DEF Target
    <3>3. QED
      BY <1>1, <3>1, <3>2
  <2> HIDE DEF n
  <2>2. /\ c \in Commands /\ proc' = [proc EXCEPT ![p] = c]
        /\ c.pc = "load" /\ c.op = proc[p].op /\ c.pos = n
        /\ c.label = proc[p].label /\ c.other = proc[p].other
    <3>1. proc[p] \in Commands /\ proc \in [Proc -> Commands]
      BY DEF Inv, TypeOK
    <3>2. proc' = [proc EXCEPT ![p].pc = "load", ![p].pos = n]
      BY <1>3 DEF n
    <3>3. proc' = [proc EXCEPT ![p] = c]
      BY <3>1, <3>2
    <3>4. QED
      BY <2>1, <3>1, <3>3 DEF Commands
  <2> HIDE DEF c
  <2>3. Aims(c, s)
    BY <1>3, <2>2 DEF n, Aims, Target
  <2>4. Purpose(c) /\ Edits(c)
    BY <1>1, <2>2, <2>3 DEF Purpose, Edits, Saving, OnSources
  <2>5. QED
    BY <1>1, <2>2, <2>4, MemoryStep DEF At
<1>4. QED
  <2>1. Loaded("sources") => s \in Lists
    BY DEF Inv, TypeOK, Loaded
  <2>2. QED
    BY <1>2, <1>3, <2>1 DEF Locate

LEMMA EditSourcesInv ==
  ASSUME Inv, NEW p \in Proc, EditSources(p)
  PROVE  Inv'
<1> DEFINE s == file["sources"]
           list == Edited(proc[p], s)
<1>1. /\ At(p, "load") /\ ~At(p, "idle") /\ UNCHANGED <<file, tmp, fd>>
      /\ proc[p].op \in OnSources
      /\ proc[p].op = "add" => proc[p].entry \in Entry
      /\ proc[p].op = "add" /\ proc[p].key # None => proc[p].key \in file["trust"]
      /\ proc[p].op \in Aimed => Aims(proc[p], s)
  <2>1. proc[p].pc = "load" /\ UNCHANGED <<file, tmp, fd>>
    BY DEF EditSources, At
  <2>2. Purpose(proc[p]) /\ Edits(proc[p])
    BY DEF Inv
  <2>3. /\ proc[p].op = "add" /\ proc[p].key # None => proc[p].key \in file["trust"]
        /\ proc[p].op \in Aimed => Aims(proc[p], s)
    BY <2>1, <2>2 DEF Edits
  <2>4. /\ proc[p].op \in OnSources
        /\ proc[p].op = "add" => proc[p].entry \in Entry
    BY <2>1, <2>2 DEF Purpose
  <2>5. QED
    BY <2>1, <2>3, <2>4 DEF At
<1>2. CASE Stop(p)
  <2>1. TextsOK' /\ SavedWhole' /\ fd'[p] = "none"
    BY <1>1 DEF Inv, TypeOK, TextsOK, SavedWhole, Files, At
  <2>2. QED
    BY <1>1, <1>2, <2>1, StopInv
<1>3. CASE s \in Lists /\ Accepted(proc[p], s) /\ SaveSources(p, list)
  <2> DEFINE c == [proc[p] EXCEPT !.pc = "open", !.on = "sources", !.list = list]
  <2>1. proc[p] \in Commands /\ proc \in [Proc -> Commands]
    BY DEF Inv, TypeOK
  <2>2. list \in Lists
    BY <1>1, <1>3, <2>1, Editing
  <2> HIDE DEF list
  <2>3. proc' = [proc EXCEPT ![p] = c]
    BY <1>3, <2>1 DEF SaveSources, list
  <2>4. /\ c \in Commands /\ c.pc = "open" /\ c.on = "sources" /\ c.list = list
        /\ c.op = proc[p].op /\ c.entry = proc[p].entry /\ c.label = proc[p].label
        /\ c.pos = proc[p].pos /\ c.key = proc[p].key /\ c.other = proc[p].other
    BY <2>1, <2>2 DEF Commands, File
  <2> HIDE DEF c
  <2>5. /\ (Accepted(c, s) <=> Accepted(proc[p], s)) /\ list = Edited(c, s)
        /\ Aims(c, s) <=> Aims(proc[p], s)
    BY <2>4, SameEdit DEF list
  <2>6. Purpose(c) /\ Edits(c)
    BY <1>1, <1>3, <2>4, <2>5 DEF Purpose, Edits, Saving, OnSources
  <2>7. QED
    BY <1>1, <2>3, <2>4, <2>6, MemoryStep DEF At
<1>4. QED
  <2>1. Loaded("sources") => s \in Lists
    BY DEF Inv, TypeOK, Loaded
  <2>2. QED
    BY <1>2, <1>3, <2>1 DEF EditSources

LEMMA OpenInv ==
  ASSUME Inv, NEW p \in Proc, Open(p)
  PROVE  Inv'
<1> DEFINE f == proc[p].on
<1>0. PICK c : c = [proc[p] EXCEPT !.pc = "write"]
  OBVIOUS
<1>1. /\ At(p, "open") /\ ~At(p, "idle") /\ file' = file
      /\ tmp' = [tmp EXCEPT ![f] = Blank(f)] /\ fd' = [fd EXCEPT ![p] = "tmp"]
      /\ proc' = [proc EXCEPT ![p].pc = "write"]
  BY DEF Open, At
<1>2. proc' = [proc EXCEPT ![p] = c] /\ proc'[p] = c /\ f \in File
  BY <1>0, <1>1, TextOK DEF Inv, TypeOK
<1>3. /\ c \in Commands /\ Purpose(c) /\ Edits(c) /\ c.pc = "write" /\ c.on = f
  BY <1>0, <1>1, SavingStep DEF At, Saving
<1>4. TextsOK' /\ SavedWhole'
  BY <1>1, <1>2 DEF Inv, TypeOK, TextsOK, SavedWhole, File, Blank, Lists, KeySets
<1>5. Files(p)' /\ Edits(c)'
  <2>1. fd'[p] = "tmp" /\ tmp'[f] = Blank(f)
    BY <1>1, <1>2 DEF Inv, TypeOK
  <2>2. QED
    BY <1>1, <1>2, <1>3, <2>1 DEF Files, Edits, At
<1>6. \A q \in Proc \ {p} : fd'[q] = fd[q]
  BY <1>1 DEF Inv, TypeOK
<1>7. QED
  BY <1>1, <1>2, <1>3, <1>4, <1>5, <1>6, Others, OwnStep

\* What a step of writing changes when nobody else has the file open.
LEMMA Putting ==
  ASSUME Inv, NEW p \in Proc, At(p, "write")
  PROVE  /\ fd[p] = "tmp" /\ fd[p] # "live" /\ fd[p] # "gone"
         /\ tmp[proc[p].on] = Blank(proc[p].on)
BY DEF Inv, Files

LEMMA WriteInv ==
  ASSUME Inv, NEW p \in Proc, Write(p)
  PROVE  Inv'
<1> DEFINE f == proc[p].on
<1>0. PICK c : c = [proc[p] EXCEPT !.pc = "rename"]
  OBVIOUS
<1>1. At(p, "write") /\ ~At(p, "idle")
  BY DEF Write, At
<1>2. /\ file' = file /\ tmp' = [tmp EXCEPT ![f] = Text(p)]
      /\ fd' = [fd EXCEPT ![p] = "none"] /\ proc' = [proc EXCEPT ![p].pc = "rename"]
  BY <1>1, Putting DEF Write, Put, Overlay
<1>3. proc' = [proc EXCEPT ![p] = c] /\ proc'[p] = c /\ f \in File
  BY <1>0, <1>2, TextOK DEF Inv, TypeOK
<1>4. /\ c \in Commands /\ Purpose(c) /\ Edits(c) /\ c.pc = "rename" /\ c.on = f
      /\ c.list = proc[p].list /\ c.keys = proc[p].keys
  BY <1>0, <1>1, SavingStep DEF At, Saving
<1>5. TextsOK' /\ SavedWhole'
  BY <1>2, <1>3, TextOK DEF Inv, TypeOK, TextsOK, SavedWhole, File
<1>6. Files(p)' /\ Edits(c)'
  <2>1. fd'[p] = "none" /\ tmp'[f] = Text(p) /\ Text(p)' = Text(p)
    BY <1>2, <1>3, <1>4 DEF Inv, TypeOK, Text
  <2>2. QED
    BY <1>2, <1>3, <1>4, <2>1 DEF Files, Edits, At
<1>7. \A q \in Proc \ {p} : fd'[q] = fd[q]
  BY <1>2 DEF Inv, TypeOK
<1>8. QED
  BY <1>1, <1>3, <1>4, <1>5, <1>6, <1>7, Others, OwnStep

\* The rename puts the edited text where its command has read it.
LEMMA Renaming ==
  ASSUME Inv, NEW p \in Proc, Rename(p)
  PROVE  /\ At(p, "rename") /\ ~At(p, "idle")
         /\ file' = [file EXCEPT ![proc[p].on] = Text(p)]
         /\ tmp' = [tmp EXCEPT ![proc[p].on] = None]
         /\ fd' = fd /\ Saved(p)
<1>1. At(p, "rename") /\ ~At(p, "idle") /\ fd[p] = "none"
  BY DEF Rename, At, Inv, Files
<1>2. tmp[proc[p].on] = Text(p) /\ Text(p) # None
  BY <1>1, TextOK DEF Inv, Files
<1>3. \A q \in Proc : fd[q] = "none"
  BY <1>1, Others DEF Inv, Files, At
<1>4. fd' = [q \in Proc |-> fd[q]]
  BY <1>2, <1>3 DEF Rename
<1>5. fd' = fd
  BY <1>4 DEF Inv, TypeOK
<1>6. QED
  BY <1>1, <1>2, <1>5 DEF Rename

LEMMA RenameInv ==
  ASSUME Inv, NEW p \in Proc, Rename(p)
  PROVE  Inv'
<1> DEFINE f == proc[p].on
<1>1. /\ At(p, "rename") /\ ~At(p, "idle") /\ f \in File
      /\ file' = [file EXCEPT ![f] = Text(p)] /\ tmp' = [tmp EXCEPT ![f] = None]
      /\ fd' = fd /\ Saved(p) /\ fd[p] = "none"
  BY Renaming, TextOK DEF Inv, Files, At
<1>2. TextsOK' /\ SavedWhole'
  BY <1>1, TextOK DEF Inv, TypeOK, TextsOK, SavedWhole, File
<1>3. CASE Stop(p)
  BY <1>1, <1>2, <1>3, StopInv
<1>4. CASE /\ proc[p].op = "add" /\ f = "trust"
           /\ proc' = [proc EXCEPT ![p].pc = "load"]
  <2>0. PICK c : c = [proc[p] EXCEPT !.pc = "load"]
    OBVIOUS
  <2>1. proc[p] \in Commands /\ proc \in [Proc -> Commands]
    BY DEF Inv, TypeOK
  <2>2. proc' = [proc EXCEPT ![p] = c] /\ proc'[p] = c
    BY <1>4, <2>0, <2>1
  <2>3. c \in Commands /\ c.pc = "load" /\ c.op = "add" /\ c.key = proc[p].key
          /\ c.entry = proc[p].entry
    BY <1>4, <2>0, <2>1 DEF Commands
  <2>4. proc[p].key \in file'["trust"] /\ proc[p].entry \in Entry
    <3>1. proc[p].keys = file["trust"] \union {proc[p].key} /\ proc[p].entry \in Entry
      BY <1>1, <1>4 DEF Inv, Edits, Purpose, At, Saving
    <3>2. Text(p) = proc[p].keys
      BY <1>4 DEF Text
    <3>3. file'["trust"] = proc[p].keys
      BY <1>1, <1>4, <3>2 DEF Inv, TypeOK, File
    <3>4. QED
      BY <3>1, <3>3
  <2>5. Purpose(c) /\ Files(p)' /\ Edits(c)'
    BY <1>1, <2>2, <2>3, <2>4 DEF Purpose, Files, Edits, At, Saving, OnSources, Aimed
  <2>6. QED
    BY <1>1, <1>2, <2>2, <2>3, <2>5, Others, OwnStep
<1>5. QED
  BY <1>1, <1>3, <1>4 DEF Saved

LEMMA InterruptInv ==
  ASSUME Inv, NEW p \in Proc, Interrupt(p)
  PROVE  Inv'
<1>1. ~At(p, "idle") /\ Stop(p) /\ fd' = [fd EXCEPT ![p] = "none"]
  BY DEF Interrupt
<1>2. file' = file
  BY Putting DEF Interrupt, Put
<1>3. tmp' = tmp \/ tmp' = [tmp EXCEPT ![proc[p].on] = Torn]
        \/ tmp' = [tmp EXCEPT ![proc[p].on] = tmp[proc[p].on]]
  BY Putting DEF Interrupt, Put
<1>4. TextsOK' /\ SavedWhole'
  BY <1>1, <1>2, <1>3, TextOK DEF Inv, TypeOK, TextsOK, SavedWhole, File
<1>5. fd'[p] = "none" /\ \A q \in Proc \ {p} : fd'[q] = fd[q]
  BY <1>1 DEF Inv, TypeOK
<1>6. QED
  BY <1>1, <1>4, <1>5, StopInv

LEMMA StartInv ==
  ASSUME Inv, Alone, NEW p \in Proc, Start(p)
  PROVE  Inv'
<1>0. Idle \in Commands
  BY DEF Idle, Commands, File, Lists, KeySets
<1>1. ASSUME NEW e \in Entry, NEW k \in Key \union {None}, RepoAdd(p, e, k) PROVE Inv'
  <2>0. PICK c : c = [Idle EXCEPT !.pc = IF k = None THEN "load" ELSE "check",
                                  !.op = "add", !.entry = e, !.key = k]
    OBVIOUS
  <2>1. /\ c \in Commands /\ c.pc = (IF k = None THEN "load" ELSE "check")
        /\ c.op = "add" /\ c.entry = e /\ c.key = k
    <3>1. PICK point \in {"load", "check"} : point = IF k = None THEN "load" ELSE "check"
      OBVIOUS
    <3>2. c = [Idle EXCEPT !.pc = point, !.op = "add", !.entry = e, !.key = k]
      BY <2>0, <3>1
    <3>3. QED
      BY <1>0, <1>1, <3>1, <3>2 DEF Commands
  <2>2. Purpose(c)
    BY <1>1, <2>1 DEF Purpose, Saving, OnSources
  <2>3. QED
    <3>1. Begin(p, c)
      BY <1>1, <2>0 DEF RepoAdd
    <3>2. c.pc \in {"check", "load"} /\ (c.pc = "load" => c.key = None)
      BY <1>1, <2>1
    <3>3. QED
      BY <2>1, <2>2, <3>1, <3>2, BeginInv DEF Aimed
<1>2. ASSUME NEW l \in Label, RepoRemove(p, l) PROVE Inv'
  <2>0. PICK c : c = [Idle EXCEPT !.pc = "load", !.op = "remove", !.label = l]
    OBVIOUS
  <2>1. c \in Commands /\ c.pc = "load" /\ c.op = "remove"
    BY <1>0, <1>2, <2>0 DEF Commands
  <2>2. Purpose(c)
    BY <2>1 DEF Purpose, Saving, OnSources
  <2>3. QED
    BY <1>2, <2>0, <2>1, <2>2, BeginInv DEF RepoRemove, Aimed
<1>3. ASSUME NEW l \in Label, NEW n \in 0 .. (MaxSources + 1), MoveTo(p, l, n) PROVE Inv'
  <2>0. PICK c : c = [Idle EXCEPT !.pc = "load", !.op = "move", !.label = l, !.pos = n]
    OBVIOUS
  <2>1. c \in Commands /\ c.pc = "load" /\ c.op = "move"
    <3>1. n \in Nat
      BY <1>3, ConstantsAssumption
    <3>2. QED
      BY <1>0, <1>3, <2>0, <3>1 DEF Commands
  <2>2. Purpose(c)
    BY <2>1 DEF Purpose, Saving, OnSources
  <2>3. QED
    BY <1>3, <2>0, <2>1, <2>2, BeginInv DEF MoveTo, Aimed
<1>4. ASSUME NEW l \in Label, NEW o \in Label, NEW op \in {"bottom", "before", "after"},
             MoveBy(p, l, op, o)
      PROVE  Inv'
  <2>0. PICK c : c = [Idle EXCEPT !.pc = "locate", !.op = op, !.label = l, !.other = o]
    OBVIOUS
  <2>1. c \in Commands /\ c.pc = "locate" /\ c.op = op
    BY <1>0, <1>4, <2>0 DEF Commands
  <2>2. Purpose(c)
    BY <1>4, <2>1 DEF Purpose, Saving, OnSources
  <2>3. QED
    BY <1>4, <2>0, <2>1, <2>2, BeginInv DEF MoveBy
<1>5. ASSUME NEW k \in Key, NEW op \in {"trust", "distrust"},
             Begin(p, [Idle EXCEPT !.pc = "trust", !.op = op, !.key = k])
      PROVE  Inv'
  <2>0. PICK c : c = [Idle EXCEPT !.pc = "trust", !.op = op, !.key = k]
    OBVIOUS
  <2>1. c \in Commands /\ c.pc = "trust" /\ c.op = op /\ c.key = k
    BY <1>0, <1>5, <2>0 DEF Commands
  <2>2. Purpose(c)
    BY <1>5, <2>1 DEF Purpose, Saving, OnTrust
  <2>3. QED
    BY <1>5, <2>0, <2>1, <2>2, BeginInv
<1>6. QED
  BY <1>1, <1>2, <1>3, <1>4, <1>5 DEF Start, TrustAdd, TrustRemove

LEMMA NextInv == Alone /\ Inv /\ [Next]_vars => Inv'
<1>1. ASSUME Alone, Inv, Next PROVE Inv'
  BY <1>1, StartInv, CheckInv, EditTrustInv, LocateInv, EditSourcesInv, OpenInv, WriteInv,
     RenameInv, InterruptInv DEF Next
<1>2. ASSUME Inv, UNCHANGED vars PROVE Inv'
  BY <1>2 DEF Inv, TypeOK, SavedWhole, Solo, Purpose, Files, Edits, At, Text, vars
<1>3. QED
  BY <1>1, <1>2

-----------------------------------------------------------------------------

\* With one command at a time the two files, the temporary ones and what a
\* command holds are well typed, wherever commands were killed.
THEOREM TypeCorrect == ASSUME Alone PROVE Spec => []TypeOK
<1>1. Inv => TypeOK
  BY DEF Inv
<1>2. QED
  BY <1>1, InitInv, NextInv, PTL DEF Spec

\* save_sources and save_trust: with one command at a time whoever reads
\* sources.toml or trust.toml finds a text that some command saved.
THEOREM FilesAreWhole == ASSUME Alone PROVE Spec => []SavedWhole
<1>1. Inv => SavedWhole
  BY DEF Inv
<1>2. QED
  BY <1>1, InitInv, NextInv, PTL DEF Spec

\* With one command at a time `lar repo add` lists a source only when the key
\* it asked about is trusted, whatever was killed before.
THEOREM ListedAreTrusted == ASSUME Alone PROVE Spec => TrustedBeforeListed
<1>1. Inv /\ [Next]_vars => [\A p \in Proc : ListsTrusted(p)]_vars
  <2> SUFFICES ASSUME Inv, NEW p \in Proc PROVE ListsTrusted(p)
    BY DEF vars
  <2>1. Purpose(proc[p]) /\ Edits(proc[p])
    BY DEF Inv
  <2>2. Rename(p) => proc[p].pc = "rename"
    BY DEF Rename, At
  <2>3. QED
    BY <2>1, <2>2 DEF ListsTrusted, Edits, Saving
<1>2. QED
  BY <1>1, InitInv, NextInv, PTL DEF Spec, TrustedBeforeListed

\* With one command at a time what happens to the two files is that one source
\* is added, removed or moved, or one key is trusted or distrusted: no edit
\* loses or reorders what others have put there.
THEOREM EditsOne == ASSUME Alone PROVE Spec => ImplementsSourceOrder
<1>1. Init => Order!Init
  BY DEF Init, Order!Init, File, Blank
<1>2. Inv /\ [Next]_vars => [Order!Next]_<<file["sources"], file["trust"]>>
  <2> SUFFICES ASSUME Inv, [Next]_vars, file' # file PROVE Order!Next
    OBVIOUS
  <2>1. PICK p \in Proc : Rename(p)
    <3>1. PICK p \in Proc : Write(p) \/ Rename(p) \/ Interrupt(p)
      BY DEF vars, Next, Start, RepoAdd, RepoRemove, MoveTo, MoveBy, TrustAdd, TrustRemove,
             Begin, Check, EditTrust, Locate, EditSources, Open
    <3>2. ~Write(p) /\ ~Interrupt(p)
      BY Putting DEF Write, Interrupt, Put
    <3>3. QED
      BY <3>1, <3>2
  <2> DEFINE s == file["sources"]
             c == proc[p]
  <2>2. /\ c.pc = "rename" /\ c.on \in File
        /\ file' = [file EXCEPT ![c.on] = Text(p)] /\ DOMAIN file = File
        /\ Purpose(c) /\ Edits(c) /\ c \in Commands
    BY <2>1, Renaming, TextOK DEF Inv, TypeOK, At
  <2>3. CASE c.on = "trust"
    <3>1. UNCHANGED s /\ file'["trust"] = c.keys /\ c.key \in Key
      BY <2>2, <2>3 DEF Text, File, Purpose, Saving
    <3>2. \/ c.key \in file["trust"] /\ file'["trust"] = file["trust"] \ {c.key}
          \/ c.key \notin file["trust"] /\ file'["trust"] = file["trust"] \union {c.key}
      BY <2>2, <2>3, <3>1 DEF Edits, Saving
    <3>3. QED
      BY <3>1, <3>2 DEF Order!Next, Order!Trust, Order!Distrust
  <2>4. CASE c.on = "sources"
    <3>1. /\ UNCHANGED file["trust"] /\ s' = Edited(c, s) /\ Accepted(c, s)
          /\ c.op \in OnSources /\ (c.op = "add" => c.entry \in Entry)
      BY <2>2, <2>4 DEF Text, File, Purpose, Edits, Saving
    <3>2. s \in Seq(Entry)
      BY <2>2 DEF Inv, TypeOK, SavedWhole, File, Lists
    <3>3. CASE c.op = "add"
      BY <3>1, <3>3 DEF Accepted, Edited, Order!Next, Order!Add
    <3>4. CASE c.op = "remove"
      <4>1. Find(s, c.label) \in DOMAIN s
        BY <3>1, <3>2, <3>4, Finding DEF Accepted, Lists
      <4>2. s' = Order!Without(s, Find(s, c.label))
        BY <3>1, <3>2, <3>4, <4>1, Placing DEF Edited
      <4>3. QED
        BY <3>1, <4>1, <4>2 DEF Order!Next, Order!Remove
    <3>5. CASE c.op \notin {"add", "remove"}
      <4>1. Find(s, c.label) \in DOMAIN s /\ c.pos \in DOMAIN s
        BY <3>1, <3>2, <3>5, Finding DEF Accepted, Lists
      <4>2. s' = Place(s, Find(s, c.label), c.pos)
        BY <3>1, <3>5 DEF Edited
      <4>3. /\ Len(s') = Len(s) /\ s'[c.pos] = s[Find(s, c.label)]
            /\ Order!Without(s', c.pos) = Order!Without(s, Find(s, c.label))
            /\ c.pos \in DOMAIN s'
        BY <3>2, <4>1, <4>2, Placing
      <4>4. QED
        BY <3>1, <4>1, <4>3 DEF Order!Next, Order!Move
    <3>6. QED
      BY <3>3, <3>4, <3>5
  <2>5. QED
    BY <2>2, <2>3, <2>4 DEF File
<1>3. QED
  BY <1>1, <1>2, InitInv, NextInv, PTL DEF Spec, ImplementsSourceOrder, Order!Spec

\* With one command at a time `lar repo move --before X`, `--after X` and
\* `--bottom` put the source where they say, although the position is worked
\* out in one reading of the file and used in the next.
THEOREM MovesLand == ASSUME Alone PROVE Spec => MovesArrive
<1>1. ASSUME Inv, NEW p \in Proc, Rename(p) PROVE Arrives(p)
  <2> DEFINE c == proc[p]
             s == file["sources"]
             from == Find(s, c.label)
             other == Find(s, c.other)
  <2>1. /\ c.pc = "rename" /\ c.on \in File
        /\ file' = [file EXCEPT ![c.on] = Text(p)] /\ DOMAIN file = File
        /\ Purpose(c) /\ Edits(c) /\ c \in Commands
    BY <1>1, Renaming, TextOK DEF Inv, TypeOK, At
  <2>2. CASE c.op \notin Aimed
    BY <1>1, <2>2 DEF Arrives, Aimed
  <2>3. CASE c.op \in Aimed
    <3>1. c.on = "sources"
      BY <2>1, <2>3 DEF Purpose, Saving, Aimed, OnTrust, File
    <3>2. /\ s' = Edited(c, s) /\ Accepted(c, s) /\ Aims(c, s)
      BY <2>1, <2>3, <3>1 DEF Text, Edits, Saving
    <3>3. s \in Seq(Entry)
      BY <1>1 DEF Inv, TypeOK, SavedWhole, File, Lists
    <3>4. /\ from \in DOMAIN s /\ c.pos \in DOMAIN s /\ c.pos = Target(c, s)
          /\ c.op # "bottom" => other \in DOMAIN s /\ from # other
      BY <2>3, <3>2, <3>3, Finding DEF Accepted, Aims, Aimed, Lists
    <3>5. s' = Place(s, from, c.pos)
      BY <2>3, <3>2 DEF Edited, Aimed
    <3>6. /\ Len(s') = Len(s) /\ s'[c.pos] = s[from]
          /\ \A j \in 1 .. (c.pos - 1) : s'[j] = IF j < from THEN s[j] ELSE s[j + 1]
          /\ \A j \in c.pos .. (Len(s) - 1) : s'[j + 1] = IF j < from THEN s[j] ELSE s[j + 1]
      <4> DEFINE placed == Place(s, from, c.pos)
      <4>1. s \in Seq(Entry) /\ from \in DOMAIN s /\ c.pos \in DOMAIN s
        BY <3>3, <3>4
      <4>2. Len(placed) = Len(s) /\ placed[c.pos] = s[from]
        BY ONLY <4>1, Placing, SMTT(20)
      <4>3. \A j \in 1 .. (c.pos - 1) : placed[j] = IF j < from THEN s[j] ELSE s[j + 1]
        BY ONLY <4>1, Placing, ZenonT(90)
      <4>4. \A j \in c.pos .. (Len(s) - 1) : placed[j + 1] = IF j < from THEN s[j] ELSE s[j + 1]
        BY ONLY <4>1, Placing, ZenonT(90)
      <4>5. QED
        BY <3>5, <4>2, <4>3, <4>4
    <3>7. /\ Len(s) \in Nat /\ from \in 1 .. Len(s) /\ c.pos \in 1 .. Len(s)
          /\ c.op # "bottom" => other \in 1 .. Len(s)
      BY <3>3, <3>4
    <3>8. CASE c.op = "bottom"
      <4>1. c.pos = Len(s)
        BY <3>4, <3>7, <3>8 DEF Target
      <4>2. QED
        BY <3>6, <3>8, <4>1 DEF Arrives
    <3>9. CASE c.op = "before"
      <4>1. c.pos = IF from < other THEN other - 1 ELSE other
        BY <3>4, <3>9 DEF Target, Before
      <4>2. c.pos \in c.pos .. (Len(s) - 1) /\ c.pos + 1 \in 2 .. Len(s)
        BY <3>4, <3>7, <3>9, <4>1
      <4>3. s'[c.pos + 1] = IF c.pos < from THEN s[c.pos] ELSE s[c.pos + 1]
        BY <3>6, <4>2
      <4>4. s'[c.pos + 1] = s[other]
        BY <3>4, <3>7, <3>9, <4>1, <4>3
      <4>5. \E i \in 2 .. Len(s') : s'[i] = s[other] /\ s'[i - 1] = s[from]
        <5>1. c.pos + 1 - 1 = c.pos /\ c.pos + 1 \in 2 .. Len(s')
          BY <3>6, <3>7, <4>2
        <5>2. PICK k \in 2 .. Len(s') : k = c.pos + 1 /\ k - 1 = c.pos
          BY <3>7, <5>1
        <5>3. s'[k] = s[other] /\ s'[k - 1] = s[from]
          BY <3>6, <4>4, <5>2
        <5>4. QED
          BY <5>3
      <4>6. QED
        BY <3>9, <4>5 DEF Arrives
    <3>10. CASE c.op = "after"
      <4>1. c.pos = IF from < other THEN other ELSE other + 1
        BY <3>4, <3>10 DEF Target, After
      <4>2. c.pos - 1 \in 1 .. (c.pos - 1) /\ c.pos \in 2 .. Len(s)
        BY <3>4, <3>7, <3>10, <4>1
      <4>3. s'[c.pos - 1] = IF c.pos - 1 < from THEN s[c.pos - 1] ELSE s[c.pos - 1 + 1]
        BY <3>6, <4>2
      <4>4. s'[c.pos - 1] = s[other]
        BY <3>4, <3>7, <3>10, <4>1, <4>3
      <4>5. QED
        BY <3>6, <3>7, <3>10, <4>2, <4>4 DEF Arrives
    <3>11. QED
      BY <2>3, <3>8, <3>9, <3>10 DEF Aimed
  <2>4. QED
    BY <2>2, <2>3
<1>2. Inv /\ [Next]_vars => [\A p \in Proc : Arrives(p)]_vars
  <2>1. \A p \in Proc : ~Rename(p) => Arrives(p)
    BY DEF Arrives
  <2>2. QED
    BY <1>1, <2>1
<1>3. QED
  BY <1>2, InitInv, NextInv, PTL DEF Spec, MovesArrive
=============================================================================
