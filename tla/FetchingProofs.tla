--------------------------- MODULE FetchingProofs ---------------------------
(***************************************************************************)
(* What a fetch puts into the store was vouched for by a trusted key, no   *)
(* yank is overlooked, and what publishers leave behind is in order, for   *)
(* any number of sources, versions and keys, whatever publishers write     *)
(* while a client reads.                                                   *)
(*                                                                         *)
(* None of the properties is inductive: Vouched says that every index, the *)
(* one on disk and the one a client has read, holds only signed entries;   *)
(* Standing that a yank a client has to respect is in advisories.toml, or  *)
(* about to be written again with nothing that verifies in its place.      *)
(* Tidy says what a publisher's command has brought about at each of its   *)
(* points, and that a source no command is at work on validates unless it  *)
(* is unsettled; Unpublished what an unpublish under way has deleted.      *)
(* Discovered follows one version from where it is listed to where it is   *)
(* looked up: no source that has it is passed by.                          *)
(***************************************************************************)
EXTENDS Fetching, FiniteSetTheorems, TLAPS

WriterShape == [pc: WriterPoints \union {"idle"},
                op: {"none", "init", "publish", "unpublish", "index"},
                repo: Source \union {None}, key: Key \union {None},
                pin: Pin \union {None}, ed: Edition \union {None},
                index: IndexFile, says: SUBSET Advisory]

RepoTyped ==
  /\ files \in [Source -> [Pin -> [Spot -> {None, Part} \union Edition]]]
  /\ index \in [Source -> {None, Torn} \union IndexFile]
  /\ advisories \in [Source -> {None, Torn} \union Advice]
  /\ signed \subseteq Pin \X Edition \X Key
  /\ unsettled \subseteq Source
  /\ writer \in WriterShape

\* What the local variables of a publisher's command are at its points.
AtWork ==
  /\ writer.pc # "idle" => writer.repo \in Source /\ writer.key \in Key
  /\ writer.pc = "copy" => writer.ed \in Edition
  /\ writer.pc \in {"open_advisories", "write_advisories"} =>
       advisories[writer.repo] \in Advice
  /\ writer.pc = "write_advisories" =>
       advisories[writer.repo] = [says |-> {}, seal |-> None]

ClientPoints == {"idle", "index", "advisories", "blob", "add", "warn", "audit"}

ClientShape == [pc: ClientPoints,
                phase: {"none", "list", "peek", "fetch", "audit"},
                at: 1..(Len(Sources) + 1), pin: Pin \union {None},
                index: IndexFile, entry: Listed \union {None},
                found: SUBSET (Pin \union (Pin \X Edition)),
                pins: SUBSET (Pin \X Edition), calm: BOOLEAN,
                yanks: SUBSET (Source \X Pin \X Edition),
                outcome: {"none", "failed", "done"}]

\* The same for the client.
Reading(c) ==
  /\ c \in ClientShape
  /\ c.phase = "list" => c.found \subseteq Pin
  /\ c.phase \in {"peek", "fetch"} => c.pin \in Pin
  /\ c.pc \in {"index", "advisories", "warn"} => c.phase \in {"list", "peek", "fetch"}
  /\ c.pc \in {"warn", "audit"} => c.phase # "list"
  /\ c.pc \in {"blob", "add"} => c.phase = "fetch" /\ c.entry \in Listed
  /\ c.pc \in {"advisories", "blob", "add"} => c.at <= Len(Sources)
  /\ c.pc # "idle" => c.outcome = "none"

Typed ==
  /\ RepoTyped
  /\ AtWork
  /\ store \in [Pin -> Edition \union {None}]
  /\ Reading(client)

\* The entries of index i are among the signed ones.
AllIn(i, entries) ==
  \A p \in Pin : \A n \in DOMAIN i[p] : <<p, i[p][n].ed, i[p][n].key>> \in entries

\* An index about to be written names the key it will be signed with.
OwnKey ==
  writer.pc \in {"open_index", "write_index"} =>
    \A p \in Pin : \A n \in DOMAIN writer.index[p] :
      writer.index[p][n].key = writer.key

Vouched ==
  /\ OwnKey
  /\ \A r \in Source : Readable(index[r]) => AllIn(index[r], signed)
  /\ AllIn(client.index, signed)
  /\ client.pc \in {"blob", "add"} =>
       /\ <<client.pin, client.entry.ed, client.entry.key>> \in signed
       /\ client.entry.key \in Trusted

Yanked(says, p, ed) == \E a \in says : a.yanked /\ Matches(a, p, ed)

\* The yank t can be read, or is being written again.
Stands(t) ==
  \/ advisories[t[1]] \in Advice /\ Yanked(advisories[t[1]].says, t[2], t[3])
  \/ /\ writer.pc = "write_advisories" /\ writer.repo = t[1]
     /\ Yanked(writer.says, t[2], t[3])

Standing ==
  /\ \A t \in client.yanks : Stands(t)
  /\ client.pc \in {"blob", "add"} =>
       <<Here, client.pin, client.entry.ed>> \notin client.yanks

-----------------------------------------------------------------------------
(* Types.                                                                  *)

LEMMA EmptyIndexTyped == EmptyIndex \in IndexFile
BY DEF EmptyIndex, IndexFile

LEMMA ElementsListed ==
  ASSUME NEW s \in Seq(Listed)
  PROVE  \A n \in DOMAIN s : s[n] \in Listed
<1>1. PICK m \in Nat : s \in [1..m -> Listed]
  OBVIOUS
<1>2. QED
  BY <1>1

LEMMA HeadListed ==
  ASSUME NEW i \in IndexFile, NEW p \in Pin, i[p] # <<>>
  PROVE  /\ 1 \in DOMAIN i[p] /\ Head(i[p]) = i[p][1]
         /\ Head(i[p]) \in Listed
BY ElementsListed DEF IndexFile

LEMMA SomeKeys == \A r \in Source : KeysOf(r) \subseteq Key
BY ConstantsAssumption DEF KeysOf

LEMMA SpotsAreFinite == IsFiniteSet(Spot)
<1>1. IsFiniteSet({} \cup {"root"})
  BY FS_EmptySet, FS_AddElement
<1>2. IsFiniteSet(({} \cup {"root"}) \cup {"packages"})
  BY <1>1, FS_AddElement
<1>3. IsFiniteSet((({} \cup {"root"}) \cup {"packages"}) \cup {"odd"})
  BY <1>2, FS_AddElement
<1>4. Spot = (({} \cup {"root"}) \cup {"packages"}) \cup {"odd"}
  BY DEF Spot
<1>5. QED
  BY <1>3, <1>4

\* Whole archives give entries that can be listed.
LEMMA EntriesTyped ==
  ASSUME RepoTyped, NEW r \in Source, NEW p \in Pin, NEW k \in Key,
         \A s \in Spot : files[r][p][s] # Part,
         NEW scan \in Scans(r, p)
  PROVE  Entries(r, p, k, scan) \in Seq(Listed)
<1> DEFINE found == {s \in Spot : files[r][p][s] # None}
<1>1. found \in SUBSET Spot
  OBVIOUS
<1>2. Cardinality(found) \in Nat
  BY <1>1, SpotsAreFinite, FS_Subset, FS_CardinalityType
<1>3. scan \in [1..Cardinality(found) -> found]
  BY DEF Scans
<1> HIDE DEF found
<1>4. \A s \in found : s \in Spot /\ files[r][p][s] \in Edition
  BY DEF found, RepoTyped
<1>5. Entries(r, p, k, scan) \in [1..Cardinality(found) -> Listed]
  BY <1>3, <1>4 DEF Entries, Listed
<1>6. QED
  BY <1>2, <1>5

-----------------------------------------------------------------------------
(* The publishers.                                                         *)

\* The first steps of a command.
LEMMA BeginTyped ==
  ASSUME Typed, NEW op \in {"init", "publish", "unpublish", "index"},
         NEW r \in Source, NEW k \in Key, NEW p \in Pin \union {None},
         NEW ed \in Edition \union {None},
         NEW pc \in {"open_index", "copy", "delete", "build"},
         pc = "copy" => ed \in Edition, Begin(op, r, k, p, ed, pc)
  PROVE  /\ writer.pc = "idle"
         /\ writer' \in WriterShape
         /\ writer'.repo = r /\ writer'.key = k /\ writer'.pc = pc
         /\ pc = "copy" => writer'.ed \in Edition
<1>1. writer' = [pc |-> pc, op |-> op, repo |-> r, key |-> k, pin |-> p,
                 ed |-> ed, index |-> EmptyIndex, says |-> {}]
  BY DEF Begin, NoCommand
<1>2. writer' \in WriterShape
  BY <1>1, EmptyIndexTyped DEF WriterShape, WriterPoints
<1>3. QED
  BY <1>1, <1>2 DEF Begin, Act, WriterAt

LEMMA PublishingTyped ==
  ASSUME Typed, Publishing
  PROVE  RepoTyped' /\ AtWork'
<1> USE DEF Typed
<1>0. NoCommand \in WriterShape /\ NoCommand.pc = "idle"
  BY EmptyIndexTyped DEF NoCommand, WriterShape
<1>1. ASSUME NEW r \in Source, NEW k \in KeysOf(r), InitRepo(r, k)
      PROVE  RepoTyped' /\ AtWork'
  <2>1. Begin("init", r, k, None, None, "open_index")
    BY <1>1 DEF InitRepo
  <2>2. /\ writer' \in WriterShape /\ writer'.pc = "open_index"
        /\ writer'.repo = r /\ writer'.key = k
    BY <2>1, SomeKeys, BeginTyped
  <2>3. QED
    BY <1>1, <2>2, SomeKeys DEF InitRepo, RepoTyped, AtWork
<1>2. ASSUME NEW r \in Source, NEW k \in KeysOf(r), Reindex(r, k)
      PROVE  RepoTyped' /\ AtWork'
  <2>1. Begin("index", r, k, None, None, "build")
    BY <1>2 DEF Reindex
  <2>2. /\ writer' \in WriterShape /\ writer'.pc = "build"
        /\ writer'.repo = r /\ writer'.key = k
    BY <2>1, SomeKeys, BeginTyped
  <2>3. QED
    BY <1>2, <2>2, SomeKeys DEF Reindex, RepoTyped, AtWork
<1>3. ASSUME NEW r \in Source, NEW k \in KeysOf(r), NEW p \in Pin,
             Unpublish(r, p, k)
      PROVE  RepoTyped' /\ AtWork'
  <2>1. Begin("unpublish", r, k, p, None, "delete")
    BY <1>3 DEF Unpublish
  <2>2. /\ writer' \in WriterShape /\ writer'.pc = "delete"
        /\ writer'.repo = r /\ writer'.key = k
    BY <2>1, SomeKeys, BeginTyped
  <2>3. QED
    BY <1>3, <2>2, SomeKeys DEF Unpublish, RepoTyped, AtWork
<1>4. ASSUME NEW o \in Offers, Publish(o[1], o[2], o[3], o[4])
      PROVE  RepoTyped' /\ AtWork'
  <2>0. o[1] \in Source /\ o[2] \in Pin /\ o[3] \in Edition /\ o[4] \in Key
    BY ConstantsAssumption
  <2>1. Begin("publish", o[1], o[4], o[2], o[3], "copy")
    BY <1>4 DEF Publish
  <2>2. /\ writer' \in WriterShape /\ writer'.pc = "copy" /\ writer'.ed \in Edition
        /\ writer'.repo = o[1] /\ writer'.key = o[4]
    BY <2>0, <2>1, BeginTyped
  <2>3. QED
    BY <1>4, <2>0, <2>2 DEF Publish, RepoTyped, AtWork
<1>5. ASSUME NEW c \in Strays, CopyByHand(c[1], c[2], c[3], c[4])
      PROVE  RepoTyped' /\ AtWork'
  <2>0. c[1] \in Source /\ c[2] \in Pin /\ c[3] \in Edition /\ c[4] \in Spot
    BY ConstantsAssumption
  <2>1. QED
    BY <1>5, <2>0 DEF CopyByHand, RepoTyped, AtWork
<1>6. ASSUME NEW n \in Notices, EditAdvisories(n[1], n[2])
      PROVE  RepoTyped' /\ AtWork'
  <2>0. n[1] \in Source /\ n[2] \subseteq Advisory
    BY ConstantsAssumption
  <2>1. writer.pc = "idle" /\ UNCHANGED writer
    BY <1>6 DEF EditAdvisories, Act, WriterAt
  <2> DEFINE new == [says |-> n[2],
                     seal |-> IF advisories[n[1]] \in {None, Torn} THEN None
                              ELSE advisories[n[1]].seal]
  <2>2. new \in Advice
    BY <2>0 DEF RepoTyped, Advice
  <2>3. advisories' = [advisories EXCEPT ![n[1]] = new]
    BY <1>6 DEF EditAdvisories
  <2> HIDE DEF new
  <2>4. QED
    BY <1>6, <2>0, <2>1, <2>2, <2>3 DEF EditAdvisories, RepoTyped, AtWork
<1>7. CASE Copy
  <2>1. writer.pc = "copy" /\ writer.ed \in Edition /\ writer.repo \in Source
    BY <1>7 DEF Copy, WriterAt, AtWork
  <2>2. files' \in [Source -> [Pin -> [Spot -> {None, Part} \union Edition]]]
    <3>1. files' = [files EXCEPT ![writer.repo][writer.pin]["packages"] = writer.ed]
      BY <1>7 DEF Copy
    <3>2. files \in [Source -> [Pin -> [Spot -> {None, Part} \union Edition]]]
      BY DEF RepoTyped
    <3>3. QED
      BY <2>1, <3>1, <3>2
  <2>3. writer' = [writer EXCEPT !.pc = "build"]
    BY <1>7 DEF Copy, WriterGoto
  <2>4. /\ writer' \in WriterShape /\ writer'.pc = "build"
        /\ writer'.repo = writer.repo /\ writer'.key = writer.key
    BY <2>3 DEF RepoTyped, WriterShape, WriterPoints
  <2>5. QED
    BY <1>7, <2>1, <2>2, <2>4 DEF Copy, RepoTyped, AtWork
<1>8. CASE DeleteArchive
  <2>1. /\ writer.pc = "delete"
        /\ writer' = [writer EXCEPT !.pc = "build"] \/ UNCHANGED writer
    BY <1>8 DEF DeleteArchive, WriterAt, WriterGoto, RepoTyped, WriterShape
  <2>2. files' \in [Source -> [Pin -> [Spot -> {None, Part} \union Edition]]]
    <3> DEFINE Archive == {None, Part} \union Edition
    <3>1. PICK s : files' = [files EXCEPT ![writer.repo][writer.pin][s] = None]
      BY <1>8 DEF DeleteArchive
    <3>2. files \in [Source -> [Pin -> [Spot -> Archive]]] /\ None \in Archive
      BY DEF RepoTyped
    <3> HIDE DEF Archive
    <3>3. files' \in [Source -> [Pin -> [Spot -> Archive]]]
      BY <3>1, <3>2
    <3>4. QED
      BY <3>3 DEF Archive
  <2>3. QED
    BY <1>8, <2>1, <2>2
       DEF DeleteArchive, RepoTyped, AtWork, WriterShape, WriterPoints
<1>9. CASE Build
  <2>1. writer.pc = "build" /\ writer.repo \in Source /\ writer.key \in Key
    BY <1>9 DEF Build, WriterAt, AtWork
  <2>2. CASE writer' = NoCommand
    BY <1>0, <1>9, <2>2 DEF Build, RepoTyped, AtWork
  <2>3. CASE writer' # NoCommand
    <3>1. \A p \in Pin, s \in Spot : files[writer.repo][p][s] # Part
      BY <1>9, <2>3 DEF Build, WriterStops
    <3>2. PICK scan \in [Pin -> UNION {Scans(writer.repo, p) : p \in Pin}] :
            /\ \A p \in Pin : scan[p] \in Scans(writer.repo, p)
            /\ writer' = [writer EXCEPT !.pc = "open_index",
                 !.index = [p \in Pin |-> Entries(writer.repo, p, writer.key, scan[p])]]
      BY <1>9, <2>3 DEF Build, WriterStops
    <3>3. [p \in Pin |-> Entries(writer.repo, p, writer.key, scan[p])] \in IndexFile
      BY <2>1, <3>1, <3>2, EntriesTyped DEF IndexFile
    <3>4. QED
      BY <1>9, <2>1, <3>2, <3>3
         DEF Build, RepoTyped, AtWork, WriterShape, WriterPoints
  <2>4. QED
    BY <2>2, <2>3
<1>10. CASE OpenIndex
  BY <1>10, EmptyIndexTyped
     DEF OpenIndex, WriterAt, WriterGoto, RepoTyped, AtWork, WriterShape, WriterPoints
<1>11. CASE WriteIndex
  <2>1. writer.pc = "write_index" /\ writer.repo \in Source /\ writer.key \in Key
    BY <1>11 DEF WriteIndex, WriterAt, AtWork
  <2>2. \A p \in Pin : \A n \in DOMAIN writer.index[p] : writer.index[p][n].ed \in Edition
    <3>1. \A p \in Pin : writer.index[p] \in Seq(Listed)
      BY DEF RepoTyped, WriterShape, IndexFile
    <3>2. QED
      BY <3>1, ElementsListed DEF Listed
  <2>3. signed' \subseteq Pin \X Edition \X Key
    BY <1>11, <2>1, <2>2 DEF WriteIndex, RepoTyped
  <2>4. QED
    BY <1>11, <2>1, <2>3
       DEF WriteIndex, WriterGoto, RepoTyped, AtWork, WriterShape, WriterPoints
<1>17. CASE OpenPub
  BY <1>17 DEF OpenPub, WriterAt, WriterGoto, RepoTyped, AtWork, WriterShape, WriterPoints
<1>12. CASE WritePub
  <2>1. writer.pc = "write_pub" /\ writer.repo \in Source
    BY <1>12 DEF WritePub, WriterAt, AtWork
  <2>2. UNCHANGED <<files, index, advisories, signed>> /\ unsettled' \subseteq unsettled
    BY <1>12 DEF WritePub, Finish
  <2>3. CASE writer' = NoCommand
    BY <1>0, <2>2, <2>3 DEF RepoTyped, AtWork
  <2>4. CASE writer' # NoCommand
    <3>1. /\ writer' = [writer EXCEPT !.pc = "open_advisories"]
          /\ advisories[writer.repo] \notin {None, Torn}
      BY <1>12, <2>4 DEF WritePub, Finish, WriterStops, WriterGoto
    <3>2. QED
      BY <2>1, <2>2, <3>1 DEF RepoTyped, AtWork, WriterShape, WriterPoints
  <2>5. QED
    BY <2>3, <2>4
<1>13. CASE OpenAdvisories
  <2>1. /\ writer.pc = "open_advisories" /\ writer.repo \in Source
        /\ advisories[writer.repo] \in Advice
    BY <1>13 DEF OpenAdvisories, WriterAt, AtWork
  <2>2. [says |-> {}, seal |-> None] \in Advice
    BY DEF Advice, Seal
  <2>3. advisories[writer.repo].says \in SUBSET Advisory
    BY <2>1 DEF Advice, Seal
  <2>4. QED
    BY <1>13, <2>1, <2>2, <2>3
       DEF OpenAdvisories, RepoTyped, AtWork, WriterShape, WriterPoints
<1>14. CASE WriteAdvisories
  <2>1. writer.repo \in Source /\ writer.key \in Key /\ writer.says \in SUBSET Advisory
    BY <1>14 DEF WriteAdvisories, WriterAt, AtWork, RepoTyped, WriterShape
  <2>2. [says |-> writer.says, seal |-> [says |-> writer.says, key |-> writer.key]]
          \in Advice
    BY <2>1 DEF Advice, Seal
  <2>3. QED
    BY <1>0, <1>14, <2>1, <2>2 DEF WriteAdvisories, Finish, WriterStops, RepoTyped, AtWork
<1>15. CASE Broken
  <2>1. writer.repo \in Source
    BY <1>15, ConstantsAssumption DEF Broken, AtWork, WriterPoints
  <2>2. QED
    BY <1>0, <1>15, <2>1 DEF Broken, WriterStops, RepoTyped, AtWork
<1>16. QED
  BY <1>1, <1>2, <1>3, <1>4, <1>5, <1>6, <1>7, <1>8, <1>9, <1>10, <1>11, <1>12,
     <1>13, <1>14, <1>15, <1>17 DEF Publishing

-----------------------------------------------------------------------------
(* The client.                                                             *)

ClientSteps ==
  \/ Resolve \/ Audit \/ \E p \in Pin : Fetch(p)
  \/ ReadIndex \/ ReadAdvisories \/ Exhausted \/ ReadBlob \/ Add \/ Warn
  \/ AuditSource \/ AuditNext \/ AuditEnd

\* What others do, or nobody.
OtherSteps ==
  \/ Meanwhile
  \/ \E p \in Pin : StoreRemove(p) \/ \E ed \in Edition : StoreAdd(p, ed)
  \/ UNCHANGED vars

LEMMA StepsAreThese ==
  ASSUME [Next]_vars
  PROVE  ClientSteps \/ OtherSteps
BY DEF Next, ClientSteps, OtherSteps

LEMMA SourcesInOrder ==
  /\ Len(Sources) \in Nat
  /\ \A n \in 1..Len(Sources) : Sources[n] \in Source
BY FetchingAssumption

LEMMA QuietReads == Reading(Quiet)
<1>1. 1 \in 1..(Len(Sources) + 1)
  BY SourcesInOrder
<1>2. Quiet \in ClientShape
  BY <1>1, EmptyIndexTyped DEF Quiet, ClientShape, ClientPoints
<1>3. QED
  BY <1>2 DEF Quiet, Reading

LEMMA EndsRead ==
  ASSUME Fail \/ Done
  PROVE  Reading(client')
<1>1. PICK how \in {"failed", "done"} : client' = [Quiet EXCEPT !.outcome = how]
  BY DEF Fail, Done
<1>2. client' \in ClientShape
  BY <1>1, QuietReads DEF Reading, ClientShape
<1>3. client'.pc = "idle" /\ client'.phase = "none"
  BY <1>1 DEF Quiet
<1>4. QED
  BY <1>2, <1>3 DEF Reading

LEMMA LookReads ==
  ASSUME NEW c, Reading(c), c.outcome = "none",
         NEW phase \in {"peek", "fetch"}, NEW p \in Pin
  PROVE  Reading(Look(c, phase, p))
<1>1. 1 \in 1..(Len(Sources) + 1)
  BY SourcesInOrder
<1>2. PICK pc \in {"warn", "index"}, found \in SUBSET Pin :
        Look(c, phase, p) = [c EXCEPT !.pc = pc, !.phase = phase, !.pin = p, !.at = 1,
                                      !.found = found, !.index = EmptyIndex]
  <2>1. c.found \intersect {p} \in SUBSET Pin
    OBVIOUS
  <2>2. QED
    BY <2>1 DEF Look
<1>3. Look(c, phase, p) \in ClientShape
  <2>1. c \in ClientShape
    BY DEF Reading
  <2>2. [c EXCEPT !.index = EmptyIndex, !.found = found] \in ClientShape
    BY <2>1, EmptyIndexTyped DEF ClientShape
  <2>3. Look(c, phase, p) = [[c EXCEPT !.index = EmptyIndex, !.found = found]
          EXCEPT !.pc = pc, !.phase = phase, !.pin = p, !.at = 1]
    BY <1>2, <2>1 DEF ClientShape
  <2>4. pc \in ClientPoints /\ p \in Pin \union {None}
    BY DEF ClientPoints
  <2> DEFINE part == [c EXCEPT !.index = EmptyIndex, !.found = found]
  <2>5. part \in ClientShape /\ Look(c, phase, p) = [part EXCEPT !.pc = pc,
                                   !.phase = phase, !.pin = p, !.at = 1]
    BY <2>2, <2>3
  <2> HIDE DEF part
  <2>6. QED
    BY <1>1, <2>4, <2>5 DEF ClientShape
<1>4. /\ Look(c, phase, p).pc = pc /\ Look(c, phase, p).phase = phase
      /\ Look(c, phase, p).pin = p /\ Look(c, phase, p).outcome = "none"
  BY <1>2 DEF Reading, ClientShape
<1>5. QED
  BY <1>3, <1>4 DEF Reading

LEMMA StartReads ==
  ASSUME NEW cmd, Reading(cmd), cmd.outcome = "none", Start(cmd)
  PROVE  Reading(client')
<1>1. client' = [cmd EXCEPT !.calm = WriterAt("idle"), !.yanks = InForce]
  BY DEF Start
<1>2. WriterAt("idle") \in BOOLEAN /\ InForce \subseteq Source \X Pin \X Edition
  BY DEF WriterAt, InForce
<1>3. QED
  BY <1>1, <1>2 DEF Reading, ClientShape

LEMMA NextSourceReads ==
  ASSUME Reading(client), client.at <= Len(Sources), client.outcome = "none",
         client.phase \in {"list", "peek", "fetch"}, NextSource
  PROVE  Reading(client')
<1>1. client.at + 1 \in 1..(Len(Sources) + 1)
  BY SourcesInOrder DEF Reading, ClientShape
<1>2. QED
  BY <1>1, EmptyIndexTyped DEF NextSource, Reading, ClientShape, ClientPoints

LEMMA ClientTyped ==
  ASSUME Typed, ClientSteps
  PROVE  Reading(client')
<1> USE DEF Typed
<1>q. Quiet.outcome = "none"
  BY DEF Quiet
<1>t. client.at \in Nat /\ Len(Sources) \in Nat /\ (Through <=> ~(client.at <= Len(Sources)))
  BY SourcesInOrder DEF Through, Reading, ClientShape
<1>1. CASE Resolve
  <2> DEFINE cmd == [Quiet EXCEPT !.pc = "index", !.phase = "list", !.found = Stocked]
  <2>1. Stocked \subseteq Pin
    BY DEF Stocked
  <2>2. /\ cmd \in ClientShape
        /\ cmd.phase = "list" /\ cmd.found = Stocked /\ cmd.pc = "index"
        /\ cmd.outcome = "none"
    <3>1. cmd \in ClientShape
      <4>1. Quiet \in ClientShape
        BY QuietReads DEF Reading
      <4>2. [Quiet EXCEPT !.found = Stocked] \in ClientShape
        BY <2>1, <4>1 DEF ClientShape
      <4>3. cmd = [[Quiet EXCEPT !.found = Stocked] EXCEPT !.pc = "index", !.phase = "list"]
        BY DEF Quiet
      <4>4. QED
        BY <4>2, <4>3 DEF ClientShape, ClientPoints
    <3>2. QED
      BY <3>1 DEF Quiet
  <2>3. Start(cmd) /\ Reading(cmd)
    BY <1>1, <2>1, <2>2 DEF Resolve, Reading
  <2> HIDE DEF cmd
  <2>4. QED
    BY <2>2, <2>3, StartReads
<1>2. CASE Audit
  <2> DEFINE all == {<<p, store[p]>> : p \in Stocked}
             cmd == [Quiet EXCEPT !.pc = "audit", !.phase = "audit", !.pins = all]
  <2>1. all \in SUBSET (Pin \X Edition)
    BY DEF Stocked
  <2>0. Audit => Start(cmd)
    BY DEF Audit
  <2> HIDE DEF all
  <2>2. cmd \in ClientShape
    <3>1. Quiet \in ClientShape
      BY QuietReads DEF Reading
    <3>2. [Quiet EXCEPT !.pins = all] \in ClientShape
      BY <2>1, <3>1 DEF ClientShape
    <3>3. cmd = [[Quiet EXCEPT !.pins = all] EXCEPT !.pc = "audit", !.phase = "audit"]
      BY DEF Quiet
    <3>4. QED
      BY <3>2, <3>3 DEF ClientShape, ClientPoints
  <2>3. cmd.phase = "audit" /\ cmd.pc = "audit" /\ cmd.outcome = "none"
    BY DEF Quiet
  <2>4. Start(cmd) /\ Reading(cmd)
    BY <1>2, <2>0, <2>2, <2>3 DEF Reading
  <2> HIDE DEF cmd
  <2>5. QED
    BY <2>3, <2>4, StartReads
<1>3. ASSUME NEW p \in Pin, Fetch(p)
      PROVE  Reading(client')
  <2>1. Reading(Look(Quiet, "fetch", p))
    BY <1>q, QuietReads, LookReads
  <2>2. Look(Quiet, "fetch", p).outcome = "none"
    BY DEF Look, Quiet
  <2>3. QED
    BY <1>3, <2>1, <2>2, StartReads DEF Fetch
<1>4. CASE ReadIndex
  <2>1. /\ client.pc = "index" /\ client.at <= Len(Sources)
        /\ client.outcome = "none" /\ client.phase \in {"list", "peek", "fetch"}
    BY <1>4, <1>t DEF ReadIndex, ClientAt, Reading
  <2>2. CASE Readable(index[Here])
    <3>1. client' = [client EXCEPT !.pc = "advisories", !.index = index[Here]]
      BY <1>4, <2>2 DEF ReadIndex
    <3>2. Here \in Source
      BY <2>1, <1>t, SourcesInOrder DEF Here, Reading, ClientShape
    <3>3. index[Here] \in IndexFile
      BY <2>2, <3>2 DEF Readable, RepoTyped
    <3>4. QED
      BY <2>1, <3>1, <3>3 DEF Reading, ClientShape, ClientPoints
  <2>3. CASE ~Readable(index[Here])
    BY <1>4, <2>1, <2>3, EndsRead, NextSourceReads DEF ReadIndex
  <2>4. QED
    BY <2>2, <2>3
<1>5. CASE ReadAdvisories
  <2>1. /\ client.pc = "advisories" /\ client.at <= Len(Sources)
        /\ client.outcome = "none" /\ client.phase \in {"list", "peek", "fetch"}
    BY <1>5 DEF ReadAdvisories, ClientAt, Reading
  <2>2. CASE Fail
    BY <2>2, EndsRead
  <2>3. CASE ListVersions /\ client.phase = "list"
    <3>1. client.at + 1 \in 1..(Len(Sources) + 1)
      BY <2>1, SourcesInOrder DEF Reading, ClientShape
    <3>2. PICK more \in SUBSET Pin :
            client' = [client EXCEPT !.at = @ + 1, !.pc = "index",
                         !.index = EmptyIndex, !.found = @ \union more]
      BY <2>3 DEF ListVersions
    <3>3. QED
      BY <2>1, <2>3, <3>1, <3>2, EmptyIndexTyped DEF Reading, ClientShape, ClientPoints
  <2>4. CASE NextSource
    BY <2>1, <2>4, NextSourceReads
  <2>5. CASE /\ client.phase # "list" /\ client.index[client.pin] # <<>>
             /\ Locate(Head(client.index[client.pin]))
    <3>1. client.pin \in Pin /\ client.index \in IndexFile
      BY <2>1, <2>5 DEF Reading, ClientShape
    <3>2. Head(client.index[client.pin]) \in Listed
      BY <2>5, <3>1, HeadListed
    <3>3. CASE client' = Look(client, "fetch", client.pin)
      BY <2>1, <3>1, <3>3, LookReads
    <3>4. CASE /\ client.phase # "peek"
               /\ client' = [client EXCEPT !.pc = "blob", !.index = EmptyIndex,
                               !.entry = Head(client.index[client.pin])]
      BY <2>1, <2>5, <3>2, <3>4, EmptyIndexTyped DEF Reading, ClientShape, ClientPoints
    <3>5. QED
      BY <2>2, <2>5, <3>3, <3>4 DEF Locate
  <2>6. QED
    BY <1>5, <2>2, <2>3, <2>4, <2>5 DEF ReadAdvisories
<1>6. CASE Exhausted
  <2>1. CASE Fail
    BY <2>1, EndsRead
  <2>2. CASE client.phase = "list" /\ \E p \in client.found : client' = Look(client, "peek", p)
    BY <1>6, <2>2, LookReads DEF Exhausted, ClientAt, Reading
  <2>3. QED
    BY <1>6, <2>1, <2>2 DEF Exhausted
<1>7. CASE ReadBlob
  <2>1. CASE Fail
    BY <2>1, EndsRead
  <2>2. CASE client.pc = "blob" /\ client' = [client EXCEPT !.pc = "add"]
    BY <2>2 DEF Reading, ClientShape, ClientPoints
  <2>3. QED
    BY <1>7, <2>1, <2>2 DEF ReadBlob, ClientAt
<1>8. CASE Add
  BY <1>8, EndsRead DEF Add
<1>9. CASE Warn
  <2>1. CASE Fail \/ Done
    BY <2>1, EndsRead
  <2>2. CASE client.phase = "peek" /\ client' = Look(client, "fetch", client.pin)
    BY <1>9, <2>2, LookReads DEF Warn, ClientAt, Reading
  <2>3. CASE ~Through /\ client' = [client EXCEPT !.at = @ + 1]
    <3>1. client.pc = "warn" /\ client.at + 1 \in 1..(Len(Sources) + 1)
      BY <1>9, <2>3, <1>t, SourcesInOrder DEF Warn, ClientAt, Reading, ClientShape
    <3>2. QED
      BY <2>3, <3>1 DEF Reading, ClientShape
  <2>4. QED
    BY <1>9, <2>1, <2>2, <2>3 DEF Warn
<1>10. CASE AuditSource
  <2>1. CASE Fail
    BY <2>1, EndsRead
  <2>2. CASE ~Fail
    <3>1. /\ client.pc = "audit" /\ client.at + 1 \in 1..(Len(Sources) + 1)
          /\ client.pins # {}
      BY <1>10, <1>t, SourcesInOrder DEF AuditSource, ClientAt, Reading, ClientShape
    <3>2. PICK t \in client.pins :
            client' = [client EXCEPT !.at = @ + 1,
              !.found = IF Warns(Here, t[1], t[2]) THEN @ \union {t} ELSE @]
      BY <1>10, <2>2, <3>1 DEF AuditSource
    <3>3. PICK found \in SUBSET (Pin \union (Pin \X Edition)) :
            client' = [client EXCEPT !.at = @ + 1, !.found = found]
      BY <3>2 DEF Reading, ClientShape
    <3>4. client.phase # "list"
      BY <3>1 DEF Reading
    <3>5. QED
      BY <3>1, <3>3, <3>4 DEF Reading, ClientShape
  <2>3. QED
    BY <2>1, <2>2
<1>11. CASE AuditNext
  <2>1. client.pc = "audit" /\ 1 \in 1..(Len(Sources) + 1)
    BY <1>11, SourcesInOrder DEF AuditNext, ClientAt
  <2>2. PICK pins \in SUBSET client.pins :
          client' = [client EXCEPT !.at = 1, !.pins = pins]
    BY <1>11 DEF AuditNext
  <2>3. QED
    BY <2>1, <2>2 DEF Reading, ClientShape
<1>12. CASE AuditEnd
  BY <1>12, EndsRead DEF AuditEnd
<1>13. QED
  BY <1>1, <1>2, <1>3, <1>4, <1>5, <1>6, <1>7, <1>8, <1>9, <1>10, <1>11, <1>12
     DEF ClientSteps

LEMMA OthersTyped ==
  ASSUME Typed, OtherSteps
  PROVE  Typed'
<1> USE DEF Typed
<1>1. CASE Meanwhile
  <2>1. PICK yanks \in SUBSET client.yanks :
          client' = [client EXCEPT !.calm = FALSE, !.yanks = yanks]
    BY <1>1 DEF Meanwhile
  <2>2. Reading(client')
    BY <2>1 DEF Reading, ClientShape
  <2>3. QED
    BY <1>1, <2>2, PublishingTyped DEF Meanwhile
<1>2. ASSUME NEW p \in Pin, StoreRemove(p) \/ \E ed \in Edition : StoreAdd(p, ed)
      PROVE  Typed'
  <2>1. /\ UNCHANGED repoVars
        /\ client' = [client EXCEPT !.calm = FALSE]
        /\ store' \in [Pin -> Edition \union {None}]
    BY <1>2 DEF StoreAdd, StoreRemove
  <2>2. Reading(client')
    BY <2>1 DEF Reading, ClientShape
  <2>3. QED
    BY <2>1, <2>2 DEF repoVars, RepoTyped, AtWork
<1>3. CASE UNCHANGED vars
  BY <1>3 DEF vars, repoVars, RepoTyped, AtWork, Reading
<1>4. QED
  BY <1>1, <1>2, <1>3 DEF OtherSteps

\* A client leaves the sources alone, and stores what is an edition.
LEMMA ClientLeaves ==
  ASSUME Typed, ClientSteps
  PROVE  UNCHANGED repoVars /\ store' \in [Pin -> Edition \union {None}]
<1>1. CASE Add
  <2>1. client.entry \in Listed
    BY <1>1 DEF Add, ClientAt, Typed, Reading
  <2>2. QED
    BY <1>1, <2>1 DEF Add, Typed, Listed
<1>2. CASE ~Add
  <2>1. UNCHANGED <<repoVars, store>>
    BY <1>2 DEF ClientSteps, Resolve, Audit, Fetch, Start, ReadIndex, ReadAdvisories,
                Exhausted, ReadBlob, Warn, AuditSource, AuditNext, AuditEnd
  <2>2. QED
    BY <2>1 DEF Typed
<1>3. QED
  BY <1>1, <1>2

LEMMA TypedInit ==
  ASSUME Init
  PROVE  Typed
<1>1. NoCommand \in WriterShape /\ NoCommand.pc = "idle"
  BY EmptyIndexTyped DEF NoCommand, WriterShape
<1>2. QED
  BY <1>1, QuietReads DEF Init, RepoInit, Typed, RepoTyped, AtWork

LEMMA TypedStep ==
  ASSUME Typed, [Next]_vars
  PROVE  Typed'
<1>1. CASE ClientSteps
  BY <1>1, ClientTyped, ClientLeaves DEF repoVars, Typed, RepoTyped, AtWork
<1>2. CASE OtherSteps
  BY <1>2, OthersTyped
<1>3. QED
  BY <1>1, <1>2, StepsAreThese

\* Types, and what the client's local variables are at each point (Fetching,
\* Repository): for any sources, versions, publishers and kills.
THEOREM TypeCorrect == Spec => []TypeOK
<1>1. Typed => TypeOK
  <2> SUFFICES ASSUME Typed PROVE TypeOK
    OBVIOUS
  <2>1. writer.pc \in WriterPoints \union {"idle"}
    BY DEF Typed, RepoTyped, WriterShape
  <2>2. /\ client.pc \in ClientPoints /\ client.at \in 1..(Len(Sources) + 1)
        /\ client.pc \in {"blob", "add"} => client.entry \in Listed
        /\ client.pc \in {"advisories", "blob", "add"} => client.at <= Len(Sources)
    BY DEF Typed, Reading, ClientShape
  <2>3. client.pc \in {"advisories", "blob", "add"} => ~Through
    BY <2>2, SourcesInOrder DEF Through
  <2>4. QED
    BY <2>1, <2>2, <2>3 DEF Typed, RepoTyped, TypeOK, ClientPoints
<1>2. QED
  BY <1>1, TypedInit, TypedStep, PTL DEF Spec

-----------------------------------------------------------------------------
(* What is fetched has been signed.                                        *)

LEMMA EmptyIsSigned == \A entries : AllIn(EmptyIndex, entries)
BY DEF AllIn, EmptyIndex

LEMMA OwnKeyStep ==
  ASSUME Typed, OwnKey, Publishing
  PROVE  OwnKey'
<1>1. CASE writer'.pc \notin {"open_index", "write_index"}
  BY <1>1 DEF OwnKey
<1>2. CASE UNCHANGED writer
  BY <1>2 DEF OwnKey
<1>3. CASE Build /\ writer'.pc \in {"open_index", "write_index"}
  <2>1. writer' # NoCommand /\ writer \in WriterShape
    BY <1>3 DEF NoCommand, Typed, RepoTyped
  <2>2. PICK scan :
          writer' = [writer EXCEPT !.pc = "open_index",
            !.index = [p \in Pin |-> Entries(writer.repo, p, writer.key, scan[p])]]
    BY <1>3, <2>1 DEF Build, WriterStops
  <2>3. /\ writer'.key = writer.key
        /\ writer'.index = [p \in Pin |-> Entries(writer.repo, p, writer.key, scan[p])]
    BY <2>1, <2>2 DEF WriterShape
  <2>4. QED
    BY <2>3 DEF OwnKey, Entries
<1>4. CASE OpenIndex
  <2>1. writer \in WriterShape
    BY DEF Typed, RepoTyped
  <2>2. /\ writer.pc = "open_index"
        /\ writer'.index = writer.index /\ writer'.key = writer.key
    BY <1>4, <2>1 DEF OpenIndex, WriterAt, WriterGoto, WriterShape
  <2>3. QED
    BY <2>2 DEF OwnKey
<1>5. CASE \E r \in Source, k \in Key : InitRepo(r, k)
  <2>1. writer'.index = EmptyIndex
    BY <1>5 DEF InitRepo, Begin, NoCommand
  <2>2. QED
    BY <2>1 DEF OwnKey, EmptyIndex
<1>6. CASE /\ writer'.pc \in {"open_index", "write_index"} /\ writer' # writer
           /\ ~Build /\ ~OpenIndex /\ ~\E r \in Source, k \in Key : InitRepo(r, k)
  <2> USE <1>6
  <2>0. writer \in WriterShape /\ NoCommand.pc = "idle"
    BY DEF Typed, RepoTyped, NoCommand
  <2>1. ASSUME NEW r \in Source, NEW k \in KeysOf(r),
               Reindex(r, k) \/ \E p \in Pin : Unpublish(r, p, k)
        PROVE  FALSE
    BY <2>1 DEF Reindex, Unpublish, Begin, NoCommand
  <2>2. ASSUME NEW o \in Offers, Publish(o[1], o[2], o[3], o[4])
        PROVE  FALSE
    BY <2>2 DEF Publish, Begin, NoCommand
  <2>3. ~Copy /\ ~DeleteArchive
    BY <2>0 DEF Copy, DeleteArchive, WriterGoto, WriterShape
  <2>4. ~WriteIndex /\ ~OpenPub /\ ~WritePub /\ ~OpenAdvisories
    BY <2>0 DEF WriteIndex, OpenPub, WritePub, OpenAdvisories, WriterGoto, WriterShape,
                Finish, WriterStops
  <2>5. ~WriteAdvisories /\ ~Broken
    BY <2>0 DEF WriteAdvisories, Broken, Finish, WriterStops
  <2>6. ASSUME NEW c \in Strays, CopyByHand(c[1], c[2], c[3], c[4])
        PROVE  FALSE
    BY <2>6 DEF CopyByHand
  <2>7. ASSUME NEW n \in Notices, EditAdvisories(n[1], n[2])
        PROVE  FALSE
    BY <2>7 DEF EditAdvisories
  <2>8. QED
    BY <2>1, <2>2, <2>3, <2>4, <2>5, <2>6, <2>7, SomeKeys DEF Publishing
<1>7. QED
  BY <1>1, <1>2, <1>3, <1>4, <1>5, <1>6

LEMMA PublishingVouched ==
  ASSUME Typed, Vouched, Publishing
  PROVE  /\ signed \subseteq signed'
         /\ \A r \in Source : Readable(index'[r]) => AllIn(index'[r], signed')
<1>1. CASE OpenIndex
  <2>1. signed' = signed /\ index' = [index EXCEPT ![writer.repo] = EmptyIndex]
    BY <1>1 DEF OpenIndex
  <2>2. \A r \in Source : index'[r] = index[r] \/ index'[r] = EmptyIndex
    BY <2>1 DEF Typed, RepoTyped
  <2>3. QED
    BY <2>1, <2>2, EmptyIsSigned DEF Vouched
<1>2. CASE WriteIndex
  <2>1. /\ index' = [index EXCEPT ![writer.repo] = writer.index]
        /\ signed' = signed \union
             UNION {{<<p, writer.index[p][n].ed, writer.key>> :
                       n \in DOMAIN writer.index[p]} : p \in Pin}
        /\ writer.pc = "write_index"
    BY <1>2 DEF WriteIndex, WriterAt
  <2>2. signed \subseteq signed'
    BY <2>1
  <2>3. \A r \in Source : index'[r] = index[r] \/ index'[r] = writer.index
    BY <2>1 DEF Typed, RepoTyped
  <2>4. AllIn(writer.index, signed')
    BY <2>1 DEF AllIn, Vouched, OwnKey
  <2>5. \A r \in Source : Readable(index[r]) => AllIn(index[r], signed')
    BY <2>2 DEF Vouched, AllIn
  <2>6. QED
    BY <2>2, <2>3, <2>4, <2>5
<1>3. CASE Broken
  <2>1. signed' = signed /\ \A r \in Source : index'[r] = index[r] \/ index'[r] = Torn
    BY <1>3 DEF Broken, Typed, RepoTyped
  <2>2. QED
    BY <2>1 DEF Vouched, Readable
<1>4. CASE ~(OpenIndex \/ WriteIndex \/ Broken)
  <2>1. UNCHANGED <<index, signed>>
    BY <1>4 DEF Publishing, InitRepo, Reindex, Unpublish, Publish, CopyByHand,
                EditAdvisories, Copy, DeleteArchive, Build, OpenPub, WritePub,
                OpenAdvisories, WriteAdvisories
  <2>2. QED
    BY <2>1 DEF Vouched
<1>5. QED
  BY <1>1, <1>2, <1>3, <1>4

\* What the client has read is a copy of what was on disk, and what it is about
\* to store is the entry it has read.
LEMMA ClientVouched ==
  ASSUME Typed, Vouched, ClientSteps
  PROVE  Vouched'
<1>1. UNCHANGED <<index, signed, writer>>
  BY ClientLeaves DEF repoVars
<1>2. OwnKey' /\ \A r \in Source : Readable(index'[r]) => AllIn(index'[r], signed')
  BY <1>1 DEF Vouched, OwnKey
<1>3. Reading(client) /\ client \in ClientShape
  BY DEF Typed, Reading
<1>4. ASSUME client'.index = EmptyIndex, client'.pc \notin {"blob", "add"}
      PROVE  Vouched'
  BY <1>2, <1>4, EmptyIsSigned DEF Vouched
<1>5. CASE Fail \/ Done
  BY <1>4, <1>5 DEF Fail, Done, Quiet
<1>6. ASSUME NEW c \in ClientShape, NEW phase, NEW p, client' = Look(c, phase, p)
      PROVE  Vouched'
  <2>1. client'.index = EmptyIndex /\ client'.pc \in {"warn", "index"}
    BY <1>6 DEF Look, ClientShape
  <2>2. QED
    BY <1>4, <2>1
<1>8. CASE NextSource \/ ListVersions
  <2>1. client'.index = EmptyIndex /\ client'.pc = "index"
    BY <1>3, <1>8 DEF NextSource, ListVersions, ClientShape
  <2>2. QED
    BY <1>4, <2>1
<1>9. ASSUME client'.index = client.index, client'.pc \notin {"blob", "add"}
      PROVE  Vouched'
  BY <1>1, <1>2, <1>9 DEF Vouched
<1>q. Quiet \in ClientShape /\ Quiet.index = EmptyIndex
  BY QuietReads DEF Reading, Quiet
<1>10. CASE Resolve
  <2>1. client'.index = EmptyIndex /\ client'.pc = "index"
    BY <1>10 DEF Resolve, Start, Quiet
  <2>2. QED
    BY <1>4, <2>1
<1>11. CASE Audit
  <2>1. client'.index = EmptyIndex /\ client'.pc = "audit"
    BY <1>11 DEF Audit, Start, Quiet
  <2>2. QED
    BY <1>4, <2>1
<1>12. ASSUME NEW p \in Pin, Fetch(p)
       PROVE  Vouched'
  <2>1. client'.index = EmptyIndex /\ client'.pc \in {"warn", "index"}
    BY <1>12 DEF Fetch, Look, Start, Quiet
  <2>2. QED
    BY <1>4, <2>1
<1>13. CASE ReadIndex
  <2>1. CASE Readable(index[Here])
    <3>1. client' = [client EXCEPT !.pc = "advisories", !.index = index[Here]]
      BY <1>13, <2>1 DEF ReadIndex
    <3>2. client.at \in 1..Len(Sources)
      BY <1>3, <1>13, SourcesInOrder DEF ReadIndex, Through, ClientShape
    <3>3. Here \in Source
      BY <3>2, SourcesInOrder DEF Here
    <3>4. client'.index = index[Here] /\ client'.pc = "advisories"
      BY <1>3, <3>1 DEF ClientShape
    <3>5. QED
      BY <1>1, <1>2, <2>1, <3>3, <3>4 DEF Vouched
  <2>2. CASE ~Readable(index[Here])
    BY <1>5, <1>8, <1>13, <2>2 DEF ReadIndex
  <2>3. QED
    BY <2>1, <2>2
<1>14. CASE ReadAdvisories
  <2>1. CASE Fail \/ ListVersions \/ NextSource
    BY <1>5, <1>8, <2>1
  <2>2. CASE /\ client.phase # "list" /\ client.index[client.pin] # <<>>
             /\ Locate(Head(client.index[client.pin]))
    <3> DEFINE entry == Head(client.index[client.pin])
    <3>1. client.pin \in Pin /\ client.index \in IndexFile
      BY <1>3, <1>14, <2>2 DEF ReadAdvisories, ClientAt, Reading, ClientShape
    <3>2. 1 \in DOMAIN client.index[client.pin] /\ entry = client.index[client.pin][1]
      BY <2>2, <3>1, HeadListed
    <3>3. <<client.pin, entry.ed, entry.key>> \in signed
      BY <3>1, <3>2 DEF Vouched, AllIn
    <3>4. CASE Fail \/ client' = Look(client, "fetch", client.pin)
      BY <1>3, <1>5, <1>6, <3>4
    <3>5. CASE /\ entry.key \in Trusted
               /\ client' = [client EXCEPT !.pc = "blob", !.entry = entry,
                                           !.index = EmptyIndex]
      <4> HIDE DEF entry
      <4>1. /\ client'.index = EmptyIndex /\ client'.entry = entry
            /\ client'.pin = client.pin
        BY <1>3, <3>5 DEF ClientShape
      <4>2. QED
        BY <1>1, <1>2, <3>3, <3>5, <4>1, EmptyIsSigned DEF Vouched
    <3>6. QED
      BY <2>2, <3>4, <3>5 DEF Locate
  <2>3. QED
    BY <1>14, <2>1, <2>2 DEF ReadAdvisories
<1>15. CASE Exhausted
  BY <1>3, <1>5, <1>6, <1>15 DEF Exhausted
<1>16. CASE ReadBlob
  <2>1. CASE client.pc = "blob" /\ client' = [client EXCEPT !.pc = "add"]
    <3>1. /\ client'.index = client.index /\ client'.entry = client.entry
          /\ client'.pin = client.pin
      BY <1>3, <2>1 DEF ClientShape
    <3>2. QED
      BY <1>1, <1>2, <2>1, <3>1 DEF Vouched
  <2>2. QED
    BY <1>5, <1>16, <2>1 DEF ReadBlob, ClientAt
<1>17. CASE Add \/ AuditEnd
  BY <1>5, <1>17 DEF Add, AuditEnd
<1>18. CASE Warn
  <2>1. CASE client.pc = "warn" /\ client' = [client EXCEPT !.at = @ + 1]
    BY <1>3, <1>9, <2>1 DEF ClientShape
  <2>2. QED
    BY <1>3, <1>5, <1>6, <1>18, <2>1 DEF Warn, ClientAt
<1>19. CASE AuditSource
  <2>1. CASE ~Fail
    <3>1. client.pc = "audit" /\ client'.index = client.index /\ client'.pc = client.pc
      BY <1>3, <1>19, <2>1 DEF AuditSource, ClientAt, ClientShape
    <3>2. QED
      BY <1>9, <3>1
  <2>2. QED
    BY <1>5, <2>1
<1>20. CASE AuditNext
  <2>1. client.pc = "audit" /\ client'.index = client.index /\ client'.pc = client.pc
    BY <1>3, <1>20 DEF AuditNext, ClientAt, ClientShape
  <2>2. QED
    BY <1>9, <2>1
<1>21. QED
  BY <1>10, <1>11, <1>12, <1>13, <1>14, <1>15, <1>16, <1>17, <1>18, <1>19, <1>20
     DEF ClientSteps

LEMMA VouchedInit ==
  ASSUME Init
  PROVE  Vouched
BY EmptyIsSigned DEF Init, RepoInit, NoCommand, Quiet, Vouched, OwnKey, Readable

LEMMA VouchedStep ==
  ASSUME Typed, Vouched, [Next]_vars
  PROVE  Vouched'
<1>1. CASE ClientSteps
  BY <1>1, ClientVouched
<1>2. CASE OtherSteps
  <2>1. client \in ClientShape
    BY DEF Typed, Reading
  <2>2. /\ client'.pc = client.pc /\ client'.index = client.index
        /\ client'.pin = client.pin /\ client'.entry = client.entry
    BY <1>2, <2>1 DEF OtherSteps, Meanwhile, StoreAdd, StoreRemove, vars, ClientShape
  <2>3. CASE Publishing
    <3>1. AllIn(client'.index, signed')
      BY <2>2, <2>3, PublishingVouched DEF Vouched, AllIn
    <3>2. QED
      BY <2>2, <2>3, <3>1, PublishingVouched, OwnKeyStep DEF Vouched
  <2>4. CASE UNCHANGED repoVars
    BY <2>2, <2>4 DEF Vouched, OwnKey, repoVars
  <2>5. QED
    BY <1>2, <2>3, <2>4 DEF OtherSteps, Meanwhile, StoreAdd, StoreRemove, vars
<1>3. QED
  BY <1>1, <1>2, StepsAreThese

\* What a fetch answers with has been vouched for by a trusted key under this
\* id and version, whatever publishers do between index, archive and store
\* (locate_verified_pin, fetch_from_source).
THEOREM FetchesAreSigned == Spec => FetchedIsSigned
<1>1. ASSUME Typed, Vouched, Next, ClientAt("add"), client'.outcome = "done"
      PROVE  \E k \in Trusted : <<client.pin, store'[client.pin], k>> \in signed
  <2>1. /\ client.pc = "add" /\ client \in ClientShape /\ client.outcome = "none"
        /\ client.pin \in Pin
    BY <1>1 DEF ClientAt, Typed, Reading
  <2>2. ~OtherSteps
    BY <1>1, <2>1 DEF OtherSteps, Meanwhile, StoreAdd, StoreRemove, vars, ClientShape
  <2>3. Add
    BY <1>1, <2>1, <2>2, StepsAreThese
       DEF ClientSteps, Resolve, Audit, Fetch, Start, ReadIndex, ReadAdvisories,
           Exhausted, ReadBlob, Warn, AuditSource, AuditNext, AuditEnd, ClientAt
  <2>4. ~Fail
    BY <1>1 DEF Fail, Quiet
  <2>5. store'[client.pin] = client.entry.ed
    BY <1>1, <2>1, <2>3, <2>4 DEF Add, Typed
  <2>6. QED
    BY <1>1, <2>1, <2>5 DEF Vouched
<1>2. QED
  BY <1>1, TypedInit, TypedStep, VouchedInit, VouchedStep, PTL DEF Spec, FetchedIsSigned

-----------------------------------------------------------------------------
(* No yank is overlooked.                                                  *)

\* No publisher's command is killed between emptying advisories.toml and
\* having filled it again.
Refilled == "write_advisories" \notin BreakAt

LEMMA AdviceIsSome == None \notin Advice /\ Torn \notin Advice
BY ConstantsAssumption

\* Publishers keep a yank, unless they edit it away.
LEMMA YanksAreKept ==
  ASSUME Typed, Refilled, Publishing, NEW t, t[1] \in Source, Stands(t),
         (\E n \in Notices : EditAdvisories(n[1], n[2]))
           => advisories'[t[1]] = advisories[t[1]]
  PROVE  Stands(t)'
<1> USE DEF Typed
<1>1. CASE WriteAdvisories
  <2> DEFINE new == [says |-> writer.says,
                     seal |-> [says |-> writer.says, key |-> writer.key]]
  <2>1. /\ writer.pc = "write_advisories" /\ writer.repo \in Source
        /\ writer.key \in Key /\ writer.says \in SUBSET Advisory
    BY <1>1 DEF WriteAdvisories, WriterAt, AtWork, RepoTyped, WriterShape
  <2>2. new \in Advice /\ new.says = writer.says
    BY <2>1 DEF Advice, Seal
  <2>3. advisories' = [advisories EXCEPT ![writer.repo] = new]
    BY <1>1 DEF WriteAdvisories
  <2> HIDE DEF new
  <2>4. CASE t[1] = writer.repo
    <3>1. Yanked(writer.says, t[2], t[3])
      BY <2>1, <2>4 DEF Stands, AtWork, Yanked
    <3>2. advisories'[t[1]] = new
      BY <2>1, <2>3, <2>4 DEF RepoTyped
    <3>3. QED
      BY <2>2, <3>1, <3>2 DEF Stands, Yanked
  <2>5. CASE t[1] # writer.repo
    <3>1. advisories'[t[1]] = advisories[t[1]]
      BY <2>3, <2>5 DEF RepoTyped
    <3>2. QED
      BY <2>5, <3>1 DEF Stands, Yanked
  <2>6. QED
    BY <2>4, <2>5
<1>2. CASE OpenAdvisories
  <2>1. /\ writer.pc = "open_advisories" /\ writer.repo \in Source
        /\ writer \in WriterShape
    BY <1>2 DEF OpenAdvisories, WriterAt, AtWork, RepoTyped
  <2>2. /\ advisories[t[1]] \in Advice
        /\ Yanked(advisories[t[1]].says, t[2], t[3])
    BY <2>1 DEF Stands
  <2>3. /\ writer'.pc = "write_advisories" /\ writer'.repo = writer.repo
        /\ writer'.says = advisories[writer.repo].says
        /\ advisories' = [advisories EXCEPT ![writer.repo] =
                            [says |-> {}, seal |-> None]]
    BY <1>2, <2>1 DEF OpenAdvisories, WriterShape
  <2>4. CASE t[1] = writer.repo
    BY <2>2, <2>3, <2>4 DEF Stands, Yanked
  <2>5. CASE t[1] # writer.repo
    <3>1. advisories'[t[1]] = advisories[t[1]]
      BY <2>3, <2>5 DEF RepoTyped
    <3>2. QED
      BY <2>2, <3>1 DEF Stands, Yanked
  <2>6. QED
    BY <2>4, <2>5
<1>3. CASE ~WriteAdvisories /\ ~OpenAdvisories
  <2>1. CASE \E n \in Notices : EditAdvisories(n[1], n[2])
    <3>1. writer.pc = "idle"
      BY <2>1 DEF EditAdvisories, Act, WriterAt
    <3>2. QED
      BY <2>1, <3>1 DEF Stands, Yanked
  <2>2. CASE Broken
    <3>1. writer.pc # "write_advisories" /\ UNCHANGED advisories
      BY <2>2 DEF Broken, Refilled, WriterAt
    <3>2. QED
      BY <3>1 DEF Stands, Yanked
  <2>3. CASE ~Broken /\ ~\E n \in Notices : EditAdvisories(n[1], n[2])
    <3>1. UNCHANGED advisories
      BY <1>3, <2>3 DEF Publishing, InitRepo, Reindex, Unpublish, Publish, CopyByHand,
                Copy, DeleteArchive, Build, OpenIndex, WriteIndex, OpenPub, WritePub
    <3>2. writer.pc # "write_advisories"
      BY <1>3, <2>3 DEF Publishing, InitRepo, Reindex, Unpublish, Publish, CopyByHand,
                Begin, Act, Copy, DeleteArchive, Build, OpenIndex, WriteIndex, OpenPub,
                WritePub, WriterAt
    <3>3. QED
      BY <3>1, <3>2 DEF Stands, Yanked
  <2>4. QED
    BY <2>1, <2>2, <2>3
<1>4. QED
  BY <1>1, <1>2, <1>3

\* Yanks in force are there to be read.
LEMMA InForceStands ==
  ASSUME Typed
  PROVE  \A t \in InForce : Stands(t)
<1> SUFFICES ASSUME NEW t \in InForce
             PROVE  Stands(t)
  OBVIOUS
<1>1. t[1] \in Source /\ Verified(t[1]) /\ Yanks(t[1], t[2], t[3])
  BY DEF InForce
<1>2. advisories[t[1]] \in Advice
  BY <1>1 DEF Verified, Yanks, Typed, RepoTyped
<1>3. QED
  BY <1>1, <1>2 DEF Stands, Yanked, Yanks

\* What stands is seen by a client that reads verified advisories.
LEMMA StandingIsSeen ==
  ASSUME Typed, NEW r \in Source, NEW p, NEW ed, Stands(<<r, p, ed>>), Verified(r)
  PROVE  Yanks(r, p, ed)
<1>1. CASE /\ advisories[r] \in Advice /\ Yanked(advisories[r].says, p, ed)
  BY <1>1, AdviceIsSome DEF Yanks, Yanked
<1>2. CASE writer.pc = "write_advisories" /\ writer.repo = r
  <2>1. advisories[r] \in Advice /\ advisories[r].seal = None
    BY <1>2 DEF Typed, AtWork
  <2>2. QED
    BY <2>1, AdviceIsSome DEF Verified, Sealed
<1>3. QED
  BY <1>1, <1>2 DEF Stands

LEMMA ClientStanding ==
  ASSUME Typed, Standing, ClientSteps
  PROVE  Standing'
<1>1. UNCHANGED <<advisories, writer>>
  BY ClientLeaves DEF repoVars
<1>2. \A t : Stands(t)' <=> Stands(t)
  BY <1>1 DEF Stands, Yanked
<1>3. Reading(client) /\ client \in ClientShape
  BY DEF Typed, Reading
<1>4. \A t \in client'.yanks : Stands(t)
  <2>1. ASSUME NEW cmd \in ClientShape, Start(cmd)
        PROVE  client'.yanks = InForce
    BY <2>1 DEF Start, ClientShape
  <2>2. CASE client'.yanks = InForce
    BY <2>2, InForceStands
  <2>3. CASE client'.yanks \subseteq client.yanks
    BY <2>3 DEF Standing
  <2>q. Quiet \in ClientShape /\ Quiet.yanks = {}
    BY QuietReads DEF Reading, Quiet
  <2>4. CASE Resolve \/ Audit
    BY <2>2, <2>4 DEF Resolve, Audit, Start, Quiet
  <2>5. CASE \E p \in Pin : Fetch(p)
    BY <2>2, <2>5 DEF Fetch, Start, Look, Quiet
  <2>6. CASE Fail \/ Done
    BY <2>6 DEF Fail, Done, Quiet
  <2>7. CASE \E phase, p : client' = Look(client, phase, p)
    BY <1>3, <2>3, <2>7 DEF Look, ClientShape
  <2>8. CASE NextSource \/ ListVersions
    BY <1>3, <2>3, <2>8 DEF NextSource, ListVersions, ClientShape
  <2>9. CASE ReadIndex
    BY <1>3, <2>3, <2>6, <2>8, <2>9 DEF ReadIndex, ClientShape
  <2>10. CASE ReadAdvisories
    <3>1. CASE \E entry : client' = [client EXCEPT !.pc = "blob", !.entry = entry,
                                        !.index = EmptyIndex]
      BY <1>3, <2>3, <3>1 DEF ClientShape
    <3>2. QED
      BY <2>6, <2>7, <2>8, <2>10, <3>1 DEF ReadAdvisories, Locate
  <2>11. CASE Exhausted
    BY <2>6, <2>7, <2>11 DEF Exhausted
  <2>12. CASE ReadBlob
    BY <1>3, <2>3, <2>6, <2>12 DEF ReadBlob, ClientShape
  <2>13. CASE Add \/ AuditEnd
    BY <2>6, <2>13 DEF Add, AuditEnd
  <2>14. CASE Warn
    BY <1>3, <2>3, <2>6, <2>7, <2>14 DEF Warn, ClientShape
  <2>15. CASE AuditSource
    BY <1>3, <2>3, <2>6, <2>15 DEF AuditSource, ClientShape
  <2>16. CASE AuditNext
    BY <1>3, <2>3, <2>16 DEF AuditNext, ClientShape
  <2>17. QED
    BY <2>4, <2>5, <2>9, <2>10, <2>11, <2>12, <2>13, <2>14, <2>15, <2>16
       DEF ClientSteps
<1>5. client'.pc \in {"blob", "add"} =>
        <<Here', client'.pin, client'.entry.ed>> \notin client'.yanks
  <2> SUFFICES ASSUME client'.pc \in {"blob", "add"}
               PROVE  <<Here', client'.pin, client'.entry.ed>> \notin client'.yanks
    OBVIOUS
  <2>1. ~Fail /\ ~Done
    BY DEF Fail, Done, Quiet
  <2>2. \A phase, p : client' # Look(client, phase, p)
    BY <1>3 DEF Look, ClientShape
  <2>3. ~NextSource /\ ~ListVersions
    BY <1>3 DEF NextSource, ListVersions, ClientShape
  <2>4. ~Resolve /\ ~Audit /\ \A p \in Pin : ~Fetch(p)
    BY DEF Resolve, Audit, Fetch, Start, Look, Quiet
  <2>5. ~ReadIndex /\ ~Exhausted /\ ~Add /\ ~Warn /\ ~AuditSource /\ ~AuditNext
          /\ ~AuditEnd
    BY <1>3, <2>1, <2>2, <2>3 DEF ReadIndex, Exhausted, Add, Warn, AuditSource,
       AuditNext, AuditEnd, ClientAt, ClientShape
  <2>6. CASE ReadBlob
    <3>1. client.pc = "blob" /\ client' = [client EXCEPT !.pc = "add"]
      BY <2>1, <2>6 DEF ReadBlob, ClientAt
    <3>2. /\ client'.at = client.at /\ client'.pin = client.pin
          /\ client'.entry = client.entry /\ client'.yanks = client.yanks
      BY <1>3, <3>1 DEF ClientShape
    <3>3. QED
      BY <3>1, <3>2 DEF Standing, Here
  <2>7. CASE ReadAdvisories
    <3> DEFINE entry == Head(client.index[client.pin])
    <3>1. /\ Verified(Here) /\ ~Yanks(Here, client.pin, entry.ed)
          /\ client' = [client EXCEPT !.pc = "blob", !.entry = entry,
                                      !.index = EmptyIndex]
      BY <2>1, <2>2, <2>3, <2>7 DEF ReadAdvisories, Locate
    <3> HIDE DEF entry
    <3>2. /\ client'.at = client.at /\ client'.pin = client.pin
          /\ client'.entry = entry /\ client'.yanks = client.yanks
      BY <1>3, <3>1 DEF ClientShape
    <3>3. client.at \in 1..Len(Sources)
      BY <1>3, <2>7, SourcesInOrder DEF ReadAdvisories, ClientAt, Reading, ClientShape
    <3>4. Here \in Source
      BY <3>3, SourcesInOrder DEF Here
    <3>5. ~Stands(<<Here, client.pin, entry.ed>>)
      BY <3>1, <3>4, StandingIsSeen
    <3>6. QED
      BY <3>2, <3>5 DEF Standing, Here
  <2>8. QED
    BY <2>4, <2>5, <2>6, <2>7 DEF ClientSteps
<1>6. QED
  BY <1>2, <1>4, <1>5 DEF Standing

LEMMA OthersStanding ==
  ASSUME Typed, Refilled, Standing, OtherSteps
  PROVE  Standing'
<1>1. client \in ClientShape
  BY DEF Typed, Reading
<1>2. /\ client'.pc = client.pc /\ client'.at = client.at
      /\ client'.pin = client.pin /\ client'.entry = client.entry
      /\ client'.yanks \subseteq client.yanks
  <2>1. CASE UNCHANGED client
    BY <2>1
  <2>2. CASE \E yanks \in SUBSET client.yanks :
               client' = [client EXCEPT !.calm = FALSE, !.yanks = yanks]
    BY <1>1, <2>2 DEF ClientShape
  <2>3. CASE client' = [client EXCEPT !.calm = FALSE]
    BY <1>1, <2>3 DEF ClientShape
  <2>4. CASE Meanwhile
    BY <2>2, <2>4 DEF Meanwhile
  <2>5. QED
    BY <2>1, <2>3, <2>4 DEF OtherSteps, StoreAdd, StoreRemove, vars
<1>3. \A t \in client'.yanks : Stands(t)'
  <2>1. CASE Meanwhile
    <3> SUFFICES ASSUME NEW t \in client'.yanks
                 PROVE  Stands(t)'
      OBVIOUS
    <3>1. t \in client.yanks /\ t[1] \in Source /\ Stands(t)
      BY <1>1, <1>2 DEF Standing, ClientShape
    <3>2. ASSUME NEW n \in Notices, EditAdvisories(n[1], n[2])
          PROVE  advisories'[t[1]] = advisories[t[1]]
      <4>1. client' = [client EXCEPT !.calm = FALSE,
              !.yanks = {u \in @ : advisories'[u[1]] = advisories[u[1]]}]
        BY <2>1, <3>2 DEF Meanwhile
      <4>2. QED
        BY <1>1, <4>1 DEF ClientShape
    <3>3. QED
      BY <2>1, <3>1, <3>2, YanksAreKept DEF Meanwhile
  <2>2. CASE UNCHANGED repoVars
    BY <1>2, <2>2 DEF Standing, Stands, Yanked, repoVars
  <2>3. QED
    BY <2>1, <2>2 DEF OtherSteps, StoreAdd, StoreRemove, vars
<1>4. QED
  BY <1>2, <1>3 DEF Standing, Here

\* An edition yanked when a resolve or fetch begins is not put into the store by
\* it, through all rewriting of the files in place (check_advisories_for_fetch,
\* sign_advisories_in_dir), for publishers that are not killed in the middle
\* of writing advisories.toml.
THEOREM YanksAreHeard ==
  ASSUME Refilled
  PROVE  Spec => YanksStand
<1>1. Init => Standing
  BY DEF Init, Quiet, Standing
<1>2. Typed /\ Standing /\ [Next]_vars => Standing'
  BY ClientStanding, OthersStanding, StepsAreThese
<1>3. Standing /\ Stores => <<Here, client.pin, client.entry.ed>> \notin client.yanks
  BY DEF Standing, Stores, ClientAt
<1>4. QED
  BY <1>1, <1>2, <1>3, TypedInit, TypedStep, PTL DEF Spec, YanksStand

-----------------------------------------------------------------------------
(* What publishers leave behind.                                           *)

Indexing == {"open_index", "write_index", "open_pub", "write_pub",
             "open_advisories", "write_advisories"}

\* The entries of i are archives of source r as they are, under key k.
Faithful(i, r, k) ==
  \A p \in Pin : \A n \in DOMAIN i[p] :
    files[r][p][i[p][n].spot] = i[p][n].ed /\ i[p][n].key = k

\* Only archives under odd names are left of the pin, or in its list.
Gone(r, p) == \A s \in Spot : s # "odd" => files[r][p][s] = None

OddOnly(i, p) == \A n \in DOMAIN i[p] : i[p][n].spot = "odd"

\* What a command has brought about when it is at each of its points.
Underway ==
  /\ writer.pc # "idle" /\ writer.op # "index" => writer.repo \in unsettled
  /\ writer.pc \in {"copy", "delete"} => writer.op # "index"
  /\ writer.pc \in Indexing => Faithful(writer.index, writer.repo, writer.key)
  /\ writer.pc \in {"open_pub", "write_pub", "open_advisories", "write_advisories"} =>
       index[writer.repo] = writer.index
  /\ writer.pc \in {"open_advisories", "write_advisories"} =>
       pub[writer.repo] = writer.key

Unpublished ==
  writer.op = "unpublish" =>
    /\ writer.pin \in Pin /\ writer.pc # "copy"
    /\ writer.pc = "build" => Gone(writer.repo, writer.pin)
    /\ writer.pc \in Indexing => OddOnly(writer.index, writer.pin)

\* Sources whose index is not being rewritten.
Resting(r) == writer.pc \in Indexing => writer.repo # r

Tidy ==
  /\ pub \in [Source -> Key \union {None, Torn}]
  /\ Underway
  /\ \A r \in Source \ unsettled :
       /\ advisories[r] # Torn
       /\ Resting(r) /\ index[r] # None => Validates(r)

LEMMA IndexIsSome == \A i \in IndexFile : Readable(i)
BY ConstantsAssumption DEF Readable

\* A command has begun that leaves the source as it was.
LEMMA BegunTidy ==
  ASSUME Typed, Tidy, NEW r \in Source, NEW k \in Key, NEW p, NEW ed,
         NEW op \in {"init", "publish", "unpublish", "index"},
         NEW pc \in {"copy", "delete", "build", "open_index"},
         Begin(op, r, k, p, ed, pc),
         pc \in {"copy", "delete"} \/ op # "index" => r \in unsettled',
         pc \in {"copy", "delete"} => op # "index",
         pc = "open_index" => op = "init",
         unsettled \subseteq unsettled', UNCHANGED <<index, pub, advisories>>,
         \A q \in Source \ unsettled' : files'[q] = files[q]
  PROVE  Tidy'
<1>1. /\ writer'.pc = pc /\ writer'.op = op /\ writer'.repo = r
      /\ writer'.index = EmptyIndex /\ writer.pc = "idle"
  BY DEF Begin, NoCommand, Act, WriterAt
<1>2. Underway'
  BY <1>1 DEF Underway, Faithful, EmptyIndex, Indexing
<1>3. ASSUME NEW q \in Source \ unsettled'
      PROVE  /\ advisories'[q] # Torn
             /\ Resting(q)' /\ index'[q] # None => Validates(q)'
  <2>1. advisories[q] # Torn /\ (index[q] # None => Validates(q))
    BY <1>1 DEF Tidy, Resting, Indexing
  <2>2. Validates(q) => Validates(q)'
    BY DEF Validates
  <2>3. QED
    BY <2>1, <2>2
<1>4. QED
  BY <1>2, <1>3 DEF Tidy

LEMMA UnchangedTidy ==
  ASSUME Tidy, UNCHANGED <<files, index, pub, advisories, writer, unsettled>>
  PROVE  Tidy'
BY DEF Tidy, Underway, Resting, Validates, Faithful

\* The steps of a command change its own source only.
LEMMA AtWorkTidy ==
  ASSUME Typed, Tidy, NEW r \in Source, writer.repo = r, Underway',
         pub' \in [Source -> Key \union {None, Torn}],
         \A q \in Source \ {r} :
           /\ UNCHANGED <<files[q], index[q], pub[q], advisories[q]>>
           /\ q \in unsettled => q \in unsettled',
         r \notin unsettled' =>
           /\ advisories'[r] # Torn
           /\ Resting(r)' /\ index'[r] # None => Validates(r)'
  PROVE  Tidy'
<1> SUFFICES ASSUME NEW q \in Source \ unsettled'
             PROVE  /\ advisories'[q] # Torn
                    /\ Resting(q)' /\ index'[q] # None => Validates(q)'
  BY DEF Tidy
<1>1. CASE q = r
  BY <1>1
<1>2. CASE q # r
  <2>1. advisories[q] # Torn /\ (index[q] # None => Validates(q))
    BY <1>2 DEF Tidy, Resting
  <2>2. Validates(q) => Validates(q)'
    BY <1>2 DEF Validates
  <2>3. QED
    BY <1>2, <2>1, <2>2
<1>3. QED
  BY <1>1, <1>2

\* What a finished command leaves is what validate accepts.
LEMMA FinishedValidates ==
  ASSUME Typed, Tidy, NEW r \in Source, writer.repo = r,
         writer.pc \in {"write_pub", "write_advisories"},
         UNCHANGED <<files, index>>, pub'[r] = writer.key,
         \/ advisories'[r] = None
         \/ /\ advisories'[r] \in Advice /\ Sealed(advisories'[r])
            /\ advisories'[r].seal.key = writer.key
  PROVE  advisories'[r] # Torn /\ Validates(r)'
<1>1. index[r] = writer.index /\ Faithful(writer.index, r, writer.key)
  BY DEF Tidy, Underway, Indexing
<1>2. Readable(index[r])
  BY <1>1, IndexIsSome DEF Typed, RepoTyped, WriterShape
<1>3. advisories'[r] # Torn
  BY AdviceIsSome, ConstantsAssumption
<1>4. QED
  BY <1>1, <1>2, <1>3 DEF Validates, Faithful

LEMMA PublishingTidy ==
  ASSUME Typed, Tidy, Publishing
  PROVE  Tidy'
<1> USE DEF Typed
<1>i. NoCommand.pc = "idle" /\ writer \in WriterShape
  BY DEF NoCommand, RepoTyped
<1>u. ASSUME writer' = NoCommand
      PROVE  Underway' /\ \A r \in Source : Resting(r)'
  BY <1>i, <1>u DEF Underway, Resting, Indexing
<1>1. ASSUME NEW r \in Source, NEW k \in KeysOf(r), InitRepo(r, k)
      PROVE  Tidy'
  BY <1>1, SomeKeys, BegunTidy DEF InitRepo
<1>2. ASSUME NEW r \in Source, NEW k \in KeysOf(r), Reindex(r, k)
      PROVE  Tidy'
  BY <1>2, SomeKeys, BegunTidy DEF Reindex
<1>3. ASSUME NEW r \in Source, NEW k \in KeysOf(r), NEW p \in Pin, Unpublish(r, p, k)
      PROVE  Tidy'
  BY <1>3, SomeKeys, BegunTidy DEF Unpublish
<1>4. ASSUME NEW o \in Offers, Publish(o[1], o[2], o[3], o[4])
      PROVE  Tidy'
  <2>0. o[1] \in Source /\ o[2] \in Pin /\ o[3] \in Edition /\ o[4] \in Key
    BY ConstantsAssumption
  <2>1. \A q \in Source : q # o[1] => files'[q] = files[q]
    BY <1>4, <2>0 DEF Publish, RepoTyped
  <2>2. QED
    BY <1>4, <2>0, <2>1, BegunTidy DEF Publish
<1>5. ASSUME NEW c \in Strays, CopyByHand(c[1], c[2], c[3], c[4])
      PROVE  Tidy'
  <2>0. c[1] \in Source
    BY ConstantsAssumption
  <2>1. /\ writer.pc = "idle" /\ UNCHANGED <<index, pub, advisories, writer>>
        /\ unsettled' = unsettled \union {c[1]}
        /\ \A q \in Source : q # c[1] => files'[q] = files[q]
    BY <1>5, <2>0 DEF CopyByHand, Act, WriterAt, RepoTyped
  <2>2. Underway'
    BY <2>1 DEF Underway, Indexing
  <2>3. QED
    BY <2>1, <2>2 DEF Tidy, Validates, Resting
<1>6. ASSUME NEW n \in Notices, EditAdvisories(n[1], n[2])
      PROVE  Tidy'
  <2>0. n[1] \in Source
    BY ConstantsAssumption
  <2>1. /\ writer.pc = "idle" /\ UNCHANGED <<files, index, pub, writer>>
        /\ unsettled' = unsettled \union {n[1]}
        /\ \A q \in Source : q # n[1] => advisories'[q] = advisories[q]
    BY <1>6, <2>0 DEF EditAdvisories, Act, WriterAt, RepoTyped
  <2>2. Underway'
    BY <2>1 DEF Underway, Indexing
  <2>3. QED
    BY <2>1, <2>2 DEF Tidy, Validates, Resting
<1>r. PICK r : r = writer.repo
  OBVIOUS
<1>7. CASE Copy \/ DeleteArchive
  <2>1. /\ writer.pc \in {"copy", "delete"} /\ r \in Source /\ r \in unsettled
        /\ writer.op # "index"
    BY <1>r, <1>7 DEF Copy, DeleteArchive, WriterAt, AtWork, Tidy, Underway
  <2>2. /\ writer' = writer \/ writer' = [writer EXCEPT !.pc = "build"]
        /\ UNCHANGED <<index, pub, advisories, unsettled>>
        /\ \A q \in Source : q # r => files'[q] = files[q]
    BY <1>r, <1>7, <1>i, <2>1 DEF Copy, DeleteArchive, WriterGoto, WriterAt, RepoTyped, WriterShape
  <2>3. Underway'
    BY <1>r, <1>i, <2>1, <2>2 DEF Underway, WriterShape, Indexing
  <2>4. QED
    BY <1>r, <2>1, <2>2, <2>3, AtWorkTidy DEF Tidy
<1>8. CASE Build
  <2>1. /\ writer.pc = "build" /\ r \in Source
        /\ UNCHANGED <<files, index, pub, advisories, unsettled>>
    BY <1>r, <1>8 DEF Build, WriterAt, AtWork
  <2>2. Resting(r)
    BY <1>r, <2>1 DEF Resting, Indexing
  <2>3. CASE writer' = NoCommand
    <3>1. r \notin unsettled => advisories[r] # Torn /\ (index[r] # None => Validates(r))
      BY <2>1, <2>2 DEF Tidy
    <3>2. Validates(r) => Validates(r)'
      BY <2>1 DEF Validates
    <3>3. QED
      BY <1>r, <1>u, <2>1, <2>3, <3>1, <3>2, AtWorkTidy DEF Tidy
  <2>4. CASE writer' # NoCommand
    <3>1. PICK scan :
            writer' = [writer EXCEPT !.pc = "open_index",
              !.index = [p \in Pin |-> Entries(writer.repo, p, writer.key, scan[p])]]
      BY <1>8, <2>4 DEF Build, WriterStops
    <3>2. /\ writer'.pc = "open_index" /\ writer'.repo = r /\ writer'.key = writer.key
          /\ writer'.op = writer.op
          /\ writer'.index = [p \in Pin |-> Entries(r, p, writer.key, scan[p])]
      BY <1>r, <1>i, <3>1 DEF WriterShape
    <3>3. ASSUME NEW p \in Pin, NEW n \in DOMAIN writer'.index[p]
          PROVE  /\ files[r][p][writer'.index[p][n].spot] = writer'.index[p][n].ed
                 /\ writer'.index[p][n].key = writer.key
      <4>1. writer'.index[p] = Entries(r, p, writer.key, scan[p])
        BY <3>2
      <4>2. n \in DOMAIN scan[p]
        BY <3>3, <4>1 DEF Entries
      <4>3. writer'.index[p][n] =
              [ed |-> files[r][p][scan[p][n]], spot |-> scan[p][n], key |-> writer.key]
        BY <4>1, <4>2 DEF Entries
      <4>4. QED
        BY <4>3
    <3>4. Underway'
      <4>1. Faithful(writer'.index, r, writer.key)
        BY <3>3 DEF Faithful
      <4>2. QED
        BY <1>r, <2>1, <3>2, <4>1 DEF Underway, Faithful, Tidy
    <3>5. ~Resting(r)' /\ (r \notin unsettled => advisories[r] # Torn)
      BY <1>r, <2>1, <3>2 DEF Resting, Indexing, Tidy
    <3>6. QED
      BY <1>r, <2>1, <3>4, <3>5, AtWorkTidy DEF Tidy
  <2>5. QED
    BY <1>r, <2>3, <2>4
<1>9. CASE OpenIndex \/ WriteIndex
  <2>1. /\ r \in Source /\ writer.pc \in {"open_index", "write_index"}
        /\ UNCHANGED <<files, pub, advisories, unsettled>>
        /\ \E pc \in {"write_index", "open_pub"} : writer' = [writer EXCEPT !.pc = pc]
        /\ \E i : index' = [index EXCEPT ![r] = i]
    BY <1>r, <1>9 DEF OpenIndex, WriteIndex, WriterAt, WriterGoto, AtWork
  <2>2. /\ writer'.repo = r /\ writer'.key = writer.key /\ writer'.op = writer.op
        /\ writer'.index = writer.index /\ writer'.pc \in {"write_index", "open_pub"}
        /\ \A q \in Source : q # r => index'[q] = index[q]
    BY <1>r, <1>i, <2>1 DEF WriterShape, RepoTyped
  <2>3. writer'.pc = "open_pub" => index'[r] = writer.index
    <3>1. CASE OpenIndex
      BY <1>r, <1>i, <3>1 DEF OpenIndex, WriterGoto, WriterShape
    <3>2. CASE WriteIndex
      BY <1>r, <2>1, <3>2 DEF WriteIndex, RepoTyped
    <3>3. QED
      BY <1>r, <1>9, <3>1, <3>2
  <2>4. Underway'
    BY <1>r, <2>1, <2>2, <2>3 DEF Underway, Tidy, Faithful, Indexing
  <2>5. ~Resting(r)' /\ (r \notin unsettled => advisories[r] # Torn)
    BY <1>r, <2>1, <2>2 DEF Resting, Indexing, Tidy
  <2>6. QED
    BY <1>r, <2>1, <2>2, <2>4, <2>5, AtWorkTidy DEF Tidy
<1>15. CASE OpenPub
  <2>1. /\ r \in Source /\ writer.pc = "open_pub"
        /\ UNCHANGED <<files, index, advisories, unsettled>>
        /\ pub' = [pub EXCEPT ![r] = Torn] /\ writer' = [writer EXCEPT !.pc = "write_pub"]
    BY <1>r, <1>15 DEF OpenPub, WriterAt, WriterGoto, AtWork
  <2>2. /\ writer'.repo = r /\ writer'.key = writer.key /\ writer'.op = writer.op
        /\ writer'.index = writer.index /\ writer'.pc = "write_pub"
        /\ pub' \in [Source -> Key \union {None, Torn}]
        /\ \A q \in Source : q # r => pub'[q] = pub[q]
    BY <1>r, <1>i, <2>1 DEF WriterShape, Tidy
  <2>3. Underway'
    BY <1>r, <2>1, <2>2 DEF Underway, Tidy, Faithful, Indexing
  <2>4. ~Resting(r)' /\ (r \notin unsettled => advisories[r] # Torn)
    BY <1>r, <2>1, <2>2 DEF Resting, Indexing, Tidy
  <2>5. QED
    BY <1>r, <2>1, <2>2, <2>3, <2>4, AtWorkTidy DEF Tidy
<1>10. CASE WritePub
  <2>1. /\ r \in Source /\ writer.pc = "write_pub" /\ writer.key \in Key
        /\ UNCHANGED <<files, index, advisories>>
        /\ pub' = [pub EXCEPT ![r] = writer.key]
    BY <1>r, <1>10 DEF WritePub, WriterAt, AtWork
  <2>2. /\ pub' \in [Source -> Key \union {None, Torn}] /\ pub'[r] = writer.key
        /\ \A q \in Source : q # r => pub'[q] = pub[q]
    BY <1>r, <2>1 DEF Tidy
  <2>3. CASE advisories[r] = None
    <3>1. writer' = NoCommand /\ unsettled' = unsettled \ {r}
      BY <1>r, <1>10, <2>3 DEF WritePub, Finish, WriterStops
    <3>2. advisories'[r] # Torn /\ Validates(r)'
      BY <1>r, <2>1, <2>2, <2>3, FinishedValidates
    <3>3. QED
      BY <1>r, <1>u, <2>1, <2>2, <3>1, <3>2, AtWorkTidy
  <2>4. CASE advisories[r] # None /\ (writer.op = "init" \/ advisories[r] = Torn)
    <3>1. writer' = NoCommand /\ UNCHANGED unsettled
      BY <1>r, <1>10, <2>4 DEF WritePub, WriterStops
    <3>2. r \in unsettled
      BY <1>r, <2>1, <2>4 DEF Tidy, Underway
    <3>3. QED
      BY <1>r, <1>u, <2>1, <2>2, <3>1, <3>2, AtWorkTidy
  <2>5. CASE advisories[r] # None /\ writer.op # "init" /\ advisories[r] # Torn
    <3>1. writer' = [writer EXCEPT !.pc = "open_advisories"] /\ UNCHANGED unsettled
      BY <1>r, <1>10, <2>5 DEF WritePub, WriterGoto
    <3>2. /\ writer'.repo = r /\ writer'.key = writer.key /\ writer'.op = writer.op
          /\ writer'.index = writer.index /\ writer'.pc = "open_advisories"
      BY <1>r, <1>i, <3>1 DEF WriterShape
    <3>3. Underway'
      BY <1>r, <2>1, <2>2, <3>1, <3>2 DEF Underway, Tidy, Faithful, Indexing
    <3>4. ~Resting(r)'
      BY <1>r, <3>2 DEF Resting, Indexing
    <3>5. QED
      BY <1>r, <2>1, <2>2, <2>5, <3>1, <3>3, <3>4, AtWorkTidy
  <2>6. QED
    BY <1>r, <2>3, <2>4, <2>5
<1>11. CASE OpenAdvisories
  <2>1. /\ r \in Source /\ writer.pc = "open_advisories"
        /\ UNCHANGED <<files, index, pub, unsettled>>
        /\ advisories' = [advisories EXCEPT ![r] = [says |-> {}, seal |-> None]]
        /\ writer' = [writer EXCEPT !.pc = "write_advisories",
                                    !.says = advisories[r].says]
    BY <1>r, <1>11 DEF OpenAdvisories, WriterAt, AtWork
  <2>2. /\ writer'.repo = r /\ writer'.key = writer.key /\ writer'.op = writer.op
        /\ writer'.index = writer.index /\ writer'.pc = "write_advisories"
    BY <1>r, <1>i, <2>1 DEF WriterShape
  <2>3. Underway'
    BY <1>r, <2>1, <2>2 DEF Underway, Tidy, Faithful, Indexing
  <2>4. [says |-> {}, seal |-> None] \in Advice
    BY DEF Advice
  <2>5. advisories'[r] # Torn /\ \A q \in Source : q # r => advisories'[q] = advisories[q]
    BY <1>r, <2>1, <2>4, AdviceIsSome DEF RepoTyped
  <2>6. ~Resting(r)'
    BY <1>r, <2>2 DEF Resting, Indexing
  <2>7. QED
    BY <1>r, <2>1, <2>3, <2>5, <2>6, AtWorkTidy DEF Tidy
<1>12. CASE WriteAdvisories
  <2> DEFINE new == [says |-> writer.says,
                     seal |-> [says |-> writer.says, key |-> writer.key]]
  <2>1. /\ r \in Source /\ writer.pc = "write_advisories" /\ writer.key \in Key
        /\ UNCHANGED <<files, index, pub>>
        /\ writer.says \in SUBSET Advisory
        /\ writer' = NoCommand /\ unsettled' = unsettled \ {r}
        /\ advisories' = [advisories EXCEPT ![r] = new]
    BY <1>r, <1>12 DEF WriteAdvisories, WriterAt, AtWork, Finish, WriterStops, RepoTyped,
                 WriterShape
  <2>2. new \in Advice /\ new.seal # None
    BY <1>r, <2>1, ConstantsAssumption DEF Advice, Seal
  <2>3. Sealed(new) /\ new.seal.key = writer.key
    BY <1>r, <2>2 DEF Sealed
  <2> HIDE DEF new
  <2>4. advisories'[r] = new /\ \A q \in Source : q # r => advisories'[q] = advisories[q]
    BY <1>r, <2>1 DEF RepoTyped
  <2>5. pub'[r] = writer.key
    BY <1>r, <2>1 DEF Tidy, Underway
  <2>6. advisories'[r] # Torn /\ Validates(r)'
    BY <1>r, <2>1, <2>2, <2>3, <2>4, <2>5, FinishedValidates
  <2>7. QED
    BY <1>r, <1>u, <2>1, <2>4, <2>6, AtWorkTidy DEF Tidy
<1>13. CASE Broken
  <2>1. /\ r \in Source /\ writer' = NoCommand /\ r \in unsettled'
        /\ unsettled \subseteq unsettled' /\ UNCHANGED <<files, pub>>
    BY <1>r, <1>13, ConstantsAssumption DEF Broken, AtWork, WriterPoints, WriterStops
  <2>2. \A q \in Source : q # r => index'[q] = index[q] /\ advisories'[q] = advisories[q]
    BY <1>r, <1>13 DEF Broken, RepoTyped
  <2>3. QED
    BY <1>r, <1>u, <2>1, <2>2, AtWorkTidy DEF Tidy
<1>14. QED
  BY <1>1, <1>2, <1>3, <1>4, <1>5, <1>6, <1>7, <1>8, <1>9, <1>10, <1>11, <1>12, <1>13,
     <1>15 DEF Publishing

LEMMA PublishingUnpublished ==
  ASSUME Typed, Unpublished, Publishing
  PROVE  Unpublished'
<1>i. NoCommand.op = "none" /\ writer \in WriterShape
  BY DEF NoCommand, Typed, RepoTyped
<1>n. ASSUME writer' = NoCommand
      PROVE  Unpublished'
  BY <1>i, <1>n DEF Unpublished
<1>b. ASSUME NEW op, NEW r, NEW k, NEW p, NEW ed, NEW pc, Begin(op, r, k, p, ed, pc),
             op = "unpublish" => p \in Pin /\ pc = "delete"
      PROVE  Unpublished'
  BY <1>b DEF Begin, NoCommand, Unpublished, Indexing
<1>1. ASSUME NEW r \in Source, NEW k \in KeysOf(r),
             InitRepo(r, k) \/ Reindex(r, k) \/ \E p \in Pin : Unpublish(r, p, k)
      PROVE  Unpublished'
  BY <1>b, <1>1 DEF InitRepo, Reindex, Unpublish
<1>2. ASSUME NEW o \in Offers, Publish(o[1], o[2], o[3], o[4])
      PROVE  Unpublished'
  BY <1>b, <1>2 DEF Publish
<1>3. ASSUME writer.pc = "idle", UNCHANGED writer
      PROVE  Unpublished'
  BY <1>3 DEF Unpublished, Indexing
<1>4. ASSUME NEW c \in Strays, CopyByHand(c[1], c[2], c[3], c[4])
      PROVE  Unpublished'
  BY <1>3, <1>4 DEF CopyByHand, Act, WriterAt
<1>5. ASSUME NEW n \in Notices, EditAdvisories(n[1], n[2])
      PROVE  Unpublished'
  BY <1>3, <1>5 DEF EditAdvisories, Act, WriterAt
<1>6. CASE Copy
  <2>1. writer.op # "unpublish" /\ writer'.op = writer.op
    BY <1>i, <1>6 DEF Copy, WriterAt, WriterGoto, WriterShape, Unpublished
  <2>2. QED
    BY <2>1 DEF Unpublished
<1>7. CASE DeleteArchive /\ writer.op = "unpublish"
  <2>1. PICK r, p : r = writer.repo /\ p = writer.pin
    OBVIOUS
  <2>2. r \in Source /\ p \in Pin /\ writer.pc = "delete"
    BY <1>7, <2>1 DEF DeleteArchive, WriterAt, Typed, AtWork, Unpublished
  <2>3. PICK s \in Targets(r, p) :
          /\ files' = [files EXCEPT ![r][p][s] = None]
          /\ writer' = [writer EXCEPT !.pc = IF Targets(r, p) = {s} THEN "build" ELSE "delete"]
    BY <1>7, <2>1 DEF DeleteArchive, WriterGoto
  <2>4. /\ writer'.repo = r /\ writer'.pin = p
        /\ writer'.pc = IF Targets(r, p) = {s} THEN "build" ELSE "delete"
    BY <1>i, <2>1, <2>3 DEF WriterShape
  <2>5. ASSUME Targets(r, p) = {s}, NEW t \in Spot, t # "odd"
        PROVE  files'[r][p][t] = None
    <3>1. files[r][p][t] # None => t = s
      BY <2>5 DEF Targets, Spot
    <3>2. files'[r][p][t] = IF t = s THEN None ELSE files[r][p][t]
      BY <2>2, <2>3 DEF Typed, RepoTyped
    <3>3. QED
      BY <3>1, <3>2
  <2>6. QED
    BY <2>2, <2>4, <2>5 DEF Unpublished, Gone, Indexing
<1>8. CASE Build /\ writer.op = "unpublish" /\ writer' # NoCommand
  <2>1. PICK r, p : r = writer.repo /\ p = writer.pin
    OBVIOUS
  <2>2. p \in Pin /\ Gone(r, p)
    BY <1>8, <2>1 DEF Build, WriterAt, Unpublished
  <2>3. PICK scan :
          /\ \A q \in Pin : scan[q] \in Scans(writer.repo, q)
          /\ writer' = [writer EXCEPT !.pc = "open_index",
               !.index = [q \in Pin |-> Entries(writer.repo, q, writer.key, scan[q])]]
    BY <1>8 DEF Build, WriterStops
  <2>4. /\ writer'.pin = p /\ writer'.pc = "open_index"
        /\ writer'.index[p] = Entries(r, p, writer.key, scan[p])
    BY <1>i, <2>1, <2>2, <2>3 DEF WriterShape
  <2>5. \A n \in DOMAIN scan[p] :
          scan[p][n] \in Spot /\ files[r][p][scan[p][n]] # None
    <3> DEFINE found == {s \in Spot : files[r][p][s] # None}
               size == Cardinality(found)
    <3>1. scan[p] \in Scans(r, p)
      BY <2>1, <2>2, <2>3
    <3>2. Scans(r, p) \subseteq [1..size -> found]
      BY DEF Scans
    <3>3. scan[p] \in [1..size -> found]
      BY <3>1, <3>2
    <3> HIDE DEF size
    <3>4. ASSUME NEW n \in DOMAIN scan[p]
          PROVE  scan[p][n] \in found
      BY <3>3
    <3>5. QED
      BY <3>4
  <2>6. OddOnly(writer'.index, p)
    BY <2>2, <2>4, <2>5 DEF OddOnly, Entries, Gone
  <2>7. QED
    BY <2>2, <2>4, <2>6 DEF Unpublished, OddOnly
<1>9. CASE writer.pc \in Indexing /\ writer' # NoCommand /\ Publishing
           /\ (OpenIndex \/ WriteIndex \/ OpenPub \/ WritePub \/ OpenAdvisories)
  <2>1. \E pc \in Indexing : \E says :
          writer' = [writer EXCEPT !.pc = pc, !.says = says]
    <3>1. writer = [writer EXCEPT !.says = writer.says]
      BY <1>i DEF WriterShape
    <3>2. \A pc : [writer EXCEPT !.pc = pc] = [writer EXCEPT !.pc = pc, !.says = writer.says]
      BY <1>i DEF WriterShape
    <3>3. CASE \E pc \in Indexing : writer' = [writer EXCEPT !.pc = pc]
      BY <3>2, <3>3
    <3>4. CASE OpenAdvisories
      BY <3>4 DEF OpenAdvisories, Indexing
    <3>5. QED
      BY <1>9, <3>3, <3>4
         DEF OpenIndex, WriteIndex, OpenPub, WritePub, WriterGoto, Finish, WriterStops, Indexing
  <2>2. /\ writer'.pc \in Indexing /\ writer'.op = writer.op
        /\ writer'.pin = writer.pin /\ writer'.index = writer.index
    BY <1>i, <2>1 DEF WriterShape
  <2>3. QED
    BY <1>9, <2>2 DEF Unpublished, OddOnly, Indexing
<1>10. CASE WriteAdvisories \/ Broken
  BY <1>n, <1>10 DEF WriteAdvisories, Finish, Broken, WriterStops
<1>11. CASE writer.op # "unpublish" /\ (DeleteArchive \/ Build)
  <2>1. writer' = NoCommand \/ writer'.op = writer.op
    BY <1>i, <1>11 DEF DeleteArchive, Build, WriterGoto, WriterStops, WriterShape
  <2>2. QED
    BY <1>n, <1>11, <2>1 DEF Unpublished
<1>12. OpenIndex \/ WriteIndex \/ OpenPub \/ WritePub \/ OpenAdvisories
         => writer.pc \in Indexing
  BY DEF OpenIndex, WriteIndex, OpenPub, WritePub, OpenAdvisories, WriterAt, Indexing
<1>13. QED
  BY <1>1, <1>2, <1>4, <1>5, <1>6, <1>7, <1>8, <1>9, <1>10, <1>11, <1>12, <1>n
     DEF Publishing

LEMMA TidyStep ==
  ASSUME Typed, Tidy, Unpublished, [Next]_vars
  PROVE  Tidy' /\ Unpublished'
<1>1. CASE Publishing
  BY <1>1, PublishingTidy, PublishingUnpublished
<1>2. CASE UNCHANGED repoVars
  BY <1>2, UnchangedTidy DEF repoVars, Unpublished, Gone, OddOnly
<1>3. QED
  BY <1>1, <1>2, StepsAreThese, ClientLeaves
     DEF OtherSteps, Meanwhile, StoreAdd, StoreRemove, vars

LEMMA TidyInit ==
  ASSUME Init
  PROVE  Tidy /\ Unpublished
<1>1. /\ writer = NoCommand
      /\ pub = [r \in Source |-> None]
      /\ index = [r \in Source |-> None]
      /\ advisories = [r \in Source |-> None]
  BY DEF Init, RepoInit
<1>2. writer.op = "none" /\ writer.pc = "idle"
  BY <1>1 DEF NoCommand
<1>3. Unpublished
  BY <1>2 DEF Unpublished
<1>4. Underway
  BY <1>2 DEF Underway, Indexing
<1>5. \A r \in Source : index[r] = None /\ advisories[r] = None /\ pub[r] = None
  BY <1>1
<1>6. None # Torn
  BY ConstantsAssumption
<1>7. QED
  BY <1>1, <1>2, <1>3, <1>4, <1>5, <1>6 DEF Tidy, Resting

\* Whatever was killed, rotated or changed by hand before, a source that a
\* command has rebuilt is one that validate accepts, under one key
\* (rebuild_and_sign, validate_repo).
THEOREM RebuiltIsValid == Spec => []ValidAtRest
<1>1. Typed /\ Tidy => ValidAtRest
  BY DEF Tidy, Resting, Indexing, ValidAtRest, WriterAt
<1>2. QED
  BY <1>1, TypedInit, TypedStep, TidyInit, TidyStep, PTL DEF Spec

\* Where an unpublish has ended, no archive under a canonical name is listed
\* for its pin (unpublish_package), wherever archives were copied by hand.
THEOREM UnpublishedIsWithdrawn == Spec => Withdrawn
<1>1. ASSUME Typed, Tidy, Unpublished, writer.op = "unpublish",
             WriterAt("write_pub") \/ WriterAt("write_advisories")
      PROVE  OddOnly(index[writer.repo], writer.pin)
  BY <1>1 DEF Tidy, Underway, Unpublished, OddOnly, WriterAt, Indexing
<1>2. QED
  BY <1>1, TypedInit, TypedStep, TidyInit, TidyStep, PTL DEF Spec, Withdrawn, OddOnly

-----------------------------------------------------------------------------
(* What has been listed is found again.                                    *)

\* The n-th source has the version p, or one of those from the m-th on has.
Offered(n, p) == Readable(index[Sources[n]]) /\ index[Sources[n]][p] # <<>>
OfferedFrom(m, p) == \E n \in 1..Len(Sources) : m <= n /\ Offered(n, p)

\* While nothing else happens, client c has found only versions that are in
\* the store or that a source has, and has not gone past that source.
Discovered(c) ==
  c.calm =>
    /\ c.phase = "list" =>
         \A p \in c.found : store[p] # None \/ OfferedFrom(1, p)
    /\ c.pc = "advisories" =>
         Readable(index[Sources[c.at]]) /\ c.index = index[Sources[c.at]]
    /\ c.phase \in {"peek", "fetch"} /\ c.found # {} =>
         /\ c.pc = "warn" => store[c.pin] # None
         /\ c.pc \in {"index", "advisories"} => OfferedFrom(c.at, c.pin)

\* Looking a version up that is in the store or that a source has.
LEMMA LookDiscovers ==
  ASSUME NEW c, Reading(c), NEW phase \in {"peek", "fetch"}, NEW p \in Pin,
         c.calm /\ p \in c.found => store[p] # None \/ OfferedFrom(1, p)
  PROVE  Discovered(Look(c, phase, p))
<1>1. PICK pc : /\ pc = IF store[p] # None THEN "warn" ELSE "index"
                /\ Look(c, phase, p) =
                     [c EXCEPT !.pc = pc, !.phase = phase, !.pin = p, !.at = 1,
                               !.found = @ \intersect {p}, !.index = EmptyIndex]
  BY DEF Look
<1> DEFINE d == Look(c, phase, p)
<1>2. /\ d.pc = pc /\ d.phase = phase /\ d.pin = p /\ d.at = 1
      /\ d.found = c.found \intersect {p} /\ d.calm = c.calm
  BY <1>1 DEF Reading, ClientShape
<1> HIDE DEF d
<1>3. Discovered(d)
  BY <1>1, <1>2 DEF Discovered
<1>4. QED
  BY <1>3 DEF d

\* A command has ended, or another has begun in which nothing is found yet
\* that is not in the store.
LEMMA EndDiscovers ==
  ASSUME Fail \/ Done
  PROVE  Discovered(client')
<1>1. client'.calm = FALSE
  BY DEF Fail, Done, Quiet
<1>2. QED
  BY <1>1 DEF Discovered

LEMMA StartDiscovers ==
  ASSUME Typed, Resolve \/ Audit \/ \E p \in Pin : Fetch(p)
  PROVE  Discovered(client')
<1>1. CASE Resolve
  <2>1. client' = [[Quiet EXCEPT !.pc = "index", !.phase = "list", !.found = Stocked]
                     EXCEPT !.calm = WriterAt("idle"), !.yanks = InForce]
    BY <1>1 DEF Resolve, Start
  <2>2. /\ client'.phase = "list" /\ client'.pc = "index"
        /\ client'.found = Stocked
    BY <2>1 DEF Quiet
  <2>3. QED
    BY <2>2 DEF Discovered, Stocked
<1>2. CASE Audit
  <2>1. \E pins : client' = [[Quiet EXCEPT !.pc = "audit", !.phase = "audit", !.pins = pins]
                               EXCEPT !.calm = WriterAt("idle"), !.yanks = InForce]
    BY <1>2 DEF Audit, Start
  <2>2. client'.phase = "audit" /\ client'.pc = "audit"
    BY <2>1 DEF Quiet
  <2>3. QED
    BY <2>2 DEF Discovered
<1>3. ASSUME NEW p \in Pin, Fetch(p)
      PROVE  Discovered(client')
  <2>1. \E pc \in {"warn", "index"} :
          client' = [[Quiet EXCEPT !.pc = pc, !.phase = "fetch", !.pin = p, !.at = 1,
                                   !.found = @ \intersect {p}, !.index = EmptyIndex]
                       EXCEPT !.calm = WriterAt("idle"), !.yanks = InForce]
    BY <1>3 DEF Fetch, Start, Look
  <2>2. /\ client'.phase = "fetch" /\ client'.pc \in {"warn", "index"}
        /\ client'.found = {}
    BY <2>1 DEF Quiet
  <2>3. QED
    BY <2>2 DEF Discovered
<1>4. QED
  BY <1>1, <1>2, <1>3

\* A source that does not have the version sought is passed by.
LEMMA PassingDiscovers ==
  ASSUME Typed, Discovered(client), NextSource,
         client.pc \in {"index", "advisories"},
         client.calm /\ client.phase \in {"peek", "fetch"} /\ client.found # {}
           => ~Offered(client.at, client.pin)
  PROVE  Discovered(client')
<1>1. client.at \in Nat
  BY SourcesInOrder DEF Typed, Reading, ClientShape
<1>2. /\ client'.at = client.at + 1 /\ client'.pc = "index"
      /\ client'.phase = client.phase /\ client'.found = client.found
      /\ client'.pin = client.pin /\ client'.calm = client.calm
  BY DEF NextSource, Typed, Reading, ClientShape
<1>3. ASSUME client.calm, client.phase \in {"peek", "fetch"}, client.found # {}
      PROVE  OfferedFrom(client.at + 1, client.pin)
  <2>1. PICK n \in 1..Len(Sources) : client.at <= n /\ Offered(n, client.pin)
    BY <1>3 DEF Discovered, OfferedFrom
  <2>2. n # client.at
    BY <1>3, <2>1
  <2>3. client.at + 1 <= n
    BY <1>1, <2>1, <2>2, SourcesInOrder
  <2>4. QED
    BY <2>1, <2>3 DEF OfferedFrom
<1>4. QED
  BY <1>2, <1>3 DEF Discovered

LEMMA ReadingDiscovers ==
  ASSUME Typed, Discovered(client), ReadIndex \/ ReadAdvisories
  PROVE  Discovered(client')
<1> DEFINE here == client.at
<1>1. /\ client.pc \in {"index", "advisories"} /\ here \in 1..Len(Sources)
      /\ Here = Sources[here]
  BY SourcesInOrder
     DEF ReadIndex, ReadAdvisories, ClientAt, Through, Here, Typed, Reading, ClientShape
<1>2. client.phase \in {"list", "peek", "fetch"}
  BY <1>1 DEF Typed, Reading
<1>3. CASE Fail
  BY <1>3, EndDiscovers
<1>4. CASE ReadIndex /\ Readable(index[Here])
  <2>1. client' = [client EXCEPT !.pc = "advisories", !.index = index[Here]]
    BY <1>4 DEF ReadIndex
  <2>2. /\ client'.pc = "advisories" /\ client'.index = index[Here]
        /\ client'.at = here /\ client'.phase = client.phase
        /\ client'.found = client.found /\ client'.calm = client.calm
        /\ client'.pin = client.pin
    BY <2>1 DEF Typed, Reading, ClientShape
  <2>3. client.pc = "index"
    BY <1>4 DEF ReadIndex, ClientAt
  <2>4. QED
    BY <1>1, <1>4, <2>2, <2>3 DEF Discovered
<1>5. CASE ReadIndex /\ ~Readable(index[Here]) /\ client.phase = "list"
  BY <1>1, <1>5, PassingDiscovers DEF ReadIndex
<1>6. CASE ReadAdvisories /\ client.phase = "list" /\ ListVersions
  <2>1. client.pc = "advisories"
    BY <1>6 DEF ReadAdvisories, ClientAt
  <2>2. PICK more \in SUBSET Pin :
          /\ \A p \in more : client.index[p] # <<>>
          /\ client' = [client EXCEPT !.at = @ + 1, !.pc = "index",
                          !.index = EmptyIndex, !.found = @ \union more]
    <3> DEFINE more == {p \in Pin : \E n \in DOMAIN client.index[p] :
                                      ~Yanks(Here, p, client.index[p][n].ed)}
    <3>1. \A p \in more : client.index[p] # <<>>
      OBVIOUS
    <3>2. QED
      BY <1>6, <3>1 DEF ListVersions
  <2>3. /\ client'.pc = "index" /\ client'.phase = "list"
        /\ client'.found = client.found \union more /\ client'.calm = client.calm
    BY <1>6, <2>2 DEF Typed, Reading, ClientShape
  <2>4. ASSUME client.calm, NEW p \in more
        PROVE  OfferedFrom(1, p)
    BY <1>1, <2>1, <2>2, <2>4 DEF Discovered, OfferedFrom, Offered
  <2>5. QED
    BY <1>6, <2>3, <2>4 DEF Discovered
<1>7. CASE ReadAdvisories /\ client.phase # "list" /\ client.index[client.pin] = <<>>
           /\ NextSource
  <2>1. client.pc = "advisories"
    BY <1>7 DEF ReadAdvisories, ClientAt
  <2>2. client.calm => client.index = index[Sources[here]]
    BY <2>1 DEF Discovered
  <2>3. QED
    BY <1>1, <1>7, <2>1, <2>2, PassingDiscovers DEF Offered
<1>8. CASE ReadAdvisories /\ client.phase # "list" /\ client.index[client.pin] # <<>>
           /\ Locate(Head(client.index[client.pin]))
  <2>1. client.pc = "advisories" /\ client.pin \in Pin
    BY <1>2, <1>8 DEF ReadAdvisories, ClientAt, Typed, Reading
  <2>2. CASE client' = Look(client, "fetch", client.pin)
    <3>1. client.calm => Offered(here, client.pin)
      BY <1>8, <2>1 DEF Discovered, Offered
    <3>2. client.calm => OfferedFrom(1, client.pin)
      BY <1>1, <3>1 DEF OfferedFrom
    <3>3. QED
      BY <2>1, <2>2, <3>2, LookDiscovers DEF Typed
  <2>3. CASE client' = [client EXCEPT !.pc = "blob", !.index = EmptyIndex,
                                      !.entry = Head(client.index[client.pin])]
    <3>1. client'.pc = "blob" /\ client'.phase = client.phase
      BY <2>3 DEF Typed, Reading, ClientShape
    <3>2. QED
      BY <1>2, <1>8, <3>1 DEF Discovered
  <2>4. QED
    BY <1>3, <1>8, <2>2, <2>3 DEF Locate
<1>9. QED
  BY <1>3, <1>4, <1>5, <1>6, <1>7, <1>8 DEF ReadIndex, ReadAdvisories

LEMMA ClientDiscovers ==
  ASSUME Typed, Discovered(client), ClientSteps
  PROVE  Discovered(client')
<1>1. CASE Exhausted
  <2>1. ASSUME client.phase = "list", NEW p \in client.found,
               client' = Look(client, "peek", p)
        PROVE  Discovered(client')
    <3>1. p \in Pin
      BY <2>1 DEF Typed, Reading
    <3>2. QED
      BY <2>1, <3>1, LookDiscovers DEF Typed, Discovered
  <2>2. QED
    BY <1>1, <2>1, EndDiscovers DEF Exhausted
<1>2. CASE ReadBlob
  <2>1. CASE client' = [client EXCEPT !.pc = "add"] /\ client.pc = "blob"
    <3>1. client'.pc = "add" /\ client'.phase = "fetch"
      BY <2>1 DEF Typed, Reading, ClientShape
    <3>2. QED
      BY <3>1 DEF Discovered
  <2>2. QED
    BY <1>2, <2>1, EndDiscovers DEF ReadBlob, ClientAt
<1>3. CASE Warn
  <2>1. client.pc = "warn" /\ client.phase \in {"peek", "fetch"} /\ client.pin \in Pin
    BY <1>3 DEF Warn, ClientAt, Typed, Reading
  <2>2. CASE client' = Look(client, "fetch", client.pin)
    <3>1. client.calm /\ client.pin \in client.found => store[client.pin] # None
      BY <2>1 DEF Discovered
    <3>2. QED
      BY <2>1, <2>2, <3>1, LookDiscovers DEF Typed
  <2>3. CASE client' = [client EXCEPT !.at = @ + 1]
    <3>1. /\ client'.pc = "warn" /\ client'.phase = client.phase
          /\ client'.found = client.found /\ client'.pin = client.pin
          /\ client'.calm = client.calm
      BY <2>1, <2>3 DEF Typed, Reading, ClientShape
    <3>2. QED
      BY <2>1, <3>1 DEF Discovered
  <2>4. QED
    BY <1>3, <2>2, <2>3, EndDiscovers DEF Warn
<1>4. CASE AuditSource \/ AuditNext
  <2>1. CASE Fail
    BY <2>1, EndDiscovers
  <2>2. CASE ~Fail
    <3>1. client.pc = "audit" /\ client.phase # "list"
      BY <1>4 DEF AuditSource, AuditNext, ClientAt, Typed, Reading, ClientShape
    <3>2. client'.pc = "audit" /\ client'.phase # "list"
      BY <1>4, <2>2, <3>1 DEF AuditSource, AuditNext, Typed, Reading, ClientShape
    <3>3. QED
      BY <3>2 DEF Discovered
  <2>3. QED
    BY <2>1, <2>2
<1>5. CASE Add \/ AuditEnd
  BY <1>5, EndDiscovers DEF Add, AuditEnd
<1>6. QED
  BY <1>1, <1>2, <1>3, <1>4, <1>5, StartDiscovers, ReadingDiscovers DEF ClientSteps

LEMMA DiscoveredStep ==
  ASSUME Typed, Discovered(client), [Next]_vars
  PROVE  Discovered(client)'
<1>1. CASE ClientSteps
  <2>1. Discovered(client') /\ UNCHANGED index
    BY <1>1, ClientDiscovers, ClientLeaves DEF repoVars
  <2>2. CASE Add
    <3>1. client'.calm = FALSE
      BY <2>2 DEF Add, Fail, Done, Quiet
    <3>2. QED
      BY <3>1 DEF Discovered
  <2>3. CASE ~Add
    <3>1. UNCHANGED store
      BY <1>1, <2>3 DEF ClientSteps, Resolve, Audit, Fetch, Start, ReadIndex,
           ReadAdvisories, Exhausted, ReadBlob, Warn, AuditSource, AuditNext, AuditEnd
    <3>2. QED
      BY <2>1, <3>1 DEF Discovered, OfferedFrom, Offered
  <2>4. QED
    BY <2>2, <2>3
<1>2. CASE OtherSteps
  <2>1. CASE client'.calm = FALSE
    BY <2>1 DEF Discovered
  <2>2. CASE UNCHANGED vars
    BY <2>2 DEF vars, repoVars, Discovered, OfferedFrom, Offered
  <2>3. QED
    BY <1>2, <2>1, <2>2
       DEF OtherSteps, Meanwhile, StoreAdd, StoreRemove, Typed, Reading, ClientShape
<1>3. QED
  BY <1>1, <1>2, StepsAreThese

\* What listing has found is there when it is looked up, as long as nothing
\* else happens: no source that has it is passed by (list_dep_versions,
\* load_package_for_resolve, locate_verified_pin).
THEOREM FoundIsThere == Spec => []DiscoveredIsFound
<1>1. Init => Discovered(client)
  BY DEF Init, Quiet, Discovered
<1>2. Typed /\ Discovered(client) => DiscoveredIsFound
  <2> SUFFICES ASSUME Typed, Discovered(client), client.calm, client.pc = "index",
                      client.phase \in {"peek", "fetch"}, client.found # {}
               PROVE  ~Through
    BY DEF DiscoveredIsFound, ClientAt
  <2>1. PICK n \in 1..Len(Sources) : client.at <= n
    BY DEF Discovered, OfferedFrom
  <2>2. client.at \in Nat
    BY SourcesInOrder DEF Typed, Reading, ClientShape
  <2>3. QED
    BY <2>1, <2>2, SourcesInOrder DEF Through
<1>3. QED
  BY <1>1, <1>2, TypedInit, TypedStep, DiscoveredStep, PTL DEF Spec

=============================================================================
