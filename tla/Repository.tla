---------------------------- MODULE Repository ----------------------------
(***************************************************************************)
(* The publisher's side of lar-repo: package source directories, each with *)
(* package archives, index.toml, ed25519.pub and advisories.toml, changed  *)
(* by `lar repo init`, `publish`, `unpublish` and `index`, and by hand.    *)
(*                                                                         *)
(* Every file is written in place, one after the other.  A client may read *)
(* it meanwhile (see Fetching), and the command may be killed after any    *)
(* step.  A truncated index.toml is a valid index with no packages; a      *)
(* truncated advisories.toml is one without a signature.                   *)
(*                                                                         *)
(* One publisher command runs at a time.  A version of the one package id  *)
(* stands for a pin, an edition for the content of an archive.             *)
(***************************************************************************)
EXTENDS Naturals, Sequences, FiniteSets

CONSTANTS
  Source,     \* repository directories
  Pin,        \* versions of a package
  Edition,    \* contents of archives, told apart by their content hash
  Key,        \* publisher keys
  Advisory,   \* advisories: versions, hashes (sets, not both empty), yanked
  Offers,     \* the <<source, pin, edition, key>> that may be published
  Strays,     \* the <<source, pin, edition, spot>> that may be copied by hand
  Notices,    \* the <<source, set of advisories>> that may be written by hand
  MaxActs,    \* bound on commands started and changes made by hand
  BreakAt,    \* the program points at which a command may be killed
  None,       \* no file, entry or seal
  Part,       \* an archive file that is only partly written
  Torn        \* a text that does not parse

\* Where the archive of a pin may be: packages/{id}-{version}.lar, the same
\* name in the directory itself, or another name under packages/.
Spot == {"root", "packages", "odd"}

\* What a signature was made for; and the texts of advisories.toml that parse.
Seal == [says: SUBSET Advisory, key: Key]
Advice == [says: SUBSET Advisory, seal: {None} \union Seal]

\* An entry of index.toml; and the texts of that file that parse.
Listed == [ed: Edition, spot: Spot, key: Key]
IndexFile == [Pin -> Seq(Listed)]

WriterPoints == {"copy", "delete", "build", "open_index", "write_index",
                 "open_pub", "write_pub", "open_advisories", "write_advisories"}

ASSUME ConstantsAssumption ==
  /\ MaxActs \in Nat
  /\ BreakAt \subseteq WriterPoints
  /\ Advisory \subseteq [versions: SUBSET Pin, hashes: SUBSET Edition,
                         yanked: BOOLEAN]
  /\ \A a \in Advisory : a.versions # {} \/ a.hashes # {}
  /\ Offers \subseteq Source \X Pin \X Edition \X Key
  /\ Strays \subseteq Source \X Pin \X Edition \X Spot
  /\ Notices \subseteq Source \X SUBSET Advisory
  /\ None \notin Edition \union Key \union Source \union Pin \union Advice \union Seal
  /\ Part \notin Edition \union {None}
  /\ Torn \notin Advice \union Key \union {None}
  /\ None \notin IndexFile /\ Torn \notin IndexFile

EmptyIndex == [p \in Pin |-> <<>>]

VARIABLES
  files,       \* the archive of each pin at each spot: an edition, Part or None
  index,       \* index.toml: the entries of each pin in order, Torn or None
  pub,         \* the key in ed25519.pub, Torn or None
  advisories,  \* advisories.toml: what it says and what its seal (hash, key,
               \* signature) was made for, Torn or None
  writer,      \* the publisher's command: program point and local variables
  signed,      \* history: every <<pin, edition, key>> a written index vouched for
  unsettled,   \* history: sources changed by hand or by a broken command since
               \* the last command that rebuilt them
  acts         \* commands started and changes made by hand so far

repoVars == <<files, index, pub, advisories, writer, signed, unsettled,
              acts>>

NoCommand == [pc |-> "idle", op |-> "none", repo |-> None, key |-> None,
              pin |-> None, ed |-> None, index |-> EmptyIndex, says |-> {}]

RepoInit ==
  /\ files = [r \in Source |-> [p \in Pin |-> [s \in Spot |-> None]]]
  /\ index = [r \in Source |-> None]
  /\ pub = [r \in Source |-> None]
  /\ advisories = [r \in Source |-> None]
  /\ writer = NoCommand
  /\ signed = {}
  /\ unsettled = {}
  /\ acts = 0

KeysOf(r) == {o[4] : o \in {o \in Offers : o[1] = r}}

WriterAt(point) == writer.pc = point
WriterGoto(point) == writer' = [writer EXCEPT !.pc = point]

Readable(i) == i \notin {None, Torn}

-----------------------------------------------------------------------------
(***************************************************************************)
(* Commands and what the publisher does by hand.                           *)
(***************************************************************************)

Act == WriterAt("idle") /\ acts < MaxActs /\ acts' = acts + 1

Begin(op, r, k, pin, ed, pc) ==
  /\ Act
  /\ writer' = [NoCommand EXCEPT !.pc = pc, !.op = op, !.repo = r, !.key = k,
                                 !.pin = pin, !.ed = ed]

\* `lar repo init` refuses a directory that has an index.
InitRepo(r, k) ==
  /\ index[r] = None
  /\ Begin("init", r, k, None, None, "open_index")
  /\ unsettled' = unsettled \union {r}
  /\ UNCHANGED <<files, index, pub, advisories, signed>>

\* `lar repo publish` copies the archive, over one that is there.
Publish(r, p, ed, k) ==
  /\ Begin("publish", r, k, p, ed, "copy")
  /\ files' = [files EXCEPT ![r][p]["packages"] = Part]
  /\ unsettled' = unsettled \union {r}
  /\ UNCHANGED <<index, pub, advisories, signed>>

Copy ==
  /\ WriterAt("copy")
  /\ files' = [files EXCEPT ![writer.repo][writer.pin]["packages"] = writer.ed]
  /\ WriterGoto("build")
  /\ UNCHANGED <<index, pub, advisories, signed, unsettled, acts>>

\* Mutant: only the file the index names is deleted.
TargetsListed(r, p) ==
  {s \in Spot : /\ index[r] # None /\ index[r][p] # <<>>
                /\ s = Head(index[r][p]).spot /\ files[r][p][s] # None}

\* The spots `lar repo unpublish` empties: the one the index names first, and
\* the two canonical names.
Targets(r, p) ==
  {s \in {"root", "packages"} : files[r][p][s] # None}
  \union (IF index[r] # None /\ index[r][p] # <<>>
             /\ files[r][p][Head(index[r][p]).spot] # None
          THEN {Head(index[r][p]).spot} ELSE {})

\* Refused when the index does not parse or there is nothing to delete.
Unpublish(r, p, k) ==
  /\ index[r] # Torn
  /\ Targets(r, p) # {}
  /\ Begin("unpublish", r, k, p, None, "delete")
  /\ unsettled' = unsettled \union {r}
  /\ UNCHANGED <<files, index, pub, advisories, signed>>

DeleteArchive ==
  LET r == writer.repo
      p == writer.pin
  IN  /\ WriterAt("delete")
      /\ \E s \in Targets(r, p) :
           /\ files' = [files EXCEPT ![r][p][s] = None]
           /\ WriterGoto(IF Targets(r, p) = {s} THEN "build" ELSE "delete")
      /\ UNCHANGED <<index, pub, advisories, signed, unsettled, acts>>

\* `lar repo index`.
Reindex(r, k) ==
  /\ Begin("index", r, k, None, None, "build")
  /\ UNCHANGED <<files, index, pub, advisories, signed, unsettled>>

\* "Full rescan (after manual file changes)": archives copied into the tree.
CopyByHand(r, p, ed, s) ==
  /\ Act
  /\ files[r][p][s] = None
  /\ files' = [files EXCEPT ![r][p][s] = ed]
  /\ unsettled' = unsettled \union {r}
  /\ UNCHANGED <<index, pub, advisories, writer, signed>>

\* "leave signature fields empty or stale".
EditAdvisories(r, says) ==
  /\ Act
  /\ advisories' = [advisories EXCEPT ![r] =
       [says |-> says,
        seal |-> IF @ \in {None, Torn} THEN None ELSE @.seal]]
  /\ unsettled' = unsettled \union {r}
  /\ UNCHANGED <<files, index, pub, writer, signed>>

-----------------------------------------------------------------------------
(***************************************************************************)
(* rebuild_and_sign.                                                       *)
(***************************************************************************)

WriterStops == writer' = NoCommand

\* The spots of a pin in the order build_index meets them: the directory first,
\* packages/ in any order.  Sorting by id and version keeps it.
Scans(r, p) ==
  LET found == {s \in Spot : files[r][p][s] # None}
  IN  {scan \in [1..Cardinality(found) -> found] :
         /\ \A m, n \in DOMAIN scan : scan[m] = scan[n] => m = n
         /\ \A n \in DOMAIN scan : scan[n] = "root" => n = 1}

Entries(r, p, k, scan) ==
  [n \in DOMAIN scan |-> [ed |-> files[r][p][scan[n]], spot |-> scan[n], key |-> k]]

\* build_index opens every archive; one that is not whole ends the command.
Build ==
  LET r == writer.repo IN
  /\ WriterAt("build")
  /\ IF \E p \in Pin, s \in Spot : files[r][p][s] = Part
     THEN WriterStops
     ELSE \E scan \in [Pin -> UNION {Scans(r, p) : p \in Pin}] :
            /\ \A p \in Pin : scan[p] \in Scans(r, p)
            /\ writer' = [writer EXCEPT !.pc = "open_index",
                 !.index = [p \in Pin |-> Entries(r, p, writer.key, scan[p])]]
  /\ UNCHANGED <<files, index, pub, advisories, signed, unsettled, acts>>

\* fs::write: empties the file, then fills it.
OpenIndex ==
  /\ WriterAt("open_index")
  /\ index' = [index EXCEPT ![writer.repo] = EmptyIndex]
  /\ WriterGoto("write_index")
  /\ UNCHANGED <<files, pub, advisories, signed, unsettled, acts>>

WriteIndex ==
  LET r == writer.repo
  IN  /\ WriterAt("write_index")
      /\ index' = [index EXCEPT ![r] = writer.index]
      /\ signed' = signed \union
           UNION {{<<p, writer.index[p][n].ed, writer.key>> :
                     n \in DOMAIN writer.index[p]} : p \in Pin}
      /\ WriterGoto("open_pub")
      /\ UNCHANGED <<files, pub, advisories, unsettled, acts>>

OpenPub ==
  /\ WriterAt("open_pub")
  /\ pub' = [pub EXCEPT ![writer.repo] = Torn]
  /\ WriterGoto("write_pub")
  /\ UNCHANGED <<files, index, advisories, signed, unsettled, acts>>

\* The command is done: what was changed by hand before has been taken in.
Finish ==
  /\ WriterStops
  /\ unsettled' = unsettled \ {writer.repo}

\* Mutant: advisories that carry a signature are not signed again.
WritePubSealed ==
  LET r == writer.repo IN
  /\ WriterAt("write_pub")
  /\ pub' = [pub EXCEPT ![r] = writer.key]
  /\ IF advisories[r] = None THEN Finish
     ELSE IF writer.op = "init" \/ advisories[r] = Torn
     THEN WriterStops /\ UNCHANGED unsettled
     ELSE IF advisories[r].seal # None THEN Finish
     ELSE WriterGoto("open_advisories") /\ UNCHANGED unsettled
  /\ UNCHANGED <<files, index, advisories, signed, acts>>

WritePub ==
  LET r == writer.repo IN
  /\ WriterAt("write_pub")
  /\ pub' = [pub EXCEPT ![r] = writer.key]
  /\ IF advisories[r] = None THEN Finish
     ELSE IF writer.op = "init" \/ advisories[r] = Torn
     THEN WriterStops /\ UNCHANGED unsettled
     ELSE WriterGoto("open_advisories") /\ UNCHANGED unsettled
  /\ UNCHANGED <<files, index, advisories, signed, acts>>

\* sign_advisories_in_dir has read the file and writes it back with a new seal.
OpenAdvisories ==
  LET r == writer.repo IN
  /\ WriterAt("open_advisories")
  /\ advisories' = [advisories EXCEPT ![r] = [says |-> {}, seal |-> None]]
  /\ writer' = [writer EXCEPT !.pc = "write_advisories",
                              !.says = advisories[r].says]
  /\ UNCHANGED <<files, index, pub, signed, unsettled, acts>>

WriteAdvisories ==
  /\ WriterAt("write_advisories")
  /\ advisories' = [advisories EXCEPT ![writer.repo] =
       [says |-> writer.says, seal |-> [says |-> writer.says, key |-> writer.key]]]
  /\ Finish
  /\ UNCHANGED <<files, index, pub, signed, acts>>

\* Killed, or left on an error.  A write under way may leave a text that does
\* not parse.
Broken ==
  LET r == writer.repo IN
  /\ writer.pc \in BreakAt
  /\ WriterStops
  /\ unsettled' = unsettled \union {r}
  /\ \/ UNCHANGED <<index, advisories>>
     \/ /\ WriterAt("write_index") /\ index' = [index EXCEPT ![r] = Torn]
        /\ UNCHANGED advisories
     \/ /\ WriterAt("write_advisories")
        /\ advisories' = [advisories EXCEPT ![r] = Torn]
        /\ UNCHANGED index
  /\ UNCHANGED <<files, pub, signed, acts>>

-----------------------------------------------------------------------------
Publishing ==
  \/ \E r \in Source : \E k \in KeysOf(r) :
       InitRepo(r, k) \/ Reindex(r, k) \/ \E p \in Pin : Unpublish(r, p, k)
  \/ \E o \in Offers : Publish(o[1], o[2], o[3], o[4])
  \/ \E c \in Strays : CopyByHand(c[1], c[2], c[3], c[4])
  \/ \E n \in Notices : EditAdvisories(n[1], n[2])
  \/ Copy \/ DeleteArchive \/ Build \/ OpenIndex \/ WriteIndex \/ OpenPub \/ WritePub
  \/ OpenAdvisories \/ WriteAdvisories
  \/ Broken

-----------------------------------------------------------------------------
(***************************************************************************)
(* Properties.                                                             *)
(***************************************************************************)

Sealed(a) == a.seal # None /\ a.seal.says = a.says

\* `lar repo validate --pubkey` with the key in ed25519.pub.
Validates(r) ==
  /\ Readable(index[r])
  /\ \A p \in Pin : \A n \in DOMAIN index[r][p] :
       LET e == index[r][p][n]
       IN  files[r][p][e.spot] = e.ed /\ e.key = pub[r]
  /\ advisories[r] # None =>
       advisories[r] # Torn /\ Sealed(advisories[r])
         /\ advisories[r].seal.key = pub[r]

\* The order of the steps adds up: once a command that rebuilds a source has
\* ended, whatever was killed, rotated or changed by hand before, the source is
\* one that validate accepts, all of it under the one key it publishes.
ValidAtRest ==
  WriterAt("idle") =>
    \A r \in Source \ unsettled : index[r] # None => Validates(r)

\* `lar repo unpublish` "Remove the .lar for id/version and rebuild+sign the
\* index": when it ends no archive under a canonical name is listed for the pin.
\* A copy under another name that is not the first one listed stays.
Withdrawn ==
  [][(WriterAt("write_pub") \/ WriterAt("write_advisories"))
        /\ writer.op = "unpublish" /\ writer.repo \notin unsettled'
     => LET r == writer.repo
            p == writer.pin
        IN  \A n \in DOMAIN index[r][p] : index[r][p][n].spot = "odd"]_repoVars

=============================================================================
