----------------------------- MODULE Fetching -----------------------------
(***************************************************************************)
(* The client's side of lar-repo next to the publishers of Repository: how *)
(* `lar resolve` and `lar install` find the versions of a package, read    *)
(* its metadata and fetch it into the store, how warnings are collected    *)
(* for packages that are there, and `lar audit`.                           *)
(*                                                                         *)
(* A source is read in separate requests, index.toml, advisories.toml and  *)
(* the archive, while its publisher may be at work, so a client may see    *)
(* parts of different states and half-written files.                       *)
(***************************************************************************)
EXTENDS Repository

CONSTANTS
  Sources,  \* the configured sources in priority order
  Trusted   \* the keys in trust.toml

ASSUME FetchingAssumption ==
  /\ Sources \in Seq(Source)
  /\ Trusted \subseteq Key

VARIABLES
  store,   \* the edition of each pin in the local store, or None
  client   \* the client's command: program point and local variables

vars == <<repoVars, store, client>>

\* phase: list_dep_versions ("list"), load_package_for_resolve ("peek"),
\* fetch_into_store ("fetch") or audit.  at: the place in Sources.  The last
\* fields are history: whether nothing else has happened since the command
\* began, and the yanks in force when it began that nobody has taken back since.
Quiet == [pc |-> "idle", phase |-> "none", at |-> 1, pin |-> None,
          index |-> EmptyIndex, entry |-> None, found |-> {}, pins |-> {},
          calm |-> FALSE, yanks |-> {}, outcome |-> "none"]

Init ==
  /\ RepoInit
  /\ store = [p \in Pin |-> None]
  /\ client = Quiet

ClientAt(point) == client.pc = point
Here == Sources[client.at]
Through == client.at > Len(Sources)

\* Ends the command with an error, or well.
Fail == client' = [Quiet EXCEPT !.outcome = "failed"]
Done == client' = [Quiet EXCEPT !.outcome = "done"]

-----------------------------------------------------------------------------
(***************************************************************************)
(* Advisories.                                                             *)
(***************************************************************************)

\* An empty list does not restrict; both empty is refused by validate.
Matches(a, p, ed) ==
  /\ a.versions # {} => p \in a.versions
  /\ a.hashes # {} => ed \in a.hashes

Warns(r, p, ed) ==
  advisories[r] # None /\ \E a \in advisories[r].says : Matches(a, p, ed)

Yanks(r, p, ed) ==
  /\ advisories[r] # None
  /\ \E a \in advisories[r].says : a.yanked /\ Matches(a, p, ed)

\* Mutant: an empty file passes for an absent one.
VerifiedEmpty(r) ==
  advisories[r] # None =>
    /\ advisories[r] # Torn
    /\ \/ advisories[r].says = {} /\ advisories[r].seal = None
       \/ Sealed(advisories[r]) /\ advisories[r].seal.key \in Trusted

\* read_advisories and verify_advisories: an absent file is fine, one that is
\* there must parse and carry a good signature by a trusted key.
Verified(r) ==
  advisories[r] # None =>
    /\ advisories[r] # Torn
    /\ Sealed(advisories[r])
    /\ advisories[r].seal.key \in Trusted

-----------------------------------------------------------------------------
(***************************************************************************)
(* Commands.                                                               *)
(***************************************************************************)

InForce ==
  {t \in Source \X Pin \X Edition :
     Verified(t[1]) /\ Yanks(t[1], t[2], t[3])}

Start(cmd) ==
  /\ ClientAt("idle")
  /\ client' = [cmd EXCEPT !.calm = WriterAt("idle"), !.yanks = InForce]
  /\ UNCHANGED <<repoVars, store>>

\* Loading or fetching a pin: one that is in the store is only warned about.
Look(cmd, phase, p) ==
  [cmd EXCEPT !.pc = IF store[p] # None THEN "warn" ELSE "index",
              !.phase = phase, !.pin = p, !.at = 1,
              !.found = @ \intersect {p}, !.index = EmptyIndex]

Stocked == {p \in Pin : store[p] # None}

\* Finding a version of the package, reading its metadata, fetching it.
Resolve == Start([Quiet EXCEPT !.pc = "index", !.phase = "list",
                               !.found = Stocked])

\* `lar install id@version`.
Fetch(p) == Start(Look(Quiet, "fetch", p))

Audit == Start([Quiet EXCEPT !.pc = "audit", !.phase = "audit",
                             !.pins = {<<p, store[p]>> : p \in Stocked}])

-----------------------------------------------------------------------------
(***************************************************************************)
(* Steps.                                                                  *)
(***************************************************************************)

\* Mutant: a source without the pin ends the search.
NextSourceLast == client' = [client EXCEPT !.at = Len(Sources) + 1,
                                           !.pc = "index", !.index = EmptyIndex]

NextSource == client' = [client EXCEPT !.at = @ + 1, !.pc = "index",
                                       !.index = EmptyIndex]

\* An index that cannot be read is skipped while versions are listed, and ends
\* the command after that.
ReadIndex ==
  LET i == index[Here] IN
  /\ ClientAt("index") /\ ~Through
  /\ IF Readable(i)
     THEN client' = [client EXCEPT !.pc = "advisories", !.index = i]
     ELSE IF client.phase = "list" THEN NextSource ELSE Fail
  /\ UNCHANGED <<repoVars, store>>

ListVersions ==
  client' = [client EXCEPT !.at = @ + 1, !.pc = "index", !.index = EmptyIndex,
    !.found = @ \union
      {p \in Pin : \E n \in DOMAIN client.index[p] :
                     ~Yanks(Here, p, client.index[p][n].ed)}]

\* locate_verified_pin, after the index has been read.
Locate(entry) ==
  IF Yanks(Here, client.pin, entry.ed) \/ entry.key \notin Trusted
  THEN Fail
  ELSE IF client.phase = "peek"
  THEN client' = Look(client, "fetch", client.pin)
  ELSE client' = [client EXCEPT !.pc = "blob", !.entry = entry,
                                !.index = EmptyIndex]

ReadAdvisories ==
  /\ ClientAt("advisories")
  /\ IF ~Verified(Here) THEN Fail
     ELSE IF client.phase = "list" THEN ListVersions
     ELSE IF client.index[client.pin] = <<>> THEN NextSource
     ELSE Locate(Head(client.index[client.pin]))
  /\ UNCHANGED <<repoVars, store>>

\* Every source has been asked: one of the versions found is looked at, or none
\* satisfies the requirement.  A pin that no source has is not found.
Exhausted ==
  /\ ClientAt("index") /\ Through
  /\ \/ /\ client.phase = "list"
        /\ \E p \in client.found : client' = Look(client, "peek", p)
     \/ Fail
  /\ UNCHANGED <<repoVars, store>>

\* fetch_blob: the archive as it is when it is downloaded.
Blob == files[Here][client.pin][client.entry.spot]

\* Mutant: what has been downloaded is not compared with the index.
ReadBlobUnchecked ==
  /\ ClientAt("blob")
  /\ client' = [client EXCEPT !.pc = "add", !.entry.ed = Blob]
  /\ UNCHANGED <<repoVars, store>>

\* The comparison of the archive's hash with the index.
ReadBlob ==
  /\ ClientAt("blob")
  /\ IF Blob = client.entry.ed
     THEN client' = [client EXCEPT !.pc = "add"]
     ELSE Fail
  /\ UNCHANGED <<repoVars, store>>

\* Mutant: a package that has appeared in the store is taken for the same.
AddUnlooked ==
  LET p == client.pin IN
  /\ ClientAt("add")
  /\ store' = [store EXCEPT ![p] = IF @ = None THEN client.entry.ed ELSE @]
  /\ Done
  /\ UNCHANGED repoVars

Add ==
  LET p == client.pin
      ed == client.entry.ed
  IN  /\ ClientAt("add")
      /\ IF store[p] = None THEN store' = [store EXCEPT ![p] = ed] /\ Done
         ELSE IF store[p] = ed THEN Done /\ UNCHANGED store
         ELSE Fail /\ UNCHANGED store
      /\ UNCHANGED repoVars

\* collect_warnings_for_pin: every source's advisories must be in order.
Warn ==
  /\ ClientAt("warn")
  /\ IF Through
     THEN IF client.phase = "peek"
          THEN client' = Look(client, "fetch", client.pin)
          ELSE Done
     ELSE IF Verified(Here) THEN client' = [client EXCEPT !.at = @ + 1]
     ELSE Fail
  /\ UNCHANGED <<repoVars, store>>

\* The pins one after the other, and for each all sources.
AuditSource ==
  /\ ClientAt("audit") /\ client.pins # {} /\ ~Through
  /\ IF ~Verified(Here) THEN Fail
     ELSE LET t == CHOOSE t \in client.pins : TRUE
          IN  client' = [client EXCEPT !.at = @ + 1,
                !.found = IF Warns(Here, t[1], t[2]) THEN @ \union {t} ELSE @]
  /\ UNCHANGED <<repoVars, store>>

AuditNext ==
  /\ ClientAt("audit") /\ client.pins # {} /\ Through
  /\ LET t == CHOOSE t \in client.pins : TRUE
     IN  client' = [client EXCEPT !.at = 1, !.pins = @ \ {t}]
  /\ UNCHANGED <<repoVars, store>>

AuditEnd ==
  /\ ClientAt("audit") /\ client.pins = {}
  /\ Done
  /\ UNCHANGED <<repoVars, store>>

-----------------------------------------------------------------------------
(***************************************************************************)
(* The others.                                                             *)
(***************************************************************************)

\* `lar store add` of an archive from anywhere, and `lar store remove`.
StoreAdd(p, ed) ==
  /\ store[p] = None
  /\ store' = [store EXCEPT ![p] = ed]
  /\ client' = [client EXCEPT !.calm = FALSE]
  /\ UNCHANGED repoVars

StoreRemove(p) ==
  /\ store[p] # None
  /\ store' = [store EXCEPT ![p] = None]
  /\ client' = [client EXCEPT !.calm = FALSE]
  /\ UNCHANGED repoVars

\* The publishers go on; advisories written by hand may take back a yank.
Meanwhile ==
  /\ Publishing
  /\ client' = [client EXCEPT !.calm = FALSE,
       !.yanks = IF \E n \in Notices : EditAdvisories(n[1], n[2])
                 THEN {t \in @ : advisories'[t[1]] = advisories[t[1]]} ELSE @]
  /\ UNCHANGED store

Next ==
  \/ Meanwhile
  \/ \E p \in Pin : \/ Fetch(p)
                    \/ \E ed \in Edition : StoreAdd(p, ed)
                    \/ StoreRemove(p)
  \/ Resolve \/ Audit
  \/ ReadIndex \/ ReadAdvisories \/ Exhausted \/ ReadBlob \/ Add \/ Warn
  \/ AuditSource \/ AuditNext \/ AuditEnd

Spec == Init /\ [][Next]_vars

-----------------------------------------------------------------------------
(***************************************************************************)
(* Properties.                                                             *)
(***************************************************************************)

\* Types, and what the local variables of a command may be at each point: only
\* whole archives are stored, and what is to be stored or downloaded is known.
TypeOK ==
  /\ store \in [Pin -> Edition \union {None}]
  /\ files \in [Source -> [Pin -> [Spot -> {None, Part} \union Edition]]]
  /\ signed \subseteq Pin \X Edition \X Key
  /\ unsettled \subseteq Source
  /\ writer.pc \in WriterPoints \union {"idle"}
  /\ client.pc \in {"idle", "index", "advisories", "blob", "add", "warn", "audit"}
  /\ client.at \in 1..(Len(Sources) + 1)
  /\ client.pc \in {"blob", "add"} => client.entry \in Listed
  /\ client.pc \in {"advisories", "blob", "add"} => ~Through

\* A fetch puts what it has downloaded into the store.
Stores ==
  ClientAt("add") /\ client'.outcome = "done" /\ store' # store

\* The store entry a fetch answers with is one that somebody whose key is
\* trusted has put in an index under this very id and version: neither another
\* archive put into the store meanwhile nor half a download passes for it.
FetchedIsSigned ==
  [][ClientAt("add") /\ client'.outcome = "done"
     => \E k \in Trusted : <<client.pin, store'[client.pin], k>> \in signed]_vars

\* A version that listing found is there when it is looked up, as long as
\* nothing else happens: a resolve never picks a version that no source has.
DiscoveredIsFound ==
  client.calm /\ client.phase \in {"peek", "fetch"} /\ client.found # {}
    => ~(ClientAt("index") /\ Through)

\* An edition yanked when a resolve or fetch starts, by advisories in order, and
\* not unyanked meanwhile, is not put into the store from that source, whatever
\* rewriting, new keys and new signatures the command runs into.  Nothing is said
\* of what listing or `lar audit` shows.
YanksStand ==
  [][Stores
     => <<Here, client.pin, client.entry.ed>> \notin client.yanks]_vars

=============================================================================
