# A TLA+ model of lar

`lar` installs applications side by side: packages go into an immutable store,
an application's packages are composed into a runtime directory, and an install
record names the runtime that is active and the one to roll back to. It keeps
everything in one prefix as plain files and **takes no lock anywhere**; each
command is a straight sequence of file system calls. What is hard about it is
therefore what lies between two of those calls: another `lar` command, a
publisher, an application that writes to its files, a kill, or an error returned
by `?`. That is what these modules are about.

## The system

All paths are relative to `src/crates/`; `{prefix}` is the user's or the
system's prefix (`lar-store/src/paths.rs`).

| component | state | operations | talks to |
|---|---|---|---|
| install lifecycle, `lar-manager/src/ops.rs`, `record.rs` | `installs/{app}/install.toml`, `previous.toml`, staging directories `.tmp-install-*`, `.tmp-build-*` | install, install --force, update, rollback, uninstall, launch, list | store, resolver, runtime build, exports, desktop |
| PATH exports, `lar-manager/src/exports.rs`, `launch_cmd.rs` | `share/lar/exports/{cmd}.toml`, `bin/{cmd}` and session `bin` links, `libexec/lar-exec` | publish, remove, detect shadowing | called by the lifecycle; read by the trampoline |
| desktop entries, `lar-manager/src/desktop.rs` | `share/applications/{app}.desktop` and its session copy | publish, remove | called by the lifecycle |
| package store, `lar-store/src/store.rs` | `store/packages/{id}/{version}/`, `.tmp-add-*` | add, get, list, remove (refuse or cascade), referrers | reads install pins |
| install pins, `lar-store/src/install_pins.rs` | reads `installs/*/{install,previous}.toml` | install_referrers (also cleans `.tmp-install-*`) | |
| runtime build, `lar-runtime/src/build.rs`, `compose.rs`, `meta.rs` | `runtimes/{runtime_id}/`, `.tmp-runtime-*` | build or reuse, run | store, lockfile |
| runtime catalog, `lar-runtime/src/catalog.rs`, `verify.rs` | the same directories | list, inspect, verify, gc | store |
| resolver, `lar-resolver/src/` | none (reads store and sources, fetches) | resolve, verify_lockfile | store, fetch |
| sources and trust, `lar-repo/src/sources.rs`, `trust.rs` | `config/sources.toml`, `config/trust.toml` | add, remove, move a source; add, remove a key | `lar repo`, `lar trust` |
| fetch and discovery, `lar-repo/src/fetch.rs`, `versions.rs`, `advisories.rs`, `transport.rs`, `audit.rs` | none of its own; adds to the store | list versions, peek, fetch, audit | sources, trust, store |
| publishing, `lar-repo/src/publish.rs`, `index.rs` | a repository directory: `packages/`, `index.toml`, `ed25519.pub`, `advisories.toml` | init, publish, unpublish, validate | |
| trampoline, `lar-trampoline/src/`, `lar-exec` | none | look up the export behind argv[0], exec | exports, runtimes |
| package format, `lar-package/src/` | one archive | pack, inspect, extract, verify | |
| platform, `lar-platform/src/` | none | probe the host | lifecycle |
| command line, `lar/src/main.rs`, `cli.rs` | none | dispatch | everything |

Calls go down this table: the command line calls the lifecycle, the lifecycle
the resolver, the runtime build, the exports and the menu entries, and these the
store. What comes back up is only read from disk: the store reads the pins in
the install records, the trampoline the metadata of the exports, the resolver and
`audit` what publishers have written. All other interaction between two
processes is through directories that both of them change.

What makes each correct, in one line: the lifecycle must always leave an app
with two runnable records or none; an export must start what its metadata names
and belong to one app; a pinned package must stay; a directory under a final name
must be whole; a runtime must be what its lockfile says; a lockfile must be a
solution of what it locks; a clean-up must take only what is dead; an edit of the
sources must touch one source; a source must be whole again after a rebuild;
what is fetched must have been vouched for and not be yanked; a version that was
discovered must be found. `PROJECT.json` lists, under `hazards`, the lines where
each of these is at risk, and which property covers it.

## Modules

| module | what it is | proofs | instances for TLC |
|---|---|---|---|
| `Installs` | the install lifecycle over one prefix, with the store, the runtimes, the exports and the menu entries it changes, `lar store remove`, `lar runtime gc` and `lar runtime list` | `InstallsProofs` | `MCInstalls` |
| `Generations` | what the lifecycle promises for an app's records: activate, swap and forget in single steps; `Installs` refines it | `InstallsRefinement` | |
| `PackageStore` | the store's own operations step by step: `add`, `list`, `remove` and `remove --force`, by several processes | `PackageStoreProofs` | `MCPackageStore` |
| `Composing` | runtimes file by file: build, verify, reuse, gc, next to a store that changes and applications that write | `ComposingProofs` | `MCComposing` |
| `Exports` | command names, their metadata and links, menu entries, and what the trampoline runs | `ExportsProofs` | `MCExports` |
| `Sources` | `sources.toml` and `trust.toml`: load, change, save | `SourcesProofs` | `MCSources` |
| `SourceOrder` | what the commands on these promise: edits of one source or one key; `Sources` refines it | `SourcesProofs` | |
| `Repository` | source directories and their publishers: init, publish, unpublish, index, changes by hand | `FetchingProofs` | `MCFetching` |
| `Fetching` | extends `Repository` by a client: discovery, fetch, warnings, audit | `FetchingProofs` | `MCFetching` |
| `Versions` | versions, requirements, the ranges made of them and what they mean | `ResolvingProofs` | |
| `Resolving` | extends `Versions`: `lar resolve`, the lockfile, the checks before a build | `ResolvingProofs` | `MCResolving` |

`Installs` composes the system: it has store, runtimes, exports and pins in one
state, each as coarse as its own module justifies. `PackageStore`, `Composing`,
`Exports` and `Resolving` then look inside one of these. What carries over is a
property: that a package in the store is whole or gone (`WholeOrGone`) lets
`Installs` have a set of packages; that a runtime of a build is as locked until
somebody begins to delete it (`WholeAsLocked`, with its exception for a store
that loses something while a tree is verified) lets it call a runtime whole or
torn; that a lockfile is closed (`ComposedClosed`) lets it take one of
`Resolutions` for it; that a publish which succeeds runs (`PublishedRuns`) lets
it have one export per app.

Definitions marked "Mutant" in the modules are no part of a model: each is a
plausible bug that one of the properties has to find (`PROJECT.json`, `mutants`).

### Installs

A *generation* is what a record names: the root package and the packages of its
lockfile. `runtime_id` (build.rs) hashes exactly these, together with the
compose mode and the content hashes; content is immutable per version in the
store and the mode can be thought of as part of `deps`, so a generation is also
the name of its runtime directory.

| variable | stands for |
|---|---|
| `install[a]` | `installs/{a}/`: which generation `install.toml` and `previous.toml` name |
| `staging[p]` | the `.tmp-build-*` or `.tmp-install-*` directory of process `p` |
| `composed[p]` | the `.tmp-runtime-*` directory of process `p`, whole or partly deleted |
| `runtimes[g]` | `runtimes/{id}`: absent, whole, or torn by a deletion that has not ended |
| `exports[a]` | the generation that the app's export metadata and links start |
| `desktop[a]` | whether its `.desktop` files exist |
| `stored` | the packages in the store |
| `proc[p]` | the command `p` runs: the step it does next, and the local variables of `install`, `update`, `rollback` (record, displaced, older_previous) |
| `damaged` | history only: apps whose uninstall was broken off while it took runtimes or records away |

A command is started by `Install` (with or without `--force`), `Update`,
`Rollback`, `Uninstall`, `StoreRemove`, `Gc`, `ListRuntimes` or `Housekeep`
(`list`, `launch`, and whatever is refused); each does what the command does up
to its first interesting point, its clean-up of other commands' directories
included. The remaining steps have the names of the program points:
`Resolve`, `WriteLock`, `Build`, `RenameRuntime` (compose_install, build),
`Stage`, `Unlink`, `Rename` (activate_install), `Publish`, `Link`,
`PublishDesktop`, `DropOlder` (the rest of install and update), `RemoveDesktop`,
`RemoveExports`, `ReapRuntimes`, `ForgetRecords` (uninstall), `RemoveOne`
(store), `Collect` (gc). A `remove_dir_all` takes several steps, in any order of
the files that matter. `Interrupt` ends a command at any point of
`InterruptAt`: the process is killed, or the call it is at returns an error. An
error of `remove_runtime_dir` is the one that the code swallows: at such a point
`DropOlder` and `ReapRuntimes` may also go on past a runtime that is still there.
A kill inside the switch leaves an app without some of its records, and what is
left of them is held to the same properties as any other.

`rollback` in the code repeats the steps of activate_install inline; both are
the same actions here, entered with the two records exchanged.

Deliberately coarser than the code: adding a package to the store is one step;
an app's links, their metadata and `lar-exec` are one bit per generation; menu
entries are one bit; an uninstall's removal of the exports is one step;
`Resolve` may fetch any package of the outcome in any order and may fail.

### PackageStore

`Installs` takes the store for a set of packages. This module looks inside: how
a package gets under its final name and how it leaves it.

| variable | stands for |
|---|---|
| `slot[k]` | the directory `packages/{id}/{version}` of `k`: which edition of the archive it came from and which of its parts (package.toml; manifest and files) exist, or `None` |
| `tmp[p]` | the `.tmp-add-*` directory of process `p` |
| `pins` | the packages that install records name (`install_referrers` reads them) |
| `proc[p]` | the command `p` runs: program point and the locals of `add`, `remove` and `cascade_remove`; `path` is the recursion's stack, `todo` each call's remaining referrers, `seen` the set `visiting` |
| `damaged` | history only: packages whose deletion was broken off |

The field `open` of a directory holds the processes whose `remove_dir_all` has
opened it. A directory that is renamed while one is inside goes on losing files,
as the deletion works on open directories and not on names.

`Add`, `Remove` and `List` start a command; `CleanupTmpAdds` (`CleanOpen`,
`CleanFile`, `CleanClose`) and `Cleaned` are the clean-up each begins with;
`Extract`, `WritePayload`, `Verify`, `Check` and `Commit` are `add`; `Visit`,
`Refer`, `Descend`, `Delete` and `RemoveOne` are `remove` and `cascade_remove`,
with `Return` for the return to the calling level. A plain `remove` passes
through `Visit` and `Refer` once. `Pin` stands for the installs and uninstalls
between two store commands. `Interrupt` ends a command at any point of
`InterruptAt`: a kill, or an error of the call it is at. What a dead process
leaves in its temporary directory has no further effect and is dropped at once.

Coarser than the code: listing the store and reading the manifests of all
packages is one step; manifest.json and files/ are one part; the directory
`packages/{id}` that holds the versions is left out (when a removal takes it
away between `create_dir_all` and the rename of an add, the rename fails, as it
may for any other reason). Calls of a level are made in any order, where the code
sorts them.

### Composing

A runtime is a directory of files, each a symlink, a hard link or a copy, and
its `runtime.toml`. A file in the store has an identity: its package, the
addition that brought it there (a package removed and added again has new
inodes) and its path.

| variable | stands for |
|---|---|
| `stored[k]` | the edition of package `k` in the store and its addition |
| `spoilt` | store files that an application has written over through a link |
| `runtimes[id]` | `runtimes/{runtime_id}`, where an id is a lockfile and a mode |
| `tmp` | `.tmp-runtime-*` |
| `cmd` | the command at work: its step and locals |
| `untouched`, `good`, `swept` | history, for the properties |

`Build` is `build` up to the look at what is there: no directory, one with the
right `runtime.toml`, any other. `Delete` is `remove_dir_all` file by file;
`MakeTmp`, `OpenPackage`, `Place`, `ClosePackage`, `WriteMeta` are
`compose_files` and `link_tree` with their conflicts; a directory of the store
is listed when its turn comes, so the files of a package that is replaced
meanwhile may be found too (`Listed`). `GetStored`, `CheckStored`, `ListFiles`,
`Compare` and `PackageDone` are `verify_runtime_dir` with one package, each a
look at the store: its content hash, its integrity, its list of files and every
single comparison, between which the store may change. `Verified` and `Refuted`
end it; it is used before the rename, before a reuse and by gc; `Gc`,
`NextCandidate` and `GcEnd` are `gc` and `gc --all`; `Look` is `list`, `inspect`
and `verify`, which change only the temporary directories. `StoreAdd`,
`StoreRemove`, `Write`, `Lose` and `SaveFile` are the others.

Coarser than the code: one runtime command runs at a time (two at once are in
`Installs`); the integrity of a package is looked at in one step and in one
edition, and its files are listed in one. What could be found by looking at half
of each is refused as well as accepted. Only the kinds of errors that end a
collection are kept apart from a failed verification.

### Exports

| variable | stands for |
|---|---|
| `record[a]` | the active generation of app `a` |
| `meta[c]` | `share/lar/exports/{c}.toml`: the generation it starts, cut off, or none |
| `bin[c]`, `session[c]` | the links, the latter possibly a file of the user's |
| `libexec` | whether `libexec/lar-exec` is there |
| `menu[a]` | the command that each copy of the `.desktop` file starts |
| `op` | the command under way: publish, uninstall or launch |
| `broken` | history: whether a command has ever been killed |

`Activate`, `Uninstall` and `Launch` start a command. `List`, `DeleteMeta`,
`DeleteSession`, `DeleteBin` are `exports::remove`; `Publish`, `Unlink`,
`Relink`, `Check`, `OpenMeta`, `WriteMeta`, `UnlinkBin`, `LinkBin`,
`UnlinkSession`, `LinkSession` are `exports::publish` and `launch_cmd`;
`EmptyMenu`, `FillMenu` and `DeleteMenu` are `desktop`, once per copy. A kill
may come between any two steps, also between emptying a file and filling it.
`Visits`, `Starts` and `Runs` are the trampoline's search from argv[0].

Coarser: one command at a time; the removed commands are taken in any order; a
link is lar's or it is not.

### Sources and SourceOrder

`file` is the two files, `tmp` their temporary files, `fd[p]` where a process's
open file is by now: the temporary file, the real one if it was renamed
meanwhile, or gone. `proc[p]` has the command and its locals. `RepoAdd`,
`RepoRemove`, `MoveTo`, `MoveBy`, `TrustAdd`, `TrustRemove` start commands;
`Check`, `EditTrust`, `Locate`, `EditSources` load and change; `Open`, `Write`,
`Rename` save; `Interrupt` kills. `Before`, `After`, `Place` and `Find` are the
position arithmetic of `sources.rs`, on sequences from 1 where the code counts
from 0. `SourceOrder` is the promise: one source appended, taken out or moved,
or one key added or taken away, per step.

Coarser: an entry is a name and a uri; the text of a file is what it parses to or
`Torn`.

### Repository and Fetching

`files[r][p][s]` is the archive of version `p` in source `r` at one of the three
places where it may be (`Spot`), `index[r]`, `pub[r]` and `advisories[r]` are the
other files, `writer` the publisher's command, `signed` and `unsettled` history.
`InitRepo`, `Publish`, `Unpublish`, `Reindex` start commands, `CopyByHand` and
`EditAdvisories` are the manual changes the documentation speaks of;
`Copy`, `DeleteArchive`, `Build`, `OpenIndex`, `WriteIndex`, `OpenPub`,
`WritePub`, `OpenAdvisories`, `WriteAdvisories` are the rest of `publish.rs` and
`rebuild_and_sign`, with every `fs::write` as two steps, emptying and filling;
`Broken` is a kill, which may leave a text that does not parse.

`Fetching` adds `store` and `client`. `Resolve`, `Fetch` and `Audit` start
commands; `ReadIndex`, `ReadAdvisories` and `ReadBlob` are the requests to one
source, between which its publisher goes on; `Exhausted`, `Add`, `Warn`,
`AuditSource`, `AuditNext`, `AuditEnd` are what follows. `StoreAdd` and
`StoreRemove` are other commands on the store.

Coarser: one package id with several versions, one publisher command and one
client at a time; a signature is the key and what it was made for.

### Versions and Resolving

`Versions` has two readings of a requirement: `InRange`, the ranges that
`resolve.rs` makes of a comparator, and `Meets`/`Matches`, what the semver crate
means by it. `Resolving` uses the first.

`offer` and `yanked` are the sources, taken as one (several are in `Fetching`),
and `sources` is what reading them comes to: an answer, a directory that is gone
and has no advisories, a server that does not answer, advisories that do not
verify. The last two refuse packages in the store as well, for their warnings
are looked up first (`Warned`, `Available`; `emit_store_hit_warnings`). `stored`
is the store, `versions`, `missed` and `cache` are the caches of `LarProvider`,
`lock` is `lar.lock`. `picked` and `nogoods` are what is known of the search:
pubgrub is a library, modelled as any search that asks for the versions of what
is needed (`ListVersions`), chooses the highest that fits in the order that
`prioritize` gives (`Choose`), takes back a selection that has become impossible
and does not try it again (`DeadEnd`). `Solve` ends the search. `Enter` and
`Leave` are the calls and returns of `detect_dependency_cycle`'s `dfs`, one
package at a time, with the stack as `visiting`; written as steps and not as a
recursive operator, the walk has an invariant that can be proved. Others may act
between its steps, but change nothing that it reads. `Check` is its end,
`Materialize` and `Save` are `materialize` and `write_lockfile`, `Ready` is
`verify_lockfile_ready`. The rest are publishers, other commands and the
network, who act between any two questions of the search.

## Assumptions, named

* `PerApp`: users do not run two commands on one app at once, and run
  `store remove` and `runtime gc` alone. Nothing in the code enforces it.
* `OneBuilder`: users do not run two commands at once that build runtimes or
  list them. Nothing enforces it either.
* `Collecting`: whether `runtime gc` is among the commands.
* `Alone` (of `PackageStore` and of `Sources`): users run one store command, one
  command on the sources, at a time, and nothing changes the pins meanwhile.
  Nothing enforces it.
* `InterruptAt`, `BreakAt`: where a command, a publisher, may stop half-way.

Runs and theorems say under which of them the promises hold. Where an assumption
is needed, the code breaks the promise without it: see "Where the code falls
short".

## Runs

| run | instance | shows |
|---|---|---|
| `installs_gc` | 1 process, 1 app, 3 versions, one without `[entry]`, gc, kills everywhere (`AnyPoint`) | types; both records run (`RecordsRunnable`), their packages stay (`PinsHold`); commands on PATH keep their runtime but for a gc that deletes it (`ExportsStayStartable`) |
| `installs_quiet` | 1 process, 3 versions, 2 libraries, gc, kills while a command prepares (`Early`) | exports, menu and runtimes agree with the records after each command (`Settled`); the records change as in `Generations` (`ImplementsGenerations`) |
| `installs_builders` | 2 processes, 2 apps, `PerApp`, no kill | **violates** `BuildsVerified` |
| `installs_torn_switch` | 1 process, killed anywhere | **violates** `ImplementsGenerations` |
| `store_kill` | 1 process, 3 packages in 2 editions, any pins, kills everywhere | types; a package is whole or gone (`WholeOrGone`), leaves after its dependents (`DependentsFirst`) and never while pinned (`PinnedKept`); commands end (`CommandsEnd`) |
| `store_race` | 2 processes, 1 package in 2 editions, no discipline, kills everywhere | no file of a stored package is ever replaced (`Immutable`) |
| `sources` | 1 process, up to 3 sources, 2 addresses of which one is another's name, 1 key, kills everywhere | types; files that somebody saved (`SavedWhole`); trust before listing (`TrustedBeforeListed`); moves that arrive (`MovesArrive`); `ImplementsSourceOrder` |
| `fetch` | 2 sources, 1 version in 2 editions, 2 keys, 2 advisories, 3 acts of publishers, kills everywhere but while advisories.toml is filled | types; sources valid after a rebuild (`ValidAtRest`), `Withdrawn`, `DiscoveredIsFound`, `FetchedIsSigned`, `YanksStand` |
| `exports` | 2 apps sharing a command name, 4 generations, kills everywhere, the user's own files | types; `Matched`, `AllOrNothing`, `PublishedRuns`, `OthersStay` |
| `exports_name` | the same | **violates** `NameRuns` |
| `resolve` | a root and 3 libraries, 3 versions, 2 editions, 2 changes by others | types; `LockSolved`, `LockStored`, `HighestLocked`, `RefusalsHold`, `ComposedClosed` |
| `compose` | 2 packages in 2 editions, 3 modes, 2 changes of store or files, kills everywhere | types; `WholeAsLocked`, `Delivered`, `FailsForReason`, `SweptRuns` |

Commands that overlap are the theorems' matter in `Installs`: `PinsHold`,
`RecordsRunnable` and `ExportsStayStartable` are proved for any number of
processes under `PerApp` and `OneBuilder`, where the passing runs have one.

Bounds of `Installs`. Three versions are the least for which active, previous,
the older previous and the new generation are all different, so every way in
which they may coincide occurs (force-reinstalling the active one, the previous
one, the one before). Two libraries let one version resolve differently, so that
a reinstall makes a new generation of the same version. One library suffices
where only presence in the store counts. Two processes in the run that lets
commands overlap: the hazard relates one command's step to one other command.
Apps do not share generations, so a second app matters only there. Commands are
not bounded in number; the state space is finite without a bound.

Bounds of `PackageStore`. Three packages depend on each other by edition: `a`
and `b` on `x`, the second edition of `b` on `a` too and that of `x` on `b`.
Stored in the various editions they are the shapes that tell cascades apart: a
chain, a diamond (a package reached twice) and circles of two and three. The
race of two processes is about one directory name, so one package is enough, in
two editions to tell whose files are found there.

Bounds of `Sources`. Three sources are the least for which a move goes up, down
and past one that stays, and one between the two it names. An address that is
another source's name makes a label ambiguous. `MaxSources` bounds the list.

Bounds of `Fetching`. One version suffices as nothing relates two versions
except the order in which they are tried; two editions, two sources and two keys
make every mixture of states of a source. `MaxActs` = 3: a publish, another with
another key or edition, and an unpublish, a copy by hand or an edit of the
advisories; all the steps of each command interleave with all the steps of the
client. `BreakAt` leaves out "write_advisories": see below. The theorems are for
any number of all of these.

Bounds of `Exports`. Of app a's three generations one has two commands, one has
two binaries of one name, which is refused, and one has none; b's has one of a's
commands. Commands are not bounded in number.

Bounds of `Resolving`. a 1.1 and b disagree about c, so that a choice has to be
taken back; the second edition of c 1.0 needs b, which closes a circle; some pins
are in the store, in another edition than on offer. Two changes of a pin
(`MaxChanges`, `Volatile`) or of the network: one to make what was read stale and
one to hide it.

Bounds of `Composing`. In their first editions the two packages share one path
and have a file where the other has a directory, in their second they fit. Two
changes, each a removal, a write or a loss, with additions free: so a package can
change its edition and change it back, or be removed, added and removed again,
within one verification.

All properties but one are safety properties and no fairness is assumed for
them: a command is free to stop at any time. `CommandsEnd` is checked under weak
fairness of `Continue(p)` for each process (`FairSpec`): the operating system
goes on scheduling a process that has started. Nothing makes users start
commands, and no step is assumed to succeed.

Deadlock is checked in every run; no command ever waits for another.

## Where the code falls short

Three runs refute what the repository says:

* `installs_torn_switch`: activate_install deletes `installs/{app}` and then
  renames the staged directory. A kill in between uninstalls the app as far as
  `lar list` can tell; its exports and runtimes stay behind. ops.rs calls the
  function atomic.
* `installs_builders`: `build`, `list`, `inspect` and `gc` delete the temporary
  runtimes of running builds, not only of "failed or crashed" ones; a build that
  has verified its tree then renames what is left of it. The next build of the
  generation verifies and rebuilds it; until then the record names a runtime that
  is not whole. With `OneBuilder`, or one process, nothing can tear a tree there,
  and nothing is claimed about that.
* `exports_name`: a shell that finds a command through PATH passes its bare name
  as argv[0], which the trampoline looks for in the working directory, and
  does not find. The tests start the links by their full paths.

The others are seen when an assumption is dropped from a configuration:

* `PerApp = FALSE` with two processes: `PinsHold` fails. `store remove` looks at
  the pins once, and an install that has built but not yet switched pins nothing.
* two processes on different apps: `ImplementsGenerations` fails without any
  kill. Every manager command, even `lar list`, deletes all staging directories;
  the other command has already deleted its old records and its rename fails.
* `Alone = FALSE` in `PackageStore`: `WholeOrGone` fails. The clean-up takes the
  temporary directories of running adds, and an add that has verified its tree
  renames it while the deletion is inside. The package is incomplete and, as it
  exists, cannot be added again.
* `Alone = FALSE` in `Sources` with two processes: `SavedWhole` fails. The
  temporary file has the same name for everybody, so one command renames it under
  the other's hands. Even where no text is torn, the later save undoes the
  earlier one.
* `BreakAt` with "write_advisories": `YanksStand` fails. A publisher killed
  right after advisories.toml was emptied leaves an empty file, which the next
  `lar repo index` signs.
* `exports::remove` deletes whatever has the name of one of the app's links,
  also a file that the user has put there since (`DeleteSession`).
* Without the exception in `WholeAsLocked` (no removal while the tree is verified):
  a package that goes away after its files were found good and before `files/` is
  looked for is passed over (`continue`, verify.rs:85), so that a tree which was
  composed while the package was away is renamed without its files.
* Without `sources # "down"` in `RefusalsHold`: an HTTP source that does not answer
  makes every look at a package in the store fail (fetch.rs:68), and the resolver
  takes a package that cannot be read for one that does not exist. A requirement
  that only this package meets is called unsolvable.
* When two apps export one command, the one published last has it, also if it is
  the one that had it first: an update or reinstall of the first app whose new
  generation exports the name takes metadata and links back (exports.rs:117).
* `>1` admits 1.0.1, and `^1` admits 2.0.0-alpha, where the semver crate does not:
  `GreaterAdmitsPatches` and `CaretAdmitsPreReleases` prove it for every such
  comparator. `LockSolved` is stated with the documented meaning where the two
  agree (`Plain`).

## Proofs

For every value of the constants that satisfies the modules' assumptions:

| module | theorem | property | assumes |
|---|---|---|---|
| `InstallsProofs` | `TypeCorrect` | `TypeOK` | |
| | `PinsAreKept` | `PinsHold` | `PerApp`, or one process |
| | `RecordsStayRunnable` | `RecordsRunnable` | `PerApp` and `OneBuilder`, or one process |
| | `ExportsStayRunnable` | `ExportsStayStartable` | the same |
| | `FinishedIsSettled` | `Settled` | one process, not interrupted after it has changed more than temporary directories (`BeforeChanges`) |
| `InstallsRefinement` | `SwitchesAreAtomic` | `ImplementsGenerations` | one process, not interrupted between deleting `installs/{app}` and the rename |
| `PackageStoreProofs` | `TypeCorrect` | `TypeOK` | |
| | `StoreImmutable` | `Immutable` | |
| | `StoreWholeOrGone` | `WholeOrGone` | `Alone` |
| | `RemovalsAreOrdered` | `DependentsFirst` | `Alone` |
| | `PinnedStays` | `PinnedKept` | `Alone` |
| `ComposingProofs` | `TypeCorrect` | `TypeOK` | |
| | `LeavesAsLocked` | `WholeAsLocked` | |
| | `DeliveredRuns` | `Delivered` | |
| | `FailuresHaveReasons` | `FailsForReason` | |
| | `CollectionsSweep` | `SweptRuns` | |
| `ExportsProofs` | `TypeCorrect` | `TypeOK` | |
| | `OthersAreSpared` | `OthersStay` | |
| | `RefusalsLeaveNothing` | `AllOrNothing` | |
| | `PublishedCommandsRun` | `PublishedRuns` | |
| | `CommandsMatch` | `Matched` | |
| `SourcesProofs` | `TypeCorrect` | `TypeOK` | `Alone` |
| | `FilesAreWhole` | `SavedWhole` | `Alone` |
| | `ListedAreTrusted` | `TrustedBeforeListed` | `Alone` |
| | `MovesLand` | `MovesArrive` | `Alone` |
| | `EditsOne` | `ImplementsSourceOrder` | `Alone` |
| `FetchingProofs` | `TypeCorrect` | `TypeOK` | |
| | `FetchesAreSigned` | `FetchedIsSigned` | |
| | `YanksAreHeard` | `YanksStand` | no kill while advisories.toml is filled |
| | `RebuiltIsValid` | `ValidAtRest` | |
| | `UnpublishedIsWithdrawn` | `Withdrawn` | |
| | `FoundIsThere` | `DiscoveredIsFound` | |
| `ResolvingProofs` | `TypeCorrect` | `TypeOK` | |
| | `LockfilesHoldSolutions` | `LockSolved` | |
| | `LockedIsInStore` | `LockStored` | |
| | `AcceptedIsClosed` | `ComposedClosed` | |
| | `RefusalsAreRight` | `RefusalsHold` | |
| | `NewestIsLocked` | `HighestLocked` | |
| | `CirclesAreReal` | a resolution refused for a circle has one | |
| | `ComparatorAsMeant`, `RequirementAsMeant` | ranges and semver agree on releases | plain comparators |
| | `CaretAdmitsPreReleases`, `GreaterAdmitsPatches` | and where they do not | |

The assumptions on constants are those of the modules, named next to the
constants: that markers like `None` are none of the values, that sets of versions
and of files are finite where something is counted, that a set of starting states
holds only what the program can have left. `StateAssumption` of `Composing` and
the two `ConstantsAssumption` of `Exports` and `Resolving` are evaluated by the
runs, as the others are.

Hardly any property is inductive. What has to be added, and why:

`InstallsProofs`: `Owned` (a command's records and locals belong to its app, and
agree with what the records say at the points where nobody may have changed
them), `Exclusive` (under `PerApp` at most one command per app), `Pins` (what a
command is about to record is already pinned or stored), `Builds` (a
`.tmp-runtime` directory of a live build is whole when only one builds),
`Progress` (what is known at each program point about the runtime being
activated), `Runtimes` (the runtimes of the records, and of those a command is
about to record, are whole). Each action has one step of the proof per part it can
disturb. The refinement adds `Tracks`, which says that during a switch the
process still remembers the records it deleted. `Pins` explains a design choice
of the code: gc never looks at the records, and yet spares both runtimes of every
app, because their packages are pinned and a runtime whose packages are all there
is not broken. `ExportsStayStartable`
excepts a gc that deletes the very runtime: an export may be left behind both
records by two commands that were interrupted between the switch and the
publishing, and then nothing pins its packages. No other step of any command may
take a runtime from under a command on PATH.

`FinishedIsSettled` follows each command to its end. `Orderly` says it app by
app: an app that no command works on is `Rested`, with the commands, the menu
entry and the runtimes its records call for; an app in the middle of a command is
`Halfway`, which says for each program point what has been moved to the new
records and what is still to be (`Shows`, `Remains`): which runtimes are left over
and may only be deleted, which is the point of the comparisons between displaced,
older and new generation in `activate_install`. Since a stop may only leave what
an app at rest may have, `InterruptAt` is restricted as the property says.

`PackageStoreProofs`: `Typed` adds to the types which locals each kind of command
has (`ShapeOf`); it is all that `StoreImmutable` needs, since the rename refuses a
directory with files whatever was checked before. `Tidy` adds, for one command at
a time, that a temporary directory is whole from the verification on and nobody
deletes it (`StagedAt`), and that only `remove_one` deletes inside a package
directory (`Opened`); so no clean-up ever finds anything (`NothingToClean`).
`Orderly` adds what a cascade knows: the packages of the calls on its stack are
not pinned (`UnpinnedAt`); every referrer of such a package is still to be visited
or on the stack itself, and every package visited is gone or on the stack
(`WorklistAt`). The last part is what makes it right to skip visited packages.
The lemmas `Push` and `Pop` say what the stack operations do to the set of its
elements.

`ComposingProofs`: `Whole` adds to `WholeAsLocked` the shape of the locals and
that of the temporary directory (`Underway`). `Checked` says what the looks of a
verification have found so far: as long as nothing that it has looked at was
taken away (`Undisturbed`), every package it is done with `Holds`, and of the
one it is at, what the checks passed so far have seen still stands (`Progress`).
What may happen between two looks without harm follows from this: additions to
the store, and, for a tree that only the build knows, whatever is done to
runtimes. `Composed` is what a build that nobody has disturbed has placed so
far, namely what the packages combine to, so that verification cannot fail;
`Collected` what a collection has been past. `Known` joins all of it with the
types.

`ExportsProofs`: `Progress` says what a command's locals are at its points,
`Removal` that the list of commands still to remove is what the metadata says the
app owns, which is why nobody else's command is touched. `Published` follows a
publish command by command: those it has done start the new generation whatever
was there before, for it opens, truncates and links each one anew. `Paired` says,
as long as nothing was killed, that metadata and links of every command but the
one at hand come together; `Pair` is what holds of that one at each point.

`SourcesProofs`: with one command at a time (`Solo`) the list that a command has
read is still the file's when its own is renamed over it (`Edits`), and the
temporary file holds only what it has written itself (`Files`), whatever an
earlier one that was killed left there. `Purpose` says what a command is for at
each point. The moves rest on lemmas about taking an element out of a sequence
and putting it in elsewhere, for any length.

`FetchingProofs`: `Typed` adds the shape of the two commands. `Vouched` says that
every index, the one on disk, the one about to be written and the one a client
has read, holds only entries that were signed under their own key. `Standing`
says that a yank which a client has to respect is in advisories.toml, or about to
be written again while nothing that verifies is in its place. `Tidy` says what a
publisher's command has brought about at each of its points, and that every source
that is not unsettled validates unless a command is rewriting it; `Unpublished`
says what an unpublish has deleted, and that the index it has built lists no
archive under a canonical name. `Discovered` says of a client that nothing has
disturbed since it began to list: what it has found so far is in a source whose
index and advisories would pass again, and when it looks it up it has not passed
by that source.

`ResolvingProofs` begins with the operators of `Versions` one by one, with the
order on versions as a lemma, and with `HighestIsLast`: among finitely many
versions one has no later one, by counting for each how many come after it.
`Shape` says what a resolution under way has and that an ended one leaves
nothing. `Agreed` is the search seen from the selection: whatever is in it fits
what the others in it require and is needed by one of them. `Walked` is the walk:
what is visited leads only to what is visited, and of any set of visited packages
one needs no other in the set. It holds of the last one entered when it is left
because all it needs has been left before, so at the end it holds of all; calling
a package visited on entry (`EnterEarly`) breaks it. `LockMet` carries the three
over to the lockfile. `Stocked` says that each package selected is still to be
materialized, or in the store as it was read, or was removed by somebody. For a
world that stands still, `Current` says that what was read is what there is, and
`Refuted` that every selection ruled out is part of no solution (`Hopeless`): a
clash because a solution has one version of each package, a dead end because the
version that a solution has of the missing package would have been a candidate.
`Newest` says that anything newer than what is selected is refused by a package
of the selection. `Path` says that each package under visit needs the next, which
gives the circle that is reported.

### Only model-checked

`CommandsEnd` is liveness under fairness, which is out of the prover's reach. The
two disagreements are shown by counterexamples. Every other property that a run
checks is also proved.

## Not modelled

* `lar-platform`: reads the host and changes nothing; its refusal is one of the
  ways a composition fails in `Installs`.
* `lar-package`: packing, hashing, manifest parsing and validation are functions
  from bytes to a result, where what could be wrong lies in the bytes. Extraction
  and verification are steps of `PackageStore`; a content hash is an edition.
* `main.rs` and `cli.rs`: parsing and printing. The handlers that change several
  files themselves (`repo add`) are in `Sources`, `Repository` and `Resolving`.
* Signatures and hashes as algorithms, HTTP beyond "fails or reads the file", a
  full disk other than as a stop, clocks (the names of temporary directories are
  distinct), the environment that the trampoline sets up.
* Packaging, documentation, CI: no program logic.

## What could follow

* `Installs` over `PackageStore` and `Composing` as a refinement in place of the
  properties that carry over now.
* Liveness of an undisturbed install under weak fairness of its steps.
* Two publishers on one source, and two clients with one store.
