# A TLA+ development of peipkg

peipkg is the package manager of Peios: it installs, upgrades and removes
packages in one or several installation roots, from repositories whose metadata
is signed and protected against rollback. The same source tree holds
`peipkg-repo`, which publishes repositories, and `peipkg-compose`, which
assembles roots for images. This directory models the parts of it that keep
state across crashes and between processes, checks them with TLC and proves
theorems about them with TLAPS. Source paths below are relative to
`src/internal/` unless they start with `src/`.

## 1. The system

| Component | State | Operations | What makes it correct |
|---|---|---|---|
| Transaction executor (`install/`) | the files under a root, their staged and backup siblings, the journal (`txn`, `txn_file`), the recorded package state | `Execute`, `Recover`: lock, recover, journal, stage, rename, commit, clean up; rollback | a transaction happens entirely or not at all whatever interrupts it; displaced content survives; nothing is left behind |
| Cross-root transactions (`install/execute.go`, `cli/recover.go`) | one database, journal and lock per root; a shared random id | `ExecuteCrossRoot` (two-phase commit), `RecoverCrossRoot` | never committed in one root and reversed in another; interrupted work is settled |
| Repository client (`repository/`) | recorded row per repository (keys, freshness floor, refresh time), cached index, `.repo` files | `Add`, `Refresh`, `ActiveIndex`, `repo remove` | the floor never falls, a frozen index never looks fresh, the cache and the row agree |
| Staging (`install/stage.go`, `reclaim.go`, `sideeffects.go`) | plan of file operations, `package_file` rows, created directories | per-package planning under the overwrite and modified-file policies, collision checks, reclaiming, depmod | database and disk agree; no content destroyed that is not peipkg's; no path owned twice |
| Claims (`claims/`, `install/claims.go`) | holder of each role, `claim_link` rows, links on disk | selection, reconciliation, adoption, repoint, grant, revoke | links are at all times what the holders and the declared paths call for; a role changes hands only when asked |
| Resolver (`resolver/`), versions (`version/`) | none (pure) | `Resolve`, `ResolveMultiRoot`, `Compare`, constraints | the plan yields a consistent set in an order that can be carried out; the choice between candidates does not depend on their order; comparison is a total order |
| Publisher (`repopub/`) | published tree: package files, two signed indexes, release evidence | init, publish, replace, rebuild, qualify, verify | what is advertised is served; nothing published is lost; versions rise and agree; a protected repository installs |
| Composer (`compose/`) | lock file, staging tree, finished image | scan, resolve, lock, fetch, assemble | the output is absent or complete, holds what the manifest asks for, and is reproduced by its lock |
| Package database (`db/`) | SQLite tables | queries, migrations | its constraints back the invariants above |
| Commands (`cli/`) | none of their own | install, upgrade, uninstall, downgrade, undo: gather, resolve, gate, confirm, execute | no sequence of commands leaves a package broken; undo restores; the right executor for the right plan |
| Formats (`archive/`, `manifest/`, `signature/`, `repodata/`, `layout/`, ...) | none | decoding, validation | out of scope: single-document, stateless |

How they interact. A command resolves a plan from the recorded packages and the
cached indexes, without a lock; `Execute` or, for a plan that spans roots,
`ExecuteCrossRoot` then takes the per-root lock (a non-blocking `flock`),
reverses any journal an earlier run left pending, and runs the plan: `Staging`
is what it decides per root, `FileTxn` how one root carries it out, `CrossRoot`
how several roots do so together. Roots share nothing but the id in their `txn`
rows. `peipkg recover` runs beside everything
else. Refreshing metadata takes no lock at all. `peipkg-repo` publishes, under a
lock of its own, into the directory that is being served; `peipkg-compose`
reads the same indexes and package files without any lock. The hard behaviours
are therefore: a kill between any two system calls, calls that fail while
undoing something else, processes that scan before they lock, read-modify-write
without a lock, and state that is planned from and then used after someone else
(another package of the plan, another holder, the operator, another build) has
changed it.

## 2. Modules

| Module | Models | Status |
|---|---|---|
| `FileTxn` | one root's executor, one action per system call | done |
| `AtomicInstall` | what the executor promises: image and record change together | done |
| `CrossRoot` | two-phase commit over roots and its recovery | done |
| `Refresh` | repository trust state, cache and commands | done |
| `Resolver` | dependency resolution, a pure function | done |
| `Commands` | the commands that plan with it and the repositories they read | done |
| `Staging` | what a transaction writes, keeps, sets aside, removes and refuses in one root; role holders and claim links; directories; depmod | done |
| `Publish` | publishing into a served directory, qualification, and a consumer of it | done |
| `Compose` | resolving, locking and building an image | done |
| `MCFileTxn`, `MCCrossRoot`, `MCRefresh`, `MCCommands`, `MCStaging`, `MCPublish`, `MCCompose` | instances for TLC | done |
| `CrossRootProofs`, `FileTxnProofs`, `RefreshProofs`, `StagingProofs`, `PublishProofs`, `ComposeProofs`, `CommandsProofs` | theorems about the module they are named for | done |
| `Loops` | invariants of the loops and folds that `Resolver` is written with | done |
| `Version` | order of versions and constraint matching | planned |

### FileTxn

A path has three names: itself (`base`), `.staged-<txn>` and `.backup-<txn>`;
the last two are indexed by the truncated name, as `tempPath` makes them.
`base`, `staged`, `backup`, the journal (`state`, `rows`) and `record` (the
package and claim rows) survive a kill; the phase `pc`, the operation list and
the position in it do not. `commitOp` and `rollbackOp` are split into their
single renames and removals (`half` counts the calls made), so `Crash` may come
between any two. `Execute` sends a process that finds a pending journal into
`rollbackOps` over the operations rebuilt from the journal alone
(`fileOpsFromJournal`), which forget the staged content and `keepBackup` and
turn a swap into a replace. `abandon` is every failure before the boundary;
`rollbackOpFails` is a failing undo step; `finishRolledBack` closes the row only
if none failed. The history variables `plan`, `before` and `edited` are read by
the properties only.

`FileTxn` implements `AtomicInstall` under the mapping that takes, while a
journal is pending, the image recovery would restore (`RecoveredImage`) for the
root's state. The mapping covers payload paths; claim links are excluded because
of the finding `filetxn_torn`.

Abstracted: content, mode and link target are one value; parent directories
exist and stay.

### CrossRoot

Roots are numbers in resolved-path order. A row is `begun`, `payload` or
`prepared` while it is `pending` in the database: what is durable after
`BeginCrossRootTxn`, `SetCommitPayload` and `commitOps`. The files of a
transaction in a root are `old`, `mixed` or `new`: they are moved one by one
(`applyFirst`, `applyFiles`) and restored one by one (`RestoreFiles`), and the row
is closed by a step of its own afterwards (`CloseRow`), so a kill or a failing
call leaves any of the three under a pending row. Each process runs a
phase over its set of roots; `Turn` is the next root in path order. `Exit`
releases the locks on every way out, and `Crash` is an exit at any moment. A
recoverer first looks at every reachable database without a lock
(`lookUp`/`lookDown`: Go's map order is arbitrary, both directions are
modelled), then locks what it found, re-reads it (`decide`) and rolls forward or
back. A boundary, a prepare and a recovery step may fail, and the undo of a
failed prepare may fail in any root, with its files partly restored; the unwind
goes on with the next. Rolling forward replays the recorded payload and does not
look at the files (`rollForwardTxn`), so that they are in place has to follow from
the rest.

`StaleScan` says whether a commit may fail while some recoverer works from an
incomplete list of participants. With `TRUE` the transaction can be torn
(finding `crossroot_torn`), and a root can be committed over restored files
(section 5); with `FALSE` it cannot.

### Refresh

One repository. The server publishes `Pubs` in order and each fetch may return
any publication so far (mirrors lag). A command is a sequence of steps: read the
row, fetch and verify the descriptor, fetch and verify the index, apply the
freshness floor, write the cache, write the row; another client, a kill or a
failing call may come between any two. Times are in half seconds so that a
`generated_at` with a fraction exists; the floor keeps whole ones, and so does
the `valid_until` of a recorded key (`Marshal`). A key is active, transitioning or
revoked, and a transitioning one verifies until its `valid_until`
(`VerificationKeys`): as of its start for a command, as of the moment of the read
for `ActiveIndex`, which checks that the cached index is the recorded one
(`AsRecorded`) and verifies it again (`SignatureHolds`). So time alone may end the
service of a cached index (`Lapsed`). An unsigned fetch caches no signature.

Abstracted: names, package lists.

### Resolver and Commands

`Resolver` has one operator per function of `resolver/`, composed in `Resolve`
in the order of `resolveCore`: removals and cascade, goals, the greedy forward
loop with its step limit, succession, the consistency check, and the plan,
ordered by a depth-first walk. A resolution in progress is a record (world,
worklist, raised authorisations, steps, rejection). The loops are folds and
bounded iterations, so the module stays open to proofs. A package is a record of
its manifest's fields; a version is a number and a constraint the set of numbers
it matches; notices are left out.

`Commands` has one action per command. Planning (`Show`) and execution
(`Execute`) are separate steps, with publications and changes of the configured
repositories in between; `Abandon` is every way not to execute. Execution is
atomic, as `FileTxn` and `CrossRoot` justify. Which flags are given
(`--cascade`, `--no-recurse`, `--bypass-alternate-upgrade`, an explicit `--root`
against a `default_root`) is a choice of the action. Undoing reads the
operations of the last transaction in every reachable root, in any order, as the
code ranges over a map.

Abstracted: claim options (an input of `Staging`), licence policy, the staleness
gate (`Refresh` covers what it reads), registering named roots.

### Staging

`prepareTxn` without its system calls: given a plan over installed packages, the
operator's options and the disk, which operation each path gets
(`PackageOps`, `RemovalOps`, `ClaimOps`), what `package_file` will say
(`PackageRows`) and who will hold each role (`PostHolder`). The three ways a
file of the package is treated are one operator each: `Untouched` (same hash as
recorded, no staged inode needed), `Preserved` (an edited `/etc` file: the new
default goes to `.peipkg-new`) and `Foreign` (content that belongs to nobody:
refused, or set aside when overwriting is allowed). `Prepare` is a plan that
passes every check of `checkPayloadCollisions`, `checkClaimLinkCollisions`,
`checkClaimTargets`, `unownedPolicy` and `reconcileClaims`; `Abandon` is one
that does not, or that a call fails, and only leaves directories; `DoubleBooked`
is the journal's primary key. `Grant` and `Revoke` are `install.Claim`.
`Commit` applies operations, rows, holders (with the cascade from the package
row), links, reclaimed directories and depmod; `RollBack` stands for the process
undoing its own work or the next command's recovery. The operator writes and
deletes files between transactions and, with `Racing`, inside them. `edited`
is a history variable: the paths whose content is the operator's doing.

Abstracted: a file is its hash, a symlink its target; sizes, modes and
descriptors are left out; what layout validation says of a payload is a flag of
the package.

### Publish

A publication is `lockPublication` (which reads both indexes), `Publish` (every
check, and the list of renames to make: package files, archive index, its
signature, active index, its signature), one `rename` per file and `Done`.
`Crash` may come before any rename and leaves those already made; `GiveUp` is
every refusal. `Refused` lists the checks in the code's order; in a protected
repository these include release evidence about exactly the state published on
(`checkReleaseEvidence`, `checkQualificationBase`) and the install and upgrade
closures of the next active index (`qualifyClosures`). `Qualify` is the external
release coordinator, which may sign at any moment. A consumer fetches index and
signature as two steps and accepts under its floor, as `Refresh` models in
detail. `waived` records identities that `--replace` or `--rebuild` gave up the
retention promise for.

Abstracted: a package file is its content hash; a signature is the document and
the key; a closure follows dependencies by name.

### Compose

`Process`es run `peipkg-compose` beside each other without any lock: they share
the manifest, the lock file and, given the same output path, the staging tree.
A run is `Start` (the manifest is read once), `useLock` or `scanSources` and
`resolve`, `truncate` and `writeLock` or `tearLock` (`os.WriteFile` truncates, then
writes from the beginning, and may fail between), one `fetchOne` per locked
package in any order, `clearStaging`,
`seedRoot`, one `extractPayload` per package in any order and
`materializeClaims` for each root in path order, `finishImage` and `publish`, the
rename. `Fail` at any step leaves what was written. Files are records of a place
and the package they come from, so two files in one place are visible.

A lock is its digest and a set of packages. The closure of a manifest's
requests is computed in `Rounds` rounds, a recursive function, each of which
adds the best candidate for every dependency of what is there; `Consistent` is
`checkConsistency`, the error of a lock that would not hold what its packages
need.

The lock file is what it reads as. `written` has the locks written since it was
last truncated: two runs that both truncated it write over each other, and the
shorter text leaves the end of the longer one behind it. What then decodes is one
of `Mixtures`: a head that may pass for the writer's or another's, the packages
the writer got to (`Beginnings`, the entries in the order `Encode` sorts them),
any of the others' after them, and at the seam an entry that lost its optional
`root` key, or was given another's (`Rerooted`). A write that fails does the same
with nothing or something behind it. Such a lock is `torn` unless it equals the
one that was written; nothing in the file says so, and `useLock` accepts it when
its digest matches.

Abstracted: directories, modes, times and extended attributes, so that two images
are the same when their files, links and rows are; the resolver is
reduced to the best candidate of each name (`Resolver` models it).

## 3. Runs

| Run | Expect | Shows |
|---|---|---|
| `filetxn` | pass | two paths (one payload, one claim link), two transactions of one or two operations, one kill, one failing call, one operator edit: recoverability, kept backups, no litter, refinement of `AtomicInstall`, and that pending work is settled |
| `filetxn_torn` | violation | `RollbackRestores`: a kill between the two calls of a claim repoint |
| `crossroot` | pass | two roots, two transactions, one recoverer, two kills, two failures: never torn, settled rows tell the truth about files that are moved and restored one by one, one pending transaction per root, and everything is settled in the end |
| `crossroot_torn` | violation | `NotTorn` with a stale participant scan |
| `refresh` | pass | one client, four publications with a key rotation whose old key expires, one kill, one failure: the floor, the cache beside the row, service between commands, and a way out of a refusal |
| `refresh_race` | violation | `FloorNeverLowered` with two clients that refresh a repository from one recorded row (`RefreshSpec` begins with it added) |
| `commands` | pass | two roots, two repositories, five alternative worlds of three to six packages: consistency after every command, stepwise consistency of plans, order-independent selection, exact cascades, authorisation of elevated actions, undo, convergence of upgrades |
| `commands_satellite` | violation | `RunsWhereShown`: a plan for a named root alone runs in `/` |
| `staging` | pass | three packages (a daemon with an `/etc` file, a rival provider of its role whose second version ships the claim path itself, a consumer that wants the role at its own path), plans of up to two operations, every option, an operator who edits, places and deletes: agreement of database, links and disk; unowned content and edits kept; roles kept |
| `staging_etc` | violation | `EtcContentKept`: the second upgrade after an edit |
| `publish` | pass | two publishers, five package files (two builds of one version, two architectures, one unsigned, one collision between versions), open and protected, one kill: what is advertised is served, no rollback for a consumer, retention, installability, mending |
| `compose` | pass | two runs, a build and an update, over two manifests of which one has a named root, a repository package and local files, one publication and one rebuilt local file; begun from nothing, or with both runs about to write the lock and a third to build from what they leave: whole images, images as requested, reproducibility |

Bounds. `MaxTxn`, `MaxCrash`, `MaxFault`, `MaxEdit` and `MaxClock` cap how often
the environment acts; nothing else is bounded. One kill and one failing call are
enough for the cases the executor distinguishes, because they may hit the first
attempt, its undo, or the undo of the undo (two transactions leave room for a
retry after each). Two paths are needed for an operation to be interrupted after
another completed; more would only repeat that. Two roots are the least for a
torn commit; two kills let both a transaction and its recovery die. In `commands` a
system is as large as its catalogue of packages; each of the five catalogues is
the smallest in which one behaviour occurs (see the comments in `MCCommands`),
one repository at a time may be missing, and `MaxResolveSteps` is 12, which no
resolution there reaches. One process plans at a time: two commands whose plans
overlap are not covered.

In `staging` plans of one operation are unrestricted and only the daemon and its
rival are planned together (`Together`); two operations are the least for one
package of a plan to matter to another, and the pair is the one that contends
for a role and a path. `MaxEdited = 1` and `MaxKept = 1` bound the operator's
paths and the displaced content at one time, not how often; the run is otherwise
unbounded. In `publish` two publications after the initial index
(`MaxVersion = 3`) are enough for one to build on, replace or mend another, and
mending is not bounded; `Named` picks the sets of files that lead to each
refusal. In `compose` two runs are the least to share a lock or to find another's
remains; the change of the manifest, of the repository and of the pool may come
at any step. `OverlapSpec` adds a second initial state, `Overlapping`: the two runs
have resolved on either side of an edit of the manifest and both have truncated
the lock, which takes a run further than `MaxRuns = 2` from the first to read what
they leave. `Swap` permutes the two processes, which are otherwise alike. In
`refresh` `MaxClock = 2` lets the old key, valid until 1, expire.

The theorems
of section 4 remove these bounds for the properties they cover.

Deadlock. `filetxn`, `refresh` and `commands` are checked for it. The others say
`CHECK_DEADLOCK FALSE` because they may stop for good: in `CrossRoot` a
transaction's process ends and the kills are bounded; in `Staging` a planned
transaction whose `Commit` would exceed `MaxKept` is left to `RollBack`, and a
root where every plan is refused offers nothing to do; `Publish` stops at
`MaxVersion` and `Compose` after `MaxRuns`.

Fairness. `FileTxn`: a started process keeps taking steps unless it is killed
(the code has no blocking call: `flock` is non-blocking), and peipkg is run
again while a journal is pending. `CrossRoot`: the same for every process, and
`peipkg recover` is run again while something is pending, as the error message
of a partial commit asks. `Refresh`: a command runs to its end, the operator of
a repository that is refused adds it again (which is what the error of
`ActiveIndex` leads to), and a fetch repeated often enough returns the newest
publication. `Publish`: a publication that has staged its files goes on to its
last rename or is killed, a refused one ends (nothing in it blocks: the lock is
not waited for), and an operator who sees a torn repository, which `peipkg-repo
verify` reports, publishes again with `--rebuild`: strong fairness, since other
publishers may hold the lock in between. `Staging` and `Compose` state safety
only and assume none. Failing calls are bounded, which is the assumption that they
eventually stop.

## 4. Proofs

Seven modules prove theorems (and `Loops` lemmas for them) that hold for every value of the constants: any
number of roots, clients, publishers, builds and transactions, any manifests,
plans and publications, any bound on kills, failures and edits. The assumptions
on constants (`CrossRootAssumption` and its like) are in the modules that
declare them, and TLC evaluates them. What else a theorem needs is a hypothesis
of it, named below; each is something the code relies on without seeing to it,
and TLC shows what happens without it.

| Module | Theorem | States | Hypotheses |
|---|---|---|---|
| `CrossRootProofs` | `TypeCorrect` | `[]TypeOK` | |
| | `DiskAgrees` | `[]SettledMatchesDisk`: a committed root has all of the transaction's files, a reversed one none | `ReachesWholePlans`, `~StaleScan` |
| | `OnePending` | `[]BackstopUnused`: the locks and `recoverPending` alone keep a root to one pending transaction | |
| | `NeverTorn` | `[]NotTorn`: never committed in one root and reversed in another | `ReachesWholePlans`, `~StaleScan` |
| `FileTxnProofs` | `TypeCorrect` | `[]TypeOK` | |
| | `AlwaysRecoverable` | `[]Recoverable`: a pending journal can be reversed, however far the transaction and the attempts to undo it came | `StemsApart` |
| | `LeavesNoLitter` | `[]NoLitter` | `StemsApart` |
| | `DisplacedStays` | `[]KeepsDisplaced` | `StemsApart` |
| | `Refinement` | `Refines`: the executor implements `AtomicInstall` | `StemsApart` |
| `RefreshProofs` | `TypeCorrect` | `[]TypeOK` | |
| | `FloorHolds` | `FloorNeverLowered` | `OneAtATime` |
| | `CacheKeepsUp` | `[]CacheNotBehind` | `OneAtATime` |
| | `AlwaysServed` | `[]ServedBetweenCommands` | `OneAtATime` |
| `StagingProofs` | `TypeCorrect` | `[]TypeOK` | |
| | `HoldersStay` | `HoldersKept`: a role leaves its holder only when asked or with the package | |
| | `DatabaseAgrees` | `[]DatabaseMatchesDisk` | `SiblingsUnclaimed`, `~Racing` |
| | `LinksAgree` | `[]LinksAsClaimed` | the same |
| | `UnownedStays` | `UnownedKept` | the same |
| | `EditsStay` | `EditsKept` | the same, and `SiblingsApart`, `EtcUnclaimed`, `EtcStaysFile` |
| `PublishProofs` | `TypeCorrect` | `[]TypeOK` | |
| | `NoRollback` | `[]FloorServed` | |
| | `ServesInstallable` | `[]ProtectedInstalls` | |
| | `NothingLost` | `PublishedForGood` | |
| | `AllServed` | `[]AdvertisedServed` | `UrlsTellApart` |
| `ComposeProofs` | `TypeCorrect` | `[]TypeOK` | |
| | `WholeImages` | `[]ImageWhole` | `OutputsApart` |
| | `SameLockSameImage` | `[]Reproducible` | `OutputsApart` |
| | `RequestsMet` | `[]ImageAsRequested` | `OutputsApart`, `OneRequestPerName`, `DefaultsAgree`, `RebuiltAlike` |
| `CommandsProofs` | `TypeCorrect` | `[]TypeOK` | |
| | `StaysWhole` | `[]InstalledWhole` | `OneBuildPerVersion`, and at all times `Alone`, `InPlace`, `Sighted` |
| | `OneRootStaysWhole` | `[]InstalledWhole` | `OneBuildPerVersion`, `DepsStayHere`, one root, one process |
| | `OrderIrrelevant` | `[]SelectionOrderIndependent` | `OneBuildPerRepository` |
| | `UninstallsExactly` | `[]CascadeExact` | as `StaysWhole` |
| | `PlansInOrder` | `[]StepwiseMet` | as `StaysWhole`, `AnchorUnnamed` |
| | `OneRootPlans` | both | as `OneRootStaysWhole` |
| | `NothingUnasked` | `Unasked`: a plan shown without an authorisation moves nothing back, and removes a package unasked only for one at least as trusted that replaces it, put in place by the plan or there already | |
| | `OneRootUndoes` | `UndoRestores` | as `OneRootStaysWhole`, and at all times `Yielding` |

The hypotheses.

- `ReachesWholePlans`: `peipkg recover` is run where every root of a plan is
  reachable. `MCCrossRoot_nested.cfg` is a recovery in a nested root.
- `~StaleScan`: no boundary fails while a recoverer works from an incomplete
  list of participants. Run `crossroot_torn` is the other case for `NotTorn`, and
  section 5 has it for `SettledMatchesDisk`.
- `StemsApart`: no two paths of a root share the sibling names `tempPath` makes.
  It cuts long names, and `MCFileTxn_stem.cfg` has two that meet.
- `OneAtATime`: the commands on one repository do not overlap. Nothing in the
  code keeps them apart; run `refresh_race`.
- `~Racing`: nobody writes in the root between planning and commit. The action
  planned for a path depends on what was there, and section 5 lists what TLC
  shows for `Racing = TRUE`.
- `SiblingsUnclaimed`: nobody claims the `.peipkg-new` name of an `/etc` path.
  The collision checks read payloads, which do not list siblings.
- `SiblingsApart`, `EtcUnclaimed`, `EtcStaysFile`: nobody ships the
  `.peipkg-new` name of an `/etc` path, no two such paths share one, nobody
  claims an `/etc` path, and an `/etc` file does not become a symlink in
  another version. The last two have counterexamples in section 5.
- `UrlsTellApart`: files served here under one URL have one identity. A template
  without the architecture is accepted, and then two builds share a file.
- `OutputsApart`: each build has an output path of its own. Section 5 has two
  that share one (`OutDir <- Shared`).
- `OneRequestPerName`: a manifest requests a name once; `MCCompose_pins.cfg`.
- `RebuiltAlike`: a file rebuilt in place under the same name, version and
  architecture keeps its dependencies; `MCCompose_rebuilt.cfg`.
- `DefaultsAgree`: the versions of a package agree on their `default_root`.
  `compose/resolve.go` takes it for a fact about the package: it reads the field
  of whichever candidate comes first.

- `OneBuildPerVersion`: two builds of one version of a package have the same
  architecture, dependencies, provisions and conflicts. A package chosen again
  at its installed version, from another repository say, is no operation
  (`resolver/plan.go:44`): the build checked is then not the one that stays.
- `OneBuildPerRepository`: no repository starts with two builds of one version
  for one architecture; publication accepts only versions it does not have.
  `SetToSeq` then lists distinguishable candidates, and the last rules decide.
- `Alone`: one plan at a time waits for the operator. A plan is resolved without
  the lock and not looked at again when it runs (`cli/lifecycle.go:352`), so
  another plan may have taken what it builds on.
- `InPlace`: a plan runs in the roots it was shown for. Run `commands_satellite`
  is one that does not.
- `Sighted`: packages depend on packages of their own root (`DepsStayHere`), or
  every plan was resolved with all roots in view. `--no-recurse`, or a command
  run in a nested root, does not see the packages elsewhere that depend on what
  it changes. With one root and one operator the last three hold of themselves
  (`OneRootStaysWhole`, `OneRootPlans`).
- `AnchorUnnamed`: no package depends by name on the root from which all roots
  are reached. That root has no name to depend on: the walk over the registries
  marks it as visited before it starts (`gatherRootRefs`, `cli/root.go:173`).
- `Yielding`: no package that an undo brings back replaces one that stays or
  comes back with it (`Yields`). It takes over what is installed at that moment,
  before what comes back with it is in place (`applyReplaces`,
  `resolver/resolve.go:521`); section 5 has the transaction that cannot be undone
  for it. That the command reaches every root of the transaction, and that what
  was there before it was complete, is what one root and one operator are for:
  the lemma `UndoesExactly` needs both (`Undoable`) and the history supplies them.

`WholeImages` and `RequestsMet` are about locks that were written whole where they
speak of registered roots and of what was requested: `ImageWhole` and
`ImageAsRequested` except an image built from a `torn` lock, and section 5 says
what such a lock does. `SameLockSameImage` has no exception. `AlwaysServed` is about
a repository that no kill and no failing call has touched, as the property says,
and ends where a transitioning key does.

None of the properties is inductive. What carries each of them:

**CrossRoot.** `BackstopUnused` needs `Alone`: nothing else is pending in the roots
of a preparing transaction, which holds because beginning requires the lock, and
that a recoverer and a transaction never work on one root at once (`Locks`). After
the first commit no root of the transaction is behind "prepared" (`NoHalf`), which
needs the rows of a running transaction phase by phase (`OwnRows`). Of
`SettledMatchesDisk` the rolled-back half is local (`Disk`: a row is closed only
over restored files). The conjunction is `IInv`; there is one lemma per action,
and all ways to end a process share one.

**NotTorn** rests on `IInv` and a second invariant, `Whole`. A transaction begins
its roots in path order (`InOrder`), and a recoverer reaches all of them or none
(`Reached`), so every list of participants has the lowest (`Lowest`), where the
commits begin. A recoverer settles only what has ended (`Ended`), because it
holds that root's lock. Lists are complete once a boundary failed (`Complete`),
which is where `~StaleScan` enters; once a root committed, every list has such a
root (`Noticed`), and no recoverer rolls back (`Forward`). The run `crossroot`
has one recoverer; the theorem also covers several that race on one transaction.

The committed half of `SettledMatchesDisk` needs a third layer, `Intact`, since
rolling forward closes a row without looking at the files (`rollForward`). A root
that voted keeps its files while its transaction prepares the others and crosses
the boundaries (`Applied`); and once a root committed, the files are in place
wherever the row is still "prepared" (`Placed`). The second holds because whoever
restores files has seen no committed root, and then there is none, which is
`Whole` again.

**FileTxn.** An operation of the plan is waiting, half-way or done, and each of
these fixes its three names relative to what was there before. `Open` says that
of a pending transaction without mentioning the process, so it outlives a kill:
every operation is `Reversible` from what is on the disk, and every sibling is
`Accounted` for by an operation. `StageInv`, `ApplyInv` and `UndoInv` say which
operations are in which state at a position of the running phase. The refinement
maps the state of the root, while a journal is pending, to what recovery would
restore; every step but the commit and the start leaves that image alone, which
is what `Open` is for.

**Refresh.** A command carries what it has read (`Fetched`); the row it read is
still the recorded one (`RowKept`), so the row it is about to write is not below
it (`NextRow`) and the cache it has written agrees with that (`Written`). Floors
are cut to whole seconds once (`WholeSeconds`). Row and cache differ only between
the two writes, unless one of them was cut off; and the keys of the row hold the
one that signed the cached index (`Serves`, `Paired`): it verified under the keys
of the descriptor that came with it (`Fetched`), and those are what the row is
given. So it verifies later as well, until that key, if it is transitioning,
passes its `valid_until` (`Lapsed`).

**Staging.** What a commit may rely on is settled when its plan is made. `Sound(w)`
lists it for a planned transaction `w`: every operation puts a row's or a link's
content in place or removes what nothing refers to any more; every row and link
to come is backed by an operation or by what is on the disk; links and rows are
at different paths; what is created is absent; what is displaced is kept or
unchanged. The planner's guards establish it, nothing disturbs it while the
transaction waits, and the commit needs nothing else. `EInv` adds, for edited
`/etc` files, that a row is of a path its package ships (`FromPayload`,
`Present`) and that every operation on an edited path keeps a backup or leaves
the content (`Careful`).

**Publish.** `Staged` describes what the renames still to come will make of the
repository (`InFlight`), so the checks, which read the state before the first
rename, can be used after each of them. `Opened` and `Alone` give that a
publication builds on what is served. `SInv` adds, for `AdvertisedServed`, that
what an index to come advertises is served already or renamed into place before
it.

**Compose.** `TInv` has the shapes and that a lock lists a name in a root once.
`Progress` gives the staging tree of a run as a function of how far it has come,
and `Published` an image as a function of its lock, which is reproducibility.
A mixture of two locks is a lock with one entry of a name in a root all the same
(`MixtureGood`): whatever it holds is an image, and the same one each time. What a
manifest asked for is known only of a lock that was written whole (`GoodLock`,
`Requested`): `Promised` says of every such lock in use that it holds it. That
begins at the resolution, where one needs that the best of finitely many
candidates exists. That, and the argument over the rounds of a closure, go by
the least counterexample of a well-founded order, which the library's theorem
`WFMin` states without an operator parameter.

**Commands.** The resolver is a pipeline of loops. `Loops` reduces a loop, for
any step and any invariant, to one turn of it; its parameters are constants that
`CommandsProofs` instantiates once per loop, which stands in for the induction
the provers cannot do over operators. `Sound` is what every loop of the
resolution keeps: the world has one entry of a name in a root, an entry
remembers what was installed there, and whatever is on the worklist is in the
world. `SortedAll` is the depth-first walk: it lists every entry once or reports
a cycle (`WalkOK` counts its turns). So a plan that is not rejected `Achieves` a
consistent world (`ResolveOK`); its operations concern different packages, so
running them has the same effect in any order (`RunEffect`) and leaves that
world (`AchievedEffect`), `--no-recurse` and alternate upgrades included
(`HoldValid`). `WholeInv` then says that what is installed is whole, and that it
would be after the plan that waits: nothing else changes what is installed
before that plan runs.

An uninstall is exact because each turn of the removal loop drops an entry that
is broken in what is left, so it can belong to no set that meets its own
dependencies (`Cut`, `RemovalsExact`): the entries that remain include every
such set and, once nothing is broken, are one. The rest of the pipeline has
nothing to add to a resolution that was only asked to remove (`NoGoalNoWork`,
`NothingSuperseded`), so that world is the plan's (`RemovalPlan`). Roots out of
view keep what they have, and are part of the largest set because they were
whole (`WholeInv`).

For `StepwiseMet` the walk also keeps that its list is `Laid` out: what an entry
may depend on precedes it, and nothing is listed twice. So the operations are
`Arranged`: removals first, dependents before what they need, then what is put in
place, dependencies first. After a prefix of the plan (`PrefixEffect`) a package
just put in place finds each dependency put in place before it, or untouched by
the plan (`PlacedMet`); what still waits to be removed has lost nothing, because
what it needs is removed after it (`RemovedMet`). `Routes` says that the resolver
looks for a dependency where the package will look for it.

For `NothingUnasked` the loops of the resolution also keep that each place of
the world they started from is still taken, by an entry that remembers the same
package (`Retains`): without a request to remove, only a succession takes an
entry out. Whoever replaced it was chosen in that root, so it is put in place by
the plan or is a package of a name installed there already; and it is at least as
trusted, or the resolution has raised an authorisation (`SuccessorTrusted`,
`ChangesSucceed`). What moves back raises one itself (`PlanElevations`). Each
command then shows a plan its request consents to (`Consented`,
`ShowsConsented`). That is all the code ensures: `ElevationsAsked`, which TLC
checks, demands that the successor is put in place, and section 5 has two
catalogues where a resolution replaces a package by one that was there before,
or by one that is itself replaced.

For `UndoRestores` the operations of a recorded or waiting plan are `Reversible`:
one for a package, and whatever is not an install remembers what it replaced.
Without a cascade the removal loop takes what it was asked for or rejects
(`RemovalsPlain`); then each goal chooses the version asked for or rejects
(`SowAll`). So a resolution that is not rejected has, before it follows any
dependency, the world in which every operation is reversed and nothing else is
touched (`PutBack`, `GoalsPutBack`). What was there before being complete, that
world meets its own dependencies, the rest of the pipeline leaves it alone
(`ForwardSettled`, `PutBackMet`, `PutBackStays`), and running the plan leaves it
(`UndoLeads`, `PutBackRuns`). `UndoInv` holds the outcome while the undo waits.
With one root the history supplies the hypothesis: a plan replaces what is
installed (`Recalls`), so reversing it on what it left gives what it was run on
(`BeforeEffect`), which was whole; and the other roots have no part in it
(`BeforeElsewhere`). That is `HistoryInv`.

The selection rules compare grades (`Grade`): whole numbers, compared
lexicographically, by one list of rules among the revisions of a package
(`BetterRevision`) and by another among different packages (`BetterPackage`).
Each is a strict total order (`Ranks`), so a scan finds its greatest element
wherever it stands in the list (`PreferredWins`). On a mixture the rules are not
transitive: that is why `pickBest` first keeps one revision of each package, and
why the theorem needs both rounds (`PickBestWins`: it returns the only
`Winner`).

What stays with TLC. Liveness (`PendingResolved`, `EventuallySettled`,
`Unwedged`, `TornHeals`): fairness and `ENABLED` are out of the prover's reach.
Of `Commands`, `UpgradeConverges`, which compares two resolutions turn by turn;
`ElevationsAsked`, which holds for the catalogue of its run and not for every one
(`NothingUnasked` is what holds for every one); and that an undo is possible at
all: `UndoPossible` is refuted (section 5).

## 5. What the checks found

- **A repoint killed half-way is not undone** (`filetxn_torn`). After
  `Exchange`, the old link is at the staged name, which rollback deletes.
- **Recovery can tear a transaction** (`crossroot_torn`): participants are
  listed before the locks are taken, and only the listed ones are re-read.
- **Concurrent refreshes can lower the floor** (`refresh_race`). Two refreshes
  read one row, of version 2. One has fetched version 3 and records it; the other,
  whose mirror still served version 2, compares that with the row it read and
  records version 2 over it.
- **A plan for a named root alone runs in the anchor** (`commands_satellite`):
  the single-root executor ignores the root of an operation.
- **An edited `/etc` file survives one upgrade only** (`staging_etc`): the first
  upgrade records the operator's hash as the package's, so the second takes the
  file for unmodified. `EditsKept`, which `staging` checks, is the promise the
  code does keep: it is about the hash recorded last.

Each is a run that TLC refutes with a trace, and an entry of `findings` in
`PROJECT.json` that quotes the comment, test or document it contradicts.

Other properties are stated in the modules and refuted beside the runs, each by
changing the configuration named or by one of its own; they are kept because they say where the
passing runs stop.

| Property | Change | What TLC shows |
|---|---|---|
| `FileTxn!NoSpuriousRollback` | `MCFileTxn.cfg` with `Plans <- Handover` | a path that passes from one package of a plan to another gives two `txn_file` rows for one path; the key rejects the second and the transaction rolls back, although `src/DESIGN.md:492` says it is no conflict |
| `FileTxn!RollbackRestores` | `MCFileTxn_stem.cfg` | `tempPath` cuts long names (`install/files.go:88`), so two files of a directory can have one backup name; the second removal of a transaction replaces the backup of the first, although `install/files.go:158` says rollback is correct wherever the transaction was |
| `CrossRoot!NotTorn` | `MCCrossRoot_nested.cfg` | `peipkg recover --root` of a nested root does not look at the anchor (`cli/recover.go:45`): it sees one pending participant, no committed one, and rolls back what a sibling committed, although `install/execute.go:730` says it first confirms that none did |
| `CrossRoot!DisplacedKept` | in `MCCrossRoot.cfg` | rolling forward discards backups that an authorised overwrite promised to keep: `keepBackup` is not journalled (`install/execute.go:797`) |
| `CrossRoot!SettledMatchesDisk` | `MCCrossRoot.cfg` with `StaleScan = TRUE` | a recoverer with a list made before the last root began restores the files of a root that has committed or is about to, and stops at a failing call; the next recovery sees a committed root and rolls forward, which does not look at files: the row says committed and some or all files are the old ones (`install/execute.go:784`) |
| `Refresh!FrozenStaysStale` | `MCRefresh.cfg` with `Pubs <- Fractional` and `MinIndexVersion = 1` | the floor keeps whole seconds and the gate compares exactly, so a frozen index counts as progress (`repository/client.go:94`) |
| `Commands!UndoPossible` | in `MCCommands.cfg` | an upgrade that brought a new dependency cannot be undone: the dependency's removal is tried while the version that needs it is still there |
| `Commands!ElevationsAsked` | `MCCommands.cfg` with no files and one repository of `old` 1 and `new` 1, which replaces it | with both installed, a downgrade of `new` to the version it has removes `old`, unasked, and puts nothing in place: `applyReplaces` acts on every chosen candidate (`resolver/resolve.go:521`), although its comment (`resolver/resolve.go:505`) speaks of a package being installed or upgraded |
| `Commands!ElevationsAsked` | `MCCommands.cfg` with no files and one repository of `old` 1 and `new` 1, later of a version 2 of each that replaces the other | an upgrade of both removes both and asks for nothing |
| `Commands!UndoRestores` | `MCCommands.cfg` with no files and one repository of `old` 1 and `new` 1, which replaces any `old`, later of a version 2 of each that replaces nothing | with both installed and upgraded, an undo moves `new` back and removes `old`, which should have come back too |
| `Staging!UnownedKept` | `MCStaging.cfg` with `Racing = TRUE` | create or replace is decided at planning; a file placed at the destination before the rename is overwritten without a backup |
| `Staging!EditsKept` | `MCStaging.cfg` with `Manifest <- ClaimedConf` | a rival claims the `/etc` path of a package that is removed: the link's operation takes the place of the removal's and keeps no backup of the edited file (`install/execute.go:421`) |
| `Staging!EditsKept` | `MCStaging.cfg` with `Manifest <- LinkedConf` and `PkgOrder <- EOrder` | a version that ships the `/etc` path as a symlink: the symlink branch of `install/stage.go` does not look for edits |
| `Staging!HoldersEligible` | in `MCStaging.cfg` | a holder that is upgraded to a version that no longer provides its role keeps it (`install/claims.go:355`), although `claims/claims.go:55` says only an eligible provider may |
| `Staging!IndexFresh` | `MCStaging.cfg` with the `K...` definitions of `MCStaging` for its constants | an upgrade that moves a kernel's modules to another release runs depmod for the new one only |
| `Publish!ProtectedHeals` | in `MCPublish.cfg` | a protected repository whose publication was interrupted cannot be published into again: qualification demands a base that verifies (`repopub/qualification.go:59`), against the purpose stated at `repopub/publish.go:105` |
| `Compose!ImageAsRequested` | `MCCompose_pins.cfg` | one name requested in two roots under two constraints: a candidate survives if it satisfies any pin (`compose/resolve.go:184`), the newest goes to both roots, and the resolver, to which the comment at `compose/resolve.go:549` leaves the per-root constraint, is not given it |
| `Compose!ImageAsRequested` | `MCCompose_rebuilt.cfg` | a local file rebuilt, with one more dependency, between the scan and the hashing: `verifyLocalPackage` compares name, version and architecture (`compose/resolve.go:523`), so it is locked without the dependency, although the comment at `compose/resolve.go:508` says the manifest must agree with the chosen candidate |
| `Compose!RevokedRefused` | `MCCompose.cfg` with `Change <- Revoked` | a locked build verifies with the keys the lock recorded, although `compose/fetch.go:116` says a key revoked since must not verify |
| `Compose!ImageWhole` | `MCCompose.cfg` with `OutDir <- Shared` and without symmetry | two builds of one output share the staging directory; one publishes what the other is still writing |
| `Compose!ImageWhole` | `MCCompose.cfg` without the exception for `torn` locks | two builds write the lock at once (`compose/compose.go:264`): each truncates, then the shorter is written over the longer and leaves its tail. The mixture decodes under the digest of one manifest and names a root that manifest does not declare: the image has a root that its registry does not know |
| `Compose!ImageAsRequested` | the same | a write cut short between two packages, or a mixture, decodes and passes for the lock of its manifest: the image lacks a requested package or a dependency |

## 6. Not modelled, and what is next

Side effects other than depmod (they leave no state the program reads); archive
indexes and package downloads in the client; listing, queries and
audit records (they change nothing the program reads back); parsing, encoding,
cryptography and ELF inspection (single documents, no state); registering and
removing named roots; database migrations; overlapping plans of two commands.
The order of versions and constraint matching (`version/`) is still a number and
a set in `Resolver`; a module of its own is planned.

Every safety property of the passing runs is a theorem now but
`UpgradeConverges` and `ElevationsAsked`, of which `NothingUnasked` is the part
that holds for every catalogue. Next, in order: the hypothesis on the catalogue under which
it holds, checked with TLC before it is proved; an abstract
specification of a repository as its consumers see it, which `Publish` would
implement; and a module for the order of versions (`version/`) with the theorem
that it is one.

Seen while modelling and not judged by a property:

- Commands: a downgrade or undo that would install a
  package with an alternate upgrade path from the active index is refused
  although the comment at `cli/lifecycle.go:356` exempts them; after
  `default_root` moved an install, candidates come from the repositories of the
  target root.
- Staging: directories made while planning, before any journal row, stay after a
  refusal, a failure or a rollback.
- Publish: a URL template without the architecture is accepted, so two
  architectures share a file; `deriveActive` walks in order, so a rebuild may be
  refused for a tie that publishing one by one accepted; `generated_at` may go
  backwards; a publication killed between the archive and the active rename is
  refused on retry as already published, and has to be rebuilt; a killed `init`
  leaves a directory that both `init` and `publish` refuse; the upgrade check
  covers one step of history.
- Compose: the lock is written in place and not renamed into place, so a failing or
  an overlapping write may leave one that decodes (section 5); the record of
  extended attributes is written after the image is in place.
