# Verification of postgresbuild

postgresbuild builds relocatable PostgreSQL distributions, publishes them as
GitHub releases and serves a public inventory of them. This directory holds
TLA+ models of the parts of it that have state worth exploring, the TLC
configurations that check them, and TLAPS proofs about them.

- [Inventory](#inventory)
- [Modules](#modules)
- [How the model corresponds to the code](#how-the-model-corresponds-to-the-code)
- [Runs](#runs)
- [Fairness](#fairness)
- [Where the code and its documentation disagree](#where-the-code-and-its-documentation-disagree)
- [Proofs](#proofs)
- [What is assumed, and what is not modelled](#what-is-assumed-and-what-is-not-modelled)
- [Next](#next)

## Inventory

| Component | State | Operations | Hard behaviour | Correct when |
|---|---|---|---|---|
| **Release ingestion** (`main.py` `publish_release`, `publication.py` `fetch_valid_snapshot`, `materialize`, `blob.py`) | blobs `releases/<tag>/<name>`, `snapshots/<tag>.json`, `index.json` | `POST /api/publication` | concurrent requests sharing only the bucket; optimistic concurrency with an entity tag read apart from the body; paged listing; crashes between any two requests; releases replaced under their tag | the index is a projection of verified, mirrored, recorded snapshots; what was accepted stays in it |
| **OIDC verification** (`publication.py` `_jwks`, `verify_github_oidc`) | a process-wide key cache with an age | cached fetch, forced fetch, verification | threads sharing the cache, key rotation, lock held over a network call | a valid token is accepted after at most one refresh; a withdrawn key is accepted no longer than the TTL and a fetch |
| **Public inventory** (`main.py` `get_index`, `get_versions`, `versions_ndjson`, `vercel.json`) | none (reads `index.json`) | two GET handlers, two redirects | reads race writes; one release can break the feed for all | only a canonical index is served; versions are in SemVer order |
| **PR readiness gate** (`.github/scripts/pr-ready.cjs`) | label and signal ref of each pull request, both at GitHub | one handler for three events | gates of different commits interleave; reruns; partial failures | the label and the ref follow the readiness of the current head |
| **Pull request watcher** (`scripts/babysit-pr.py`) | last observation | polling loop | observations are composed of several reads; the head moves | success is reported only for a confirmed head |
| **Maintenance updater** (`maintenance.py`) | recipe and fixture files | discover, apply a batch | a candidate goes stale before it is applied | a batch is applied as a whole or not at all |
| **Release discovery** (`github.py`) | none (upstream pages) | `latest_release` | pages shift while they are read | the greatest stable version among the first hundred releases |
| **Data directory lock** (PostgreSQL patch `data_directory_lock`) | lock descriptor inherited by children, header file, `postmaster.pid` | lock, create, recycle, exit callbacks | a crashed postmaster with surviving children; crashes between file operations | never two servers on one data directory; a dead server's files do not block for ever |
| **Workflows** (`postgresbuild.yml`, `ci.yml`) | releases, artifacts of the run | build, gather, publish, ingest | release published, ingestion failed | a release can always be ingested later |
| **Hook synchronisation** (`sync-githooks.py`) | git configuration | install hooks | runs overlap; users write between its commands; interruptions; commands whose failure is not noticed | never overwrites a foreign hook it could have known of, always recovers its own |
| Entry points, test packaging, recipes | files | one-shot commands | none | — |

How they interact: the build workflow publishes a GitHub release and then calls
the publication service with an OIDC token; the service reads the release back
from GitHub, copies its archives to the bucket, records a *fragment* for it and
rebuilds `index.json` from all fragments. The inventory handlers only read the
index. The readiness gate and the watcher observe the workflows through GitHub.
The updater rewrites the recipes the workflow builds. The PostgreSQL patch is
part of the product and shares nothing with the rest.

## Modules

| Component | Modules |
|---|---|
| Release ingestion | `IndexProjection` (fragments, `project_index`, `validate_index`), `BlobStore` (the bucket, one operator per request of `blob.py`), `SnapshotIngest` (the service: one action per answered HTTP request, faults, properties), `SnapshotArchive` (what it promises, as an abstract archive), `SnapshotIngestInv` (the inductive invariants), `SnapshotIngestProofs`, `MCSnapshotIngest` |
| OIDC verification | `JwksCache`, `JwksCacheProofs` |
| Public inventory | `VersionFeed`, `ListingProofs`, `MCVersionFeed` |
| PR readiness gate | `ReadinessGate`, `ReadinessGateProofs`, `MCReadinessGate` |
| Pull request watcher | `PullRequestWatch`, `PullRequestWatchProofs`, `MCPullRequestWatch` |
| Maintenance updater | `MaintenanceBatch`, `MaintenanceBatchProofs`, `MCMaintenanceBatch` |
| Release discovery | `ReleaseListing`, `ListingProofs`, `MCReleaseListing` |
| Data directory lock | `DataDirectoryLock`, `DataDirectoryLockProofs` |
| Hook synchronisation | `HookSync`, `HookSyncProofs`, `MCHookSync` |

`SnapshotIngest` extends `BlobStore`, which extends `IndexProjection`.
`SnapshotIngest` instantiates `SnapshotArchive` with a refinement mapping, and
`MCSnapshotIngest` and `SnapshotIngestProofs` extend `SnapshotIngestInv`, so
that what is proved is what is checked. The other modules of proofs state the
inductive invariant of their component. `ListingProofs` is about both modules
whose data are sequences, the listing that is read and the feed that is served,
and states the lemmas on sequences once. The other components share no state
with the ingestion: the feed reads an index, of which `VersionFeed` takes any
history; the verification of the token comes before the first step of a
request; the rest meets at GitHub. Modules named `MC...` give the constants of
a small instance values that a configuration cannot write.

Operators marked *Mutant* in a comment are plausible bugs; replacing the
definition after them by one of them makes the corresponding property fail
(`PROJECT.json`, `mutants`).

## How the model corresponds to the code

`PROJECT.json` names for each definition the lines it translates. What follows
is how to read them.

### Release ingestion (`SnapshotIngest`)

A step of a request is one answered HTTP request and the local work up to the
next one; other requests, a timeout and the death of the function instance fall
between any two of them.

| Action | Code |
|---|---|
| `PublishRelease` | a release appears, or another one takes its tag (GitHub) |
| `Start` | `ingest_publication` up to the call of `publish_release` |
| `FetchRelease` | `fetch_valid_snapshot` up to the comparison of `SHA256SUMS`: the release, its manifest and its checksums, the asset URLs being fixed by the first answer |
| `ReadArtifact` | the loop over the public files in name order: download, size and digest, and for a primary archive the first half of `put_immutable` |
| `PutArtifact` | the second half: a create-only PUT, read back if it is refused |
| `ReadFragment`, `PutFragment` | `materialize`: `validate_fragment`, then the same two halves for `snapshots/<tag>.json` |
| `ReadIndex`, `ReadEtag` | `get("index.json")`: the body, then, as another request, its entity tag; then `validate_index` |
| `ListFragments` | one page of `list_fragments`; the last page goes on with the conflict check, the projection and the comparison with the body read before |
| `PutIndex` | `put_cas`: success, or a lost round (409, 412) and the next of the eight |
| `Reply` | the 200 answer |
| `Abort` | a timeout, an error status, or the end of the instance, at any point |
| `DeleteIndex`, `CorruptIndex`, `RollBackIndex` | `index.json` altered by something else than the service |

Data is abstract. A file is a name (a number, because files are walked in name
order), a coordinate, one of the two public roles and a digest; the content of
an asset is its digest; tags and publication times are numbers. What
`validate_snapshot` and `_validate_record` demand of a manifest is one flag of
the release, `defect`: `manifest` fails while it is read, `fragment` fails in
`validate_fragment`, which runs after the archives were copied (a publication
time or a tag that is not a UTC minute). The answers `ok`, `ignored`,
`rejected`, `exhausted` and `failed` are the statuses 200, 202, 400, 400 with
"did not converge", and 5xx or none.

Reading a blob under an immutable path is one step although `get` also asks for
its entity tag: nobody looks at that tag, and the content cannot change.

### OIDC verification (`JwksCache`)

| Action | Code |
|---|---|
| `Begin` | `verify_github_oidc` up to the first call of `_jwks`; a malformed header ends the request |
| `UseCache` | `_jwks` within the TTL, and `select` on its document |
| `StartFetch`, `Answer`, `Store`, `FetchFails` | `_jwks` with a fetch, the lock held over all of it: the request, GitHub's answer, the store dated with the time *of the store*, the exception |
| `Judge` | an unknown key forces one fetch, the second time it is refused; then the signature and the claims |
| `Rotate`, `Tick` | GitHub changes the document; the monotonic clock |

The cryptography and the eight claims are one outcome of a token, `fails`; the
order of the checks does not matter for what is accepted. `steady`, `retired`
and `sampled` are history: whether the key of a token was published all the
time, when a key was withdrawn, when a document was read.

### Public inventory (`VersionFeed`)

`GetIndex` and `GetVersions` are the handlers; `VersionKey`, `Semver`, `Line`,
`Lines` and `VersionsNdjson` are the functions they call. A source version is
the sequence of its numbers with the phase of a prerelease. What is stored is
chosen once: any history that validates (`Canonical`: `validate_index` refuses
a tag or a coordinate that occurs twice), nothing, or an index that does not
validate. The two calls of `sorted` are `InOrder`, over the pairs that the key
orders: `ByPrecedence` with the stability of `sorted`, which leaves versions
with the same key in the order of the records, that is of their names
(`Precedes`), and `ByTarget`.

### PR readiness gate (`ReadinessGate`)

One action per request of `gate`, `readiness` and `signal`, in the phases of
the variable `gate`; a gate is the active run of the concurrency group of its
commit, `pending` the one that waits in the group and is replaced by a later
event, `inflight` the events that GitHub has yet to deliver. `Push`, `Toggle`,
`Rerun`, `CheckBegins`, `RunCompletes` are GitHub and its users. `Fail` is a
request that fails, or that was done and whose answer was lost. Two variables
are history and no state of the code: `overtaken`, the gates that act on what
they read of the pull request before a push, or in company of such a gate, and
`unfinished`, that what a dead or an overtaken gate has done is still to be
repaired.

An event of kind `pull request` makes a gate that looks at no workflow run. So
does the manual dispatch of the workflow, which is no event of its own, and so
do the events of an earlier run of a commit that is pushed again: their run is
over and `getWorkflowRun` says so (`OfEarlierRun`). `Push` takes a commit back
only once its runs are over; at GitHub two runs of one workflow could go on for
the same commit.

### Pull request watcher (`PullRequestWatch`)

One action per request of a poll, in the order of `watch`: `ReadPr`,
`ReadChecks` (of whatever is the head by then), `ReadReviews`, `ReadInline`,
`ReadRuns` (of the commit that was read first), and, for a second equal green
poll, `Confirm`. `Judge` is the chain of conditions that follows the reads;
`ReadFails` the exception handler with its count of three; `Sleep` the
interval, in which GitHub has registered the checks of a commit. `Rerun` is
that of a failed job. Rerunning all jobs of a run that has passed is left out:
it could begin between the confirming read and the announcement, where no
program that polls would see it.

### Maintenance updater (`MaintenanceBatch`)

`StartDiscover`, `Look`, `LookFails`, `WriteReport` are `discover`, package by
package. `apply_batch` is `StartApply` and three loops over the batch, with
`NextLoop` between them: `Revalidate` looks at each candidate again, `Declare`
stages the declarations of one, after the comparison of its fixture
replacements with those before, and `SyncPins` the pins on one, in the recipes
of all its consumers. `texts` is the dictionary of that name: the recipes that
have been edited so far, each as a whole (what it declares and the pins it
states), and `TextOf` is `texts.get(path, path.read_text())`, which decides
whether an edit keeps those before it. `Write` rewrites the fixtures and writes
all texts in one step, because `write_transaction` is the library's.
`ApplyFails` is an exception before that. The loops take the candidates in any
order; the code has one. Versions are numbers whose tens are the major version.
`MaintainerUpdates` and `MaintainerNarrows` stand for another revision being
checked out between the two commands.

### Release discovery (`ReleaseListing`)

`ReadPage` is one turn of the loop of `latest_release`, with the four ways it
ends; `ReadLatest` the branch without a major version; `Publish` and `Delete`
shift the pages between two turns, by a release at the front or anywhere.

### Data directory lock (`DataDirectoryLock`)

One action per system call, in the phases of the variable `phase`: `TakeLock`
is `PGFileLockDataDirectory`, `CreatePidFile` the loop of `CreateLockFile`,
`OpenHeader` to `FillHeader` are `PGFileSharedMemoryCreate`, `CreateSegment`
and `RecordSegment` `dsm_postmaster_startup`. `BeginExit` enters the callbacks
of `proc_exit` at the one that was registered last; `DestroySegment`,
`DeleteHeader`, `RemovePidFile`, `CloseLock` are those callbacks. `Kill` skips
them; `Fork` and `ChildExits` share and give up the open file description that
has has the lock; `Reboot` may lose what was written to the header.

The segments are those the kernel keeps in memory, which `Reboot` takes along.
With `dynamic_shared_memory_type = mmap` they are files that survive it. Those
need no header: PostgreSQL removes them by their names at the next start
(`dsm_cleanup_for_mmap`), which is outside the patch and the model.

### Hook synchronisation (`HookSync`)

A hook is a number, the place of its file in the order `discover_hooks` returns.
`Start` is that function and the step to the first hook: `todo` has the path at
which each hook that is left was found; `ReadMarker`, `ReadCommand`, `RemoveSection`,
`SetMarker`, `SetCommand`, `AppendEvent` are the `git config` processes of
`main`, in their order.

git takes `config.lock` without waiting, so each of them may fail while another
process writes. What that does is the code's: a read that fails counts as a key
that is not there (lines 59-61), a removal that fails is not noticed and the run
goes on to add to the old section (line 77), and one of the last three ends the
run with an exception, which is `Crash` as any interruption is. The failures are
not tied to who holds the lock at that moment; any may fail at any time, also
in a run that is alone, for instance while an editor has the file.

Users and checkouts (`UserWrites`, `UserRemoves`, `Checkout`) change sections
and files at any time, also between the reads of a run and its removal. Three
variables are history: `overtaken`, per run the hooks that were changed since it
began to read them (or, if their file moved, since it listed them); `blind`, the
runs that could not read the command of the hook in hand; `kept`, the hooks
whose section may have events from before the last removal.

Simplifications: a section belongs to one hook file. `pre-commit.x.sh` and
`pre-commit.x.py` together would share one and overwrite each other in every
run. `git config --get` reads all scopes and the removal only the local one; the
model has the local one. Keys other than `event` have one value. The section of
a file that is gone stays, as in the code.

## Runs

| Run | Question | Instance and bounds |
|---|---|---|
| `concurrent_ingest` | Do concurrent and dying ingestions behave as the archive, also over a release that is replaced under its tag? Do as many rounds as requests suffice? | three requests, eight releases on two tags: valid, valid with other bytes, a damaged archive, damaged debug symbols, draft, malformed manifest, malformed fragment, and one ordered differently by tag and by time; 3 rounds; symmetry |
| `damaged_index` | What do deletion, corruption or a rollback of `index.json` between any two steps do? | three requests, two releases, two incidents: one may hit the recovery from the other; 4 rounds; symmetry |
| `eventually_indexed` | Is a valid release indexed in the end, over the remains of dead requests, and every request answered? | three requests, two releases without debug symbols; `FairSpec` |
| `key_rotation` | Do threads that share the cache accept what is valid and nothing that was withdrawn? | two threads, two keys, two rotations, TTL 2, fetches of up to 1, time up to 4; `FairSpec` |
| `feed_order` | Is the feed in SemVer order, and is it the index? | every set of up to five of nine versions, on two targets; 19.0.0.1, which only the ingestion accepts |
| `readiness_gate` | Do label and signal agree with the head once all is dealt with? | two commits; either a push at any point of a rerun and its gates, or a head that stays with two reruns, a conversion and a failed request; symmetry |
| `gate_stale_head` | Does the gate of an old commit spare a newer head? It does not: see below | two commits, a push and a rerun |
| `pull_request_watch` | Is success earned, what was requested shown, the timeout kept? Does the watcher end? | three plans: a push; a rerun; reviews, closing, a timeout of 2 intervals and `--follow`; three jobs; `FairSpec` |
| `batch_applies` | Is a batch applied whole, without breaking pins, ranges and fixtures, and are packages up to date in the end? | a server with two majors and two libraries it pins, versions of the same name; three moves upstream, one edit, one failed request; `FairSpec` |
| `listing_changes` | What does a listing miss that changes while it is read? | every order of three or six of seven releases, pages of 2, 3 pages, the first 5 count; one published, two deleted |
| `directory_lock` | Do the lock and the files of a data directory survive what kills servers? | three postmasters, two children each, any number of kills, shutdowns and reboots; `FairSpec` |
| `hooks_shared` | Do runs install their own hooks and no others, whatever fails or interferes, and does a setup that is run again recover? | two hooks; one run with two changes by users between the runs, or one of them while it goes on, an interruption and a failure that is not noticed; two runs with either a change before them, an interruption and a failure, or a change and a failure while they go on; `FairSpec` |

Why the bounds are enough: in each instance every action is taken (in every
disjunct of the next-state relations), and each property fails under the
mutant that is recorded for it. Three ingestions are a winner, a loser and one
that reads between them; two gates, two fetches or two hook runs are the least
that interleave, and a third only queues behind the concurrency group, the lock
or the configuration; three postmasters are one that has died with children,
one that starts and one that finds both. Counters that the code does not bound
(clock, pushes, failures) are bounded by constants that only enable what
happens *outside* the component; `Attempts`, `Limit`, `Pages`, `MaxErrors` and
`TTL` are constants of the code, made smaller.

Deadlock is checked where the component never stops (`directory_lock`,
`feed_order`, `batch_applies`, `hooks_shared`); elsewhere every request, call or
event is served once.

The type invariants of `HookSync`, `PullRequestWatch` and `MaintenanceBatch` are
not among the properties of the runs; they are proved.

The properties, in the words of the program:

*Ingestion.* `AdvertisedIsMirrored`: the fallback URL of every archive in the
index leads to the advertised bytes. `IndexedWasVerified`: every snapshot in
the index is *one* version of its release that a request read, all of whose
files matched their digests; never a mixture of the versions a tag has had.
`IndexIsRebuildable`: the index never knows more than the stored fragments.
`AcceptedIsIndexed`: a snapshot answered with 200 is in the index from then on;
after damage from outside, from the next write on (an index that does not
validate refuses every ingestion with 400 until somebody removes it).
`IndexNeverLoses`, `LatestNeverGoesBack`: no write drops a snapshot of the
index it replaces, nor makes `latest` of a coordinate an older build.
`NoSpuriousExhaustion`: every lost round is another request's success.
`ImplementsArchive`: as long as nothing else writes the index, every step is a
step of `SnapshotArchive` or changes nothing of it.
`EveryRequestIsAnswered`, `ValidReleaseIsIndexed`: liveness.

*Verification.* `KnownKeyIsFound`: a token is refused for its key only if
GitHub did not publish the key all the time. `WithdrawnKeyExpires`: a withdrawn
key is accepted for at most the TTL and the duration of one fetch, because a
document is dated by its store and not by its answer. `CacheNeverGoesBack`: a
slow answer never replaces a younger document. `EveryVerificationEnds`.

*Feed.* `FeedIsInPrecedenceOrder` compares with the definition of SemVer and
not with the sorting key of the code; `FeedIsTheIndex`: each archive is offered
once, also if versions compare equal (19 and 19.0, 19beta4 and 19.0beta4).

*Gate.* `SettledIsReconciled`: when all runs and events are dealt with and a
gate of the head went through alone since the last gate that died or was
overtaken by a push, label and signal agree with the head, whatever was
coalesced, read stale or half done. `OnlyTheOvertakenDisturb`: what the finding
below shows is done only by a gate that a push has overtaken between its last
read and its writes, never by one that a push has merely made old.

*Watcher.* `SuccessIsEarned`: success is announced only for a commit all of
whose checks passed, those of jobs that were not registered yet included.
`RequestedChangesWereShown`, `TimeoutIsKept` (at most as many intervals late as
polls may fail in a row), `WatchEnds`.

*Updater.* `TreeIsConsistent`: pins name declared versions, declared versions
are inside the ranges. `FixturesFollow`, `NoDowngrade`. `BatchIsWhole`: the
declarations of every package of a batch and the pins of all its consumers are
in the tree that is written, and nothing else is touched, although the edits are
staged one by one and several may be in one recipe. `EventuallyUpToDate`: once
the upstream is quiet nothing is outstanding that is not blocked.

*Discovery.* `AnswerIsSound`: at most one release is missed for each that was
deleted while the pages were read, and none because of those published, if
they are no more than a page (see [Proofs](#the-discovery)).

*Lock.* `MutualExclusion` counts the children that outlive a postmaster.
`LiveServerKeepsFiles`, `SegmentsAreNotForgotten` (the header names a segment
until it is gone), `ForeignSegmentIsSpared` (a copied directory never costs the
original its segment), `EventuallyServing`.

*Hooks.* `InstalledIsComplete`: once all runs report success, each hook that
nobody changed meanwhile has its marker, its command and its event, also if a
removal failed; and the event no more often than there are runs, once if there
is one, unless the section is from before the last removal (`kept`). Nothing
bounds the events otherwise: two runs whose removals fail in turn can leave
three, which is what the exception is for. `ForeignHookIsKept`: a run takes a
section somebody else wrote only if that was written after the run began to read
it, a window the script does not close, or if its command could not be read.
`EventuallyInstalled`.

## Fairness

| Module | Assumed | Why |
|---|---|---|
| `SnapshotIngest` | WF of each request's `Step` | requests are made one after the other in one thread, each with a timeout of 30 s; an end is `Abort`, which needs no fairness |
| `JwksCache` | WF of each request's `Proceed`, one disjunct of which is the failure of the fetch | threads run; the HTTP client has a timeout, so a fetch ends either way |
| `PullRequestWatch` | WF of the watcher (whether its requests fail or not), of the checks and of the mergeability | the loop has no exit but those modelled; GitHub ends what it started |
| `MaintenanceBatch` | WF of a command that runs, SF of starting one | the update workflow is scheduled and tries again; a command may be impossible in between |
| `DataDirectoryLock` | WF of startup, of shutdown, and of the exit of a child whose postmaster is dead | PostgreSQL children exit when the postmaster is gone; somebody starts the server again |
| `HookSync` | WF of a begun run (interrupted and failing at most as often as the bounds say) and of running the setup again | the setup is part of every checkout's tasks |
| `ReadinessGate` | WF of gates, workflow runs and deliveries | only so that the counterexample of `gate_stale_head` is not a system that stopped |

Nothing is assumed about the order of requests, about who gets a lock next, or
about failures becoming rare, except where a property says "once ... any more".

## Where the code and its documentation disagree

*Found by a run.* `gate_stale_head`: the comment at `pr-ready.cjs:113` says
that an old commit's completion must not remove a newer head's readiness. The
gate reads the pull request again only on the way to *ready*; if the old commit
is found not ready, or the pull request is pushed to after the second read, the
label and the ref of the newer head are changed. The next gate of the newer
head that has them to itself repairs it (`SettledIsReconciled`); without one it
stays.

*Met while modelling*, and not made a run because the models take the code's
side:

- `README.md:94-95` offers the feed for every index. One release whose source
  version has four numbers is accepted by the ingestion and makes
  `/versions.ndjson` fail with 500 for all releases (`publication.py:711`);
  `GetVersions` models that answer.
- `README.md:129` and `tests/test_babysit_pr.py:70` say that drafts are not
  shown. The drafts are recognised by the reviews that were read before the
  inline comments (`babysit-pr.py:208`), so a draft that is begun between the
  two requests is shown; `ReadInline` models that.
- `github.py:71-72` takes the shifting of pages for an error. It notices
  releases that were published, which repeat a tag; a deletion skips one
  (`github.py:90`), which `AnswerIsSound` allows for.
- Replacements in fixtures are keyed by the bare version
  (`maintenance.py:343`, `373`), so a batch also rewrites the fixtures of a
  package outside it that has a version of the same name. `FixturesFollow` is
  about the packages that were updated, and its theorem needs that packages
  with several versions share none with another.
- Two overlapping runs of the hook setup, one of them interrupted, can leave a
  section with a command and without a marker, which every later run refuses
  as foreign. `EventuallyInstalled` therefore says `Alone`, and `Undisturbed`:
  a user who removes the section between two writes of a run does the same.

## Proofs

For any values of the constants, within the assumptions named:

`SnapshotIngestProofs`, with any combination of faults:

| Theorem | Statement |
|---|---|
| `TypeCorrect` | `Spec => []TypeOK` |
| `IngestInvariant` | `Spec => []IngestInv` |
| `Mirrored` | `Spec => []AdvertisedIsMirrored` |
| `Verified` | `Spec => []IndexedWasVerified` |
| `Rebuildable` | `Spec => []IndexIsRebuildable` |
| `AcceptedStaysIndexed` | `Spec => []AcceptedIsIndexed` |
| `NothingLost` | `Spec => IndexNeverLoses` |
| `LatestKept` | `Spec => LatestNeverGoesBack` |
| `RoundsSuffice` | `Spec => []NoSpuriousExhaustion`, for finitely many requests, if the only fault is `abort` |
| `Refinement` | `Spec => ImplementsArchive`, if the only fault is `abort` |

`JwksCacheProofs`, for any requests, keys, TTL and duration of a fetch:

| Theorem | Statement |
|---|---|
| `KeyInvariant`, `TypeCorrect` | `Spec => []KeyInv`, `Spec => []TypeOK` |
| `KnownKey` | `Spec => []KnownKeyIsFound` |
| `WithdrawnKey` | `Spec => WithdrawnKeyExpires` |
| `NeverBack` | `Spec => CacheNeverGoesBack` |

`DataDirectoryLockProofs`, for any servers and any number of children:

| Theorem | Statement |
|---|---|
| `LockInvariant`, `TypeCorrect` | `Spec => []LockInv`, `Spec => []TypeOK` |
| `Exclusion` | `Spec => []MutualExclusion` |
| `FilesAreKept` | `Spec => []LiveServerKeepsFiles` |
| `SegmentsAreFound` | `Spec => SegmentsAreNotForgotten` |
| `CopiesAreHarmless` | `Spec => ForeignSegmentIsSpared` |

`ReadinessGateProofs`, for any commits and any number of pushes, reruns,
conversions and failures:

| Theorem | Statement |
|---|---|
| `TypeCorrect` | `Spec => []TypeOK` |
| `GateInvariant` | `Spec => []GateInv` |
| `Settles` | `Spec => []SettledIsReconciled` |
| `OnlyTheWindow` | `Spec => OnlyTheOvertakenDisturb` |

`PullRequestWatchProofs`, for any plans, any number of pushes and of failed
requests:

| Theorem | Statement |
|---|---|
| `WatchInvariant`, `TypeCorrect` | `Spec => []WatchInv`, `Spec => []TypeOK` |
| `Earned` | `Spec => SuccessIsEarned` |
| `Shown` | `Spec => []RequestedChangesWereShown` |
| `InTime` | `Spec => []TimeoutIsKept` |

`MaintenanceBatchProofs`, for any packages, versions and pins:

| Theorem | Statement |
|---|---|
| `BatchInvariant` | `Spec => []BatchInv`, which includes the type |
| `Consistent` | `Spec => []TreeIsConsistent` |
| `NeverDown` | `Spec => NoDowngrade` |
| `Whole` | `Spec => BatchIsWhole` |
| `FixturesGo` | `Spec => FixturesFollow`, under `OwnVersions` |

`ListingProofs`, for any listing, page size and limits:

| Theorem | Statement |
|---|---|
| `TypeCorrect` | `Spec => []TypeOK` |
| `ListingInvariant` | `Spec => []ListingInv`, if at most a page is published during a call |
| `Sound` | `Spec => []AnswerIsSound`, likewise |

and for any history, of any length and with any versions and targets:

| Theorem | Statement |
|---|---|
| `FeedInvariant` | `FeedSpec => []FeedInv` |
| `FeedOrdered` | `FeedSpec => []FeedIsInPrecedenceOrder` |
| `FeedComplete` | `FeedSpec => []FeedIsTheIndex` |

`HookSyncProofs`, for any hooks, any finite number of overlapping runs, and any
number of changes, interruptions and failures:

| Theorem | Statement |
|---|---|
| `HookInvariant`, `TypeCorrect` | `Spec => []HookInv`, `Spec => []TypeOK` |
| `Completed` | `Spec => []InstalledIsComplete` |
| `ForeignKept` | `Spec => []ForeignHookIsKept` |

### The ingestion

The theorems rest on the assumptions on the constants: `OrderedData` (tags, times and
file names are numbers, tags are not 0) and `IngestAssumption` (candidates are
releases, the number of rounds is positive).

The argument is the inductive invariant `IngestInv`. None of the properties is
inductive: that a snapshot is in the index says nothing about a request that is
about to replace the index. The parts are:

- `CapturedInv`: from the release read on, a request works on one release.
- `CopyInv`: the files no longer to do are verified and, if archives, mirrored;
  from `read_fragment` on, all of them; from `read_index` on, the fragment is
  stored. Blobs under immutable paths are never removed (`StoreGrows`), so this
  survives the steps of others.
- `FragmentInv`: every stored fragment is that of a release a request read, all
  of whose files are verified and mirrored; `ReleaseKept` says that a request
  never turns to another release.
- `EtagInv`: no entity tag is above `issued`. A new index therefore has a tag
  no request holds.
- `ListingInv`: a request that holds the tag of the *current* index has listed
  every *settled* snapshot up to its cursor and, once the listing is complete,
  all of them. Settled are the snapshots in the index, in the body a request
  compares with, and in success answers. This is the heart of the matter: a
  snapshot becomes settled only by a write of the index (`SettledGrows`), which
  changes the tag, so for a request with the current tag the settled snapshots
  have been stored since before its listing began.
- `SettledInv`: settled snapshots are stored, and in the index unless it is
  damaged.

Two more invariants rest on this one. `LatestInv`: fragments have different
tags, and the index lists as latest what its snapshots imply; with
`SettledInv` every index is projected from more snapshots than the one it
replaces, so the newest of a coordinate never gets older. `RoundInv` counts: a
request has lost at most as many rounds as the index had been written when it
read its tag, the index was written at most once by each request that has
nothing more to write, and the request itself is not one of them. So it gives
up only after as many successes of others. That needs the writes of the index
to be those of the service, hence the only fault `abort`.

For each action a lemma `...Effect` states what it does to the fields of the
request, and each part of the invariant is proved once per action from those.

### The key cache

`KeyInv` bounds the age of documents. The cache is dated by its store; what
makes that sound is the lock, which is held from the request to GitHub to the
store (`HolderInv`): so the cache was stored before any fetch in progress began
(`FetchInv`), and a fetch lasts at most `FetchTime`. `Timely` says that each
key of a document is published or was so when the document was read; it is
kept by every step (`TimelyKept`). `SteadyInv` carries the other direction: a
key that has been published since the verification began is in the answer of a
fetch that began later. Assumed are only that times are numbers and that no
request is called `Nobody` (`CacheAssumption`).

### The data directory lock

`LockInv` says that whoever is not down or has children holds the lock
(`HolderInv`), and what a server has made of `postmaster.pid`, the header and
the segments by each of its phases (`PhaseInv`). `MutualExclusion` is the first
at once. The second is inductive because of the first: a step on the files is
one of the only server that is not down (`FilesFrame`, `OnlyUser`), so it
cannot disturb what another server has made. `HeaderInv` keeps apart headers of
this directory and of the one it was copied from. Assumed are only that
`Nobody` and `Elsewhere` are not servers (`LockAssumption`).

### The readiness gate

What a gate has read may be stale when it acts. The argument is that whatever
made it so is an event that no gate has dealt with yet. `Stirred` says that
such an event is owed to a commit: a workflow run of it goes on, a delivery is
on its way, or a gate waits in the concurrency group. As long as none is owed
to the head, what its gate has read of the checks still holds (`ChecksInv`), so
does what it has decided (`VerdictInv`), and once it has ended and went through,
label and signal are in order (`RestInv`). `SavedInv` is why the label needs to
be written only if it differs: no other gate writes it in between.

Gates of several commits meet in the window between a gate's last read of the
pull request and its writes, which a push can fall into at any time. A gate
that reads the head afterwards cannot know of those that are still under way;
`SeesOthers` counts it as overtaken as well. `WindowInv` is what is left: a gate
in its window that was not overtaken is that of the head and has the label and
the ref to itself (`AloneInv`), and as long as nothing is unfinished no other
gate is in its window at all (`TakenInv`). The first makes what a gate writes
last, the second makes what an overtaken gate does to the head a thing that is
known to be unfinished, until a gate of the head goes through alone. So no
theorem has a hypothesis about pushes, and `OnlyTheWindow`, which is `AloneInv`
at the moment of the write, shows that this window is all there is to the
disagreement `gate_stale_head` finds. Assumed is only that no commit is called
`NoRef` (`GateAssumption`).

### The watcher

Success is announced after two equal polls. `KeyInv`: a key with a workflow run
in it was taken when both jobs had passed, and what passed stays so.
`RegisteredInv`: the second poll comes an interval later, in which the checks of
the head were registered, so checks that are neither pending nor failed are all
there are (`ChecksInv`). Up to then the checks may be those of another commit,
since `gh pr checks` takes the head of its own time; `ConfirmInv` and the last
look at the head settle that. `ShownInv` follows a request of changes through
the reads of one poll, `ClockInv` counts an interval per failed poll, of which
`MaxErrors` in a row end the watcher (`EndInv`). Assumed is only that plans have
the form of a plan and some error ends the watcher (`WatchAssumption`).

### The updater

The upstream may move while a batch is applied, the tree may not. `CheckedInv`:
what was revalidated of a candidate (the declared versions it replaces, the
ranges and pins it respects) still holds of the tree when it is written.
`CandidatesInv`: there is one candidate per package. `StagingInv` says what the
staged text of every recipe has come to: the declarations of the candidates that
were done and the pins on those that were done are the new ones, all others
those of the tree. An edit keeps that only because it begins with what has been
staged (`TextOf`), and it implies `BatchIsWhole` once all are done. `OffersInv`
is what makes a downgrade impossible: declared versions are an offer that
discovery may have returned, so a major version has one version in them.
`BatchAssumption` states what that relies on: an offer has a greatest version
and at most one of each major version, and pinned packages have one. That
fixtures follow also needs `OwnVersions`: of any two packages, one declares
single versions or they share no version name. Without it a replacement of one
package rewrites the fixture of the other, as noted above.

### The discovery

`ShiftInv`: a release at a place of the listing, below those published since,
was at most as many places lower when the call began as were deleted since;
the same holds of what has been read. So among the first `Limit` that were
read, at most that many were not among the first `Limit` at the beginning. As
there are equally many of both, no more than that are missed
(`OwnElements`, `CountForm`). If the listing ended before the limit, as many
were read as it then has, and those that are read and deleted make up for
those that are missed (`LostInv`).

The theorems assume `MaxBurst <= PageSize`: at most a page is published during
one call. Some such hypothesis is needed. If two whole pages are published after
the first page was read, the second page shows only new releases, so that
nothing is repeated; if that reaches the limit, the old second page is missed
without an error. TLC finds that with pages of two, a limit of four and four
publications. If the limit is further down, the third page shows what was the
first, unless that has been pushed down by more new ones: at GitHub, with a
limit of ten pages, a hundred releases would have to be published during a call.

### The feed

The state says little (`FeedInv`: what was served is `VersionsNdjson` of what is
stored); the work is in the functions.

*Order.* `SemverAgrees`: wherever SemVer has one version before another, so has
the key, a tuple in which a release has the fourth phase. The converse does not
hold, and need not: `Precedes` is a strict total order all the same
(`PrecedenceOrder`), because versions with the same key differ in how many
numbers they have (`SameKey`). A line that precedes another is therefore not
the lower one (`PrecedesIsNotLess`).

*Sorting.* `InOrder` takes for the i-th place the element that has i - 1 before
it. That there is one, and only one, is a matter of counting: the numbers of
elements before each are different and less than the number of all, so each
number occurs (`InOrderForm`). Hence each version and each archive has one
place in its sequence, and `LinesForm` gives the bijection from the places of
the lines of a snapshot to its records.

*The whole.* The feed is built by a recursive function on the number of
snapshots. What it computes is shown without induction: if it were not faithful
to the first n snapshots for some n, there would be a least such n
(`LeastExists`), which is not 0 (`FaithfulAtFirst`) and not a next one
(`FaithfulNext`). The step is `JoinForm`, that lines of different releases do
not disturb each other when they follow one another, and needs that a tag
occurs once. That the function exists is shown in the same way (`UpToExists`).

Assumed are that tags and targets are numbers, versions have the form of a
version, and histories are `Canonical` (`FeedAssumption`); no bound on
anything.

### The hooks

`OwnInv` is about processes of `git config` at different times: what a run has
read as its own or nobody's becomes foreign only by a user, and that is
`overtaken`; other runs write their own marker, which is not foreign, and a
marker that could not be read makes a run stricter and never laxer. The command
alone makes it take what it should not, which is `blind`. `CoveredInv`: a
hook that is not complete and that nobody has changed has a run that is still
to take its section in hand (`Due`), or that adds what is missing (`Mending`);
of overlapping runs that is the one that last removed the section or tried to,
or a later one. A removal that fails disturbs this as little as one that
succeeds, since the run that failed goes on to set all keys. `EventsInv` counts
events and the runs that are about to add one, for sections that were really
removed. Assumed are finitely many runs, and paths that are not the
placeholders of the model (`HookAssumption`).

### Model-checked only

- Liveness: `EveryRequestIsAnswered`, `ValidReleaseIsIndexed`,
  `EveryVerificationEnds`, `WatchEnds`, `EventuallyUpToDate`,
  `EventuallyServing`, `EventuallyInstalled`. The proof system does not reason
  about fairness.

Every other property of a passing run is a theorem.

## What is assumed, and what is not modelled

- The bucket gives every write of `index.json` a fresh strong entity tag, its
  listing shows every fragment stored before the page was asked for, and a
  create-only write never replaces a blob.
- `DeleteIndex` happens only while no request that found no index is about to
  create one. Such a request holds no entity tag, so its create-only write
  would succeed with a listing that may be older than the deleted index. The
  service never deletes the index itself; the operation is listed as a hazard.
- A conditional write on an index that was deleted is a lost round; if the
  storage answers it with 404 instead, the request ends, which is `Abort`.
- Once an archive or the fragment of a release is stored, another version of
  the release under the same tag is refused for good. That is what the
  immutable paths are for; the model shows that nothing of the second version
  gets into the index, not that anybody notices.
- Publication times are compared as strings by the code; GitHub writes them in
  one format, for which that is the order of time.
- Authorisation is the enabling of `Start`; how a token is verified is
  `JwksCache`, which ends with the decision.
- GitHub is taken at its word in all models: what it answers was true at the
  time of the request, and events are delivered in the end, in any order. The
  gate is modelled for one pull request; its script maps a commit to its pull
  requests first and treats each by itself.
- The watcher does not model comments on the pull request, which are published
  at once, nor its one-shot mode, which is a single poll.
- The updater leaves out the refresh of patches and digests, which is part of
  the staging and fails or succeeds with it (`ApplyFails`), and the checks of
  `declarations`. That all staged texts are written or none is taken from the
  library's `write_transaction`.
- The lock is modelled from one version of the patch; the others differ in the
  context lines. Two network hosts that share a directory are outside: the
  patch relies on the kernel's locks.

Not modelled are, as the notes in `PROJECT.json` say: the build and publication
workflow, whose one decision with a state (whether a release is published) is
made by an external tool; the recipes, which are declarative data; the test
packaging, which copies files; and command wrappers.

## Next

1. `ReadinessGate`: under fairness, and once pushes and failures are over, that
   the last event of the head does find its gate alone. It is a question of how
   long an overtaken gate can last against the checks of a new head.
2. `ReleaseListing`: a weaker hypothesis than `MaxBurst <= PageSize`, closer to
   the limit.
