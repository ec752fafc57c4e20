# NGINX on UBI: the TLA+ model of the supply chain

This directory models how an image of this repository comes to be and how it is
run: how its inputs are locked, its packages acquired, built into an image, carried
to a disconnected site, released from a tag and watched for drift; how the
requirements it claims to meet are traced; and how the container lives under its
unit. The modules are translated from the scripts and workflows; the documents
are used only for what they promise of them. Paths are relative to the
repository; `artifacts.py 541-580` means those lines of `scripts/artifacts.py`.

- `PROJECT.json` lists the components, the runs, the source lines behind every
  definition, the hazards, the findings and the theorems.
- `tlc -config <Run>.cfg MC<Module>` repeats a run,
  `tlapm <Module>_proofs.tla` the proofs of a module.

## 1. Inventory

### The parts and their state

| Part | State it keeps or touches | Operations |
|---|---|---|
| Lock refresh, `fetch-lock-inputs.py`, `resolve-lock.sh`, `render-lock.py` | reviewed inputs, fetched seeds, resolver output directory, candidate and adopted locks | fetch, resolve, render, per architecture |
| Component accountability, `components.py` | `artifacts/components.json`, bound to both locks | `validate_inventory`, `verify_rpms` |
| Artifact acquisition, `artifacts.py` | lock file `artifacts/locks/<arch>.json` (read four times per run), output path, a temporary directory beside it | `acquire`, `verify-bundle`, `validate-lock`, `base-reference` |
| Image assembly, `build-image.sh`, `verify-rpm-bundle.sh`, `install-rpm-bundle.sh`, `Containerfile` | lock file (opened six times), bundle (read three times), local image store, the image | one build |
| Disconnected transfer, `transfer.py` | staging directory with its manifest, drafts of the manifest, the received copy, the digest conveyed apart from it | `create`, `verify` |
| Release workflow, `.github/workflows/release.yml`, `release_tag.py` | git tags, main, workflow runs and jobs, registry tags, attestations, signatures, GitHub releases | a run per pushed tag: `validate-tag`, `build` per architecture, `publish-manifest` |
| Input drift, `.github/workflows/input-drift.yml`, `check_input_drift.py` | reviewed inputs, what publishers offer, open issues | weekly or dispatched job |
| Requirement trace, `build-trace-matrix.py` | requirement documents, markers in tests, `docs/TRACE-MATRIX.md` | build, `--check` in the lint job |
| Container runtime, `docs/examples/systemd`, `Containerfile` | the unit, its container, the mounted files, what the workers have loaded | start, reload, health check, restart, stop |
| TLS inspection, `tls_material.py` | none (a function of files, policy and time) | `inspect`, run by a monitor |

`nginx_features.py`, the linear CI workflows, the tests and the OSCAL documents
keep no state between their steps.

### How the parts interact

- They share files and registry names, and no locks. The lock file is rewritten
  by an editor, git or a refresh while acquisition and assembly read it.
- A refresh's two locks, the inputs and the component inventory are four files
  that only a reviewed change brings to main together.
- Acquisition hands the bundle directory to assembly and to transfer by path.
- Assembly is what the `build` job of the release workflow runs.
- The drift job reads the same inputs the refresh changes, and acts on GitHub
  issues through `gh`; several jobs may be under way.
- The monitor reads the certificate files of the host; the container serves what
  it loaded from them earlier.

### What is hard, and what makes each part correct

| Part | Hard behaviour | Correct when |
|---|---|---|
| Lock refresh, accountability | output directories filled in place, a lock written before it is validated, moving publishers, edited inputs, two architectures at two times | a valid candidate is of one resolution, and whole where nothing was cut short unseen; main's locks are one release and follow main's inputs; what a failure left behind never blocks the next refresh |
| Acquisition | a race for the output path; four reads of a changing file; failure or death at any step | the output is whole or absent, stamped with its own lock, never replaced; nothing is left behind |
| Assembly | three readings of the bundle and six of the lock, changing in between | the image holds the packages of the lock it is stamped with, on that lock's bases; a sound input builds |
| Transfer | the staging directory changes while it is hashed; two creators; drafts inside the set; the medium | only what was sealed for this context is accepted; what was sealed is accepted |
| Release | overlapping runs of different tags and of one tag; partial publication | accepted sequences are distinct; nothing is published unchecked; a release carries its evidence; tags lead back to what they were made from |
| Drift | two readings per job; overlapping jobs; jobs that die; silent publishers | lasting drift ends up in an open issue; lasting quiet closes all |
| Trace | recursion over parents the documents name freely; a summary that leaves things out | covered means that every way down ends at a marker; no gap hides; lost evidence shows in the same change |
| Runtime, TLS | health check, crash, restart and stop in any order; a mounted file that is not the deployed one; truncated times between two looks | valid files end up served; nothing expires unannounced |

## 2. Modules

| Module | Models | Composed with |
|---|---|---|
| `Bundle` | locks, bundle directories, and when a bundle is accepted (`verify_file`, `verify_bundle`, `bundle_artifacts`, `manifest_contents`); no state | extended by the next two |
| `Acquisition` | concurrent runs of `acquire_bundle`, the lock file and the output path | |
| `Assembly` | `build-image.sh` and everything it calls | takes the bundles `Acquisition` publishes |
| `Transfer` | `create` by several creators, the medium, `verify` | |
| `ReleaseRecord` | abstract: what the evidence and the releases promise to those who pull by digest | implemented by `Release` |
| `Release` | tags, overlapping workflow runs, the registry | `BuildCandidate` stands for `Assembly` |
| `InputDrift` | overlapping drift jobs, publishers, issues | |
| `LockRefresh` | fetch, resolve, render and the inventory check, for both architectures | composes `components.py` with the three refresh scripts |
| `TraceMatrix` | documents, markers, matrix, the lint job | |
| `Runtime` | the container under its unit, deployments, the TLS monitor | composes `tls_material.py` with the unit |
| `MC<Module>` | values of the constants for TLC | |
| `<Module>_proofs` | theorems and proofs, for every module that has a state machine of the system | |

### Bundle and Acquisition

A file's content is its digest (SHA-256 is taken to be injective), so a lock is a
value that stands for the whole text of the file and for its digest. `Pins`
gives what a lock pins, `ValidLocks` those `validate_lock` accepts. The field by
field validation is not modelled here: it only decides membership in
`ValidLocks`. `LockRefresh` models the part of it that relates records to each
other.

One acquirer is one run of `acquire_bundle` (artifacts.py 530-580); `pc` names its
next step. `ValidateLock`, `CheckOutput`, `RefuseOptions`, `MakeTemporary`,
`FetchArtifact`, `WriteManifests`, `ReparseLock`, `CompareBundle`, `Publish` and
`Cleanup` follow the function line by line; each of its four reads of the lock
file is in an action of its own, because the file may change in between.
`Interrupt` is an exception inside the `try`, `Kill` ends a run without its
`finally`, or before it is through: a removal that fails or is interrupted
leaves what a kill leaves. `EditLock`, `MakeOutputDirectory` and `RemoveOutput` are everybody
else. The code fetches artifacts in one order; the model allows any.

`versions` and `at` are history variables: every content the lock file has had,
and which of them each read saw. `publisher` is one too.

### Assembly

One action per command of `build-image.sh`, in its order; `set -e` is
`ContinueIf(..., else "failed")`. `RowsHold` is the loop over the manifests that
`verify-rpm-bundle.sh` and `install-rpm-bundle.sh` each write out; only the
former asks a key for its fingerprint. `BuildImage` is `podman build`: the stamp
comparison of the Containerfile (20-22) and the installer, on the copy of the
bundle that the build context is. `MetaOf` is what `rpm` and `gpg` say of a file.
`EditLock`, `SwapBundle`, `DamageBundle` and `EvictBase` disturb a build at any
moment.

### Transfer

`create_manifest` is split where others can step in: the existence test, the
listing, one action per file hashed, the draft, the rename, the digest. Two
constants hold the two sort orders: `ByPath`, that of `sorted(root.rglob("*"))`,
which compares paths part by part, and `ByName`, that of the path strings, which
`read_manifest` demands. A set of files on which they agree is an instance with
`ByPath = ByName`. `verify_manifest` is one step, as its documentation asks for
an access-controlled directory.

### Release

A run is the push of a tag (`PushTag`). `CheckOut` takes the tags present at that
moment (`seen`), `ValidateTag` is `release_tag.validate`, `ConfirmLocks` the test
of both locks, `BuildCandidate`/`PushImage`/`BuildFails` the matrix with
fail-fast, and the steps of `publish-manifest` follow one by one. The registry
is `images`, `manifests`, `commitTags`; `evidence` holds attestations and
signatures, bound to content. The repository is not frozen while runs go on: tags
are withdrawn and pushed again, commits are merged, days pass.

`ReleaseRecord` has none of that: a manifest is attested, then signed, then
announced under a tag that announced nothing before, and nothing of it is ever
taken back. `KeepsRecord` is its specification with one image for each
architecture, `[Arches -> Image]`, for a manifest.

### InputDrift

The script runs twice in a job, for the body (`markdown`) and for the decision
(`json`), asking each input's publisher again (`CheckInput`). Finding the issue
and acting on it are two steps (`FindIssue`, then `UpdateIssue`, `CreateIssue` or
`CloseIssue`), between which another job may act. `count` holds what the bounds
are about.

### LockRefresh

For each architecture: `Fetch` is `fetch-lock-inputs.py`, one step because its
directory appears by a rename; `BeginResolve`, `Download`, `RecordBinary`,
`ListSources`, `RecordSource` and `FinishResolve` are `resolve-lock.sh`, a step
per file it leaves in a directory that is visible from the start; `Render` and
`RenderKilled` are `render-lock.py`, on whatever inventories it finds and with
the inputs of that moment. `ResolverFails` leaves the directory as it is. Two
failures change it: `ListingFails` is a `find | sort` (line 126) whose failure
`set -e` does not see, after which the script goes on with the packages listed
so far, and `SortFails` is a `sort -o` (164, 165) that is stopped while it
rewrites the file it has read. Both are cut between rows. The history variable
`cut` names the architectures whose binary inventory lost packages in one of
these two ways while its sources are complete, or will be; no guard reads it.
`ValidLock` and `FollowsInputs` are what `validate_lock` and
`validate_lock_against_inputs` demand of records that belong together.
`Adopt` moves a candidate into the tree with its inventory, `Merge` is the
reviewed change that `Verified` (`validate_inventory`) admits, and `StartOver` is
the operator who removes what would be refused. `EditInputs` and
`PublishersMove` happen at any moment; `Closure[s][a]` is what `dnf` selects at a
snapshot of the publishers.

### TraceMatrix

The documents are a function from identifiers to a parent and a method, the
markers a relation. `Call` is one call of `compute_status` for each requirement,
given what the calls for its children return; `Status` nests it as deep as a tree
of these requirements can be, and what is not done by then is the error that
Python's recursion ends in where parents form a cycle. The reference definition
has no recursion: `Below` is the least set that contains a requirement and the
children of every unmarked member, and `Evidenced` says that every way down
inside it ends at a marker. `Build` is the matrix: its counted lists, dangling
names and tables. Contributors edit documents and markers and regenerate when
they like; `Merge` needs `Check`, the `--check` of the lint job.

### Runtime

`inode` is the file the container has mounted, `file` what has its name on the
host: `RenameFile` parts them, `RewriteFile` changes both. `RunContainer` mounts
anew; `Reload` and `HealthCheck` judge the mounted file, the latter kills at the
third failure (`HealthOnFailure=kill`, line 27), and `AfterFailure` is
`Restart=on-failure` (32). `Inspect` is the monitor: `Remaining` truncates as `int()`
does, `Evaluate` and `ExitStatus` are `tls_material.py`. `alarmed` is a history
variable: what the monitor has complained about.

## 3. Runs

| Run | Question and answer | Bounds |
|---|---|---|
| `AcquisitionRace` | Do two runs racing for one path, interrupted, killed and fed wrong bytes, ever show a partial bundle or replace one? No. | 2 acquirers, 2 locks, `MaxEdits` 1, with symmetry (safety only) |
| `AcquisitionReads` | Can four reads of a changing lock stamp a bundle with another lock? Not with two rewrites or fewer between the first and the last. Does a run end? Yes. | 1 acquirer, 3 locks (one half-written), `MaxEdits` 4 |
| `AssemblySafety` | Is an image what its stamp says, whatever changes during the build? Yes; its bases too, under the stated conditions. Does an undisturbed build succeed? Yes. | 2 packages, 3 locks, `MaxEdits` 1, `MaxSwaps` 1, `MaxDamage` 2 (files, rows, entries, base images) |
| `TransferSafety` | Is only a sealed set accepted, and an unmodified one always? Yes, for file sets on which the two orders agree. | 2 creators, 2 files, 2 contents, 2 contexts, `MaxEdits` 1, alterable medium |
| `TransferOrder` | And on other file sets? **No.** | 1 creator, 2 files |
| `ReleaseSafety` | Are accepted sequences distinct, published images checked, releases evidenced, tags traceable? Yes. Is a rightful tag rejected only on account of its neighbours? Yes. And what overlapping runs attest, sign and announce behaves as `ReleaseRecord`. | 2 runs, 2 days, 2 sequences, 1 withdrawal, 3 commits, 1 of them merged late |
| `DriftReports` | Does lasting drift end up reported, and lasting quiet close everything? Yes. Are there never more issues than overlapping jobs? Yes. | 2 jobs, 1 input, 2 moves, 1 outage, 1 refresh, 1 failure |
| `DriftSilence` | Does silence never close an issue that reports drift? **It does.** | 1 job, 2 inputs, 1 move, 1 outage |
| `LockRefresh` | Can a failed, half-finished or mixed refresh yield a lock that is valid but partial? Only where a listing or a sort was cut short. Can it reach main? Not with one failure. Do edited inputs reach main in the end? Yes, once publishers offer them. | 3 inputs, 1 package beside NGINX, 3 snapshots (the publishers move one architecture at a time), 1 edit, 1 failure |
| `TraceMatrix` | Is the recursive status what its definition says on every tree, cycles included? Yes. Can a gap hide, or evidence go, unseen? No. | 4 identifiers on 3 levels, 1 test, 3 edits |
| `TraceNonTest` | Is what is not verified by test never called uncovered? **It is.** | the same |
| `Runtime` | Does anything expire in service unannounced, and does the service recover? No, and yes. | times to 8 half seconds, lives 6 and 8, window 2 s, monitor every 2 s, 2 deployments, 1 crash |

Why the bounds are enough. Two acquirers, creators, runs or jobs are the fewest
that race, and nothing in the code depends on a third. Four rewrites exceed the
three that would be needed to deceive acquisition, so the antecedent of
`SettledLockExact` is false in some explored states and is not idle. In assembly
two damages are the fewest that can agree with each other (a file and its row);
one rewrite with one replaced bundle already combines bases and packages of two
locks. Two days and two sequences give a boundary in both directions. Two moves
let an input drift again after an issue was closed. Three snapshots give a time
at which only one architecture has moved, one edit changes the inputs between
any two commands, and one failure strikes at any step; two locks cut to the same
names need two, which the proofs cover and the run leaves out for its time. Four
identifiers of which any may stand below any L1 or L2 allow chains of three
levels, siblings with different statuses, marked nodes in the middle and cycles
of three. Two deployments allow the old file to be invalid when
a valid one takes its name; the monitor looks at everything at least once before
it expires. The
theorems below remove the bounds for every safety property of the runs.

Every property of a passing run also has a mutant, a plausible error in one
definition under which the run reports that property violated; it stands before
the definition it mutates and no specification uses it.

Deadlock is not checked where the system may come to rest (all commands or
workflow runs ended, no edit left in `TraceMatrix`). The drift jobs, the refresh
and the runtime never come to rest, and their runs check it.

### Fairness

- `Acquisition`: weak fairness of each acquirer's steps. A run waits for nothing
  but its downloads, whose socket operations time out after 60 seconds.
  Interrupts, kills and edits are never assumed.
- `Assembly`: weak fairness of the build's steps, a sequential script.
- `InputDrift`: weak fairness of starting a job (the weekly schedule) and of a
  job's steps (its runner). Jobs may die, but only `MaxFailures` times: without a
  last failure nothing could be promised. Publishers and maintainers owe nothing,
  so both liveness properties start from a condition that lasts.
- `LockRefresh`: weak fairness of each architecture's commands, of adopting its
  candidate, of starting over and of merging what is verified: an operator who
  goes on, which is what a refresh is. Nobody has to edit inputs, publishers need
  not move, and no command need fail. `RefreshCompletes` promises something only
  if publishers from some time on offer both architectures one release that
  approved keys signed.
- `Runtime`: weak fairness of the restart, the health check and the end of a
  stop: systemd's `RestartSec` and `TimeoutStopSec` and Podman's health timer.
  Deployments, starts, stops, reloads and crashes are never assumed.
- `Transfer`, `Release` and `TraceMatrix` have safety properties only: no one is
  obliged to finish sealing, releasing or editing.

## 4. Findings

Kept as runs that TLC violates:

1. Two sort orders (`TransferOrder`): `bundle/key.asc` beside `bundle-notes.txt`
   is sealed in an order that verification rejects (transfer.py 54 and 147).
2. An outage closes the issue that reports the drift (`DriftSilence`,
   input-drift.yml 73-85), against docs/CI.md 135-136.
3. A composite requirement that is not verified by test is called uncovered
   (`TraceNonTest`, build-trace-matrix.py 138-153), against the script's
   docstring (line 20); docs/TRACE-MATRIX.md 47 shows one, `L1-OPS-002`.

Seen while modelling, with no run of their own:

- A bundle acquired with sources never builds: `build-image.sh` 21 verifies
  without `--include-sources`, while docs/ARTIFACT-LIFECYCLE.md 160-162 and
  209-214 acquire with them and build from the same directory. In `Assembly`
  this is `StartSources = {TRUE}`, and theorem `SourcesNeverBuild` says it of every
  lock, however the lock and the bundle's files change, until the bundle is
  replaced.
- An overlapping `create` overwrites a manifest: the test is at transfer.py 88,
  the `os.replace` at 105. `AcceptedIsSealed` shows that what is accepted is some
  creator's seal all the same.
- A sequence of a withdrawn tag is accepted again (release_tag.py 111-114),
  against its docstring (104-106); hence the exception in
  `AcceptedSequencesDistinct`.
- A manifest can take images that another run of its tag pushed in between
  (release.yml 197-200): the digests of the build jobs are not used.
- A second release of one commit moves the "immutable" tag `sha-<short-commit>`
  (docs/VERSION.md 95, release.yml 204-211); `TagsTraceable` says what it still
  leads back to.
- A tag dated before today is accepted although dates "must not be backdated"
  (docs/VERSION.md 27, release_tag.py 137).
- Of two rightful tags pushed close together the first may be rejected
  (`RejectedByNeighbourOnly` says that nothing else rejects one).
- Overlapping drift jobs open one issue each (`DuplicatesBounded` says never
  more).
- An invalid file in the mount does not leave "the old one" running for long, as
  docs/CONFIGURATION-OPERATIONS.md 108-111 has it: the health check is
  `nginx -t` on the mounted files, its third failure kills the container
  (`HealthOnFailure=kill`, nginx-ubi9.container 27), and the one that
  `Restart=on-failure` (32) starts refuses the file.
- A resolver can leave a lock that is too short and accepted. When `find | sort`
  fails half-way (resolve-lock.sh 126), the loop ends as if it were through and
  only the sources of the packages listed are asked for; when `sort -o` (164) is
  killed or the disk is full, the binary inventory is short beside all its
  sources. `render-lock.py` renders what is there: `read_tsv` asks for rows and
  their number of fields, `validate_lock` (artifacts.py 261) for missing sources
  only, although the resolver "fails closed on malformed or inconsistent output"
  (docs/ARTIFACT-ACQUISITION.md 106-107). What keeps such a lock from main is
  the other lock: one inventory must fit both, so both would have to be cut to
  the same packages, which takes two failures. tests/test_components.py 37 also
  fixes the number of packages, and a reviewer reads the change. This is why
  `ValidCandidateWhole` and `MainCoherent` have the antecedents they have.
- The Quadlet unit mounts `nginx.conf` as a single file (line 23), which
  docs/CONFIGURATION-OPERATIONS.md 37-38 asks not to do.

What was expected to break and does not: the race past `output.exists()` (the
rename of a directory refuses a target that is not empty), the window between
verifying a bundle and copying it into the build (the installer checks all of
it again), a drift issue closed on an older report (a later job reports anew), a
lock rendered from what a resolver that stopped in its loops left (there are no
sources before the packages are listed, and half of the sources do not cover
them), and two locks resolved at different times (the source names of one
inventory do not fit both).

## 5. Proofs

The theorems hold for every value of the constants under the named assumptions
of the modules, which TLC evaluates in the runs: any number of acquirers,
creators, runs, jobs, locks, inputs, packages, snapshots, edits and failures.
Each proof module has the same plan: an inductive invariant whose parts are
named, a lemma per action (or group of actions with one frame) that preserves
it, and theorems drawn from it.

| Module | Theorem | States |
|---|---|---|
| `Acquisition_proofs` | `TypeCorrect`, `NeverPartial`, `SettledLock`, `TemporariesRemoved`, `NeverReplaced` | `TypeOK`, `PublishedWhole`, `SettledLockExact`, `NoLitter`, `PublishedNeverReplaced` |
| | `RunsOnlyForward` | `OnlyForward`, for finitely many artifact names |
| `Assembly_proofs` | `Typed`, `ImageHoldsItsLock`, `BasesOfTheLock` | `TypeOK`, `PackagesMatchStamp`, `ImageFromOneLock` |
| | `UndisturbedNeverFails` | `NothingRejected`, for locks that are `SoundLock` |
| | `SourcesNeverBuild` | no image before the bundle is replaced, if every bundle was acquired with sources |
| `Transfer_proofs` | `Typed`, `DraftsRemoved`, `AcceptedSets` | `TypeOK`, `NoDraftLeft`, `AcceptedIsSealed` |
| | `UnmodifiedSets` | `UnmodifiedAccepted`, if `ByPath = ByName` |
| `Release_proofs` | `Typed`, `EvidenceOfReleases`, `ContractOfImages`, `TagsLeadBack`, `SequencesOfAccepted`, `RightfulAccepted` | `TypeOK`, `ReleaseHasEvidence`, `PublishedHonoursContract`, `TagsTraceable`, `AcceptedSequencesDistinct`, `RejectedByNeighbourOnly` |
| | `ImplementsRecord` | `KeepsRecord`: `Release` implements `ReleaseRecord` |
| `InputDrift_proofs` | `Typed`, `FewDuplicates` | `TypeOK`, `DuplicatesBounded` |
| | `DriftKeptReported`, `QuietOpensNothing` | `DriftHolds`, `QuietHolds` |
| `LockRefresh_proofs` | `Typed`, `CandidatesWhole`, `MainMatchesInputs` | `TypeOK`, `ValidCandidateWhole`, `MainFollowsInputs` |
| | `OneReleaseOnMain` | `MainCoherent`, under `SameBuildsOnce` and `WholeByBuilds` |
| | `RefreshNeverStuck`, `RoundsEnd` | `NoDeadEnd`; `OnlyStartOverGoesBack`, for finitely many packages |
| `TraceMatrix_proofs` | `TypesAreRight`, `StatusIsEvidence`, `NoGapHides`, `LossIsShown` | `TypeOK`, `CoveredReference`, `NoHiddenGap`, `EvidenceLossShown` |
| `Runtime_proofs` | `Typed`, `ExpiryIsAnnounced` | `TypeOK`, `NoSilentExpiry` |
| | `RecoveryDescends` | `Recovering` |

### The arguments

**Acquisition.** That a published directory is whole depends on what its
publisher verified, and that on what it had read. `IInv` adds, for every
acquirer, `ReadsInv` (the reads it has made are ordered versions of the lock
file, and those it parsed were valid) and `TmpInv` (what its temporary directory
holds at each step, described twice: as built from the lock of its first parse,
`AsBuilt`, and, once verified, as the directory of the lock parsed second,
`AsVerified`), and `OutputInv`, which carries both descriptions over to the
output path. The key lemma `VerifiedIsStamped` says that `verify_bundle`
accepts exactly one directory for a lock and a stamp. `SettledLock` then is
arithmetic: two descriptions of one directory agree, so their stamps do, and
with at most two rewrites four reads in order cannot see A, B, A, B.

**Assembly.** `ReadsInv` orders the six reads; `BundleInv` says that whatever
happens the bundle is a remnant of some valid lock's bundle (`RemnantOf`: rows
get lost, none appear; before the second damage either all rows or all file
names are intact); `ComparedInv` keeps the stamp seen by the comparison, while
the bundle is not replaced; `ImageInv` ties the image to the reads. The
installer looks at rows and files of one directory, so what it accepts is part
of that remnant's lock, which the stamp names.

**Transfer.** `DraftInv`: a draft belongs to a creator that is about to rename or
unlink it, or was killed. `InventoryInv` follows each listing
(`found` and `todo` together are the list), and `SealInv` says that the manifest
at the root, every digest printed and the digest conveyed are seals of creators
that have ended: so what `VerdictInv` accepts is one of them, record for record.
`UnmodifiedSets` needs that the order of the list is the order demanded.

**Release.** `ValidationInv` keeps what each check established (main only grows,
days only pass); `SeenInv` says that a checkout brings every tag pushed before
its own that nobody withdrew, so the later of two accepted tags counts past the
earlier (`NextIsPast`); `BuildInv` and `PublishInv` tell from the step of a job
what it has pushed and bound. `TraceInv` adds that two runs of one tag are runs
of a tag withdrawn in between, and that lists and what was published of them hold
images of their run's tag. For rightful tags `RightfulInv` keeps a `Bridge`
from the tags the pusher saw to those the job sees: they differ by tags pushed
since, tags withdrawn since, and withdrawn tags that a release made again
(`TagMadeAgain`), and by nothing else.

`ImplementsRecord` maps the initial state to an initial state of `ReleaseRecord`
and every step to one of its steps or to none: the steps of `publish-manifest`
that bind evidence or make a release, and everything else, which leaves both
alone. That a signed manifest is attested and an announced one signed is
`PublishInv`; that it has an image for each architecture is `ListIsWhole`.

**InputDrift.** Open issues alone do not bound themselves: `BoundInv` counts
them with the jobs that found none and will create one, which never exceed the
jobs. `NumberInv` keeps new numbers new, `ReportInv` says that a body has a
finding for every input, `MovesInv` that no counter outruns its bound.

**LockRefresh.** `OutputInv` describes the resolver's directory at each step and
after a failure: the binary inventory is part of a whole selection, and where
there are sources it is all of it or its architecture is in `cut`. `LocksInv`
says that candidates and adopted locks were rendered from such inventories
(`PartLock`: packages of one snapshot's closure and one seed), and that a
candidate that is valid has the seed, and is whole unless it was cut; `MainInv`
is what a merge established. For `OneReleaseOnMain` the inventory forces equal
names and sources on both locks, so that if one is whole the other has the
builds of a whole closure. `WholeByBuilds` says that packages of one closure
with the builds of a whole one are a whole one themselves: publishers neither
add nor withdraw a package while every other build stays. `SameBuildsOnce` then
gives one time for both: publishers that offer both architectures the same
builds at any two times do so at one. Without them main may hold locks of two
times that no one time offered, or a lock cut to what is whole for the other
architecture. The theorem holds for any number of failures, so the pair of locks
cut alike is among the states it speaks of: for that pair only its first half,
that each is of one snapshot.

**Runtime.** `Content`: what the monitor is content with expires later than its
next run is due, in spite of the truncation; `Punctual`: it is never overdue.
This needs what `RuntimeAssumption` states: the interval is at most the window,
and nothing is deployed that expires before the monitor looks again. Without
either, something may expire unseen.

**TraceMatrix.** The recursion of `compute_status` is not unfolded by an
induction; every lemma about it takes a least counterexample. `NestedIs` states
what the calls at one nesting depth return from those one less deep, and the
least depth at which a claim about them fails contradicts it:
`AnswerMeansEvidence` (an answer other than the error agrees with `Evidenced` and
`Exposed`) and `AnswerMeansNoCycle`. For the converse, `AnswerComes`: at the
least depth at which a requirement has no answer although no more requirements
are below it than calls nest, one of its children has none a depth less; but
where no unmarked requirement is below itself, fewer are below a child than below
its parent. The full depth is enough for all, as no more than all the documents'
requirements are below one. `StatusLaw` joins them. The inductive
invariant is that the matrix of the main branch is `Build` of its documents and
markers, which `Merge` gets from `Check`.

**The safety halves of liveness.** What can be proved of a liveness property is
that nothing undoes its progress and that there is progress left to make.

- `AcquisitionEnds`: no step leads an acquirer back; each of its own lowers its
  `Rank` or, while it fetches, the number of artifacts it misses, and nobody
  else touches either.
- `UndisturbedBuildSucceeds`: an undisturbed build is never in step `"failed"`, as
  `ExactAccepted` shows that every check accepts what acquisition publishes. This
  needs a `SoundLock`: keys and packages there are, recorded as `gpg` and `rpm`
  describe them.
- `DriftEventuallyReported`, `QuietEventuallyClosed`: while an input has moved and
  every job under way tells of it, every later job does, no report of it is lost
  and whatever changes the issues reports it; while all is quiet and every job
  tells so, no issue is opened and a job that looks for one finds an open one.
  `JsonInv` says that a job past its second reading has a finding for every input.
- `RefreshCompletes`: `NoDeadEnd`, stated with the guards of the actions, leaves
  no state in which all that is left are commands that change nothing;
  `OnlyStartOverGoesBack` makes every round finite. That rounds do not repeat for
  ever while `Refreshable` lasts is left to the run.
- `Recovers`: `Distance` counts the restarts and health checks until a container
  that holds valid files is up; while such are deployed and wanted only a crash
  raises it, and each restart and health check lowers it.

Some lemmas need a largest or smallest number; `LeastNatural` gets it from the
well-foundedness of `<` on the naturals (`WFMin`), without an induction.

### Only model-checked

Every safety and action property of the runs is proved. What stays with TLC are
the six liveness properties themselves (`AcquisitionEnds`,
`UndisturbedBuildSucceeds`, `DriftEventuallyReported`, `QuietEventuallyClosed`,
`RefreshCompletes`, `Recovers`): they follow from fairness, and fairness and
ENABLED are out of this prover's reach. The properties of the theorems above that
no run lists (`OnlyForward`, `NothingRejected`, `DriftHolds`, `QuietHolds`,
`NoDeadEnd`, `OnlyStartOverGoesBack`, `Recovering`) are defined in the proof
modules.

## 6. Limits of the model

- Digests are injective. A manifest's rows are a set; their order and empty
  directories are left out.
- Three rewrites of the lock (A, B, A, B) under one acquisition do publish A's
  artifacts stamped as B, which is why `SettledLockExact` has an antecedent; a
  rewrite together with a replaced bundle can combine bases and packages of two
  locks, which is why `ImageFromOneLock` has one; two damages can agree with
  each other, which is why `PackagesMatchStamp` promises all packages only short
  of them.
- In `Transfer`, testing and hashing one file are one step, and the repository
  context (revision, lock and inventory digests) is one value.
- In `Assembly`, `validate-lock` leaves out the comparison with the inputs, which
  could only stop a build.
- In `Release`, the qualification of a candidate is one step that may fail. A
  commit is checked out whether or not its tag is still there. A release makes a
  tag that is gone again, at the tip of main, and starts no run by it; what
  GitHub does to the release of a tag that is withdrawn is left out: it stays.
  Re-running the jobs of a finished run, which the platform offers and the
  workflow does not mention, is not modelled.
- In `InputDrift`, the closure of packages is left out: the script compares the
  lock with itself there. A publisher's values are counters, equal where the
  script finds them so: it compares x.y.z of NGINX and the first digits of
  digests.
- In `LockRefresh`, a record has the fields that relate files to each other;
  licences, vendors, publisher policies, `generated_at` and the expected number
  of packages (tests/test_components.py 37) are left out. A file that is cut
  short ends with a row. No two packages of a closure have one name, as
  components.py 91 assumes. `Adopt` binds the
  inventory to both locks, as the reviewed change would.
- In `TraceMatrix`, documents are what the parser finds in them.
- In `Runtime`, the monitor reads the host's files, not what is served; requests,
  resource limits and log output are left out, and TLS material has two
  deadlines, one of each file: of a file with several, openssl reads the first.
  That a stop is not undone by a restart is systemd's doing and assumed.
- `rpm`, `dnf`, `gpg`, `podman`, `systemd`, `nginx`, `gh`, `cosign`, the registry
  and GitHub are modelled from how the code uses them; such definitions are
  marked external.

Not modelled: `verify_rpms` (components.py 155-182), a comparison of records
with RPM headers inside one step; field-by-field validation and the redirect
handler of artifacts.py; `nginx_features.py`, a parser with a set comparison;
the CI, CodeQL and Scorecard workflows, which keep no state between their steps;
the configuration profiles, whose behaviour is that of NGINX, which is not in
this repository; the tests and control documents.

## 7. How the project was built, and what a continuation would take

The order was that of the supply chain's risks: `Bundle` and `Acquisition` with
their proofs, then `Assembly`, `Transfer`, `Release` and
`InputDrift`, then `LockRefresh`, `TraceMatrix` and `Runtime`, then the proofs of
each, last the refinement of `ReleaseRecord`, `TraceMatrix` and the safety halves
of the liveness properties. What could follow:

1. Re-runs of release jobs, with an attempt in the identity of an image; the
   invariants of `Release_proofs` that speak of a run's current step would speak
   of its last attempt.
2. A state machine for load balancing with passive failure detection
   (examples/profiles/load-balancer), if the engine's rules are accepted as
   external definitions.
3. `verify_rpms` as a step between acquisition and assembly.
