------------------------------- MODULE Release -------------------------------
(***************************************************************************)
(* .github/workflows/release.yml with scripts/release_tag.py: every tag    *)
(* that is pushed starts a run of the workflow; its jobs validate the tag, *)
(* build and push one image per architecture in parallel, then assemble,   *)
(* push, attest, sign and announce the multi-architecture manifest.        *)
(*                                                                         *)
(* Runs of different tags, and of one tag that was removed and pushed      *)
(* again, overlap freely: the workflow has no concurrency group.  A digest *)
(* is modelled by the content it identifies, and an image by the run that  *)
(* built it (two builds are never the same bytes).                         *)
(***************************************************************************)
EXTENDS Integers, Sequences, FiniteSetsExt

CONSTANTS
  Commits,
  FirstMain,       \* those on main at first
  Versions,        \* NGINX version and UBI major, as a tag names them
  LockOf,          \* LockOf[c][a]: the identity of architecture a's lock at commit c
  MaxDay,          \* bound: days that pass
  MaxSequence,     \* bound: daily sequences that are tried
  MaxRuns,         \* bound: tags pushed
  MaxWithdrawals,  \* bound: tags removed
  NoManifest

Arches == {"amd64", "arm64"}
Days == 1 .. MaxDay
Tags == [version : Versions, day : Days, sequence : 1 .. MaxSequence]
Runs == 1 .. MaxRuns

ASSUME ReleaseAssumption ==
  /\ FirstMain \subseteq Commits
  /\ LockOf \in [Commits -> [Arches -> Versions]]
  /\ MaxDay \in Nat \ {0} /\ MaxSequence \in Nat /\ MaxRuns \in Nat /\ MaxWithdrawals \in Nat

VARIABLES
  today,       \* the UTC date
  main,        \* commits on main
  tags,        \* the repository's tags: tag -> commit
  withdrawn,   \* history: tags that were removed
  runs,        \* the pushes that started runs, with what is checked of them later
  validation,  \* the validate-tag job of each run
  seen,        \* the tags its checkout brought
  build,       \* the two build jobs of each run
  publish,     \* the next step of its publish-manifest job
  list,        \* its manifest list: architecture -> image
  images,      \* registry: <<tag, architecture>> -> image
  manifests,   \* registry: tag -> manifest
  commitTags,  \* registry: commit -> manifest, the sha-<short> tags
  evidence,    \* registry: <<kind, manifest>>, bound to the manifest's digest
  releases     \* GitHub releases: tag -> manifest

repository == <<today, main, tags, withdrawn, runs>>
jobs == <<validation, seen, build, publish, list>>
registry == <<images, manifests, commitTags, evidence, releases>>
vars == <<repository, jobs, registry>>

Image == [run : Runs, architecture : Arches]
PartialTo(f, S, T) == DOMAIN f \subseteq S /\ \A x \in DOMAIN f : f[x] \in T
ManifestLists == UNION {[S -> Image] : S \in SUBSET Arches}

PublishSteps ==
  {"waiting", "amd64", "arm64", "push", "commit tag", "inventory", "provenance", "sbom",
   "signature", "verify", "release", "done", "failed"}

TypeOK ==
  /\ today \in Days /\ main \subseteq Commits
  /\ PartialTo(tags, Tags, Commits) /\ withdrawn \subseteq Tags
  /\ runs \in Seq([tag : Tags, commit : Commits, rightful : BOOLEAN])
  /\ Len(runs) <= MaxRuns
  /\ validation \in [Runs -> {"checkout", "ancestor", "contract", "locks", "passed", "failed"}]
  /\ seen \in [Runs -> SUBSET Tags]
  /\ build \in [Runs -> [Arches -> {"waiting", "built", "pushed", "failed", "cancelled"}]]
  /\ publish \in [Runs -> PublishSteps]
  /\ list \in [Runs -> ManifestLists]
  /\ PartialTo(images, Tags \X Arches, Image)
  /\ PartialTo(manifests, Tags, ManifestLists) /\ PartialTo(commitTags, Commits, ManifestLists)
  /\ DOMAIN releases \subseteq DOMAIN manifests

Put(f, x, y) == [z \in (DOMAIN f) \union {x} |-> IF z = x THEN y ELSE f[z]]
Nowhere == [x \in {} |-> NoManifest]

Init ==
  /\ today = 1
  /\ main = FirstMain
  /\ tags = Nowhere /\ withdrawn = {}
  /\ runs = <<>>
  /\ validation = [r \in Runs |-> "checkout"]
  /\ seen = [r \in Runs |-> {}]
  /\ build = [r \in Runs |-> [a \in Arches |-> "waiting"]]
  /\ publish = [r \in Runs |-> "waiting"]
  /\ list = [r \in Runs |-> Nowhere]
  /\ images = Nowhere /\ manifests = Nowhere /\ commitTags = Nowhere
  /\ evidence = {} /\ releases = Nowhere

(***************************************************************************)
(* scripts/release_tag.py.                                                 *)
(***************************************************************************)

\* One past the highest sequence seen for the date, of any version.
NextSequence(day, existing) ==
  LET used == {t.sequence : t \in {u \in existing : u.day = day}}
  IN  IF used = {} THEN 1 ELSE Max(used) + 1

\* validate: a tag of the shape TAG has, against the amd64 lock.
Conforms(tag, version, existing) ==
  /\ tag.version = version
  /\ tag.day <= today
  /\ tag \notin existing
  /\ tag.sequence = NextSequence(tag.day, existing)

(***************************************************************************)
(* The repository.                                                         *)
(***************************************************************************)

\* A tag is created at a commit and pushed, which starts a run.  A rightful
\* one follows docs/VERSION.md: made from main, for the versions locked
\* there, dated today, with the next sequence the tags then present leave.
PushTag ==
  /\ Len(runs) < MaxRuns
  /\ \E t \in Tags \ DOMAIN tags, c \in Commits :
       /\ tags' = Put(tags, t, c)
       /\ runs' = Append(runs,
            [tag |-> t, commit |-> c,
             rightful |-> /\ c \in main /\ t.day = today
                          /\ \A a \in Arches : LockOf[c][a] = t.version
                          /\ Conforms(t, t.version, DOMAIN tags)])
  /\ UNCHANGED <<today, main, withdrawn>>

WithdrawTag ==
  /\ Cardinality(withdrawn) < MaxWithdrawals
  /\ \E t \in (DOMAIN tags) \ withdrawn :
       /\ tags' = [u \in (DOMAIN tags) \ {t} |-> tags[u]]
       /\ withdrawn' = withdrawn \union {t}
  /\ UNCHANGED <<today, main, runs>>

NextDay == today < MaxDay /\ today' = today + 1 /\ UNCHANGED <<main, tags, withdrawn, runs>>

Merge == /\ \E c \in Commits \ main : main' = main \union {c}
         /\ UNCHANGED <<today, tags, withdrawn, runs>>

(***************************************************************************)
(* Job validate-tag.                                                       *)
(***************************************************************************)
Validated(r, condition, step) ==
  validation' = [validation EXCEPT ![r] = IF condition THEN step ELSE "failed"]

CheckOutShallow(r) ==
  /\ validation[r] = "checkout"
  /\ Validated(r, TRUE, "ancestor")
  /\ seen' = [seen EXCEPT ![r] = {runs[r].tag}]
  /\ UNCHANGED <<build, publish, list, registry>>

\* fetch-depth 0: the history and every tag there is at this moment.  The commit
\* is named by the event, so that a tag withdrawn since does not matter.
CheckOut(r) ==
  /\ validation[r] = "checkout"
  /\ Validated(r, TRUE, "ancestor")
  /\ seen' = [seen EXCEPT ![r] = DOMAIN tags]
  /\ UNCHANGED <<build, publish, list, registry>>

RequireOnMain(r) ==
  /\ validation[r] = "ancestor"
  /\ Validated(r, runs[r].commit \in main, "contract")
  /\ UNCHANGED <<seen, build, publish, list, registry>>

ValidateTagAgainstAll(r) ==
  /\ validation[r] = "contract"
  /\ Validated(r, Conforms(runs[r].tag, LockOf[runs[r].commit]["amd64"], seen[r]), "locks")
  /\ UNCHANGED <<seen, build, publish, list, registry>>

\* The tag itself is taken out of the list before it is validated.
ValidateTag(r) ==
  /\ validation[r] = "contract"
  /\ Validated(r, Conforms(runs[r].tag, LockOf[runs[r].commit]["amd64"],
                           seen[r] \ {runs[r].tag}), "locks")
  /\ UNCHANGED <<seen, build, publish, list, registry>>

ConfirmLocksOfOne(r) ==
  /\ validation[r] = "locks"
  /\ Validated(r, TRUE, "passed")
  /\ UNCHANGED <<seen, build, publish, list, registry>>

\* tests.test_release_tag on the repository's own locks.
ConfirmLocks(r) ==
  /\ validation[r] = "locks"
  /\ Validated(r, \A a, b \in Arches : LockOf[runs[r].commit][a] = LockOf[runs[r].commit][b],
               "passed")
  /\ UNCHANGED <<seen, build, publish, list, registry>>

(***************************************************************************)
(* Job build, once per architecture, with fail-fast.                       *)
(***************************************************************************)
OfRun(r, a) == [run |-> r, architecture |-> a]

\* Everything up to the qualified local image (Assembly.tla).
BuildCandidate(r, a) ==
  /\ validation[r] = "passed"
  /\ build[r][a] = "waiting"
  /\ build' = [build EXCEPT ![r][a] = "built"]
  /\ UNCHANGED <<validation, seen, publish, list, registry>>

\* podman push to v<version>-<architecture>.
PushImage(r, a) ==
  /\ build[r][a] = "built"
  /\ images' = Put(images, <<runs[r].tag, a>>, OfRun(r, a))
  /\ build' = [build EXCEPT ![r][a] = "pushed"]
  /\ UNCHANGED <<validation, seen, publish, list, manifests, commitTags, evidence, releases>>

BuildFails(r, a) ==
  /\ validation[r] = "passed"
  /\ build[r][a] \in {"waiting", "built"}
  /\ build' = [build EXCEPT ![r][a] =
                 IF \E b \in Arches : build[r][b] = "failed" THEN "cancelled" ELSE "failed"]
  /\ UNCHANGED <<validation, seen, publish, list, registry>>

(***************************************************************************)
(* Job publish-manifest.                                                   *)
(***************************************************************************)
Published(r, step) == publish' = [publish EXCEPT ![r] = step]

\* Checkout, login and manifest create.
CreateList(r) ==
  /\ publish[r] = "waiting"
  /\ \A a \in Arches : build[r][a] = "pushed"
  /\ Published(r, "amd64")
  /\ UNCHANGED <<validation, seen, build, list, registry>>

\* manifest add: what the architecture's tag names in the registry by now.
AddImage(r, a) ==
  /\ publish[r] = a
  /\ list' = [list EXCEPT ![r] = Put(@, a, images[<<runs[r].tag, a>>])]
  /\ Published(r, IF a = "amd64" THEN "arm64" ELSE "push")
  /\ UNCHANGED <<validation, seen, build, registry>>

PushManifestLocally(r) ==
  /\ publish[r] = "push"
  /\ Published(r, "commit tag")
  /\ UNCHANGED <<validation, seen, build, list, registry>>

PushManifest(r) ==
  /\ publish[r] = "push"
  /\ manifests' = Put(manifests, runs[r].tag, list[r])
  /\ Published(r, "commit tag")
  /\ UNCHANGED <<validation, seen, build, list, images, commitTags, evidence, releases>>

\* The same for the tip of main instead of the tagged commit.
PushTagOfTip(r) ==
  /\ publish[r] = "commit tag"
  /\ \E c \in main : commitTags' = Put(commitTags, c, list[r])
  /\ Published(r, "inventory")
  /\ UNCHANGED <<validation, seen, build, list, images, manifests, evidence, releases>>

\* sha-<short-commit>, whether or not there is one.
PushCommitTag(r) ==
  /\ publish[r] = "commit tag"
  /\ commitTags' = Put(commitTags, runs[r].commit, list[r])
  /\ Published(r, "inventory")
  /\ UNCHANGED <<validation, seen, build, list, images, manifests, evidence, releases>>

\* The SPDX document is made of the digest and stays in the workspace.
GenerateInventory(r) ==
  /\ publish[r] = "inventory"
  /\ Published(r, "provenance")
  /\ UNCHANGED <<validation, seen, build, list, registry>>

NextStep == [provenance |-> "sbom", sbom |-> "signature", signature |-> "verify"]

BindSbomByTag(r, kind) ==
  /\ publish[r] = kind
  /\ evidence' = evidence \union
       {<<kind, IF kind = "sbom" THEN manifests[runs[r].tag] ELSE list[r]>>}
  /\ Published(r, NextStep[kind])
  /\ UNCHANGED <<validation, seen, build, list, images, manifests, commitTags, releases>>

\* Both attestations and the signature: bound to the digest this run pushed.
Bind(r, kind) ==
  /\ publish[r] = kind
  /\ evidence' = evidence \union {<<kind, list[r]>>}
  /\ Published(r, NextStep[kind])
  /\ UNCHANGED <<validation, seen, build, list, images, manifests, commitTags, releases>>

\* cosign verify of the digest, and the upload of the evidence.
VerifySignature(r) ==
  /\ publish[r] = "verify"
  /\ Published(r, IF <<"signature", list[r]>> \in evidence THEN "release" ELSE "failed")
  /\ UNCHANGED <<validation, seen, build, list, registry>>

\* A release of a tag that is gone makes it again, at the tip of main; a tag
\* that the workflow makes starts no run.
MakeTag(t) == IF t \in DOMAIN tags THEN UNCHANGED tags
              ELSE \E c \in main : tags' = Put(tags, t, c)

\* A release that is there is edited.
EditRelease(r) ==
  /\ publish[r] = "release"
  /\ releases' = Put(releases, runs[r].tag, list[r]) /\ MakeTag(runs[r].tag)
  /\ Published(r, "done")
  /\ UNCHANGED <<validation, seen, build, list, images, manifests, commitTags, evidence>>

\* gh release create fails for a tag that has a release, and makes a tag that
\* is missing.
CreateRelease(r) ==
  /\ publish[r] = "release"
  /\ IF runs[r].tag \in DOMAIN releases
       THEN Published(r, "failed") /\ UNCHANGED <<releases, tags>>
       ELSE /\ releases' = Put(releases, runs[r].tag, list[r]) /\ MakeTag(runs[r].tag)
            /\ Published(r, "done")
  /\ UNCHANGED <<validation, seen, build, list, images, manifests, commitTags, evidence>>

\* A registry, a runner or a service lets any step of the job down.
PublishFails(r) ==
  /\ publish[r] \notin {"waiting", "done", "failed"}
  /\ Published(r, "failed")
  /\ UNCHANGED <<validation, seen, build, list, registry>>

JobStep(r) ==
  \/ CheckOut(r) \/ RequireOnMain(r) \/ ValidateTag(r) \/ ConfirmLocks(r)
  \/ \E a \in Arches : BuildCandidate(r, a) \/ PushImage(r, a) \/ BuildFails(r, a)
  \/ CreateList(r)
  \/ \E a \in Arches : AddImage(r, a)
  \/ PushManifest(r) \/ PushCommitTag(r) \/ GenerateInventory(r)
  \/ \E kind \in DOMAIN NextStep : Bind(r, kind)
  \/ VerifySignature(r) \/ PublishFails(r)

Next ==
  \/ (PushTag \/ WithdrawTag \/ NextDay \/ Merge) /\ UNCHANGED <<jobs, registry>>
  \/ \E r \in DOMAIN runs :
       \/ JobStep(r) /\ UNCHANGED repository
       \/ CreateRelease(r) /\ UNCHANGED <<today, main, withdrawn, runs>>

Spec == Init /\ [][Next]_vars

-----------------------------------------------------------------------------
(***************************************************************************)
(* Properties.                                                             *)
(***************************************************************************)
Accepted(r) == r \in DOMAIN runs /\ validation[r] \in {"locks", "passed"}
SameSequence(t, u) == t.day = u.day /\ t.sequence = u.sequence

\* Two tags that the workflow accepted, and that nobody withdrew, never share
\* a daily sequence, however close together they are pushed: each run sees at
\* least the tags pushed before its own (release.yml 35-63, release_tag.py
\* 101-153).
AcceptedSequencesDistinct ==
  \A r, s \in Runs :
    /\ Accepted(r) /\ Accepted(s) /\ runs[r].tag # runs[s].tag
    /\ {runs[r].tag, runs[s].tag} \intersect withdrawn = {}
    => ~SameSequence(runs[r].tag, runs[s].tag)

\* Every image under a release tag, of either architecture, was built from a
\* commit of main whose lock is the one the tag names, and the tag is not
\* dated in the future (docs/VERSION.md 55-58): whatever ran in between, no
\* push precedes the checks it needs.
PublishedHonoursContract ==
  \A p \in DOMAIN images :
    LET c == runs[images[p].run].commit
    IN  c \in main /\ LockOf[c][p[2]] = p[1].version /\ p[1].day <= today

\* The digest a GitHub release tells its readers to pull names one image for
\* each architecture and carries provenance, an SBOM and a signature, even if
\* its tag was meanwhile made to point elsewhere by another run
\* (release.yml 201-202, 220-285).
ReleaseHasEvidence ==
  \A t \in DOMAIN releases :
    /\ DOMAIN releases[t] = Arches
    /\ \A kind \in DOMAIN NextStep : <<kind, releases[t]>> \in evidence

\* A tag leads back to what it was made from (docs/VERSION.md 90-95): the images
\* of a release were built for its tag, and those of sha-<short-commit> from that
\* commit, however often later releases of the commit move it.  Only a release
\* tag that was withdrawn, and may have been pushed again at another commit
\* while its first run was under way, can lend a commit images of another.
TagsTraceable ==
  /\ \A t \in DOMAIN releases : \A a \in Arches : runs[releases[t][a].run].tag = t
  /\ \A c \in DOMAIN commitTags : \A a \in Arches :
       LET origin == runs[commitTags[c][a].run]
       IN  origin.commit = c \/ origin.tag \in withdrawn

\* A tag that followed the rules of docs/VERSION.md 86-88 when it was pushed
\* is rejected by release_tag.py only on account of its neighbours: a tag of
\* its day pushed after it and before its job checked out, or one withdrawn.
RejectedByNeighbourOnly ==
  [][\A r \in DOMAIN runs :
       runs[r].rightful /\ validation[r] = "contract" /\ validation'[r] = "failed" =>
         \/ \E s \in DOMAIN runs :
              s > r /\ runs[s].tag.day = runs[r].tag.day /\ runs[s].tag \in seen[r]
         \/ \E t \in withdrawn : t.day = runs[r].tag.day]_vars

\* However many runs overlap, fail or repeat each other, what consumers rely on
\* grows as module ReleaseRecord says: a digest is signed after it is attested,
\* announced after it is signed, and what a tag announced stays (docs/VERSION.md
\* 41, "Never move or reuse a release tag"; docs/CI.md 163-165).
Record == INSTANCE ReleaseRecord WITH Manifests <- [Arches -> Image]
KeepsRecord == Record!Spec
=============================================================================
