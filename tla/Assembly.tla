------------------------------- MODULE Assembly -------------------------------
(***************************************************************************)
(* scripts/build-image.sh: one native build from the lock file and an      *)
(* acquired bundle, through verify-rpm-bundle.sh, the Containerfile and    *)
(* install-rpm-bundle.sh, to an image.                                     *)
(*                                                                         *)
(* The script opens the lock file six times (validate-lock; verify-bundle, *)
(* which parses it and then hashes it; base-reference twice; sha256sum)    *)
(* and the bundle three times (verify-bundle, the shell's own loop, the    *)
(* build context).  Between any two of them the lock may be rewritten, the *)
(* bundle may be replaced by a freshly acquired one or lose its integrity, *)
(* and a base image may be evicted from the local store.                   *)
(***************************************************************************)
EXTENDS Bundle, Sequences

CONSTANTS
  MetaOf,      \* what a key or package says of itself: fingerprint, NEVRA, signer
  BaseOf,      \* BaseOf[l]: the base image references a lock pins
  NativeHost,  \* the host's architecture is the one to build
  MaxEdits,    \* bound: rewrites of the lock file
  MaxSwaps,    \* bound: replacements of the bundle during the build
  MaxDamage,   \* bound: bundle files damaged, lost or added, bases evicted
  StartSources,\* may the build be handed a bundle acquired with sources
  NoImage

BaseRefs == {BaseOf[l].builder : l \in Locks} \union {BaseOf[l].runtime : l \in Locks}

ASSUME BaseAssumption ==
  /\ \A l \in Locks : BaseOf[l] = [builder |-> BaseOf[l].builder, runtime |-> BaseOf[l].runtime]
  /\ MetaOf \in [Digests -> Metas]
  /\ NativeHost \in BOOLEAN
  /\ MaxEdits \in Nat /\ MaxSwaps \in Nat /\ MaxDamage \in Nat
  /\ StartSources \subseteq BOOLEAN

\* What an image is made of: the lock whose digest the build was given, the
\* packages rpm has installed, the manifest it keeps, and its two bases.
Images == [stamp    : Locks,
           packages : UNION {[D -> Digests] : D \in SUBSET Names},
           manifest : Texts,
           builder  : BaseRefs,
           runtime  : BaseRefs]

ASSUME NoImageAssumption == NoImage \notin Images

VARIABLES
  versions,    \* contents the lock file has had; the last is the current one
  bundle,      \* the directory given as ARTIFACT_BUNDLE
  store,       \* base images in the local container store
  pull,        \* PULL_BASES
  pc,          \* the next step of build-image.sh
  at,          \* the version of the lock file each reading step saw
  image,       \* the image built, or NoImage
  swaps,       \* history: replacements of the bundle
  damage       \* history: damages to the bundle and evictions

vars == <<versions, bundle, store, pull, pc, at, image, swaps, damage>>

Current == versions[Len(versions)]
Seen(step) == versions[at[step]]

Readers == {"validate", "parse", "compare", "builder", "runtime", "hash"}
Ended == {"built", "failed"}
Steps == Readers \union Ended \union {"packages", "pull", "exists", "build"}

TypeOK ==
  /\ versions \in Seq(Locks) /\ versions # <<>>
  /\ IsDirectory(bundle)
  /\ store \subseteq BaseRefs
  /\ pull \in BOOLEAN
  /\ pc \in Steps
  /\ at \in [Readers -> Nat]
  /\ swaps \in 0 .. MaxSwaps /\ damage \in 0 .. MaxDamage
  /\ image \in Images \union {NoImage} /\ (pc = "built") = (image # NoImage)

Init ==
  /\ versions \in {<<l>> : l \in Locks}
  /\ bundle \in {ExactBundle(l, s) : l \in ValidLocks, s \in StartSources}
  /\ store \in {{}, BaseRefs}
  /\ pull \in BOOLEAN
  /\ pc = "validate"
  /\ at = [r \in Readers |-> 0]
  /\ image = NoImage
  /\ swaps = 0 /\ damage = 0

Sees(step) == at' = [at EXCEPT ![step] = Len(versions)]

ContinueIf(condition, next) == pc' = IF condition THEN next ELSE "failed"

(***************************************************************************)
(* The steps of build-image.sh; set -e makes every failing command the     *)
(* last one.                                                               *)
(***************************************************************************)

\* The two architecture tests, then validate-lock.  Its comparison with
\* lock-inputs.json is left out, so that builds go on here which it would stop.
ValidateLock ==
  /\ pc = "validate"
  /\ Sees("validate")
  /\ ContinueIf(NativeHost /\ Current \in ValidLocks, "parse")
  /\ UNCHANGED <<versions, bundle, store, pull, image, swaps, damage>>

\* verify-bundle, without --include-sources: it parses the lock ...
ParseLock ==
  /\ pc = "parse"
  /\ Sees("parse")
  /\ ContinueIf(Current \in ValidLocks, "compare")
  /\ UNCHANGED <<versions, bundle, store, pull, image, swaps, damage>>

\* ... then takes its digest and compares the whole bundle.
CompareBundleWithSources ==
  /\ pc = "compare"
  /\ Sees("compare")
  /\ ContinueIf(VerifyBundle(Seen("parse"), Current, TRUE, bundle), "packages")
  /\ UNCHANGED <<versions, bundle, store, pull, image, swaps, damage>>

CompareBundle ==
  /\ pc = "compare"
  /\ Sees("compare")
  /\ ContinueIf(VerifyBundle(Seen("parse"), Current, FALSE, bundle), "packages")
  /\ UNCHANGED <<versions, bundle, store, pull, image, swaps, damage>>

\* The loops over key-manifest.tsv and rpm-manifest.tsv, in
\* verify-rpm-bundle.sh and again in install-rpm-bundle.sh: every row's file
\* has the row's digest and, in the sections asked about, says of itself what
\* the row says of it.
RowsHold(dir, described) ==
  \A d \in {"keys", "rpms"} :
    /\ SectionManifest[d] \in DOMAIN dir.manifests
    /\ \A row \in dir.manifests[SectionManifest[d]] :
         /\ <<d, row[1]>> \in DOMAIN dir.files
         /\ dir.files[<<d, row[1]>>] = row[2]
         /\ d \in described => MetaOf[row[2]] = row[3]

VerifyPackages ==
  /\ pc = "packages"
  /\ ContinueIf(RowsHold(bundle, {"keys", "rpms"}), "builder")
  /\ UNCHANGED <<versions, bundle, store, pull, at, image, swaps, damage>>

\* base-reference LOCK builder, and base-reference LOCK runtime.
ReadBuilder ==
  /\ pc = "builder"
  /\ Sees("builder")
  /\ ContinueIf(Current \in ValidLocks, "runtime")
  /\ UNCHANGED <<versions, bundle, store, pull, image, swaps, damage>>

ReadRuntime ==
  /\ pc = "runtime"
  /\ Sees("runtime")
  /\ ContinueIf(Current \in ValidLocks, "pull")
  /\ UNCHANGED <<versions, bundle, store, pull, image, swaps, damage>>

Bases == {BaseOf[Seen("builder")].builder, BaseOf[Seen("runtime")].runtime}

\* Both pulls, when asked for; either may fail, the second after the first
\* has been stored.
PullBases ==
  /\ pc = "pull"
  /\ IF pull
       THEN \/ store' = store \union Bases /\ pc' = "exists"
            \/ /\ store' \in {store, store \union {BaseOf[Seen("builder")].builder}}
               /\ pc' = "failed"
       ELSE UNCHANGED store /\ pc' = "exists"
  /\ UNCHANGED <<versions, bundle, pull, at, image, swaps, damage>>

CheckBases ==
  /\ pc = "exists"
  /\ ContinueIf(Bases \subseteq store, "hash")
  /\ UNCHANGED <<versions, bundle, store, pull, at, image, swaps, damage>>

HashLockFirst ==
  /\ pc = "hash"
  /\ at' = [at EXCEPT !["hash"] = at["validate"]]
  /\ pc' = "build"
  /\ UNCHANGED <<versions, bundle, store, pull, image, swaps, damage>>

\* sha256sum, handed to the build as ARTIFACT_LOCK_SHA256.
HashLock ==
  /\ pc = "hash"
  /\ Sees("hash")
  /\ pc' = "build"
  /\ UNCHANGED <<versions, bundle, store, pull, image, swaps, damage>>

\* install-rpm-bundle.sh: exactly three top-level files and the two folders
\* (an empty one fails at rpm's arguments), nothing else in the tree, one file
\* for every row and one row for every file.  It imports a key without asking
\* for its fingerprint.  What rpm then has installed equals the rows.
InstallAccepts(dir) ==
  /\ dir.stray = {}
  /\ {p[1] : p \in DOMAIN dir.files} = {"keys", "rpms"}
  /\ \E m \in {"LOCK-SHA256", "source-manifest.tsv"} :
       DOMAIN dir.manifests = {m, "key-manifest.tsv", "rpm-manifest.tsv"}
  /\ RowsHold(dir, {"rpms"})
  /\ \A d \in {"keys", "rpms"} :
       {p[2] : p \in {q \in DOMAIN dir.files : q[1] = d}} =
         {row[1] : row \in dir.manifests[SectionManifest[d]]}

Packages(dir) ==
  [f \in {p[2] : p \in {q \in DOMAIN dir.files : q[1] = "rpms"}} |-> dir.files[<<"rpms", f>>]]

ImageOf(dir) == [stamp    |-> Seen("hash"),
                 packages |-> Packages(dir),
                 manifest |-> dir.manifests["rpm-manifest.tsv"],
                 builder  |-> BaseOf[Seen("builder")].builder,
                 runtime  |-> BaseOf[Seen("runtime")].runtime]

BuildImageUnstamped ==
  /\ pc = "build"
  /\ IF Bases \subseteq store /\ InstallAccepts(bundle)
       THEN image' = ImageOf(bundle) /\ pc' = "built"
       ELSE UNCHANGED image /\ pc' = "failed"
  /\ UNCHANGED <<versions, bundle, store, pull, at, swaps, damage>>

BuildImageUnchecked ==
  /\ pc = "build"
  /\ IF /\ Bases \subseteq store
        /\ "LOCK-SHA256" \in DOMAIN bundle.manifests
        /\ bundle.manifests["LOCK-SHA256"] = {Seen("hash")}
        /\ InstallAccepts(bundle)
       THEN image' = ImageOf(bundle)
       ELSE UNCHANGED image
  /\ pc' = "built"
  /\ UNCHANGED <<versions, bundle, store, pull, at, swaps, damage>>

\* podman build --pull=never: the Containerfile compares LOCK-SHA256 with the
\* build argument and runs the installer on a copy of the bundle.
BuildImage ==
  /\ pc = "build"
  /\ IF /\ Bases \subseteq store
        /\ "LOCK-SHA256" \in DOMAIN bundle.manifests
        /\ bundle.manifests["LOCK-SHA256"] = {Seen("hash")}
        /\ InstallAccepts(bundle)
       THEN image' = ImageOf(bundle) /\ pc' = "built"
       ELSE UNCHANGED image /\ pc' = "failed"
  /\ UNCHANGED <<versions, bundle, store, pull, at, swaps, damage>>

(***************************************************************************)
(* Around the build.                                                       *)
(***************************************************************************)
EditLock ==
  /\ Len(versions) <= MaxEdits
  /\ \E l \in Locks \ {Current} : versions' = Append(versions, l)
  /\ UNCHANGED <<bundle, store, pull, pc, at, image, swaps, damage>>

\* Somebody removes the bundle directory and acquires a new bundle there.
SwapBundle ==
  /\ swaps < MaxSwaps
  /\ bundle' \in {ExactBundle(l, s) : l \in ValidLocks, s \in BOOLEAN}
  /\ swaps' = swaps + 1
  /\ UNCHANGED <<versions, store, pull, pc, at, image, damage>>

DropFile(dir, p) ==
  [dir EXCEPT !.files = [q \in (DOMAIN dir.files) \ {p} |-> dir.files[q]]]

\* A file is corrupted or lost, a manifest row is lost, an entry appears.
DamageBundle ==
  /\ damage < MaxDamage
  /\ \/ \E p \in DOMAIN bundle.files : \E c \in Digests \ {bundle.files[p]} :
          bundle' = PutFile(bundle, p, c)
     \/ \E p \in DOMAIN bundle.files : bundle' = DropFile(bundle, p)
     \/ \E m \in DOMAIN bundle.manifests : \E row \in bundle.manifests[m] :
          bundle' = [bundle EXCEPT !.manifests[m] = @ \ {row}]
     \/ \E x \in Strays \ bundle.stray : bundle' = [bundle EXCEPT !.stray = @ \union {x}]
  /\ damage' = damage + 1
  /\ UNCHANGED <<versions, store, pull, pc, at, image, swaps>>

EvictBase ==
  /\ damage < MaxDamage
  /\ \E ref \in store : store' = store \ {ref}
  /\ damage' = damage + 1
  /\ UNCHANGED <<versions, bundle, pull, pc, at, image, swaps>>

BuildStep ==
  \/ ValidateLock \/ ParseLock   \/ CompareBundle \/ VerifyPackages
  \/ ReadBuilder  \/ ReadRuntime \/ PullBases     \/ CheckBases
  \/ HashLock     \/ BuildImage

Disturbance == EditLock \/ SwapBundle \/ DamageBundle \/ EvictBase

Next == pc \notin Ended /\ (BuildStep \/ Disturbance)

Spec == Init /\ [][Next]_vars

\* The script is one sequential process; nothing it calls waits for ever.
FairSpec == Spec /\ WF_vars(BuildStep)

-----------------------------------------------------------------------------
(***************************************************************************)
(* Properties.                                                             *)
(***************************************************************************)

\* Whatever happens to the lock and the bundle between the checks, the image
\* holds packages of the valid lock it is stamped with and nothing else, and
\* keeps rows of no other manifest.  Unless two damages hit the bundle (a lost
\* package and its lost row agree with each other), it holds all of them
\* (Containerfile 20-22, install-rpm-bundle.sh 36-77).
PackagesMatchStamp ==
  image # NoImage =>
    LET rpms == Pins[image.stamp]["rpms"]
        rows == SectionRows(image.stamp, "rpms")
    IN  /\ image.stamp \in ValidLocks
        /\ DOMAIN image.packages \subseteq DOMAIN rpms /\ image.manifest \subseteq rows
        /\ \A f \in DOMAIN image.packages : image.packages[f] = rpms[f].sha256
        /\ damage <= 1 => DOMAIN image.packages = DOMAIN rpms /\ image.manifest = rows

\* The base images come from the same lock as the packages, if the lock was
\* not rewritten during the build, or once but with the bundle left in place
\* (build-image.sh 19-41).  With a rewrite and a new bundle the build can
\* combine the bases of one lock with the packages of the other.
ImageFromOneLock ==
  /\ image # NoImage
  /\ \/ at["hash"] = at["validate"]
     \/ at["hash"] - at["validate"] = 1 /\ swaps = 0
  => /\ image.builder = BaseOf[image.stamp].builder
     /\ image.runtime = BaseOf[image.stamp].runtime

Undisturbed ==
  /\ NativeHost
  /\ Len(versions) = 1 /\ Current \in ValidLocks
  /\ swaps = 0 /\ damage = 0
  /\ bundle = ExactBundle(Current, FALSE)
  /\ ~pull /\ {BaseOf[Current].builder, BaseOf[Current].runtime} \subseteq store

\* Left alone with the binary bundle of a valid lock and its bases at hand,
\* the build ends with an image: no check rejects what acquisition publishes.
UndisturbedBuildSucceeds == []Undisturbed => <>(pc = "built")
=============================================================================
