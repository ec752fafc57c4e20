------------------------------- MODULE Bundle -------------------------------
(***************************************************************************)
(* What an artifact lock pins, what a bundle directory holds, and when     *)
(* scripts/artifacts.py accepts a bundle for a lock.  Pure definitions: no *)
(* state.                                                                  *)
(*                                                                         *)
(* Data is reduced to what acceptance tells apart.  A file's content IS    *)
(* its SHA-256 (the digest is taken to be injective), so a lock is a model *)
(* value that stands for the whole text of artifacts/locks/<arch>.json and *)
(* is its own digest.  The order of a manifest's rows is left out: both    *)
(* sides of every comparison are rendered from a lock by the same code.    *)
(***************************************************************************)
EXTENDS Integers

CONSTANTS
  Locks,       \* contents the lock file may have
  ValidLocks,  \* those that validate_lock accepts
  Names,       \* artifact file names
  Digests,     \* artifact contents
  Metas,       \* what else a manifest row says of a file (NEVRA, fingerprint)
  SizeOf,      \* the size in bytes of a content
  Pins,        \* Pins[l][d][f]: the record of file f in section d of lock l
  Strays,      \* entries a bundle must not have: links, devices, other folders
  NoDirectory  \* the path names nothing

Sections == {"keys", "rpms", "srpms"}
Paths == Sections \X Names
SectionManifest == [keys |-> "key-manifest.tsv", rpms |-> "rpm-manifest.tsv",
                    srpms |-> "source-manifest.tsv"]
Manifests == {"LOCK-SHA256", "key-manifest.tsv", "rpm-manifest.tsv",
              "source-manifest.tsv"}

IsPartialFunction(f, S, T) == DOMAIN f \subseteq S /\ f \in [DOMAIN f -> T]

PinRecord == [sha256 : Digests, size : Nat, meta : Metas]

ASSUME LockAssumption ==
  /\ ValidLocks \subseteq Locks
  /\ \A l \in Locks, d \in Sections : IsPartialFunction(Pins[l][d], Names, PinRecord)
  /\ SizeOf \in [Digests -> Nat]

(***************************************************************************)
(* A bundle directory: the regular files below keys/, rpms/ and srpms/,    *)
(* the manifests beside them, and whatever else is in the tree.  A         *)
(* manifest's text is the set of its rows.                                 *)
(***************************************************************************)
Texts == SUBSET (Locks \union (Names \X Digests \X Metas \X Int))

IsDirectory(dir) ==
  /\ dir = [files |-> dir.files, manifests |-> dir.manifests, stray |-> dir.stray]
  /\ IsPartialFunction(dir.files, Paths, Digests)
  /\ IsPartialFunction(dir.manifests, Manifests, Texts)
  /\ dir.stray \subseteq Strays

EmptyDirectory == [files     |-> [p \in {} |-> p],
                   manifests |-> [m \in {} |-> m],
                   stray     |-> {}]

PutFile(dir, p, c) ==
  [dir EXCEPT !.files = [q \in (DOMAIN dir.files) \union {p} |->
                           IF q = p THEN c ELSE dir.files[q]]]

(***************************************************************************)
(* bundle_artifacts: source packages belong to a bundle only on request.   *)
(* A signing key carries no size (None in the code).                       *)
(***************************************************************************)
NoSize == -1

BundleSections(withSources) == IF withSources THEN Sections ELSE {"keys", "rpms"}

ArtifactPaths(l, withSources) ==
  {p \in BundleSections(withSources) \X Names : p[2] \in DOMAIN Pins[l][p[1]]}

BundleArtifacts(l, withSources) ==
  [p \in ArtifactPaths(l, withSources) |->
     LET pin == Pins[l][p[1]][p[2]]
     IN  [sha256 |-> pin.sha256,
          size   |-> IF p[1] = "keys" THEN NoSize ELSE pin.size]]

(***************************************************************************)
(* manifest_contents: LOCK-SHA256 holds the digest h it is handed, which   *)
(* the callers take from the lock file a second time; the other manifests  *)
(* are rendered from the lock l already parsed.  Only the source rows show *)
(* a size.                                                                 *)
(***************************************************************************)
SectionRows(l, d) ==
  {<<f, Pins[l][d][f].sha256, Pins[l][d][f].meta,
     IF d = "srpms" THEN Pins[l][d][f].size ELSE NoSize>>
     : f \in DOMAIN Pins[l][d]}

ManifestContents(l, h, withSources) ==
  [m \in {"LOCK-SHA256"} \union {SectionManifest[d] : d \in BundleSections(withSources)} |->
     IF m = "LOCK-SHA256"
       THEN {h}
       ELSE UNION {SectionRows(l, d) : d \in {e \in Sections : SectionManifest[e] = m}}]

VerifySizeOnly(c, record) == record.size # NoSize => SizeOf[c] = record.size

(***************************************************************************)
(* verify_file, for a file that exists: the size when the record has one,  *)
(* then the digest.                                                        *)
(***************************************************************************)
VerifyFile(c, record) ==
  /\ record.size # NoSize => SizeOf[c] = record.size
  /\ c = record.sha256

(***************************************************************************)
(* verify_bundle, for the lock l it parsed and the digest h it then took   *)
(* of the file: nothing but the expected regular files, each with its      *)
(* locked content, and manifests equal to the rendered ones.               *)
(***************************************************************************)
VerifyBundle(l, h, withSources, dir) ==
  LET artifacts == BundleArtifacts(l, withSources)
      manifests == ManifestContents(l, h, withSources)
  IN  /\ dir # NoDirectory
      /\ dir.stray = {}
      /\ DOMAIN dir.files = DOMAIN artifacts
      /\ DOMAIN dir.manifests = DOMAIN manifests
      /\ \A p \in DOMAIN artifacts : VerifyFile(dir.files[p], artifacts[p])
      /\ \A m \in DOMAIN manifests : dir.manifests[m] = manifests[m]

(***************************************************************************)
(* The one directory that is the bundle of lock l, stamped with digest h.  *)
(* A bundle is exact when it is stamped with its own lock.                 *)
(***************************************************************************)
Stamped(l, h, withSources) ==
  [files     |-> [p \in ArtifactPaths(l, withSources) |-> Pins[l][p[1]][p[2]].sha256],
   manifests |-> ManifestContents(l, h, withSources),
   stray     |-> {}]

ExactBundle(l, withSources) == Stamped(l, l, withSources)

WholeBundles ==
  {Stamped(l, h, s) : l \in ValidLocks, h \in Locks, s \in BOOLEAN}

ASSUME NoDirectoryAssumption ==
  /\ NoDirectory # EmptyDirectory
  /\ \A l, h \in Locks, s \in BOOLEAN : NoDirectory # Stamped(l, h, s)
=============================================================================
