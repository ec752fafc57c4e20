--------------------------- MODULE Assembly_proofs ---------------------------
(***************************************************************************)
(* Theorems about Assembly: for any locks, any number of rewrites of the   *)
(* lock file, of replaced bundles and of damages, an image holds nothing   *)
(* but packages of the lock it is stamped with, and its bases belong to    *)
(* that lock too under the conditions of ImageFromOneLock.                 *)
(***************************************************************************)
EXTENDS Assembly, TLAPS

(***************************************************************************)
(* Lemmas about module Bundle: the bundle of a lock is a directory, its    *)
(* stamp is the lock, and its rows name every file once.                   *)
(***************************************************************************)
LEMMA RowsTyped ==
  ASSUME NEW l \in Locks, NEW d \in Sections
  PROVE  SectionRows(l, d) \subseteq Names \X Digests \X Metas \X Int
BY LockAssumption DEF SectionRows, NoSize, IsPartialFunction, PinRecord

LEMMA ManifestsShape ==
  ASSUME NEW l \in Locks, NEW s \in BOOLEAN
  PROVE  /\ IsPartialFunction(ManifestContents(l, l, s), Manifests, Texts)
         /\ ManifestContents(l, l, s)["LOCK-SHA256"] = {l}
         /\ "LOCK-SHA256" \in DOMAIN ManifestContents(l, l, s)
         /\ "rpm-manifest.tsv" \in DOMAIN ManifestContents(l, l, s)
         /\ ManifestContents(l, l, s)["rpm-manifest.tsv"] = SectionRows(l, "rpms")
<1> DEFINE M == ManifestContents(l, l, s)
<1>1. DOMAIN M \subseteq Manifests
  BY DEF ManifestContents, Manifests, SectionManifest, BundleSections, Sections
<1>2. ASSUME NEW m \in DOMAIN M PROVE M[m] \in Texts
  <2>1. CASE m = "LOCK-SHA256"
    BY <2>1, <1>2 DEF ManifestContents, Texts
  <2>2. CASE m # "LOCK-SHA256"
    <3>1. M[m] = UNION {SectionRows(l, d) : d \in {e \in Sections : SectionManifest[e] = m}}
      BY <2>2, <1>2 DEF ManifestContents
    <3>2. QED BY <3>1, RowsTyped DEF Texts
  <2>3. QED BY <2>1, <2>2
<1>3. M = [m \in DOMAIN M |-> M[m]]
  BY DEF ManifestContents
<1>4. IsPartialFunction(M, Manifests, Texts)
  BY <1>1, <1>2, <1>3 DEF IsPartialFunction
<1>5. /\ "LOCK-SHA256" \in DOMAIN M
      /\ M["LOCK-SHA256"] = {l}
  BY DEF ManifestContents
<1>6. "rpm-manifest.tsv" \in DOMAIN M
  BY DEF ManifestContents, SectionManifest, BundleSections, Sections
<1>7. {e \in Sections : SectionManifest[e] = "rpm-manifest.tsv"} = {"rpms"}
  BY DEF SectionManifest, Sections
<1>8. M["rpm-manifest.tsv"] = UNION {SectionRows(l, d) : d \in {"rpms"}}
  BY <1>6, <1>7 DEF ManifestContents
<1>9. QED BY <1>4, <1>5, <1>6, <1>8

LEMMA ExactTyped ==
  ASSUME NEW l \in Locks, NEW s \in BOOLEAN
  PROVE  /\ IsDirectory(ExactBundle(l, s))
         /\ ExactBundle(l, s).manifests = ManifestContents(l, l, s)
         /\ DOMAIN ExactBundle(l, s).files = ArtifactPaths(l, s)
<1> DEFINE dir == ExactBundle(l, s)
<1>1. ASSUME NEW p \in ArtifactPaths(l, s)
      PROVE  p \in Paths /\ Pins[l][p[1]][p[2]].sha256 \in Digests
  <2>1. p \in Sections \X Names /\ p[2] \in DOMAIN Pins[l][p[1]]
    BY <1>1 DEF ArtifactPaths, BundleSections, Sections
  <2>2. QED BY <2>1, LockAssumption DEF IsPartialFunction, PinRecord, Paths
<1>2. IsPartialFunction(dir.files, Paths, Digests)
  BY <1>1 DEF IsPartialFunction, ExactBundle, Stamped
<1>3. IsPartialFunction(dir.manifests, Manifests, Texts)
  BY ManifestsShape DEF ExactBundle, Stamped
<1>4. QED BY <1>2, <1>3 DEF IsDirectory, ExactBundle, Stamped

\* A row of a section pins the file it names.
LEMMA RowOf ==
  ASSUME NEW l, NEW d, NEW row \in SectionRows(l, d)
  PROVE  row[1] \in DOMAIN Pins[l][d] /\ row[2] = Pins[l][d][row[1]].sha256
BY DEF SectionRows

\* Two rows of one section name two files.
LEMMA OneRow ==
  ASSUME NEW l, NEW d, NEW r \in SectionRows(l, d), NEW q \in SectionRows(l, d), r[1] = q[1]
  PROVE  r = q
BY DEF SectionRows

\* Every file of a section has a row.
LEMMA RowOfEvery ==
  ASSUME NEW l, NEW d, NEW f \in DOMAIN Pins[l][d]
  PROVE  \E row \in SectionRows(l, d) : row[1] = f
<1>1. PICK row \in SectionRows(l, d) : row[1] = f
  <2> DEFINE row == <<f, Pins[l][d][f].sha256, Pins[l][d][f].meta,
                      IF d = "srpms" THEN Pins[l][d][f].size ELSE NoSize>>
  <2>1. row \in SectionRows(l, d)
    BY DEF SectionRows
  <2>2. QED BY <2>1
<1>2. QED BY <1>1

-----------------------------------------------------------------------------
(***************************************************************************)
(* The inductive invariant.                                                *)
(***************************************************************************)
\* What follows a reading of the lock.
AfterHash == {"build", "built"}
AfterRuntime == {"pull", "exists", "hash"} \union AfterHash
AfterBuilder == {"runtime"} \union AfterRuntime
AfterCompare == {"packages", "builder"} \union AfterBuilder
AfterParse == {"compare"} \union AfterCompare
AfterValidate == {"parse"} \union AfterParse

\* The readings happen in order, each of a version the file has had.
ReadsInv ==
  /\ pc \in AfterValidate => at["validate"] \in 1 .. Len(versions)
  /\ pc \in AfterParse => at["parse"] \in at["validate"] .. Len(versions)
  /\ pc \in AfterCompare => at["compare"] \in at["parse"] .. Len(versions)
  /\ pc \in AfterBuilder => at["builder"] \in at["compare"] .. Len(versions)
  /\ pc \in AfterRuntime => at["runtime"] \in at["builder"] .. Len(versions)
  /\ pc \in AfterHash => at["hash"] \in at["runtime"] .. Len(versions)

\* What is left of the bundle of a lock: manifests lose rows and gain none.
\* Until there are two damages, either its manifests or its file names are
\* those it was acquired with.
RemnantOf(l, s, dir, n) ==
  /\ DOMAIN dir.manifests = DOMAIN ManifestContents(l, l, s)
  /\ \A m \in DOMAIN dir.manifests : dir.manifests[m] \subseteq ManifestContents(l, l, s)[m]
  /\ n = 0 => /\ dir.manifests = ManifestContents(l, l, s)
              /\ DOMAIN dir.files = ArtifactPaths(l, s)
  /\ n = 1 => \/ dir.manifests = ManifestContents(l, l, s)
              \/ DOMAIN dir.files = ArtifactPaths(l, s)

BundleInv == \E l \in ValidLocks, s \in BOOLEAN : RemnantOf(l, s, bundle, damage)

\* The bundle that was compared with a lock stays that lock's bundle until it
\* is replaced.
ComparedInv ==
  pc \in AfterCompare /\ swaps = 0 /\ "LOCK-SHA256" \in DOMAIN bundle.manifests =>
    bundle.manifests["LOCK-SHA256"] \subseteq {Seen("compare")}

ImageInv ==
  pc = "built" =>
    /\ image.stamp = Seen("hash")
    /\ image.builder = BaseOf[Seen("builder")].builder
    /\ image.runtime = BaseOf[Seen("runtime")].runtime
    /\ swaps = 0 => Seen("compare") = image.stamp
    /\ PackagesMatchStamp

IInv == TypeOK /\ ReadsInv /\ BundleInv /\ ComparedInv /\ ImageInv

-----------------------------------------------------------------------------
LEMMA InitInv == Init => IInv
<1> SUFFICES ASSUME Init PROVE IInv
  OBVIOUS
<1>1. PICK l \in ValidLocks, s \in StartSources : bundle = ExactBundle(l, s)
  BY DEF Init
<1>2. l \in Locks /\ s \in BOOLEAN
  BY LockAssumption, BaseAssumption
<1>3. TypeOK
  <2>1. versions \in Seq(Locks) /\ versions # <<>>
    <3>1. PICK k \in Locks : versions = <<k>>
      BY DEF Init
    <3>2. QED BY <3>1
  <2>2. IsDirectory(bundle)
    BY <1>1, <1>2, ExactTyped
  <2>3. QED BY <2>1, <2>2, BaseAssumption DEF Init, TypeOK, Steps, Readers, Ended
<1>4. ReadsInv /\ ComparedInv /\ ImageInv
  BY DEF Init, ReadsInv, ComparedInv, ImageInv, AfterHash, AfterRuntime, AfterBuilder,
         AfterCompare, AfterParse, AfterValidate
<1>5. BundleInv
  <2>1. RemnantOf(l, s, bundle, 0)
    BY <1>1, <1>2, ExactTyped DEF RemnantOf
  <2>2. QED BY <1>2, <2>1 DEF Init, BundleInv
<1>6. QED BY <1>3, <1>4, <1>5 DEF IInv

\* What a rewrite of the lock leaves alone.
LEMMA SeenKept ==
  ASSUME TypeOK, NEW l \in Locks, versions' = Append(versions, l)
  PROVE  /\ versions' \in Seq(Locks) /\ versions' # <<>>
         /\ Len(versions') = Len(versions) + 1
         /\ \A i \in 1 .. Len(versions) : versions'[i] = versions[i]
BY DEF TypeOK

LEMMA CurrentTyped ==
  ASSUME TypeOK
  PROVE  /\ Current \in Locks /\ Len(versions) \in Nat /\ Len(versions) >= 1
         /\ \A i \in 1 .. Len(versions) : versions[i] \in Locks
BY DEF TypeOK, Current

\* The steps that change nothing but the program counter and what was read.
LEMMA ReadingFrame ==
  ASSUME TypeOK,
         \/ ValidateLock \/ ParseLock \/ CompareBundle \/ VerifyPackages
         \/ ReadBuilder \/ ReadRuntime \/ CheckBases \/ HashLock
  PROVE  /\ UNCHANGED <<versions, bundle, store, pull, image, swaps, damage>>
         /\ pc \notin Ended /\ pc' \in Steps \ {"built"}
         /\ at' \in [Readers -> Nat]
BY CurrentTyped DEF TypeOK, ValidateLock, ParseLock, CompareBundle, VerifyPackages,
   ReadBuilder, ReadRuntime, CheckBases, HashLock, ContinueIf, Sees, Steps, Readers, Ended

LEMMA SeenTyped ==
  ASSUME TypeOK, ReadsInv
  PROVE  /\ pc \in AfterCompare => Seen("compare") \in Locks
         /\ pc \in AfterBuilder => Seen("builder") \in Locks
         /\ pc \in AfterRuntime => Seen("runtime") \in Locks
         /\ pc \in AfterHash => Seen("hash") \in Locks
<1>1. /\ pc \in AfterCompare => at["compare"] \in 1 .. Len(versions)
      /\ pc \in AfterBuilder => at["builder"] \in 1 .. Len(versions)
      /\ pc \in AfterRuntime => at["runtime"] \in 1 .. Len(versions)
      /\ pc \in AfterHash => at["hash"] \in 1 .. Len(versions)
  BY CurrentTyped DEF ReadsInv, AfterHash, AfterRuntime, AfterBuilder, AfterCompare,
     AfterParse, AfterValidate, TypeOK, Readers
<1>2. QED BY <1>1, CurrentTyped DEF Seen

LEMMA PackagesTyped ==
  ASSUME IsDirectory(bundle)
  PROVE  Packages(bundle) \in UNION {[D -> Digests] : D \in SUBSET Names}
<1> DEFINE D == {p[2] : p \in {q \in DOMAIN bundle.files : q[1] = "rpms"}}
<1>1. D \subseteq Names
  BY DEF IsDirectory, IsPartialFunction, Paths
<1>2. ASSUME NEW f \in D PROVE bundle.files[<<"rpms", f>>] \in Digests
  <2>1. PICK p \in DOMAIN bundle.files : p[1] = "rpms" /\ p[2] = f
    OBVIOUS
  <2>2. p = <<"rpms", f>>
    BY <2>1 DEF IsDirectory, IsPartialFunction, Paths
  <2>3. QED BY <2>2 DEF IsDirectory, IsPartialFunction
<1>3. Packages(bundle) \in [D -> Digests]
  BY <1>2 DEF Packages
<1>4. QED BY <1>1, <1>3

LEMMA PutFileTyped ==
  ASSUME NEW dir, IsDirectory(dir), NEW p \in Paths, NEW c \in Digests
  PROVE  IsDirectory(PutFile(dir, p, c))
<1> DEFINE f == [q \in (DOMAIN dir.files) \union {p} |-> IF q = p THEN c ELSE dir.files[q]]
           fs == dir.files
           ms == dir.manifests
           st == dir.stray
           new == PutFile(dir, p, c)
<1>1. dir = [files |-> fs, manifests |-> ms, stray |-> st]
  BY DEF IsDirectory
<1>2. new = [dir EXCEPT !.files = f]
  BY DEF PutFile
<1>3. IsPartialFunction(f, Paths, Digests)
  BY DEF IsDirectory, IsPartialFunction
<1> HIDE DEF f, new
<1>4. [[files |-> fs, manifests |-> ms, stray |-> st] EXCEPT !.files = f]
        = [files |-> f, manifests |-> ms, stray |-> st]
  OBVIOUS
<1>5. new = [files |-> f, manifests |-> dir.manifests, stray |-> dir.stray]
  BY <1>1, <1>2, <1>4
<1>6. QED BY <1>3, <1>5 DEF IsDirectory, new

\* Any single damage leaves a directory, adds no row, and spares either the
\* manifests or the names of the files.
LEMMA DamageShape ==
  ASSUME IsDirectory(bundle), DamageBundle
  PROVE  /\ IsDirectory(bundle')
         /\ DOMAIN bundle'.manifests = DOMAIN bundle.manifests
         /\ \A m \in DOMAIN bundle.manifests : bundle'.manifests[m] \subseteq bundle.manifests[m]
         /\ bundle'.manifests = bundle.manifests \/ DOMAIN bundle'.files = DOMAIN bundle.files
<1> DEFINE fs == bundle.files
           ms == bundle.manifests
           st == bundle.stray
<1>1. bundle = [files |-> fs, manifests |-> ms, stray |-> st]
  BY DEF IsDirectory
<1>2. /\ IsPartialFunction(fs, Paths, Digests)
      /\ IsPartialFunction(ms, Manifests, Texts)
      /\ st \subseteq Strays
  BY DEF IsDirectory
<1>3. CASE \E p \in DOMAIN bundle.files : \E c \in Digests \ {bundle.files[p]} :
             bundle' = PutFile(bundle, p, c)
  <2>1. PICK p \in DOMAIN bundle.files, c \in Digests : bundle' = PutFile(bundle, p, c)
    BY <1>3
  <2>2. p \in Paths
    BY <1>2 DEF IsPartialFunction
  <2>3. IsDirectory(bundle')
    BY <2>1, <2>2, PutFileTyped
  <2> DEFINE f == [q \in (DOMAIN fs) \union {p} |-> IF q = p THEN c ELSE fs[q]]
  <2>4. bundle' = [bundle EXCEPT !.files = f]
    BY <2>1 DEF PutFile
  <2>5. DOMAIN f = DOMAIN bundle.files
    OBVIOUS
  <2> HIDE DEF f, fs, ms, st
  <2>6. bundle' = [files |-> f, manifests |-> ms, stray |-> st]
    BY <1>1, <2>4
  <2>7. bundle'.manifests = bundle.manifests /\ DOMAIN bundle'.files = DOMAIN bundle.files
    BY <2>5, <2>6 DEF ms
  <2>8. QED BY <2>3, <2>7
<1>4. CASE \E p \in DOMAIN bundle.files : bundle' = DropFile(bundle, p)
  <2>1. PICK p \in DOMAIN bundle.files : bundle' = DropFile(bundle, p)
    BY <1>4
  <2> DEFINE f == [q \in (DOMAIN fs) \ {p} |-> fs[q]]
  <2>2. bundle' = [bundle EXCEPT !.files = f]
    BY <2>1 DEF DropFile
  <2>3. IsPartialFunction(f, Paths, Digests)
    BY <1>2 DEF IsPartialFunction
  <2> HIDE DEF f, fs, ms, st
  <2>4. bundle' = [files |-> f, manifests |-> ms, stray |-> st]
    BY <1>1, <2>2
  <2>5. IsDirectory(bundle')
    BY <1>2, <2>3, <2>4 DEF IsDirectory
  <2>6. bundle'.manifests = bundle.manifests
    BY <2>4 DEF ms
  <2>7. QED BY <2>5, <2>6
<1>5. CASE \E m \in DOMAIN bundle.manifests : \E row \in bundle.manifests[m] :
             bundle' = [bundle EXCEPT !.manifests[m] = @ \ {row}]
  <2>1. PICK m \in DOMAIN bundle.manifests : \E row \in bundle.manifests[m] :
          bundle' = [bundle EXCEPT !.manifests[m] = @ \ {row}]
    BY <1>5
  <2>2. PICK row \in bundle.manifests[m] :
          bundle' = [bundle EXCEPT !.manifests[m] = @ \ {row}]
    BY <2>1
  <2> DEFINE g == [ms EXCEPT ![m] = @ \ {row}]
  <2>3. bundle' = [bundle EXCEPT !.manifests = g]
    BY <2>2
  <2>4. /\ DOMAIN g = DOMAIN ms
        /\ \A k \in DOMAIN ms : g[k] \subseteq ms[k]
    OBVIOUS
  <2>5. IsPartialFunction(g, Manifests, Texts)
    <3>1. \A k \in DOMAIN ms : g[k] \in Texts
      BY <1>2, <2>4 DEF IsPartialFunction, Texts
    <3>2. g = [k \in DOMAIN ms |-> g[k]]
      OBVIOUS
    <3>3. QED BY <1>2, <2>4, <3>1, <3>2 DEF IsPartialFunction
  <2> HIDE DEF g, fs, ms, st
  <2>6. bundle' = [files |-> fs, manifests |-> g, stray |-> st]
    BY <1>1, <2>3
  <2>7. IsDirectory(bundle')
    BY <1>2, <2>5, <2>6 DEF IsDirectory
  <2>8. bundle'.manifests = g /\ bundle'.files = bundle.files
    BY <2>6 DEF fs
  <2>9. QED BY <2>4, <2>7, <2>8 DEF ms
<1>6. CASE \E x \in Strays \ bundle.stray : bundle' = [bundle EXCEPT !.stray = @ \union {x}]
  <2>1. PICK x \in Strays : bundle' = [bundle EXCEPT !.stray = @ \union {x}]
    BY <1>6
  <2> DEFINE y == st \union {x}
  <2>2. bundle' = [bundle EXCEPT !.stray = y]
    BY <2>1
  <2>3. y \subseteq Strays
    BY <1>2
  <2> HIDE DEF y, fs, ms, st
  <2>4. bundle' = [files |-> fs, manifests |-> ms, stray |-> y]
    BY <1>1, <2>2
  <2>5. IsDirectory(bundle')
    BY <1>2, <2>3, <2>4 DEF IsDirectory
  <2>6. bundle'.manifests = bundle.manifests
    BY <2>4 DEF ms
  <2>7. QED BY <2>5, <2>6
<1>7. QED BY <1>3, <1>4, <1>5, <1>6 DEF DamageBundle

LEMMA ImageTyped ==
  ASSUME TypeOK, ReadsInv, pc = "build", InstallAccepts(bundle)
  PROVE  ImageOf(bundle) \in Images
<1>1. /\ Seen("hash") \in Locks
      /\ Seen("builder") \in Locks /\ Seen("runtime") \in Locks
  BY SeenTyped DEF AfterHash, AfterRuntime, AfterBuilder
<1>2. bundle.manifests["rpm-manifest.tsv"] \in Texts
  <2>1. "rpm-manifest.tsv" \in DOMAIN bundle.manifests
    BY DEF InstallAccepts
  <2>2. QED BY <2>1 DEF TypeOK, IsDirectory, IsPartialFunction
<1>3. /\ BaseOf[Seen("builder")].builder \in BaseRefs
      /\ BaseOf[Seen("runtime")].runtime \in BaseRefs
  BY <1>1 DEF BaseRefs
<1>4. Packages(bundle) \in UNION {[D -> Digests] : D \in SUBSET Names}
  BY PackagesTyped DEF TypeOK
<1>5. QED BY <1>1, <1>2, <1>3, <1>4 DEF ImageOf, Images

-----------------------------------------------------------------------------
Reading ==
  \/ ValidateLock \/ ParseLock \/ CompareBundle \/ VerifyPackages
  \/ ReadBuilder \/ ReadRuntime \/ CheckBases \/ HashLock

LEMMA Split ==
  ASSUME [Next]_vars
  PROVE  \/ pc \notin Ended /\ Reading
         \/ pc \notin Ended /\ (PullBases \/ BuildImage \/ Disturbance)
         \/ UNCHANGED vars
BY DEF Next, BuildStep, Reading

LEMMA TypeStep == TypeOK /\ ReadsInv /\ [Next]_vars => TypeOK'
<1> SUFFICES ASSUME TypeOK, ReadsInv, [Next]_vars PROVE TypeOK'
  OBVIOUS
<1>1. ASSUME pc \notin Ended, Reading PROVE TypeOK'
  <2>1. /\ UNCHANGED <<versions, bundle, store, pull, image, swaps, damage>>
        /\ pc \notin Ended /\ pc' \in Steps \ {"built"}
        /\ at' \in [Readers -> Nat]
    BY <1>1, ReadingFrame DEF Reading
  <2>2. QED BY <2>1 DEF TypeOK, Ended
<1>2. ASSUME pc \notin Ended, PullBases PROVE TypeOK'
  <2>1. Bases \subseteq BaseRefs
    <3>1. Seen("builder") \in Locks /\ Seen("runtime") \in Locks
      BY <1>2, SeenTyped DEF PullBases, AfterBuilder, AfterRuntime
    <3>2. QED BY <3>1 DEF Bases, BaseRefs
  <2>2. store' \subseteq BaseRefs
    BY <1>2, <2>1 DEF PullBases, TypeOK, Bases
  <2>3. pc' \in Steps \ {"built"}
    BY <1>2 DEF PullBases, Steps, Ended
  <2>4. QED BY <1>2, <2>2, <2>3 DEF PullBases, TypeOK, Ended
<1>3. ASSUME pc \notin Ended, BuildImage PROVE TypeOK'
  <2>1. CASE pc' = "built"
    <3>1. image' = ImageOf(bundle) /\ InstallAccepts(bundle) /\ pc = "build"
      BY <1>3, <2>1 DEF BuildImage
    <3>2. ImageOf(bundle) \in Images
      BY <3>1, ImageTyped
    <3>3. QED BY <1>3, <2>1, <3>1, <3>2, NoImageAssumption DEF BuildImage, TypeOK, Steps, Ended
  <2>2. CASE pc' # "built"
    BY <1>3, <2>2 DEF BuildImage, TypeOK, Steps, Ended
  <2>3. QED BY <2>1, <2>2
<1>4. ASSUME EditLock PROVE TypeOK'
  <2>1. PICK l \in Locks : versions' = Append(versions, l)
    BY <1>4 DEF EditLock
  <2>2. versions' \in Seq(Locks) /\ versions' # <<>>
    BY <2>1, SeenKept
  <2>3. QED BY <1>4, <2>2 DEF EditLock, TypeOK
<1>5. ASSUME SwapBundle PROVE TypeOK'
  <2>1. PICK l \in ValidLocks, s \in BOOLEAN : bundle' = ExactBundle(l, s)
    BY <1>5 DEF SwapBundle
  <2>2. IsDirectory(bundle')
    BY <2>1, ExactTyped, LockAssumption
  <2>3. swaps' \in 0 .. MaxSwaps
    BY <1>5, BaseAssumption DEF SwapBundle, TypeOK
  <2>4. QED BY <1>5, <2>2, <2>3 DEF SwapBundle, TypeOK
<1>6. ASSUME DamageBundle PROVE TypeOK'
  <2>1. IsDirectory(bundle')
    BY <1>6, DamageShape DEF TypeOK
  <2>2. damage' \in 0 .. MaxDamage
    BY <1>6, BaseAssumption DEF DamageBundle, TypeOK
  <2>3. QED BY <1>6, <2>1, <2>2 DEF DamageBundle, TypeOK
<1>7. ASSUME EvictBase PROVE TypeOK'
  <2>1. damage' \in 0 .. MaxDamage
    BY <1>7, BaseAssumption DEF EvictBase, TypeOK
  <2>2. QED BY <1>7, <2>1 DEF EvictBase, TypeOK
<1>8. ASSUME UNCHANGED vars PROVE TypeOK'
  BY <1>8 DEF vars, TypeOK
<1>9. QED BY <1>1, <1>2, <1>3, <1>4, <1>5, <1>6, <1>7, <1>8, Split DEF Disturbance

\* Every reading sees the newest version there is; the others keep theirs.
LEMMA ReadsStep == TypeOK /\ ReadsInv /\ [Next]_vars => ReadsInv'
<1> SUFFICES ASSUME TypeOK, ReadsInv, [Next]_vars PROVE ReadsInv'
  OBVIOUS
<1> USE CurrentTyped
<1>1. ASSUME ValidateLock PROVE ReadsInv'
  BY <1>1 DEF ValidateLock, ContinueIf, Sees, ReadsInv, TypeOK, Readers, AfterHash,
     AfterRuntime, AfterBuilder, AfterCompare, AfterParse, AfterValidate
<1>2. ASSUME ParseLock PROVE ReadsInv'
  BY <1>2 DEF ParseLock, ContinueIf, Sees, ReadsInv, TypeOK, Readers, AfterHash,
     AfterRuntime, AfterBuilder, AfterCompare, AfterParse, AfterValidate
<1>3. ASSUME CompareBundle PROVE ReadsInv'
  <2>1. /\ pc = "compare" /\ pc' \in {"packages", "failed"}
        /\ at' = [at EXCEPT !["compare"] = Len(versions)] /\ versions' = versions
    BY <1>3 DEF CompareBundle, ContinueIf, Sees
  <2>2. QED BY <2>1 DEF ReadsInv, TypeOK, Readers, AfterHash,
           AfterRuntime, AfterBuilder, AfterCompare, AfterParse, AfterValidate
<1>4. ASSUME VerifyPackages PROVE ReadsInv'
  BY <1>4 DEF VerifyPackages, ContinueIf, ReadsInv, AfterHash,
     AfterRuntime, AfterBuilder, AfterCompare, AfterParse, AfterValidate
<1>5. ASSUME ReadBuilder PROVE ReadsInv'
  BY <1>5 DEF ReadBuilder, ContinueIf, Sees, ReadsInv, TypeOK, Readers, AfterHash,
     AfterRuntime, AfterBuilder, AfterCompare, AfterParse, AfterValidate
<1>6. ASSUME ReadRuntime PROVE ReadsInv'
  BY <1>6 DEF ReadRuntime, ContinueIf, Sees, ReadsInv, TypeOK, Readers, AfterHash,
     AfterRuntime, AfterBuilder, AfterCompare, AfterParse, AfterValidate
<1>7. ASSUME CheckBases PROVE ReadsInv'
  BY <1>7 DEF CheckBases, ContinueIf, ReadsInv, AfterHash,
     AfterRuntime, AfterBuilder, AfterCompare, AfterParse, AfterValidate
<1>8. ASSUME HashLock PROVE ReadsInv'
  BY <1>8 DEF HashLock, Sees, ReadsInv, TypeOK, Readers, AfterHash,
     AfterRuntime, AfterBuilder, AfterCompare, AfterParse, AfterValidate
<1>9. ASSUME PullBases PROVE ReadsInv'
  BY <1>9 DEF PullBases, ReadsInv, AfterHash,
     AfterRuntime, AfterBuilder, AfterCompare, AfterParse, AfterValidate
<1>10. ASSUME BuildImage PROVE ReadsInv'
  BY <1>10 DEF BuildImage, ReadsInv, AfterHash,
     AfterRuntime, AfterBuilder, AfterCompare, AfterParse, AfterValidate
<1>11. ASSUME EditLock PROVE ReadsInv'
  <2>1. PICK l \in Locks : versions' = Append(versions, l)
    BY <1>11 DEF EditLock
  <2>2. Len(versions') = Len(versions) + 1
    BY <2>1, SeenKept
  <2>3. at \in [Readers -> Nat] /\ UNCHANGED <<pc, at>>
    BY <1>11 DEF EditLock, TypeOK
  <2>4. QED BY <2>2, <2>3 DEF ReadsInv, Readers
<1>12. ASSUME UNCHANGED <<versions, pc, at>> PROVE ReadsInv'
  BY <1>12 DEF ReadsInv
<1>13. QED
  BY <1>1, <1>2, <1>3, <1>4, <1>5, <1>6, <1>7, <1>8, <1>9, <1>10, <1>11, <1>12, Split
  DEF Reading, Disturbance, SwapBundle, DamageBundle, EvictBase, vars

LEMMA BundleStep == IInv /\ [Next]_vars => BundleInv'
<1> SUFFICES ASSUME IInv, [Next]_vars PROVE BundleInv'
  OBVIOUS
<1>1. PICK l \in ValidLocks, s \in BOOLEAN : RemnantOf(l, s, bundle, damage)
  BY DEF IInv, BundleInv
<1>2. ASSUME UNCHANGED <<bundle, damage>> PROVE BundleInv'
  BY <1>1, <1>2 DEF BundleInv
<1>3. ASSUME SwapBundle PROVE BundleInv'
  <2>1. PICK k \in ValidLocks, t \in BOOLEAN : bundle' = ExactBundle(k, t)
    BY <1>3 DEF SwapBundle
  <2>2. RemnantOf(k, t, bundle', damage')
    BY <2>1, ExactTyped, LockAssumption DEF RemnantOf
  <2>3. QED BY <2>2 DEF BundleInv
<1>4. damage \in Nat
  BY DEF IInv, TypeOK
<1>5. ASSUME DamageBundle PROVE BundleInv'
  <2>1. /\ DOMAIN bundle'.manifests = DOMAIN bundle.manifests
        /\ \A m \in DOMAIN bundle.manifests : bundle'.manifests[m] \subseteq bundle.manifests[m]
        /\ bundle'.manifests = bundle.manifests \/ DOMAIN bundle'.files = DOMAIN bundle.files
    BY <1>5, DamageShape DEF IInv, TypeOK
  <2>2. damage' = damage + 1
    BY <1>5 DEF DamageBundle
  <2>3. RemnantOf(l, s, bundle', damage')
    BY <1>1, <1>4, <2>1, <2>2 DEF RemnantOf
  <2>4. QED BY <2>3 DEF BundleInv
<1>6. ASSUME EvictBase PROVE BundleInv'
  <2>1. bundle' = bundle /\ damage' = damage + 1
    BY <1>6 DEF EvictBase
  <2>2. RemnantOf(l, s, bundle', damage')
    BY <1>1, <1>4, <2>1 DEF RemnantOf
  <2>3. QED BY <2>2 DEF BundleInv
<1>7. Reading => UNCHANGED <<bundle, damage>>
  BY ReadingFrame DEF Reading, IInv
<1>8. QED BY <1>2, <1>3, <1>5, <1>6, <1>7, Split
            DEF Disturbance, PullBases, BuildImage, EditLock, vars

\* The version that was compared stays what it was.
LEMMA EditKeepsSeen ==
  ASSUME TypeOK, ReadsInv, EditLock
  PROVE  pc \in AfterCompare => Seen("compare")' = Seen("compare")
<1>1. PICK l \in Locks : versions' = Append(versions, l)
  BY DEF EditLock
<1>2. \A i \in 1 .. Len(versions) : versions'[i] = versions[i]
  BY <1>1, SeenKept
<1>3. pc \in AfterCompare => at["compare"] \in 1 .. Len(versions)
  BY CurrentTyped DEF ReadsInv, AfterHash, AfterRuntime, AfterBuilder, AfterCompare,
     AfterParse, AfterValidate, TypeOK, Readers
<1>4. at' = at
  BY DEF EditLock
<1>5. QED BY <1>2, <1>3, <1>4 DEF Seen

LEMMA ComparedStep == IInv /\ [Next]_vars => ComparedInv'
<1> SUFFICES ASSUME IInv, [Next]_vars, pc' \in AfterCompare, swaps' = 0,
                    "LOCK-SHA256" \in DOMAIN bundle'.manifests
             PROVE  bundle'.manifests["LOCK-SHA256"] \subseteq {Seen("compare")'}
  BY DEF ComparedInv
<1> USE DEF IInv
<1>1. ASSUME CompareBundle PROVE bundle'.manifests["LOCK-SHA256"] \subseteq {Seen("compare")'}
  <2>1. pc' \in {"packages", "failed"} /\ "failed" \notin AfterCompare
    BY <1>1 DEF CompareBundle, ContinueIf, AfterCompare, AfterBuilder, AfterRuntime, AfterHash
  <2>2. VerifyBundle(Seen("parse"), Current, FALSE, bundle) /\ bundle' = bundle
    BY <1>1, <2>1 DEF CompareBundle, ContinueIf
  <2>3. bundle.manifests["LOCK-SHA256"] = {Current}
    BY <2>2 DEF VerifyBundle, ManifestContents
  <2>4. Seen("compare")' = Current
    BY <1>1 DEF CompareBundle, Sees, Seen, Current, TypeOK, Readers
  <2>5. QED BY <2>2, <2>3, <2>4
<1>2. ASSUME pc \in AfterCompare, Seen("compare")' = Seen("compare"), swaps' = swaps,
             bundle' = bundle \/ DamageBundle
      PROVE  bundle'.manifests["LOCK-SHA256"] \subseteq {Seen("compare")'}
  <2>1. /\ DOMAIN bundle'.manifests = DOMAIN bundle.manifests
        /\ \A m \in DOMAIN bundle.manifests : bundle'.manifests[m] \subseteq bundle.manifests[m]
    BY <1>2, DamageShape DEF TypeOK
  <2>2. QED BY <1>2, <2>1 DEF ComparedInv
<1>3. ASSUME pc \notin Ended, Reading, ~CompareBundle
      PROVE  bundle'.manifests["LOCK-SHA256"] \subseteq {Seen("compare")'}
  <2>1. UNCHANGED <<versions, bundle, swaps>>
    BY <1>3, ReadingFrame DEF Reading
  <2>2. pc \in AfterCompare /\ at'["compare"] = at["compare"]
    BY <1>3 DEF Reading, ValidateLock, ParseLock, VerifyPackages, ReadBuilder, ReadRuntime,
       CheckBases, HashLock, ContinueIf, Sees, TypeOK, Readers, AfterCompare, AfterBuilder,
       AfterRuntime, AfterHash
  <2>3. QED BY <1>2, <2>1, <2>2 DEF Seen
<1>4. ASSUME PullBases \/ BuildImage
      PROVE  bundle'.manifests["LOCK-SHA256"] \subseteq {Seen("compare")'}
  <2>1. pc \in AfterCompare /\ UNCHANGED <<versions, bundle, swaps, at>>
    BY <1>4 DEF PullBases, BuildImage, AfterCompare, AfterBuilder, AfterRuntime, AfterHash
  <2>2. QED BY <1>2, <2>1 DEF Seen
<1>5. ASSUME EditLock PROVE bundle'.manifests["LOCK-SHA256"] \subseteq {Seen("compare")'}
  <2>1. pc' = pc /\ UNCHANGED <<bundle, swaps>>
    BY <1>5 DEF EditLock
  <2>2. QED BY <1>2, <1>5, <2>1, EditKeepsSeen
<1>6. ASSUME DamageBundle \/ EvictBase \/ UNCHANGED vars
      PROVE  bundle'.manifests["LOCK-SHA256"] \subseteq {Seen("compare")'}
  <2>1. UNCHANGED <<pc, versions, at, swaps>> /\ (bundle' = bundle \/ DamageBundle)
    BY <1>6 DEF DamageBundle, EvictBase, vars
  <2>2. QED BY <1>2, <2>1 DEF Seen
<1>7. ~SwapBundle
  BY DEF SwapBundle, TypeOK
<1>8. QED BY <1>1, <1>3, <1>4, <1>5, <1>6, <1>7, Split DEF Disturbance

-----------------------------------------------------------------------------
(***************************************************************************)
(* What install-rpm-bundle.sh accepts of a remnant: every package has its  *)
(* row and every row its package, and rows are the lock's.                 *)
(***************************************************************************)
LEMMA InstalledMatches ==
  ASSUME NEW l \in Locks, NEW s \in BOOLEAN, damage \in Nat, IsDirectory(bundle),
         RemnantOf(l, s, bundle, damage), InstallAccepts(bundle)
  PROVE  LET P == Packages(bundle)
             M == bundle.manifests["rpm-manifest.tsv"]
             R == Pins[l]["rpms"]
         IN  /\ DOMAIN P \subseteq DOMAIN R /\ M \subseteq SectionRows(l, "rpms")
             /\ \A f \in DOMAIN P : P[f] = R[f].sha256
             /\ damage <= 1 => DOMAIN P = DOMAIN R /\ M = SectionRows(l, "rpms")
<1> DEFINE P == Packages(bundle)
           M == bundle.manifests["rpm-manifest.tsv"]
           R == Pins[l]["rpms"]
           D == {p[2] : p \in {q \in DOMAIN bundle.files : q[1] = "rpms"}}
           rows == SectionRows(l, "rpms")
<1>1. SectionManifest["rpms"] = "rpm-manifest.tsv"
  BY DEF SectionManifest
<1>2. DOMAIN P = D
  BY DEF Packages
<1>3. D = {row[1] : row \in M}
  BY <1>1 DEF InstallAccepts
<1>4. M \subseteq rows
  <2>1. "rpm-manifest.tsv" \in DOMAIN bundle.manifests
    BY DEF InstallAccepts
  <2>2. QED BY <2>1, ManifestsShape DEF RemnantOf
<1>5. D \subseteq DOMAIN R
  BY <1>3, <1>4, RowOf
<1>6. ASSUME NEW f \in D PROVE P[f] = R[f].sha256
  <2>1. PICK row \in M : row[1] = f
    BY <1>3
  <2>2. bundle.files[<<"rpms", f>>] = row[2]
    BY <1>1, <2>1 DEF InstallAccepts, RowsHold
  <2>3. row[2] = R[f].sha256
    BY <1>4, <2>1, RowOf
  <2>4. QED BY <2>2, <2>3 DEF Packages
<1>7. ASSUME damage <= 1 PROVE D = DOMAIN R /\ M = rows
  <2>1. CASE bundle.manifests = ManifestContents(l, l, s)
    <3>1. M = rows
      BY <2>1, ManifestsShape
    <3>2. DOMAIN R \subseteq {row[1] : row \in rows}
      BY RowOfEvery
    <3>3. QED BY <1>3, <1>5, <3>1, <3>2
  <2>2. CASE DOMAIN bundle.files = ArtifactPaths(l, s)
    <3>1. ASSUME NEW f \in DOMAIN R PROVE f \in D
      <4>1. f \in Names
        BY LockAssumption DEF IsPartialFunction, Sections
      <4>2. <<"rpms", f>> \in ArtifactPaths(l, s)
        BY <4>1 DEF ArtifactPaths, BundleSections, Sections
      <4>3. QED BY <2>2, <4>2
    <3>2. ASSUME NEW r \in rows PROVE r \in M
      <4>1. r[1] \in D
        BY <3>1, RowOf
      <4>2. PICK q \in M : q[1] = r[1]
        BY <1>3, <4>1
      <4>3. q = r
        BY <1>4, <4>2, OneRow
      <4>4. QED BY <4>2, <4>3
    <3>3. QED BY <1>4, <1>5, <3>1, <3>2
  <2>3. damage = 0 \/ damage = 1
    BY <1>7
  <2>4. QED BY <2>1, <2>2, <2>3 DEF RemnantOf
<1>8. QED BY <1>2, <1>4, <1>5, <1>6, <1>7

LEMMA BuildStepInv == IInv /\ BuildImage => ImageInv'
<1> SUFFICES ASSUME IInv, BuildImage, pc' = "built" PROVE ImageInv'
  BY DEF ImageInv
<1> USE DEF IInv
<1>1. /\ pc = "build" /\ image' = ImageOf(bundle)
      /\ "LOCK-SHA256" \in DOMAIN bundle.manifests
      /\ bundle.manifests["LOCK-SHA256"] = {Seen("hash")}
      /\ InstallAccepts(bundle)
      /\ UNCHANGED <<versions, bundle, at, swaps, damage>>
  BY DEF BuildImage
<1>2. PICK l \in ValidLocks, s \in BOOLEAN : RemnantOf(l, s, bundle, damage)
  BY DEF BundleInv
<1>3. l \in Locks
  BY LockAssumption
<1>4. {Seen("hash")} \subseteq {l}
  BY <1>1, <1>2, <1>3, ManifestsShape DEF RemnantOf
<1>5. image'.stamp = Seen("hash") /\ Seen("hash") = l
  BY <1>1, <1>4 DEF ImageOf
<1>6. /\ image'.builder = BaseOf[Seen("builder")].builder
      /\ image'.runtime = BaseOf[Seen("runtime")].runtime
      /\ image'.packages = Packages(bundle)
      /\ image'.manifest = bundle.manifests["rpm-manifest.tsv"]
  BY <1>1 DEF ImageOf
<1>7. swaps' = 0 => Seen("compare") = image'.stamp
  BY <1>1, <1>5 DEF ComparedInv, AfterCompare, AfterBuilder, AfterRuntime, AfterHash
<1>8. UNCHANGED <<Seen("hash"), Seen("builder"), Seen("runtime"), Seen("compare")>>
  BY <1>1 DEF Seen
<1>9. PackagesMatchStamp'
  <2>1. damage \in Nat /\ IsDirectory(bundle)
    BY DEF TypeOK
  <2>2. LET P == Packages(bundle)
            M == bundle.manifests["rpm-manifest.tsv"]
            R == Pins[l]["rpms"]
        IN  /\ DOMAIN P \subseteq DOMAIN R /\ M \subseteq SectionRows(l, "rpms")
            /\ \A f \in DOMAIN P : P[f] = R[f].sha256
            /\ damage <= 1 => DOMAIN P = DOMAIN R /\ M = SectionRows(l, "rpms")
    BY <1>1, <1>2, <1>3, <2>1, InstalledMatches
  <2>3. QED BY <1>1, <1>5, <1>6, <2>2 DEF PackagesMatchStamp
<1>10. QED BY <1>5, <1>6, <1>7, <1>8, <1>9 DEF ImageInv

LEMMA ImageStep == IInv /\ [Next]_vars => ImageInv'
<1> SUFFICES ASSUME IInv, [Next]_vars, pc' = "built" PROVE ImageInv'
  BY DEF ImageInv
<1>1. ASSUME BuildImage PROVE ImageInv'
  BY <1>1, BuildStepInv
<1>2. ASSUME pc \notin Ended, Reading \/ PullBases \/ Disturbance PROVE FALSE
  <2>1. ~Reading
    BY ReadingFrame DEF IInv, Reading
  <2>2. QED BY <1>2, <2>1 DEF PullBases, Disturbance, EditLock, SwapBundle, DamageBundle,
                              EvictBase, Ended
<1>3. ASSUME UNCHANGED vars PROVE ImageInv'
  BY <1>3 DEF IInv, ImageInv, PackagesMatchStamp, Seen, vars
<1>4. QED BY <1>1, <1>2, <1>3, Split

LEMMA Invariance == Spec => []IInv
<1>1. IInv /\ [Next]_vars => IInv'
  BY TypeStep, ReadsStep, BundleStep, ComparedStep, ImageStep DEF IInv
<1>2. QED BY InitInv, <1>1, PTL DEF Spec

-----------------------------------------------------------------------------

\* Every variable keeps its type, and there is an image exactly when the build
\* has succeeded.
THEOREM Typed == Spec => []TypeOK
<1>1. IInv => TypeOK
  BY DEF IInv
<1>2. QED BY Invariance, <1>1, PTL

\* Containerfile 20-22 and install-rpm-bundle.sh 36-77: an image holds packages
\* of the lock it is stamped with, for any number of damages and replacements,
\* and all of them unless there were two damages.
THEOREM ImageHoldsItsLock == Spec => []PackagesMatchStamp
<1>1. IInv => PackagesMatchStamp
  BY DEF IInv, ImageInv, TypeOK, PackagesMatchStamp
<1>2. QED BY Invariance, <1>1, PTL

\* build-image.sh 19-41: the bases belong to the stamped lock, if the lock was
\* not rewritten during the build, or once with the bundle left in place.
THEOREM BasesOfTheLock == Spec => []ImageFromOneLock
<1>1. IInv => ImageFromOneLock
  <2> SUFFICES ASSUME IInv, image # NoImage,
                      \/ at["hash"] = at["validate"]
                      \/ at["hash"] - at["validate"] = 1 /\ swaps = 0
               PROVE  /\ image.builder = BaseOf[image.stamp].builder
                      /\ image.runtime = BaseOf[image.stamp].runtime
    BY DEF ImageFromOneLock
  <2>1. pc = "built"
    BY DEF IInv, TypeOK
  <2>2. /\ image.stamp = Seen("hash")
        /\ image.builder = BaseOf[Seen("builder")].builder
        /\ image.runtime = BaseOf[Seen("runtime")].runtime
        /\ swaps = 0 => Seen("compare") = Seen("hash")
    BY <2>1 DEF IInv, ImageInv
  <2>3. /\ at["validate"] \in 1 .. Len(versions)
        /\ at["compare"] \in at["validate"] .. Len(versions)
        /\ at["builder"] \in at["compare"] .. Len(versions)
        /\ at["runtime"] \in at["builder"] .. Len(versions)
        /\ at["hash"] \in at["runtime"] .. Len(versions)
    BY <2>1, CurrentTyped DEF IInv, ReadsInv, TypeOK, Readers, AfterHash, AfterRuntime,
       AfterBuilder, AfterCompare, AfterParse, AfterValidate
  <2>4. CASE at["hash"] = at["validate"]
    <3>1. at["builder"] = at["hash"] /\ at["runtime"] = at["hash"]
      BY <2>3, <2>4, CurrentTyped DEF IInv
    <3>2. QED BY <2>2, <3>1 DEF Seen
  <2>5. CASE at["hash"] - at["validate"] = 1 /\ swaps = 0
    <3>1. /\ at["builder"] \in {at["compare"], at["hash"]}
          /\ at["runtime"] \in {at["compare"], at["hash"]}
      BY <2>3, <2>5, CurrentTyped DEF IInv
    <3>2. QED BY <2>2, <2>5, <3>1 DEF Seen
  <2>6. QED BY <2>4, <2>5
<1>2. QED BY Invariance, <1>1, PTL

-----------------------------------------------------------------------------
(***************************************************************************)
(* The safety half of UndisturbedBuildSucceeds: no check rejects what      *)
(* acquisition publishes.                                                  *)
(***************************************************************************)

\* What a lock must pin for its packages to be buildable: keys and packages,
\* each recorded as gpg and rpm describe it and, for a package, with its size.
SoundLock(l) ==
  \A d \in {"keys", "rpms"} :
    /\ DOMAIN Pins[l][d] # {}
    /\ \A f \in DOMAIN Pins[l][d] :
         LET pin == Pins[l][d][f]
         IN  /\ pin.meta = MetaOf[pin.sha256]
             /\ d = "rpms" => pin.size = SizeOf[pin.sha256]

\* A build left alone with the bundle of a sound lock has not failed.
NothingRejected == Undisturbed /\ SoundLock(Current) => pc # "failed"

\* The manifest of a section shows the rows of that section.
LEMMA SectionShown ==
  ASSUME NEW l, NEW d \in {"keys", "rpms"}
  PROVE  /\ SectionManifest[d] \in DOMAIN ManifestContents(l, l, FALSE)
         /\ ManifestContents(l, l, FALSE)[SectionManifest[d]] = SectionRows(l, d)
<1>1. SectionManifest[d] \in DOMAIN ManifestContents(l, l, FALSE)
  BY DEF ManifestContents, BundleSections
<1>2. SectionManifest[d] # "LOCK-SHA256"
  BY DEF SectionManifest
<1>3. {e \in Sections : SectionManifest[e] = SectionManifest[d]} = {d}
  BY DEF SectionManifest, Sections
<1>4. ManifestContents(l, l, FALSE)[SectionManifest[d]]
        = UNION {SectionRows(l, e) : e \in {d}}
  BY <1>1, <1>2, <1>3 DEF ManifestContents
<1>5. QED BY <1>1, <1>4

\* A row of a section says of its file what the lock pins.
LEMMA RowSays ==
  ASSUME NEW l, NEW d, NEW row \in SectionRows(l, d)
  PROVE  row[3] = Pins[l][d][row[1]].meta
BY DEF SectionRows

LEMMA ExactAccepted ==
  ASSUME NEW l \in ValidLocks, SoundLock(l)
  PROVE  LET dir == ExactBundle(l, FALSE)
         IN  /\ VerifyBundle(l, l, FALSE, dir)
             /\ RowsHold(dir, {"keys", "rpms"})
             /\ InstallAccepts(dir)
             /\ "LOCK-SHA256" \in DOMAIN dir.manifests
             /\ dir.manifests["LOCK-SHA256"] = {l}
<1> DEFINE dir == ExactBundle(l, FALSE)
           M == ManifestContents(l, l, FALSE)
<1>1. /\ DOMAIN dir.files = ArtifactPaths(l, FALSE)
      /\ \A p \in ArtifactPaths(l, FALSE) : dir.files[p] = Pins[l][p[1]][p[2]].sha256
      /\ dir.manifests = M
      /\ dir.stray = {}
  BY DEF ExactBundle, Stamped
<1>2. l \in Locks
  BY LockAssumption
<1>3. "LOCK-SHA256" \in DOMAIN M /\ M["LOCK-SHA256"] = {l}
  BY <1>2, ManifestsShape
<1>4. ASSUME NEW d \in {"keys", "rpms"}
      PROVE  /\ \A f \in DOMAIN Pins[l][d] : <<d, f>> \in ArtifactPaths(l, FALSE)
             /\ {p[2] : p \in {q \in ArtifactPaths(l, FALSE) : q[1] = d}} = DOMAIN Pins[l][d]
             /\ {row[1] : row \in SectionRows(l, d)} = DOMAIN Pins[l][d]
  <2>1. DOMAIN Pins[l][d] \subseteq Names
    BY <1>2, LockAssumption DEF IsPartialFunction, Sections
  <2>2. \A f \in DOMAIN Pins[l][d] : <<d, f>> \in ArtifactPaths(l, FALSE)
    BY <2>1 DEF ArtifactPaths, BundleSections
  <2>3. \A q \in ArtifactPaths(l, FALSE) : q[1] = d => q[2] \in DOMAIN Pins[l][d]
    BY DEF ArtifactPaths
  <2>4. {p[2] : p \in {q \in ArtifactPaths(l, FALSE) : q[1] = d}} = DOMAIN Pins[l][d]
    <3> DEFINE Q == {q \in ArtifactPaths(l, FALSE) : q[1] = d}
    <3>1. ASSUME NEW f \in DOMAIN Pins[l][d] PROVE \E p \in Q : p[2] = f
      <4>1. <<d, f>> \in Q
        BY <2>2
      <4>2. QED BY <4>1
    <3>2. \A p \in Q : p[2] \in DOMAIN Pins[l][d]
      BY <2>3
    <3>3. QED BY <3>1, <3>2
  <2>5. {row[1] : row \in SectionRows(l, d)} = DOMAIN Pins[l][d]
    BY RowOf, RowOfEvery
  <2>6. QED BY <2>2, <2>4, <2>5
<1>5. ASSUME NEW p \in ArtifactPaths(l, FALSE)
      PROVE  VerifyFile(dir.files[p], BundleArtifacts(l, FALSE)[p])
  <2>1. p[1] \in {"keys", "rpms"} /\ p[2] \in DOMAIN Pins[l][p[1]]
    BY DEF ArtifactPaths, BundleSections
  <2>2. p[1] = "rpms" =>
          Pins[l][p[1]][p[2]].size = SizeOf[Pins[l][p[1]][p[2]].sha256]
    BY <2>1 DEF SoundLock
  <2>3. QED BY <1>1, <2>1, <2>2 DEF BundleArtifacts, VerifyFile
<1>6. VerifyBundle(l, l, FALSE, dir)
  <2>1. dir # NoDirectory
    BY <1>2, NoDirectoryAssumption DEF ExactBundle
  <2>2. DOMAIN BundleArtifacts(l, FALSE) = ArtifactPaths(l, FALSE)
    BY DEF BundleArtifacts
  <2>3. QED BY <1>1, <1>5, <2>1, <2>2 DEF VerifyBundle
<1>7. ASSUME NEW d \in {"keys", "rpms"}, NEW row \in SectionRows(l, d)
      PROVE  /\ <<d, row[1]>> \in DOMAIN dir.files
             /\ dir.files[<<d, row[1]>>] = row[2]
             /\ MetaOf[row[2]] = row[3]
  <2>1. row[1] \in DOMAIN Pins[l][d] /\ row[2] = Pins[l][d][row[1]].sha256
    BY RowOf
  <2>2. row[3] = Pins[l][d][row[1]].meta
    BY RowSays
  <2>3. Pins[l][d][row[1]].meta = MetaOf[Pins[l][d][row[1]].sha256]
    BY <2>1 DEF SoundLock
  <2>4. QED BY <1>1, <1>4, <2>1, <2>2, <2>3
<1>8. ASSUME NEW described PROVE RowsHold(dir, described)
  <2>1. ASSUME NEW d \in {"keys", "rpms"}
        PROVE  /\ SectionManifest[d] \in DOMAIN dir.manifests
               /\ dir.manifests[SectionManifest[d]] = SectionRows(l, d)
    BY <1>1, SectionShown
  <2> HIDE DEF dir
  <2>2. QED BY <1>7, <2>1 DEF RowsHold
<1>9. InstallAccepts(dir)
  <2>1. {p[1] : p \in DOMAIN dir.files} = {"keys", "rpms"}
    <3>1. \A p \in DOMAIN dir.files : p[1] \in {"keys", "rpms"}
      BY <1>1 DEF ArtifactPaths, BundleSections
    <3>2. ASSUME NEW d \in {"keys", "rpms"} PROVE \E p \in DOMAIN dir.files : p[1] = d
      <4>1. PICK f \in DOMAIN Pins[l][d] : TRUE
        BY DEF SoundLock
      <4>2. <<d, f>> \in DOMAIN dir.files
        BY <1>1, <1>4
      <4>3. QED BY <4>2
    <3>3. QED BY <3>1, <3>2
  <2>2. DOMAIN dir.manifests = {"LOCK-SHA256", "key-manifest.tsv", "rpm-manifest.tsv"}
    <3>1. DOMAIN M = {"LOCK-SHA256"} \union {SectionManifest[d] : d \in {"keys", "rpms"}}
      BY DEF ManifestContents, BundleSections
    <3>2. {SectionManifest[d] : d \in {"keys", "rpms"}} = {"key-manifest.tsv", "rpm-manifest.tsv"}
      BY DEF SectionManifest
    <3>3. QED BY <1>1, <3>1, <3>2
  <2>3. ASSUME NEW d \in {"keys", "rpms"}
        PROVE  {p[2] : p \in {q \in DOMAIN dir.files : q[1] = d}} =
                 {row[1] : row \in dir.manifests[SectionManifest[d]]}
    BY <1>1, <1>4, SectionShown
  <2>4. QED BY <1>1, <1>8, <2>1, <2>2, <2>3 DEF InstallAccepts
<1>10. QED BY <1>1, <1>3, <1>6, <1>8, <1>9

\* What is undisturbed after a step was so before, and the step was the
\* build's own.
LEMMA StillUndisturbed ==
  ASSUME TypeOK, [Next]_vars, Undisturbed'
  PROVE  /\ Undisturbed /\ UNCHANGED <<versions, bundle, store, pull>>
         /\ (pc \notin Ended /\ (Reading \/ PullBases \/ BuildImage)) \/ pc' = pc
<1>1. ~EditLock
  <2>1. SUFFICES ASSUME EditLock PROVE FALSE
    OBVIOUS
  <2>2. PICK l \in Locks : versions' = Append(versions, l)
    BY <2>1 DEF EditLock
  <2>3. QED BY <2>2, SeenKept, CurrentTyped DEF Undisturbed
<1>2. ~SwapBundle /\ ~DamageBundle /\ ~EvictBase
  <2>1. swaps \in Nat /\ damage \in Nat /\ swaps' = 0 /\ damage' = 0
    BY DEF Undisturbed, TypeOK
  <2>2. /\ SwapBundle => swaps' = swaps + 1
        /\ DamageBundle \/ EvictBase => damage' = damage + 1
    BY DEF SwapBundle, DamageBundle, EvictBase
  <2>3. QED BY <2>1, <2>2
<1>3. \/ pc \notin Ended /\ (Reading \/ PullBases \/ BuildImage)
      \/ UNCHANGED vars
  BY <1>1, <1>2, Split DEF Disturbance
<1>4. Reading => UNCHANGED <<versions, bundle, store, pull, swaps, damage>>
  BY ReadingFrame DEF Reading
<1>5. UNCHANGED <<versions, bundle, store, pull, swaps, damage>>
  <2>1. PullBases => UNCHANGED <<versions, bundle, store, pull, swaps, damage>>
    <3>1. PullBases => UNCHANGED <<versions, bundle, pull, swaps, damage>>
      BY DEF PullBases
    <3>2. PullBases => ~pull
      BY <3>1 DEF Undisturbed
    <3>3. PullBases /\ ~pull => UNCHANGED store
      BY DEF PullBases
    <3>4. QED BY <3>1, <3>2, <3>3
  <2>2. BuildImage => UNCHANGED <<versions, bundle, store, pull, swaps, damage>>
    BY DEF BuildImage
  <2>3. QED BY <1>3, <1>4, <2>1, <2>2 DEF vars
<1>6. QED BY <1>3, <1>5 DEF Undisturbed, Current, vars

LEMMA RejectionStep ==
  IInv /\ NothingRejected /\ [Next]_vars => NothingRejected'
<1> SUFFICES ASSUME IInv, NothingRejected, [Next]_vars, Undisturbed', SoundLock(Current)'
             PROVE  pc' # "failed"
  BY DEF NothingRejected
<1> DEFINE l == Current
<1>1. /\ Undisturbed /\ UNCHANGED <<versions, bundle, store, pull>>
      /\ (pc \notin Ended /\ (Reading \/ PullBases \/ BuildImage)) \/ pc' = pc
  BY StillUndisturbed DEF IInv
<1>2. SoundLock(l) /\ pc # "failed"
  <2>1. Current' = Current
    BY <1>1 DEF Current
  <2>2. SoundLock(Current)' <=> SoundLock(Current)
    BY <2>1 DEF SoundLock
  <2>3. QED BY <1>1, <2>2 DEF NothingRejected
<1>3. NativeHost /\ l \in ValidLocks /\ bundle = ExactBundle(l, FALSE) /\ ~pull
  BY <1>1 DEF Undisturbed
<1>4. /\ VerifyBundle(l, l, FALSE, bundle)
      /\ RowsHold(bundle, {"keys", "rpms"})
      /\ InstallAccepts(bundle)
      /\ "LOCK-SHA256" \in DOMAIN bundle.manifests
      /\ bundle.manifests["LOCK-SHA256"] = {l}
  BY <1>2, <1>3, ExactAccepted
<1>5. ASSUME NEW step \in Readers, at[step] \in 1 .. Len(versions) PROVE Seen(step) = l
  BY <1>1, <1>5 DEF Undisturbed, Seen, Current
<1>6. /\ pc = "compare" => Seen("parse") = l
      /\ pc \in AfterRuntime => Seen("builder") = l /\ Seen("runtime") = l
      /\ pc = "build" => Seen("hash") = l
  <2>1. /\ pc = "compare" => at["parse"] \in 1 .. Len(versions)
        /\ pc \in AfterRuntime => /\ at["builder"] \in 1 .. Len(versions)
                                  /\ at["runtime"] \in 1 .. Len(versions)
        /\ pc = "build" => at["hash"] \in 1 .. Len(versions)
    BY CurrentTyped DEF IInv, ReadsInv, AfterHash, AfterRuntime, AfterBuilder, AfterCompare,
       AfterParse, AfterValidate, TypeOK, Readers
  <2>2. QED BY <1>5, <2>1 DEF Readers
<1>7. pc \in AfterRuntime => Bases \subseteq store
  BY <1>1, <1>6 DEF Bases, Undisturbed
<1>8. ASSUME Reading PROVE pc' # "failed"
  BY <1>3, <1>4, <1>6, <1>7, <1>8 DEF Reading, ValidateLock, ParseLock, CompareBundle,
     VerifyPackages, ReadBuilder, ReadRuntime, CheckBases, HashLock, ContinueIf,
     AfterRuntime, AfterHash
<1>9. ASSUME PullBases PROVE pc' # "failed"
  BY <1>3, <1>9 DEF PullBases
<1>10. ASSUME BuildImage PROVE pc' # "failed"
  BY <1>4, <1>6, <1>7, <1>10 DEF BuildImage, AfterRuntime, AfterHash
<1>11. QED BY <1>1, <1>2, <1>8, <1>9, <1>10

\* build-image.sh 6-48: a build that nobody disturbs, on the native host, with
\* the binary bundle of a sound lock and its bases at hand, fails at no step.
THEOREM UndisturbedNeverFails == Spec => []NothingRejected
<1>1. Init => NothingRejected
  BY DEF Init, NothingRejected
<1>2. QED BY <1>1, Invariance, RejectionStep, PTL DEF Spec

-----------------------------------------------------------------------------
\* A build that was given a bundle acquired with sources gets no further than
\* the comparison while nobody replaces the bundle.
SourcesStop ==
  swaps = 0 =>
    /\ "source-manifest.tsv" \in DOMAIN bundle.manifests
    /\ pc \in {"validate", "parse", "compare", "failed"}

\* build-image.sh 21 verifies without --include-sources: whatever else happens
\* to its files and to the lock, a bundle acquired with sources never builds.
THEOREM SourcesNeverBuild ==
  ASSUME StartSources = {TRUE}
  PROVE  Spec => [](swaps = 0 => image = NoImage)
<1>1. Init => SourcesStop
  <2>1. SUFFICES ASSUME Init PROVE SourcesStop
    OBVIOUS
  <2>2. PICK l \in ValidLocks, s \in StartSources : bundle = ExactBundle(l, s)
    BY ONLY <2>1 DEF Init
  <2>3. s = TRUE
    OBVIOUS
  <2>4. bundle.manifests = ManifestContents(l, l, s)
    BY <2>2 DEF ExactBundle, Stamped
  <2>5. "source-manifest.tsv" \in DOMAIN bundle.manifests
    BY <2>3, <2>4 DEF ManifestContents, BundleSections, Sections, SectionManifest
  <2>6. QED BY <2>1, <2>5 DEF Init, SourcesStop
<1>2. IInv /\ SourcesStop /\ [Next]_vars => SourcesStop'
  <2>1. SUFFICES ASSUME IInv, SourcesStop, [Next]_vars, swaps' = 0
                 PROVE  /\ "source-manifest.tsv" \in DOMAIN bundle'.manifests
                        /\ pc' \in {"validate", "parse", "compare", "failed"}
    BY DEF SourcesStop
  <2>2. ~SwapBundle
    BY <2>1 DEF SwapBundle, IInv, TypeOK
  <2>3. swaps = 0
    <3>1. Reading => swaps' = swaps
      BY <2>1, ReadingFrame DEF Reading, IInv
    <3>2. QED BY <2>1, <2>2, <3>1, Split DEF Disturbance, PullBases, BuildImage, EditLock,
                                             DamageBundle, EvictBase, vars
  <2>4. /\ "source-manifest.tsv" \in DOMAIN bundle.manifests
        /\ pc \in {"validate", "parse", "compare", "failed"}
    BY <2>1, <2>3 DEF SourcesStop
  <2>5. DOMAIN bundle'.manifests = DOMAIN bundle.manifests
    <3>1. Reading => bundle' = bundle
      BY <2>1, ReadingFrame DEF Reading, IInv
    <3>2. DamageBundle => DOMAIN bundle'.manifests = DOMAIN bundle.manifests
      BY <2>1, DamageShape DEF IInv, TypeOK
    <3>3. QED BY <2>1, <2>2, <3>1, <3>2, Split DEF Disturbance, PullBases, BuildImage,
                                                   EditLock, EvictBase, vars
  <2>6. ~VerifyBundle(Seen("parse"), Current, FALSE, bundle)
    <3>1. "source-manifest.tsv" \notin DOMAIN ManifestContents(Seen("parse"), Current, FALSE)
      BY DEF ManifestContents, BundleSections, SectionManifest
    <3>2. QED BY <2>4, <3>1 DEF VerifyBundle
  <2>7. pc' \in {"validate", "parse", "compare", "failed"}
    BY <2>1, <2>2, <2>4, <2>6, Split DEF Reading, ValidateLock, ParseLock, CompareBundle,
       VerifyPackages, ReadBuilder, ReadRuntime, CheckBases, HashLock, PullBases, BuildImage,
       ContinueIf, Disturbance, EditLock, DamageBundle, EvictBase, vars
  <2>8. QED BY <2>4, <2>5, <2>7
<1>3. IInv /\ SourcesStop => (swaps = 0 => image = NoImage)
  BY DEF IInv, TypeOK, SourcesStop
<1>4. QED BY <1>1, <1>2, <1>3, Invariance, PTL DEF Spec
=============================================================================
