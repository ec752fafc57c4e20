-------------------------- MODULE Acquisition_proofs --------------------------
(***************************************************************************)
(* Theorems about Acquisition, for any number of acquirers, any locks and  *)
(* any number of rewrites of the lock file.                                *)
(***************************************************************************)
EXTENDS Acquisition, FiniteSetTheorems, TLAPS

(***************************************************************************)
(* Lemmas about module Bundle.                                             *)
(***************************************************************************)

\* What manifest_contents renders is a bundle's manifests.
LEMMA ManifestsTyped ==
  ASSUME NEW l \in Locks, NEW h \in Locks, NEW s \in BOOLEAN
  PROVE  IsPartialFunction(ManifestContents(l, h, s), Manifests, Texts)
<1> DEFINE M == ManifestContents(l, h, s)
<1>1. DOMAIN M \subseteq Manifests
  BY DEF ManifestContents, Manifests, SectionManifest, BundleSections, Sections
<1>2. ASSUME NEW d \in Sections
      PROVE  SectionRows(l, d) \subseteq Names \X Digests \X Metas \X Int
  BY <1>2, LockAssumption DEF SectionRows, NoSize, IsPartialFunction, PinRecord
<1>3. ASSUME NEW m \in DOMAIN M PROVE M[m] \in Texts
  <2>1. CASE m = "LOCK-SHA256"
    BY <2>1, <1>3 DEF ManifestContents, Texts
  <2>2. CASE m # "LOCK-SHA256"
    <3>1. M[m] = UNION {SectionRows(l, d) : d \in {e \in Sections : SectionManifest[e] = m}}
      BY <2>2, <1>3 DEF ManifestContents
    <3>2. QED BY <3>1, <1>2 DEF Texts
  <2>3. QED BY <2>1, <2>2
<1>4. M = [m \in DOMAIN M |-> M[m]]
  BY DEF ManifestContents
<1>5. QED BY <1>1, <1>3, <1>4 DEF IsPartialFunction

\* LOCK-SHA256 of a stamped bundle holds the digest it was stamped with.
LEMMA StampIsKept ==
  ASSUME NEW l, NEW h, NEW s
  PROVE  ManifestContents(l, h, s)["LOCK-SHA256"] = {h}
BY DEF ManifestContents

LEMMA StampsAgree ==
  ASSUME NEW l, NEW h, NEW k, NEW g, NEW s, Stamped(l, h, s) = Stamped(k, g, s)
  PROVE  h = g
<1>1. ManifestContents(l, h, s) = ManifestContents(k, g, s)
  BY DEF Stamped
<1>2. {h} = {g}
  BY <1>1, StampIsKept
<1>3. QED BY <1>2

\* A stamped bundle that verify_bundle accepts for another lock and digest
\* is the bundle of those as well.
LEMMA VerifiedIsStamped ==
  ASSUME NEW l, NEW h, NEW k, NEW g, NEW s, NEW dir,
         dir = Stamped(k, g, s), VerifyBundle(l, h, s, dir)
  PROVE  dir = Stamped(l, h, s)
<1>1. DOMAIN dir.files = ArtifactPaths(l, s)
  BY DEF VerifyBundle, BundleArtifacts
<1>2. \A p \in ArtifactPaths(l, s) : dir.files[p] = Pins[l][p[1]][p[2]].sha256
  BY DEF VerifyBundle, BundleArtifacts, VerifyFile
<1>3. dir.files = [p \in DOMAIN dir.files |-> dir.files[p]]
  BY DEF Stamped
<1>4. dir.files = [p \in ArtifactPaths(l, s) |-> Pins[l][p[1]][p[2]].sha256]
  BY <1>1, <1>2, <1>3
<1>5. dir.manifests = ManifestContents(k, g, s)
  BY DEF Stamped
<1>6. dir.manifests = [m \in DOMAIN dir.manifests |-> dir.manifests[m]]
  BY <1>5 DEF ManifestContents
<1>7. /\ DOMAIN dir.manifests = DOMAIN ManifestContents(l, h, s)
      /\ \A m \in DOMAIN ManifestContents(l, h, s) :
           dir.manifests[m] = ManifestContents(l, h, s)[m]
  BY DEF VerifyBundle
<1>8. ManifestContents(l, h, s) =
        [m \in DOMAIN ManifestContents(l, h, s) |-> ManifestContents(l, h, s)[m]]
  BY DEF ManifestContents
<1>9. dir.manifests = ManifestContents(l, h, s)
  BY <1>6, <1>7, <1>8
<1>10. dir.stray = {}
  BY DEF Stamped
<1>11. QED BY <1>4, <1>9, <1>10 DEF Stamped

-----------------------------------------------------------------------------
(***************************************************************************)
(* Types.                                                                  *)
(***************************************************************************)
LEMMA EmptyDirectoryTyped == IsDirectory(EmptyDirectory)
BY DEF IsDirectory, EmptyDirectory, IsPartialFunction

LEMMA PutFileTyped ==
  ASSUME NEW dir, IsDirectory(dir), NEW p \in Paths, NEW c \in Digests
  PROVE  IsDirectory(PutFile(dir, p, c))
<1> DEFINE new == PutFile(dir, p, c)
<1>1. /\ new.manifests = dir.manifests
      /\ new.stray = dir.stray
      /\ new.files = [q \in (DOMAIN dir.files) \union {p} |->
                        IF q = p THEN c ELSE dir.files[q]]
      /\ new = [files |-> new.files, manifests |-> new.manifests, stray |-> new.stray]
  <2>1. dir = [files |-> dir.files, manifests |-> dir.manifests, stray |-> dir.stray]
    BY DEF IsDirectory
  <2> DEFINE f == [q \in (DOMAIN dir.files) \union {p} |-> IF q = p THEN c ELSE dir.files[q]]
             fs == dir.files
             ms == dir.manifests
             st == dir.stray
  <2>2. new = [dir EXCEPT !.files = f]
    BY DEF PutFile
  <2> HIDE DEF f, new
  <2>3. [[files |-> fs, manifests |-> ms, stray |-> st] EXCEPT !.files = f]
          = [files |-> f, manifests |-> ms, stray |-> st]
    OBVIOUS
  <2>4. new = [files |-> f, manifests |-> dir.manifests, stray |-> dir.stray]
    BY <2>1, <2>2, <2>3
  <2>5. QED BY <2>4 DEF f
<1>2. IsPartialFunction(new.files, Paths, Digests)
  BY <1>1 DEF IsDirectory, IsPartialFunction
<1>3. QED BY <1>1, <1>2 DEF IsDirectory

\* The paths an acquirer still misses are paths of a bundle.
LEMMA ArtifactPathsTyped ==
  ASSUME NEW l, NEW s PROVE ArtifactPaths(l, s) \subseteq Paths
BY DEF ArtifactPaths, BundleSections, Sections, Paths

-----------------------------------------------------------------------------
(***************************************************************************)
(* The inductive invariant.                                                *)
(***************************************************************************)

\* The four reads happen in order, each of a version the file has had; the
\* two that are parsed passed validate_lock.
ReadsInv(a) ==
  LET r == at[a]
  IN  /\ pc[a] \in {"parsed", "checked"} \union Inside =>
           /\ r.parse \in 1 .. Len(versions)
           /\ versions[r.parse] \in ValidLocks
      /\ pc[a] \in {"sealed", "reparsed", "verified"} =>
           r.stamp \in r.parse .. Len(versions)
      /\ pc[a] \in {"reparsed", "verified"} =>
           /\ r.reparse \in r.stamp .. Len(versions)
           /\ versions[r.reparse] \in ValidLocks
      /\ pc[a] = "verified" =>
           r.rehash \in r.reparse .. Len(versions)

\* While it fetches, an acquirer holds only verified artifacts of the lock
\* it parsed, and no manifest.
PartialBundle(a) ==
  /\ tmp[a] = [files |-> tmp[a].files, manifests |-> [m \in {} |-> m], stray |-> {}]
  /\ DOMAIN tmp[a].files \subseteq ArtifactPaths(LockRead(a), sources[a])
  /\ tmp[a].files = [p \in DOMAIN tmp[a].files |-> Pins[LockRead(a)][p[1]][p[2]].sha256]

AsBuilt(a) == Stamped(LockRead(a), versions[at[a].stamp], sources[a])
AsVerified(a) == Stamped(versions[at[a].reparse], versions[at[a].rehash], sources[a])

TmpInv(a) ==
  /\ pc[a] \in {"idle", "parsed", "checked", "done", "failed"} => tmp[a] = NoDirectory
  /\ pc[a] = "fetching" => PartialBundle(a)
  /\ pc[a] \in {"sealed", "reparsed", "verified"} => tmp[a] = AsBuilt(a)
  /\ pc[a] = "verified" => tmp[a] = AsVerified(a)

\* The bundle at the output path, and the reads of the run that made it.
OutputInv ==
  /\ publisher = NoOne => output \in {NoDirectory, EmptyDirectory}
  /\ \A a \in Acquirers : publisher = a =>
       /\ pc[a] = "done"
       /\ at[a].parse \in 1 .. Len(versions)
       /\ at[a].stamp \in at[a].parse .. Len(versions)
       /\ at[a].reparse \in at[a].stamp .. Len(versions)
       /\ at[a].rehash \in at[a].reparse .. Len(versions)
       /\ versions[at[a].parse] \in ValidLocks
       /\ versions[at[a].reparse] \in ValidLocks
       /\ output = AsBuilt(a)
       /\ output = AsVerified(a)

IInv ==
  /\ TypeOK
  /\ \A a \in Acquirers : ReadsInv(a) /\ TmpInv(a)
  /\ OutputInv

VersionsGrow ==
  /\ Len(versions) <= Len(versions')
  /\ \A i \in 1 .. Len(versions) : versions'[i] = versions[i]

\* Every step keeps the versions the reads refer to.
LEMMA Growth ==
  ASSUME TypeOK, UNCHANGED versions \/ EditLock
  PROVE  VersionsGrow
BY DEF TypeOK, EditLock, VersionsGrow

\* Steps of others do not disturb an acquirer.
LEMMA Frame ==
  ASSUME TypeOK, TypeOK', NEW b \in Acquirers, ReadsInv(b), TmpInv(b), VersionsGrow,
         pc'[b] = pc[b], at'[b] = at[b], tmp'[b] = tmp[b], sources'[b] = sources[b]
  PROVE  ReadsInv(b)' /\ TmpInv(b)'
<1>1. Len(versions) \in Nat /\ Len(versions') \in Nat /\ at[b] \in Reads
  BY DEF TypeOK
<1>2. ReadsInv(b)'
  BY <1>1 DEF ReadsInv, VersionsGrow, Reads, Inside
<1>3. ASSUME pc[b] \in Inside PROVE LockRead(b)' = LockRead(b)
  BY <1>1, <1>3 DEF ReadsInv, VersionsGrow, Reads, LockRead
<1>4. ASSUME pc[b] = "fetching" PROVE PartialBundle(b)'
  BY <1>3, <1>4 DEF TmpInv, PartialBundle, Inside
<1>5. ASSUME pc[b] \in {"sealed", "reparsed", "verified"} PROVE (tmp[b] = AsBuilt(b))'
  <2>1. versions'[at[b].stamp] = versions[at[b].stamp]
    BY <1>1, <1>5 DEF ReadsInv, VersionsGrow, Reads, Inside
  <2>2. QED BY <1>3, <1>5, <2>1 DEF TmpInv, AsBuilt, Inside
<1>6. ASSUME pc[b] = "verified" PROVE (tmp[b] = AsVerified(b))'
  <2>1. /\ versions'[at[b].reparse] = versions[at[b].reparse]
        /\ versions'[at[b].rehash] = versions[at[b].rehash]
    BY <1>1, <1>6 DEF ReadsInv, VersionsGrow, Reads, Inside
  <2>2. QED BY <1>6, <2>1 DEF TmpInv, AsVerified
<1>7. QED BY <1>2, <1>4, <1>5, <1>6 DEF TmpInv

\* The bundle at the output path stays what it is while its publisher rests.
LEMMA OutputFrame ==
  ASSUME TypeOK, TypeOK', OutputInv, VersionsGrow, UNCHANGED <<output, publisher, sources>>,
         \A b \in Acquirers : pc[b] = "done" => pc'[b] = "done" /\ at'[b] = at[b]
  PROVE  OutputInv'
<1>1. Len(versions) \in Nat /\ Len(versions') \in Nat
  BY DEF TypeOK
<1>2. ASSUME NEW a \in Acquirers, publisher' = a
      PROVE  /\ pc'[a] = "done"
             /\ (/\ at[a].parse \in 1 .. Len(versions)
                 /\ at[a].stamp \in at[a].parse .. Len(versions)
                 /\ at[a].reparse \in at[a].stamp .. Len(versions)
                 /\ at[a].rehash \in at[a].reparse .. Len(versions)
                 /\ versions[at[a].parse] \in ValidLocks
                 /\ versions[at[a].reparse] \in ValidLocks
                 /\ output = AsBuilt(a)
                 /\ output = AsVerified(a))'
  <2>1. at'[a] = at[a] /\ at[a] \in Reads /\ publisher = a /\ pc'[a] = "done"
    BY <1>2 DEF OutputInv, TypeOK
  <2>2. QED BY <1>1, <2>1 DEF OutputInv, VersionsGrow, Reads, AsBuilt, AsVerified, LockRead
<1>3. publisher' = NoOne => output' \in {NoDirectory, EmptyDirectory}
  BY DEF OutputInv
<1>4. QED BY <1>2, <1>3 DEF OutputInv

-----------------------------------------------------------------------------
(***************************************************************************)
(* Every step preserves the types, then the rest of the invariant.         *)
(***************************************************************************)
LEMMA InvInit == Init => IInv
<1> SUFFICES ASSUME Init PROVE IInv
  OBVIOUS
<1>1. TypeOK
  <2>1. versions \in Seq(Locks) /\ versions # <<>>
    <3>1. PICK l \in Locks : versions = <<l>>
      BY DEF Init
    <3>2. QED BY <3>1
  <2>2. /\ pc \in [Acquirers -> Steps]
        /\ at \in [Acquirers -> Reads]
    BY DEF Init, Steps, Reads
  <2>3. QED BY <2>1, <2>2 DEF Init, TypeOK
<1>2. \A a \in Acquirers : ReadsInv(a) /\ TmpInv(a)
  BY DEF Init, ReadsInv, TmpInv, Inside
<1>3. OutputInv
  BY AcquirersAssumption DEF Init, OutputInv
<1>4. QED BY <1>1, <1>2, <1>3 DEF IInv

\* The lock an acquirer works with, once parsed, is a lock.
LEMMA LockReadTyped ==
  ASSUME TypeOK, NEW a \in Acquirers, ReadsInv(a), pc[a] \in Inside
  PROVE  LockRead(a) \in Locks /\ LockRead(a) \in ValidLocks
BY LockAssumption DEF TypeOK, ReadsInv, LockRead, Inside

\* A partial bundle is a directory, also once its manifests are written.
LEMMA PartialTyped ==
  ASSUME TypeOK, NEW a \in Acquirers, ReadsInv(a), TmpInv(a), pc[a] = "fetching"
  PROVE  IsDirectory(tmp[a])
<1> DEFINE f == tmp[a].files
<1>1. LockRead(a) \in Locks /\ PartialBundle(a)
  BY LockReadTyped DEF TmpInv, Inside
<1>2. ASSUME NEW p \in DOMAIN f PROVE f[p] \in Digests
  <2>1. p \in ArtifactPaths(LockRead(a), sources[a])
    BY <1>1 DEF PartialBundle
  <2>2. p[1] \in Sections /\ p[2] \in DOMAIN Pins[LockRead(a)][p[1]]
    BY <2>1 DEF ArtifactPaths, BundleSections, Sections
  <2>3. Pins[LockRead(a)][p[1]][p[2]] \in PinRecord
    BY <1>1, <2>2, LockAssumption DEF IsPartialFunction
  <2>4. f[p] = Pins[LockRead(a)][p[1]][p[2]].sha256
    BY <1>1 DEF PartialBundle
  <2>5. QED BY <2>3, <2>4 DEF PinRecord
<1>3. DOMAIN f \subseteq Paths
  BY <1>1, ArtifactPathsTyped DEF PartialBundle
<1>4. f = [p \in DOMAIN f |-> f[p]]
  BY <1>1 DEF PartialBundle
<1>5. IsPartialFunction(f, Paths, Digests)
  BY <1>2, <1>3, <1>4 DEF IsPartialFunction
<1>6. tmp[a] = [files |-> f, manifests |-> [m \in {} |-> m], stray |-> {}]
  BY <1>1 DEF PartialBundle
<1> HIDE DEF f
<1>7. IsPartialFunction([m \in {} |-> m], Manifests, Texts)
  BY DEF IsPartialFunction
<1>8. tmp[a].files = f /\ tmp[a].manifests = [m \in {} |-> m] /\ tmp[a].stray = {}
  BY <1>6
<1>9. QED BY <1>5, <1>6, <1>7, <1>8 DEF IsDirectory

LEMMA PutManifestsTyped ==
  ASSUME NEW dir, IsDirectory(dir), NEW ms, IsPartialFunction(ms, Manifests, Texts)
  PROVE  IsDirectory([dir EXCEPT !.manifests = ms])
<1> DEFINE new == [dir EXCEPT !.manifests = ms]
<1>1. dir = [files |-> dir.files, manifests |-> dir.manifests, stray |-> dir.stray]
  BY DEF IsDirectory
<1>2. new = [files |-> dir.files, manifests |-> ms, stray |-> dir.stray]
  BY <1>1
<1> HIDE DEF new
<1>3. new.files = dir.files /\ new.manifests = ms /\ new.stray = dir.stray
  BY <1>2
<1>4. IsDirectory(new)
  BY <1>2, <1>3 DEF IsDirectory
<1>5. QED BY <1>4 DEF new

LEMMA TypeStep == IInv /\ [Next]_vars => TypeOK'
<1> SUFFICES ASSUME IInv, [Next]_vars PROVE TypeOK'
  OBVIOUS
<1> USE DEF TypeOK, IInv
<1>0. Len(versions) \in Nat /\ Len(versions) >= 1 /\ Current \in Locks
  BY DEF Current
<1>1. ASSUME NEW a \in Acquirers, ValidateLock(a) PROVE TypeOK'
  BY <1>1, <1>0 DEF ValidateLock, GoTo, Reads, Steps, Inside, Ended
<1>2. ASSUME NEW a \in Acquirers, CheckOutput(a) \/ RefuseOptions(a) PROVE TypeOK'
  BY <1>2 DEF CheckOutput, RefuseOptions, GoTo, Steps, Inside, Ended
<1>3. ASSUME NEW a \in Acquirers, MakeTemporary(a) PROVE TypeOK'
  BY <1>3, EmptyDirectoryTyped DEF MakeTemporary, GoTo, Steps, Inside, Ended
<1>4. ASSUME NEW a \in Acquirers, FetchArtifact(a) PROVE TypeOK'
  <2>1. IsDirectory(tmp[a])
    BY <1>4, PartialTyped DEF FetchArtifact
  <2>2. PICK p \in Missing(a), c \in Digests :
          /\ tmp' = [tmp EXCEPT ![a] = PutFile(@, p, c)]
          /\ GoTo(a, IF VerifyFile(c, Wanted(a)[p]) THEN "fetching" ELSE "cleaning")
    BY <1>4 DEF FetchArtifact
  <2>3. p \in Paths
    BY ArtifactPathsTyped DEF Missing, Wanted, BundleArtifacts
  <2>4. IsDirectory(PutFile(tmp[a], p, c))
    BY <2>1, <2>3, PutFileTyped
  <2>5. QED BY <1>4, <2>2, <2>4 DEF FetchArtifact, GoTo, Steps, Inside, Ended
<1>5. ASSUME NEW a \in Acquirers, WriteManifests(a) PROVE TypeOK'
  <2> DEFINE new == ManifestContents(LockRead(a), Current, sources[a])
  <2>1. LockRead(a) \in Locks
    BY <1>5, LockReadTyped DEF WriteManifests, Inside
  <2>2. IsPartialFunction(new, Manifests, Texts)
    BY <2>1, <1>0, ManifestsTyped
  <2>3. IsDirectory([tmp[a] EXCEPT !.manifests = new])
    BY <1>5, <2>2, PartialTyped, PutManifestsTyped DEF WriteManifests
  <2>4. QED BY <1>5, <1>0, <2>3 DEF WriteManifests, GoTo, Steps, Inside, Ended, Reads
<1>6. ASSUME NEW a \in Acquirers, ReparseLock(a) PROVE TypeOK'
  BY <1>6, <1>0 DEF ReparseLock, GoTo, Reads, Steps, Inside, Ended
<1>7. ASSUME NEW a \in Acquirers, CompareBundle(a) PROVE TypeOK'
  BY <1>7, <1>0 DEF CompareBundle, GoTo, Reads, Steps, Inside, Ended
<1>8. ASSUME NEW a \in Acquirers, Publish(a) PROVE TypeOK'
  BY <1>8 DEF Publish, GoTo, Steps, Inside, Ended
<1>9. ASSUME NEW a \in Acquirers, Cleanup(a) PROVE TypeOK'
  BY <1>9 DEF Cleanup, GoTo, Steps, Inside, Ended
<1>10. ASSUME NEW a \in Acquirers, Interrupt(a) \/ Kill(a) PROVE TypeOK'
  BY <1>10 DEF Interrupt, Kill, GoTo, Steps, Inside, Ended
<1>11. CASE EditLock
  BY <1>11 DEF EditLock
<1>12. CASE MakeOutputDirectory \/ RemoveOutput
  BY <1>12, EmptyDirectoryTyped DEF MakeOutputDirectory, RemoveOutput
<1>13. CASE UNCHANGED vars
  BY <1>13 DEF vars
<1>14. QED
  BY <1>1, <1>2, <1>3, <1>4, <1>5, <1>6, <1>7, <1>8, <1>9, <1>10, <1>11, <1>12, <1>13
     DEF Next, AcquirerStep, Environment

\* What the two updates of a directory yield.
LEMMA PutFileShape ==
  ASSUME NEW f, NEW ms, NEW st, NEW p, NEW c
  PROVE  PutFile([files |-> f, manifests |-> ms, stray |-> st], p, c) =
           [files |-> [q \in (DOMAIN f) \union {p} |-> IF q = p THEN c ELSE f[q]],
            manifests |-> ms, stray |-> st]
BY DEF PutFile

LEMMA PutManifestsShape ==
  ASSUME NEW f, NEW ms, NEW st, NEW new
  PROVE  [[files |-> f, manifests |-> ms, stray |-> st] EXCEPT !.manifests = new] =
           [files |-> f, manifests |-> new, stray |-> st]
OBVIOUS

\* The acquirer that takes a step keeps its own part of the invariant.
LEMMA OwnStep ==
  ASSUME IInv, TypeOK', VersionsGrow, UNCHANGED versions,
         NEW a \in Acquirers, AcquirerStep(a) \/ Interrupt(a) \/ Kill(a)
  PROVE  ReadsInv(a)' /\ TmpInv(a)'
<1> USE DEF IInv
<1>0. /\ Len(versions) \in Nat /\ Len(versions) >= 1
      /\ at[a] \in Reads /\ at'[a] \in Reads
      /\ Current = versions[Len(versions)] /\ sources[a] \in BOOLEAN
  BY DEF TypeOK, Current
<1>1. CASE ValidateLock(a)
  BY <1>0, <1>1 DEF ValidateLock, GoTo, ReadsInv, TmpInv, Inside, TypeOK, Reads
<1>2. CASE CheckOutput(a) \/ RefuseOptions(a)
  BY <1>0, <1>2 DEF CheckOutput, RefuseOptions, GoTo, ReadsInv, TmpInv, Inside, TypeOK
<1>3. CASE MakeTemporary(a)
  <2>1. ReadsInv(a)'
    BY <1>0, <1>3 DEF MakeTemporary, GoTo, ReadsInv, Inside, TypeOK
  <2>2. pc'[a] = "fetching" /\ tmp'[a] = EmptyDirectory
    BY <1>3 DEF MakeTemporary, GoTo, TypeOK
  <2>3. PartialBundle(a)'
    BY <2>2 DEF PartialBundle, EmptyDirectory
  <2>4. QED BY <2>1, <2>2, <2>3 DEF TmpInv
<1>4. CASE FetchArtifact(a)
  <2>1. PICK p \in Missing(a), c \in Digests :
          /\ tmp' = [tmp EXCEPT ![a] = PutFile(@, p, c)]
          /\ GoTo(a, IF VerifyFile(c, Wanted(a)[p]) THEN "fetching" ELSE "cleaning")
    BY <1>4 DEF FetchArtifact
  <2>2. /\ pc'[a] = (IF VerifyFile(c, Wanted(a)[p]) THEN "fetching" ELSE "cleaning")
        /\ tmp'[a] = PutFile(tmp[a], p, c)
        /\ pc[a] = "fetching" /\ at' = at /\ sources' = sources
    BY <1>4, <2>1 DEF FetchArtifact, GoTo, TypeOK
  <2>3. ReadsInv(a)'
    BY <1>0, <2>2 DEF ReadsInv, Inside
  <2>4. CASE VerifyFile(c, Wanted(a)[p])
    <3> DEFINE f == tmp[a].files
               g == [q \in (DOMAIN f) \union {p} |-> IF q = p THEN c ELSE f[q]]
    <3>1. PartialBundle(a)
      BY <2>2 DEF TmpInv
    <3>2. tmp'[a] = [files |-> g, manifests |-> [m \in {} |-> m], stray |-> {}]
      <4>1. tmp[a] = [files |-> f, manifests |-> [m \in {} |-> m], stray |-> {}]
        BY <3>1 DEF PartialBundle
      <4> DEFINE ms == [m \in {} |-> m]
      <4> HIDE DEF f, ms
      <4>2. PutFile([files |-> f, manifests |-> ms, stray |-> {}], p, c)
              = [files |-> g, manifests |-> ms, stray |-> {}]
        BY ONLY PutFileShape
      <4>3. PutFile(tmp[a], p, c) = [files |-> g, manifests |-> ms, stray |-> {}]
        BY <4>1, <4>2 DEF ms
      <4>4. QED BY <2>2, <4>3 DEF ms
    <3>3. p \in ArtifactPaths(LockRead(a), sources[a])
      BY DEF Missing, Wanted, BundleArtifacts
    <3>4. c = Pins[LockRead(a)][p[1]][p[2]].sha256
      BY <2>4, <3>3 DEF VerifyFile, Wanted, BundleArtifacts
    <3>5. LockRead(a)' = LockRead(a)
      BY <2>2 DEF LockRead
    <3>6. /\ DOMAIN g \subseteq ArtifactPaths(LockRead(a), sources[a])
          /\ g = [q \in DOMAIN g |-> Pins[LockRead(a)][q[1]][q[2]].sha256]
      BY <3>1, <3>3, <3>4 DEF PartialBundle
    <3> HIDE DEF g, f
    <3>7. tmp'[a].files = g
      BY <3>2
    <3>8. PartialBundle(a)'
      BY <2>2, <3>2, <3>5, <3>6, <3>7 DEF PartialBundle
    <3>9. QED BY <2>2, <2>3, <2>4, <3>8 DEF TmpInv
  <2>5. CASE ~VerifyFile(c, Wanted(a)[p])
    BY <2>2, <2>3, <2>5 DEF TmpInv
  <2>6. QED BY <2>4, <2>5
<1>5. CASE WriteManifests(a)
  <2> DEFINE new == ManifestContents(LockRead(a), Current, sources[a])
  <2>1. /\ pc[a] = "fetching" /\ pc'[a] = "sealed" /\ sources' = sources
        /\ at'[a] = [at[a] EXCEPT !.stamp = Len(versions)]
        /\ tmp'[a] = [tmp[a] EXCEPT !.manifests = new]
    BY <1>5 DEF WriteManifests, GoTo, TypeOK
  <2>2. at'[a].parse = at[a].parse /\ at'[a].stamp = Len(versions)
    BY <1>0, <2>1 DEF Reads
  <2>3. ReadsInv(a)'
    BY <1>0, <2>1, <2>2 DEF ReadsInv, Inside, Reads
  <2>4. PartialBundle(a)
    BY <2>1 DEF TmpInv
  <2>5. tmp[a].files = [p \in ArtifactPaths(LockRead(a), sources[a])
                          |-> Pins[LockRead(a)][p[1]][p[2]].sha256]
    <3>1. DOMAIN tmp[a].files = ArtifactPaths(LockRead(a), sources[a])
      BY <1>5, <2>4 DEF WriteManifests, Missing, Wanted, BundleArtifacts, PartialBundle
    <3>2. QED BY <2>4, <3>1 DEF PartialBundle
  <2> HIDE DEF new
  <2>6. tmp'[a] = [files |-> tmp[a].files, manifests |-> new, stray |-> {}]
    <3> DEFINE f == tmp[a].files
    <3>1. tmp[a] = [files |-> f, manifests |-> [m \in {} |-> m], stray |-> {}]
      BY <2>4 DEF PartialBundle
    <3> DEFINE ms == [m \in {} |-> m]
    <3> HIDE DEF f, ms
    <3>2. \A x : x = [files |-> f, manifests |-> ms, stray |-> {}]
                  => [x EXCEPT !.manifests = new] = [files |-> f, manifests |-> new, stray |-> {}]
      BY PutManifestsShape
    <3>3. [tmp[a] EXCEPT !.manifests = new] = [files |-> f, manifests |-> new, stray |-> {}]
      BY <3>1, <3>2 DEF ms
    <3>4. QED BY <2>1, <3>3 DEF f
  <2>7. tmp'[a] = Stamped(LockRead(a), Current, sources[a])
    BY <2>5, <2>6 DEF Stamped, new
  <2>8. (tmp[a] = AsBuilt(a))'
    BY <1>0, <2>1, <2>2, <2>7 DEF AsBuilt, LockRead
  <2>9. QED BY <2>1, <2>3, <2>8 DEF TmpInv
<1>6. CASE ReparseLock(a)
  <2>1. /\ pc[a] = "sealed" /\ sources' = sources /\ tmp' = tmp
        /\ pc'[a] = (IF Current \in ValidLocks THEN "reparsed" ELSE "cleaning")
        /\ at'[a] = [at[a] EXCEPT !.reparse = Len(versions)]
    BY <1>6 DEF ReparseLock, GoTo, TypeOK
  <2>2. /\ at'[a].parse = at[a].parse /\ at'[a].stamp = at[a].stamp
        /\ at'[a].reparse = Len(versions)
    BY <1>0, <2>1 DEF Reads
  <2>3. ReadsInv(a)'
    BY <1>0, <2>1, <2>2 DEF ReadsInv, Inside, Reads
  <2>4. tmp[a] = AsBuilt(a) /\ AsBuilt(a)' = AsBuilt(a)
    BY <2>1, <2>2 DEF TmpInv, AsBuilt, LockRead
  <2>5. QED BY <2>1, <2>3, <2>4 DEF TmpInv
<1>7. CASE CompareBundle(a)
  <2> DEFINE l == versions[at[a].reparse]
  <2>1. /\ pc[a] = "reparsed" /\ sources' = sources /\ tmp' = tmp
        /\ pc'[a] = (IF VerifyBundle(l, Current, sources[a], tmp[a])
                       THEN "verified" ELSE "cleaning")
        /\ at'[a] = [at[a] EXCEPT !.rehash = Len(versions)]
    BY <1>7 DEF CompareBundle, GoTo, TypeOK
  <2>2. /\ at'[a].parse = at[a].parse /\ at'[a].stamp = at[a].stamp
        /\ at'[a].reparse = at[a].reparse /\ at'[a].rehash = Len(versions)
    BY <1>0, <2>1 DEF Reads
  <2>3. ReadsInv(a)'
    BY <1>0, <2>1, <2>2 DEF ReadsInv, Inside, Reads
  <2>4. tmp[a] = AsBuilt(a) /\ AsBuilt(a)' = AsBuilt(a)
    BY <2>1, <2>2 DEF TmpInv, AsBuilt, LockRead
  <2>5. CASE VerifyBundle(l, Current, sources[a], tmp[a])
    <3>1. tmp[a] = Stamped(l, Current, sources[a])
      BY <2>4, <2>5, VerifiedIsStamped DEF AsBuilt
    <3>2. (tmp[a] = AsVerified(a))'
      BY <1>0, <2>1, <2>2, <3>1 DEF AsVerified
    <3>3. QED BY <2>1, <2>3, <2>4, <2>5, <3>2 DEF TmpInv
  <2>6. CASE ~VerifyBundle(l, Current, sources[a], tmp[a])
    BY <2>1, <2>3, <2>6 DEF TmpInv
  <2>7. QED BY <2>5, <2>6
<1>8. CASE Publish(a)
  BY <1>8 DEF Publish, GoTo, ReadsInv, TmpInv, Inside, TypeOK
<1>9. CASE Cleanup(a)
  BY <1>9 DEF Cleanup, GoTo, ReadsInv, TmpInv, Inside, TypeOK
<1>10. CASE Interrupt(a) \/ Kill(a)
  BY <1>10 DEF Interrupt, Kill, GoTo, ReadsInv, TmpInv, Inside, TypeOK
<1>11. QED
  BY <1>1, <1>2, <1>3, <1>4, <1>5, <1>6, <1>7, <1>8, <1>9, <1>10 DEF AcquirerStep

\* A step of one acquirer leaves the others' part of the state alone.
LEMMA OthersRest ==
  ASSUME TypeOK, NEW a \in Acquirers, AcquirerStep(a) \/ Interrupt(a) \/ Kill(a),
         NEW b \in Acquirers, b # a
  PROVE  /\ pc'[b] = pc[b] /\ at'[b] = at[b] /\ tmp'[b] = tmp[b] /\ sources'[b] = sources[b]
BY DEF TypeOK, AcquirerStep, Interrupt, Kill, GoTo, ValidateLock, CheckOutput,
       RefuseOptions, MakeTemporary, FetchArtifact, WriteManifests, ReparseLock,
       CompareBundle, Publish, Cleanup

LEMMA OutputStep ==
  ASSUME IInv, TypeOK', VersionsGrow, UNCHANGED versions,
         NEW a \in Acquirers, AcquirerStep(a) \/ Interrupt(a) \/ Kill(a)
  PROVE  OutputInv'
<1> USE DEF IInv
<1>1. CASE Publish(a) /\ output \in {NoDirectory, EmptyDirectory}
  <2>1. /\ pc[a] = "verified" /\ publisher' = a /\ output' = tmp[a]
        /\ pc'[a] = "done" /\ UNCHANGED <<versions, sources, at>>
    BY <1>1 DEF Publish, GoTo, TypeOK
  <2>2. /\ at[a].parse \in 1 .. Len(versions) /\ versions[at[a].parse] \in ValidLocks
        /\ at[a].stamp \in at[a].parse .. Len(versions)
        /\ at[a].reparse \in at[a].stamp .. Len(versions)
        /\ versions[at[a].reparse] \in ValidLocks
        /\ at[a].rehash \in at[a].reparse .. Len(versions)
    BY <2>1 DEF ReadsInv, Inside
  <2>3. tmp[a] = AsBuilt(a) /\ tmp[a] = AsVerified(a)
    BY <2>1 DEF TmpInv
  <2>4. AsBuilt(a)' = AsBuilt(a) /\ AsVerified(a)' = AsVerified(a)
    BY <2>1 DEF AsBuilt, AsVerified, LockRead
  <2>5. QED BY <2>1, <2>2, <2>3, <2>4, AcquirersAssumption DEF OutputInv
<1>2. CASE ~(Publish(a) /\ output \in {NoDirectory, EmptyDirectory})
  <2>1. UNCHANGED <<output, publisher, sources>>
    BY <1>2 DEF AcquirerStep, Interrupt, Kill, ValidateLock, CheckOutput,
       RefuseOptions, MakeTemporary, FetchArtifact, WriteManifests, ReparseLock,
       CompareBundle, Publish, Cleanup
  <2>2. pc[a] # "done"
    BY DEF AcquirerStep, Interrupt, Kill, ValidateLock, CheckOutput,
       RefuseOptions, MakeTemporary, FetchArtifact, WriteManifests, ReparseLock,
       CompareBundle, Publish, Cleanup, Inside, Ended
  <2>3. \A b \in Acquirers : pc[b] = "done" => pc'[b] = "done" /\ at'[b] = at[b]
    BY <2>2, OthersRest
  <2>4. QED BY <2>1, <2>3, OutputFrame
<1>3. QED BY <1>1, <1>2

LEMMA InvStep == IInv /\ [Next]_vars => IInv'
<1> SUFFICES ASSUME IInv, [Next]_vars PROVE IInv'
  OBVIOUS
<1>1. TypeOK /\ TypeOK' /\ OutputInv /\ \A b \in Acquirers : ReadsInv(b) /\ TmpInv(b)
  BY TypeStep DEF IInv
<1>2. ASSUME NEW a \in Acquirers, AcquirerStep(a) \/ Interrupt(a) \/ Kill(a)
      PROVE  IInv'
  <2>1. UNCHANGED versions
    BY <1>2 DEF AcquirerStep, Interrupt, Kill, ValidateLock, CheckOutput,
       RefuseOptions, MakeTemporary, FetchArtifact, WriteManifests, ReparseLock,
       CompareBundle, Publish, Cleanup
  <2>2. VersionsGrow
    BY <1>1, <2>1, Growth
  <2>3. ReadsInv(a)' /\ TmpInv(a)'
    BY <1>1, <1>2, <2>1, <2>2, OwnStep
  <2>4. ASSUME NEW b \in Acquirers, b # a PROVE ReadsInv(b)' /\ TmpInv(b)'
    BY <1>1, <1>2, <2>2, <2>4, OthersRest, Frame
  <2>5. OutputInv'
    BY <1>1, <1>2, <2>1, <2>2, OutputStep
  <2>6. QED BY <1>1, <2>3, <2>4, <2>5 DEF IInv
<1>3. ASSUME UNCHANGED <<pc, at, tmp, sources>>, UNCHANGED versions \/ EditLock
      PROVE  \A b \in Acquirers : ReadsInv(b)' /\ TmpInv(b)'
  BY <1>1, <1>3, Growth, Frame
<1>4. CASE EditLock
  <2>1. UNCHANGED <<output, publisher, pc, sources, at, tmp>>
    BY <1>4 DEF EditLock
  <2>2. OutputInv'
    BY <1>1, <1>4, <2>1, Growth, OutputFrame
  <2>3. QED BY <1>1, <1>3, <1>4, <2>1, <2>2 DEF IInv
<1>5. CASE MakeOutputDirectory
  <2>1. UNCHANGED <<versions, publisher, pc, sources, at, tmp>>
        /\ output = NoDirectory /\ output' = EmptyDirectory
    BY <1>5 DEF MakeOutputDirectory
  <2>2. \A a \in Acquirers : publisher # a
    <3>1. SUFFICES ASSUME NEW a \in Acquirers, publisher = a PROVE FALSE
      OBVIOUS
    <3>2. output = AsBuilt(a) /\ LockRead(a) \in Locks /\ versions[at[a].stamp] \in Locks
      BY <1>1, <3>1 DEF OutputInv, TypeOK, LockRead, Reads
    <3>3. QED BY <1>1, <2>1, <3>2, NoDirectoryAssumption DEF AsBuilt, TypeOK
  <2>3. OutputInv'
    BY <2>1, <2>2 DEF OutputInv
  <2>4. QED BY <1>1, <1>3, <2>1, <2>3 DEF IInv
<1>6. CASE RemoveOutput
  <2>1. UNCHANGED <<versions, pc, sources, at, tmp>>
        /\ publisher' = NoOne /\ output' = NoDirectory
    BY <1>6 DEF RemoveOutput
  <2>2. OutputInv'
    BY <2>1, AcquirersAssumption DEF OutputInv
  <2>3. QED BY <1>1, <1>3, <2>1, <2>2 DEF IInv
<1>7. CASE UNCHANGED vars
  <2>1. UNCHANGED <<versions, output, publisher, pc, sources, at, tmp>>
    BY <1>7 DEF vars
  <2>2. OutputInv'
    BY <1>1, <2>1, Growth, OutputFrame
  <2>3. QED BY <1>1, <1>3, <2>1, <2>2 DEF IInv
<1>8. QED
  BY <1>2, <1>4, <1>5, <1>6, <1>7 DEF Next, Environment

THEOREM Invariance == Spec => []IInv
<1>1. Init => IInv
  BY InvInit
<1>2. IInv /\ [Next]_vars => IInv'
  BY InvStep
<1>3. QED BY <1>1, <1>2, PTL DEF Spec

-----------------------------------------------------------------------------
(***************************************************************************)
(* What follows from the invariant.                                        *)
(***************************************************************************)

\* Every variable keeps its type.
THEOREM TypeCorrect == Spec => []TypeOK
BY Invariance, PTL DEF IInv

\* acquire_bundle: the output path never holds part of a bundle.
THEOREM NeverPartial == Spec => []PublishedWhole
<1>1. IInv => PublishedWhole
  <2> SUFFICES ASSUME IInv, output \notin {NoDirectory, EmptyDirectory}
      PROVE  output \in WholeBundles
    BY DEF PublishedWhole
  <2>1. PICK a \in Acquirers : publisher = a
    BY DEF IInv, TypeOK, OutputInv
  <2>2. /\ output = AsVerified(a) /\ versions[at[a].reparse] \in ValidLocks
        /\ versions[at[a].rehash] \in Locks /\ sources[a] \in BOOLEAN
    BY <2>1 DEF IInv, OutputInv, TypeOK, Reads
  <2>3. QED BY <2>2 DEF AsVerified, WholeBundles
<1>2. QED BY <1>1, Invariance, PTL

\* acquire_bundle reads the lock file four times; unless it is rewritten
\* three times meanwhile, what is published is the bundle of one lock.
THEOREM SettledLock == Spec => []SettledLockExact
<1>1. IInv => SettledLockExact
  <2> SUFFICES ASSUME IInv, NEW a \in Acquirers, publisher = a,
                      at[a].rehash - at[a].parse <= 2
      PROVE  /\ versions[at[a].stamp] \in ValidLocks
             /\ output = ExactBundle(versions[at[a].stamp], sources[a])
    BY DEF SettledLockExact
  <2> DEFINE r == at[a]
  <2>1. /\ r.parse \in 1 .. Len(versions) /\ r.stamp \in r.parse .. Len(versions)
        /\ r.reparse \in r.stamp .. Len(versions) /\ r.rehash \in r.reparse .. Len(versions)
        /\ Len(versions) \in Nat /\ r \in Reads
        /\ versions[r.parse] \in ValidLocks /\ versions[r.reparse] \in ValidLocks
    BY DEF IInv, OutputInv, TypeOK
  <2>2. output = AsBuilt(a) /\ output = AsVerified(a)
    BY DEF IInv, OutputInv
  <2>3. versions[r.stamp] = versions[r.rehash]
    <3>1. Stamped(LockRead(a), versions[r.stamp], sources[a]) =
            Stamped(versions[r.reparse], versions[r.rehash], sources[a])
      BY <2>2 DEF AsBuilt, AsVerified
    <3> HIDE DEF r
    <3>2. QED BY <3>1, StampsAgree
  <2>4. CASE versions[r.reparse] = versions[r.stamp]
    BY <2>1, <2>2, <2>3, <2>4 DEF AsVerified, ExactBundle
  <2>5. CASE versions[r.reparse] # versions[r.stamp]
    <3>1. r.stamp # r.reparse /\ r.reparse # r.rehash
      BY <2>3, <2>5
    <3>2. r.parse = r.stamp
      BY <2>1, <3>1 DEF Reads
    <3>3. QED BY <2>1, <2>2, <3>2 DEF AsBuilt, ExactBundle, LockRead
  <2>6. QED BY <2>4, <2>5
<1>2. QED BY <1>1, Invariance, PTL

\* The finally block of acquire_bundle leaves no temporary directory.
THEOREM TemporariesRemoved == Spec => []NoLitter
<1>1. IInv => NoLitter
  BY DEF IInv, TmpInv, NoLitter
<1>2. QED BY <1>1, Invariance, PTL

\* Racing runs never replace a published bundle.
THEOREM NeverReplaced == Spec => PublishedNeverReplaced
<1>1. [Next]_vars => [output \notin {NoDirectory, EmptyDirectory} => output' = NoDirectory]_output
  <2> SUFFICES ASSUME [Next]_vars, output \notin {NoDirectory, EmptyDirectory}
      PROVE  output' = NoDirectory \/ output' = output
    OBVIOUS
  <2>1. ASSUME NEW a \in Acquirers, AcquirerStep(a) \/ Interrupt(a) \/ Kill(a)
        PROVE  output' = output
    BY <2>1 DEF AcquirerStep, Interrupt, Kill, ValidateLock, CheckOutput,
       RefuseOptions, MakeTemporary, FetchArtifact, WriteManifests, ReparseLock,
       CompareBundle, Publish, Cleanup
  <2>2. CASE Environment
    BY <2>2 DEF Environment, EditLock, MakeOutputDirectory, RemoveOutput
  <2>3. CASE UNCHANGED vars
    BY <2>3 DEF vars
  <2>4. QED BY <2>1, <2>2, <2>3 DEF Next
<1>2. QED BY <1>1, PTL DEF Spec, PublishedNeverReplaced

-----------------------------------------------------------------------------
(***************************************************************************)
(* The safety half of AcquisitionEnds: a run only ever moves on.           *)
(***************************************************************************)

\* How many steps of its kind a run has still before it; fetching takes one
\* step per artifact, which Missing counts.
Rank == [step \in Steps |->
           CASE step = "idle"     -> 8 [] step = "parsed"   -> 7 [] step = "checked"  -> 6
             [] step = "fetching" -> 5 [] step = "sealed"   -> 4 [] step = "reparsed" -> 3
             [] step = "verified" -> 2 [] step = "cleaning" -> 1 [] OTHER -> 0]

MovesOn(a) ==
  \/ Rank[pc'[a]] < Rank[pc[a]]
  \/ /\ pc[a] = "fetching" /\ pc'[a] = "fetching"
     /\ Cardinality(Missing(a)') < Cardinality(Missing(a))

Rests(a) == pc'[a] = pc[a] /\ (pc[a] = "fetching" => Missing(a)' = Missing(a))

\* Nobody else can throw a run back, and it never throws itself back.
OnlyForward ==
  [][\A a \in Acquirers :
       IF AcquirerStep(a) \/ Interrupt(a) \/ Kill(a) THEN MovesOn(a) ELSE Rests(a)]_vars

\* The artifacts a lock lists are finitely many.
LEMMA MissingFinite ==
  ASSUME IsFiniteSet(Names), NEW a \in Acquirers
  PROVE  IsFiniteSet(Missing(a)) /\ Cardinality(Missing(a)) \in Nat
<1>1. IsFiniteSet(Sections)
  <2>1. Sections = {"keys"} \union {"rpms"} \union {"srpms"}
    BY DEF Sections
  <2>2. QED BY <2>1, FS_Singleton, FS_Union
<1>2. IsFiniteSet(Sections \X Names)
  BY <1>1, FS_Product
<1>3. Missing(a) \subseteq Sections \X Names
  BY ArtifactPathsTyped DEF Missing, Wanted, BundleArtifacts, Paths
<1>4. IsFiniteSet(Missing(a))
  BY <1>2, <1>3, FS_Subset
<1>5. QED BY <1>4, FS_CardinalityType

LEMMA FetchMovesOn ==
  ASSUME IsFiniteSet(Names), IInv, NEW a \in Acquirers, FetchArtifact(a)
  PROVE  MovesOn(a)
<1>1. PICK p \in Missing(a), c \in Digests :
        /\ tmp' = [tmp EXCEPT ![a] = PutFile(@, p, c)]
        /\ GoTo(a, IF VerifyFile(c, Wanted(a)[p]) THEN "fetching" ELSE "cleaning")
  BY DEF FetchArtifact
<1>2. /\ pc[a] = "fetching" /\ pc'[a] \in {"fetching", "cleaning"}
      /\ tmp'[a] = PutFile(tmp[a], p, c) /\ UNCHANGED <<versions, sources, at>>
  BY <1>1 DEF FetchArtifact, GoTo, IInv, TypeOK
<1>3. CASE pc'[a] = "cleaning"
  BY <1>2, <1>3 DEF MovesOn, Rank, Steps, Inside, Ended
<1>4. CASE pc'[a] = "fetching"
  <2>1. Wanted(a)' = Wanted(a)
    BY <1>2 DEF Wanted, LockRead
  <2>2. DOMAIN tmp'[a].files = DOMAIN tmp[a].files \union {p}
    <3> DEFINE f == tmp[a].files
               ms == [m \in {} |-> m]
    <3>1. tmp[a] = [files |-> f, manifests |-> ms, stray |-> {}]
      BY <1>2 DEF IInv, TmpInv, PartialBundle
    <3> HIDE DEF f, ms
    <3>2. PutFile([files |-> f, manifests |-> ms, stray |-> {}], p, c)
            = [files |-> [q \in (DOMAIN f) \union {p} |-> IF q = p THEN c ELSE f[q]],
               manifests |-> ms, stray |-> {}]
      BY ONLY PutFileShape
    <3>3. DOMAIN PutFile(tmp[a], p, c).files = DOMAIN f \union {p}
      BY <3>1, <3>2
    <3>4. QED BY <1>2, <3>3 DEF f
  <2>3. Missing(a)' = Missing(a) \ {p}
    BY <2>1, <2>2 DEF Missing
  <2>4. Cardinality(Missing(a) \ {p}) = Cardinality(Missing(a)) - 1
    BY <1>1, MissingFinite, FS_RemoveElement
  <2>5. QED BY <1>2, <1>4, <2>3, <2>4, MissingFinite DEF MovesOn
<1>5. QED BY <1>2, <1>3, <1>4

LEMMA OwnMovesOn ==
  ASSUME IsFiniteSet(Names), IInv, NEW a \in Acquirers,
         AcquirerStep(a) \/ Interrupt(a) \/ Kill(a)
  PROVE  MovesOn(a)
<1>1. pc \in [Acquirers -> Steps]
  BY DEF IInv, TypeOK
<1>2. CASE FetchArtifact(a)
  BY <1>2, FetchMovesOn
<1>3. CASE ~FetchArtifact(a)
  <2>1. \/ pc[a] = "idle" /\ pc'[a] \in {"parsed", "failed", "killed"}
        \/ pc[a] = "parsed" /\ pc'[a] \in {"checked", "failed", "killed"}
        \/ pc[a] = "checked" /\ pc'[a] \in {"fetching", "failed", "killed"}
        \/ pc[a] = "fetching" /\ pc'[a] \in {"sealed", "cleaning", "killed"}
        \/ pc[a] = "sealed" /\ pc'[a] \in {"reparsed", "cleaning", "killed"}
        \/ pc[a] = "reparsed" /\ pc'[a] \in {"verified", "cleaning", "killed"}
        \/ pc[a] = "verified" /\ pc'[a] \in {"done", "cleaning", "killed"}
        \/ pc[a] = "cleaning" /\ pc'[a] \in {"failed", "killed"}
    <3>1. CASE Interrupt(a) \/ Kill(a)
      BY <1>1, <3>1 DEF Interrupt, Kill, GoTo, Steps, Inside, Ended
    <3>2. CASE ValidateLock(a) \/ CheckOutput(a) \/ RefuseOptions(a) \/ MakeTemporary(a)
      BY <1>1, <3>2 DEF ValidateLock, CheckOutput, RefuseOptions, MakeTemporary, GoTo
    <3>3. CASE WriteManifests(a) \/ ReparseLock(a) \/ CompareBundle(a)
      BY <1>1, <3>3 DEF WriteManifests, ReparseLock, CompareBundle, GoTo
    <3>4. CASE Publish(a) \/ Cleanup(a)
      BY <1>1, <3>4 DEF Publish, Cleanup, GoTo
    <3>5. QED BY <1>3, <3>1, <3>2, <3>3, <3>4 DEF AcquirerStep
  <2>2. QED BY <2>1 DEF MovesOn, Rank, Steps, Inside, Ended
<1>4. QED BY <1>2, <1>3

LEMMA OthersLeave ==
  ASSUME IInv, IInv', [Next]_vars, NEW a \in Acquirers,
         ~(AcquirerStep(a) \/ Interrupt(a) \/ Kill(a))
  PROVE  Rests(a)
<1>1. /\ pc'[a] = pc[a] /\ at'[a] = at[a] /\ tmp'[a] = tmp[a] /\ sources'[a] = sources[a]
  <2>1. ASSUME NEW b \in Acquirers, b # a, AcquirerStep(b) \/ Interrupt(b) \/ Kill(b)
        PROVE  pc'[a] = pc[a] /\ at'[a] = at[a] /\ tmp'[a] = tmp[a] /\ sources'[a] = sources[a]
    BY <2>1, OthersRest DEF IInv
  <2>2. CASE Environment \/ UNCHANGED vars
    BY <2>2 DEF Environment, EditLock, MakeOutputDirectory, RemoveOutput, vars
  <2>3. QED BY <2>1, <2>2 DEF Next
<1>2. ASSUME pc[a] = "fetching" PROVE LockRead(a)' = LockRead(a)
  <2>1. at[a].parse \in 1 .. Len(versions)
    BY <1>2 DEF IInv, ReadsInv, Inside
  <2>2. UNCHANGED versions \/ EditLock
    BY DEF Next, Environment, MakeOutputDirectory, RemoveOutput, vars, AcquirerStep, Interrupt,
       Kill, ValidateLock, CheckOutput, RefuseOptions, MakeTemporary, FetchArtifact,
       WriteManifests, ReparseLock, CompareBundle, Publish, Cleanup
  <2>3. VersionsGrow
    BY <2>2, Growth DEF IInv
  <2>4. QED BY <1>1, <2>1, <2>3 DEF VersionsGrow, LockRead
<1>3. pc[a] = "fetching" => Missing(a)' = Missing(a)
  BY <1>1, <1>2 DEF Missing, Wanted
<1>4. QED BY <1>1, <1>3 DEF Rests

\* artifacts.py 530-580: every step of a run, an interrupt and a kill included,
\* brings it nearer its end, and no other run, editor or operator throws it
\* back; so no run takes more steps than these many and its artifacts.
THEOREM RunsOnlyForward ==
  ASSUME IsFiniteSet(Names)
  PROVE  Spec => OnlyForward
<1>1. ASSUME IInv, IInv', [Next]_vars, NEW a \in Acquirers
      PROVE  IF AcquirerStep(a) \/ Interrupt(a) \/ Kill(a) THEN MovesOn(a) ELSE Rests(a)
  BY <1>1, OwnMovesOn, OthersLeave
<1>2. IInv /\ IInv' /\ [Next]_vars =>
        [\A a \in Acquirers :
           IF AcquirerStep(a) \/ Interrupt(a) \/ Kill(a) THEN MovesOn(a) ELSE Rests(a)]_vars
  BY <1>1
<1>3. QED BY <1>2, Invariance, PTL DEF Spec, OnlyForward
===============================================================================
