-------------------------- MODULE LockRefresh_proofs --------------------------
(***************************************************************************)
(* Theorems about LockRefresh, for any inputs, any closures at any number  *)
(* of snapshots, and any number of edits and failures.                     *)
(***************************************************************************)
EXTENDS LockRefresh, TLAPS, FiniteSetTheorems

\* One snapshot's closure for an architecture and one reviewed seed.
Whole(packages, a) ==
  \E s \in Snapshots, i \in Inputs : packages = Closure[s][a] \union {Seed(i, a)}

LEMMA WholePackages ==
  ASSUME NEW a \in Arches, NEW P, Whole(P, a)
  PROVE  P \in SUBSET Packages /\ Sources(P) \subseteq Sources(Packages)
<1>1. PICK s \in Snapshots, i \in Inputs : P = Closure[s][a] \union {Seed(i, a)}
  BY DEF Whole
<1> DEFINE closures == {Closure[t][b] : t \in Snapshots, b \in Arches}
           reviewed == {Seed(j, b) : j \in Inputs, b \in Arches}
<1>2. Closure[s][a] \in closures /\ Seed(i, a) \in reviewed
  OBVIOUS
<1>3. Packages = (UNION closures) \union reviewed
  BY DEF Packages
<1> HIDE DEF closures, reviewed
<1>4. Closure[s][a] \subseteq Packages /\ {Seed(i, a)} \subseteq Packages
  <2>1. Closure[s][a] \subseteq UNION closures
    BY <1>2
  <2>2. QED BY <1>2, <1>3, <2>1
<1>5. P \subseteq Packages
  BY <1>1, <1>4
<1>6. QED BY <1>5 DEF Sources

\* What a listing or a sort that was cut short may keep of it.
Part(packages, a) ==
  \E s \in Snapshots, i \in Inputs : packages \subseteq Closure[s][a] \union {Seed(i, a)}

\* In a part, only the seed is named nginx.
LEMMA OneSeed ==
  ASSUME NEW a \in Arches, NEW P, Part(P, a), NEW p \in P, p.name = "nginx"
  PROVE  \E i \in Inputs : p = Seed(i, a)
BY RefreshAssumption DEF Part

\* A lock rendered from inventories that may have been cut short, and one
\* rendered from a whole binary inventory.
PartLock(l, a) ==
  \E i \in Inputs : l = Rendered(i, a, l.packages, l.sources) /\ Part(l.packages, a)

WholeLock(l, a) ==
  PartLock(l, a) /\ Whole(l.packages, a) /\ l.sources \subseteq Sources(l.packages)

LEMMA PartLockIsLock ==
  ASSUME NEW l, NEW a, PartLock(l, a) PROVE Lock(l)
BY DEF PartLock, Rendered, Lock

LEMMA RenderedIsPart ==
  ASSUME NEW i \in Inputs, NEW a, NEW P, NEW S, Part(P, a)
  PROVE  PartLock(Rendered(i, a, P, S), a)
BY DEF PartLock, Rendered

LEMMA RenderedIsWhole ==
  ASSUME NEW i \in Inputs, NEW a, NEW P, NEW S, Whole(P, a), S \subseteq Sources(P)
  PROVE  WholeLock(Rendered(i, a, P, S), a)
<1>1. PartLock(Rendered(i, a, P, S), a)
  BY RenderedIsPart DEF Whole, Part
<1>2. QED BY <1>1 DEF WholeLock, Rendered

-----------------------------------------------------------------------------
(***************************************************************************)
(* The inductive invariant.                                                *)
(***************************************************************************)
ShapeInv ==
  /\ inputs \in Inputs /\ snapshot \in Snapshots
  /\ edits \in 0 .. MaxEdits /\ failures \in 0 .. MaxFailures
  /\ seeds \in [Arches -> Inputs \union {Nothing}]
  /\ resolver \in [Arches -> {"idle", "download", "binary", "source", "done", "failed"}]
  /\ output \in [Arches -> {Nothing} \union Directories]
  /\ cut \subseteq Arches /\ candidate = [a \in Arches |-> candidate[a]]
  /\ locks = [a \in Arches |-> locks[a]]

Fresh(o) == o.binary = Nothing /\ o.source = Nothing
HalfBinary(o, a) == Whole(o.rpms, a) /\ o.binary \subseteq o.rpms /\ o.source = Nothing
HalfSource(o, a) == /\ Whole(o.rpms, a) /\ o.binary \subseteq o.rpms
                    /\ a \notin cut => o.binary = o.rpms
                    /\ o.source \in SUBSET Sources(o.rpms)

\* What a resolver has written so far, and what one that failed left.
OutputInv(a) ==
  /\ resolver[a] # "idle" => output[a] # Nothing
  /\ Resolving(a) => seeds[a] # Nothing
  /\ resolver[a] = "download" => Fresh(output[a])
  /\ resolver[a] = "binary" => HalfBinary(output[a], a)
  /\ resolver[a] \in {"source", "done"} => HalfSource(output[a], a)
  /\ resolver[a] = "source" => output[a].source \subseteq Sources(output[a].binary)
  /\ output[a] # Nothing =>
       Fresh(output[a]) \/ HalfBinary(output[a], a) \/ HalfSource(output[a], a)

LocksInv ==
  \A a \in Arches :
    /\ candidate[a] \notin {Nothing, Broken} =>
         PartLock(candidate[a], a) /\ (a \notin cut => WholeLock(candidate[a], a))
    /\ locks[a] # Broken => PartLock(locks[a], a)

\* MainFollowsInputs, with the type of the main branch's inputs.
MainInv == main.inputs \in Inputs /\ MainFollowsInputs

IInv == ShapeInv /\ (\A a \in Arches : OutputInv(a)) /\ LocksInv /\ MainInv

LEMMA FirstLockWhole ==
  ASSUME NEW a \in Arches PROVE WholeLock(FirstLock(a), a)
<1> DEFINE P == Closure[1][a] \union {Seed(FirstInputs, a)}
<1>1. 1 \in Snapshots /\ FirstInputs \in Inputs
  BY RefreshAssumption DEF Snapshots
<1>2. Whole(P, a)
  BY <1>1 DEF Whole
<1>3. QED BY <1>1, <1>2, RenderedIsWhole DEF FirstLock

LEMMA InitInv == Init => IInv
<1> SUFFICES ASSUME Init PROVE IInv
  OBVIOUS
<1>1. ShapeInv
  BY RefreshAssumption DEF Init, ShapeInv, Snapshots
<1>2. \A a \in Arches : OutputInv(a)
  BY DEF Init, OutputInv, Resolving
<1>3. LocksInv
  BY FirstLockWhole DEF Init, LocksInv, WholeLock
<1>4. MainInv
  <2>1. main.inputs = FirstInputs /\ \A a \in Arches : main.locks[a] = FirstLock(a)
    BY DEF Init
  <2>2. ASSUME NEW a \in Arches
        PROVE  LET l == FirstLock(a) IN
                 /\ Seed(FirstInputs, a) \in l.packages
                 /\ \A p \in l.packages : p.key \in FirstInputs.keys
                 /\ l.base = FirstInputs.base
    BY RefreshAssumption DEF FirstLock, Rendered, Seed
  <2>3. QED BY <2>1, <2>2, RefreshAssumption DEF MainInv, MainFollowsInputs
<1>5. QED BY <1>1, <1>2, <1>3, <1>4 DEF IInv

-----------------------------------------------------------------------------
(***************************************************************************)
(* Steps of the resolver.                                                  *)
(***************************************************************************)
\* One step of resolve-lock.sh touches the directory of one architecture.
LEMMA OneDirectory ==
  ASSUME IInv, NEW a \in Arches, NEW from, NEW to, NEW dir \in Directories,
         to \in {"download", "binary", "source", "done"},
         ResolverStep(a, from, to, dir), UNCHANGED <<inputs, snapshot, edits, locks>>,
         seeds[a] # Nothing,
         to = "download" => Fresh(dir),
         to = "binary" => HalfBinary(dir, a),
         to \in {"source", "done"} => HalfSource(dir, a),
         to = "source" => dir.source \subseteq Sources(dir.binary)
  PROVE  ShapeInv' /\ \A b \in Arches : OutputInv(b)'
<1>1. /\ resolver' = [resolver EXCEPT ![a] = to] /\ output' = [output EXCEPT ![a] = dir]
      /\ UNCHANGED <<seeds, cut, candidate, failures>>
  BY DEF ResolverStep
<1>2. ShapeInv'
  BY <1>1 DEF IInv, ShapeInv
<1>3. ASSUME NEW b \in Arches PROVE OutputInv(b)'
  <2>1. CASE b = a
    <3>1. resolver'[a] = to /\ output'[a] = dir /\ dir # Nothing
      BY <1>1, RefreshAssumption DEF IInv, ShapeInv
    <3>2. QED BY <1>1, <2>1, <3>1 DEF OutputInv, Resolving, HalfSource
  <2>2. CASE b # a
    <3>1. resolver'[b] = resolver[b] /\ output'[b] = output[b] /\ seeds'[b] = seeds[b]
      BY <1>1, <2>2 DEF IInv, ShapeInv
    <3>2. QED BY <1>1, <3>1 DEF IInv, OutputInv, Resolving, HalfSource
  <2>3. QED BY <2>1, <2>2
<1>4. QED BY <1>2, <1>3

LEMMA ResolverSteps ==
  ASSUME IInv, NEW a \in Arches, UNCHANGED <<inputs, snapshot, edits, locks>>,
         \/ BeginResolve(a) \/ Download(a) \/ RecordBinary(a) \/ ListSources(a)
         \/ RecordSource(a) \/ FinishResolve(a)
  PROVE  ShapeInv' /\ \A b \in Arches : OutputInv(b)'
<1> DEFINE o == output[a]
<1>1. o \in {Nothing} \union Directories /\ seeds[a] \in Inputs \union {Nothing}
  BY DEF IInv, ShapeInv
<1>2. OutputInv(a)
  BY DEF IInv
<1>3. resolver[a] \in {"download", "binary", "source"} => o \in Directories /\ seeds[a] # Nothing
  BY <1>1, <1>2 DEF OutputInv, Resolving
<1>4. CASE BeginResolve(a)
  <2> DEFINE dir == [rpms |-> {}, binary |-> Nothing, source |-> Nothing]
  <2>1. ResolverStep(a, "idle", "download", dir) /\ seeds[a] # Nothing
    BY <1>4 DEF BeginResolve
  <2>2. dir \in Directories /\ Fresh(dir)
    BY DEF Directories, Fresh
  <2> HIDE DEF dir
  <2>3. QED BY <2>1, <2>2, OneDirectory
<1>5. CASE Download(a)
  <2> DEFINE P == Closure[snapshot][a] \union {Seed(seeds[a], a)}
             dir == [rpms |-> P, binary |-> {}, source |-> Nothing]
  <2>1. ResolverStep(a, "download", "binary", dir) /\ resolver[a] = "download"
    BY <1>5 DEF Download
  <2>2. seeds[a] \in Inputs
    BY <1>1, <1>3, <2>1
  <2>3. Whole(P, a)
    BY <2>2 DEF Whole, IInv, ShapeInv
  <2>4. P \in SUBSET Packages
    BY <2>3, WholePackages
  <2> HIDE DEF P
  <2>5. dir \in Directories /\ HalfBinary(dir, a)
    BY <2>3, <2>4 DEF Directories, HalfBinary
  <2> HIDE DEF dir
  <2>6. QED BY <1>3, <2>1, <2>5, OneDirectory
<1>6. CASE RecordBinary(a)
  <2>1. PICK p \in o.rpms \ o.binary :
          ResolverStep(a, "binary", "binary", [o EXCEPT !.binary = @ \union {p}])
    BY <1>6 DEF RecordBinary
  <2>2. o \in Directories /\ HalfBinary(o, a) /\ seeds[a] # Nothing
    BY <1>2, <1>3, <1>6 DEF RecordBinary, OutputInv
  <2> DEFINE bin == o.binary \union {p}
             dir == [o EXCEPT !.binary = bin]
  <2>3. dir = [rpms |-> o.rpms, binary |-> bin, source |-> Nothing]
    BY <2>2 DEF Directories, HalfBinary
  <2>4. bin \subseteq o.rpms /\ o.rpms \in SUBSET Packages
    BY <2>1, <2>2 DEF HalfBinary, Directories
  <2> HIDE DEF bin
  <2>5. dir \in Directories /\ HalfBinary(dir, a)
    BY <2>2, <2>3, <2>4 DEF Directories, HalfBinary
  <2>6. ResolverStep(a, "binary", "binary", dir)
    BY <2>1 DEF bin
  <2> HIDE DEF dir
  <2>7. QED BY <2>2, <2>5, <2>6, OneDirectory
<1>7. CASE ListSources(a)
  <2> DEFINE dir == [o EXCEPT !.source = {}]
  <2>1. ResolverStep(a, "binary", "source", dir) /\ o.binary = o.rpms
    BY <1>7 DEF ListSources
  <2>2. o \in Directories /\ HalfBinary(o, a) /\ seeds[a] # Nothing
    BY <1>2, <1>3, <1>7 DEF ListSources, OutputInv
  <2>3. dir = [rpms |-> o.rpms, binary |-> o.binary, source |-> {}]
    BY <2>2 DEF Directories
  <2>4. dir \in Directories /\ HalfSource(dir, a) /\ dir.source \subseteq Sources(dir.binary)
    BY <2>1, <2>2, <2>3 DEF Directories, HalfBinary, HalfSource
  <2> HIDE DEF dir
  <2>5. QED BY <2>1, <2>2, <2>4, OneDirectory
<1>8. CASE RecordSource(a)
  <2>1. PICK s \in Sources(o.binary) \ o.source :
          ResolverStep(a, "source", "source", [o EXCEPT !.source = @ \union {s}])
    BY <1>8 DEF RecordSource
  <2>2. o \in Directories /\ HalfSource(o, a) /\ seeds[a] # Nothing
    BY <1>2, <1>3, <1>8 DEF RecordSource, OutputInv
  <2> DEFINE src == o.source \union {s}
             dir == [o EXCEPT !.source = src]
  <2>3. dir = [rpms |-> o.rpms, binary |-> o.binary, source |-> src]
    BY <2>2 DEF Directories
  <2>4. src \subseteq Sources(o.binary)
    BY <1>2, <2>1 DEF OutputInv, ResolverStep
  <2>5. /\ src \subseteq Sources(o.rpms) /\ o.rpms \in SUBSET Packages
        /\ Sources(o.rpms) \subseteq Sources(Packages)
    BY <2>2, <2>4, WholePackages DEF HalfSource, Sources
  <2> HIDE DEF src
  <2>6. dir \in Directories /\ HalfSource(dir, a) /\ dir.source \subseteq Sources(dir.binary)
    BY <2>2, <2>3, <2>4, <2>5 DEF Directories, HalfSource
  <2>7. ResolverStep(a, "source", "source", dir)
    BY <2>1 DEF src
  <2> HIDE DEF dir
  <2>8. QED BY <2>2, <2>6, <2>7, OneDirectory
<1>9. CASE FinishResolve(a)
  <2>1. ResolverStep(a, "source", "done", o)
    BY <1>9 DEF FinishResolve
  <2>2. o \in Directories /\ HalfSource(o, a) /\ seeds[a] # Nothing
    BY <1>2, <1>3, <1>9 DEF FinishResolve, OutputInv
  <2> HIDE DEF o
  <2>3. QED BY <2>1, <2>2, OneDirectory
<1>10. QED BY <1>4, <1>5, <1>6, <1>7, <1>8, <1>9

-----------------------------------------------------------------------------
(***************************************************************************)
(* The other steps.                                                        *)
(***************************************************************************)
\* Nothing of the resolvers' changes.
LEMMA OutputFrame ==
  ASSUME \A a \in Arches : OutputInv(a), UNCHANGED <<seeds, resolver, output, cut>>
  PROVE  \A a \in Arches : OutputInv(a)'
BY DEF OutputInv, Resolving, HalfSource

\* A failure of the resolver leaves the directory as it is or cuts one inventory.
LEMMA OneCut ==
  ASSUME IInv, NEW a \in Arches, NEW to \in {"source", "failed"}, NEW dir \in Directories,
         resolver' = [resolver EXCEPT ![a] = to], output' = [output EXCEPT ![a] = dir],
         cut' \in {cut, cut \union {a}},
         Fail, UNCHANGED <<inputs, snapshot, edits, seeds, candidate, locks>>,
         seeds[a] # Nothing,
         to = "source" => HalfSource(dir, a)' /\ dir.source \subseteq Sources(dir.binary),
         Fresh(dir) \/ HalfBinary(dir, a) \/ HalfSource(dir, a)'
  PROVE  ShapeInv' /\ \A b \in Arches : OutputInv(b)'
<1>1. failures' \in 0 .. MaxFailures
  BY RefreshAssumption DEF Fail, IInv, ShapeInv
<1>2. ShapeInv'
  BY <1>1 DEF IInv, ShapeInv
<1>3. ASSUME NEW b \in Arches PROVE OutputInv(b)'
  <2>1. CASE b = a
    <3>1. resolver'[a] = to /\ output'[a] = dir /\ dir # Nothing /\ seeds'[a] # Nothing
      BY RefreshAssumption DEF IInv, ShapeInv
    <3>2. QED BY <2>1, <3>1 DEF OutputInv, Resolving
  <2>2. CASE b # a
    <3>1. /\ resolver'[b] = resolver[b] /\ output'[b] = output[b] /\ seeds'[b] = seeds[b]
          /\ b \in cut' <=> b \in cut
      BY <2>2 DEF IInv, ShapeInv
    <3>2. QED BY <3>1 DEF IInv, OutputInv, Resolving, HalfSource
  <2>3. QED BY <2>1, <2>2
<1>4. QED BY <1>2, <1>3

LEMMA FailedStep ==
  ASSUME IInv, NEW a \in Arches, ResolverFails(a) \/ ListingFails(a) \/ SortFails(a),
         UNCHANGED <<inputs, snapshot, edits, tree, main>>
  PROVE  ShapeInv' /\ \A b \in Arches : OutputInv(b)'
<1>1. OutputInv(a)
  BY DEF IInv
<1>2. Resolving(a)
  BY DEF ResolverFails, ListingFails, SortFails, Resolving
<1>3. output[a] \in Directories /\ seeds[a] # Nothing
  BY <1>1, <1>2 DEF IInv, ShapeInv, OutputInv, Resolving
<1>4. PICK o \in Directories : o = output[a]
  BY <1>3
<1>5. UNCHANGED <<inputs, snapshot, edits, seeds, candidate, locks>> /\ Fail
  BY DEF tree, ResolverFails, ListingFails, SortFails, ResolverLeft
<1>6. CASE ResolverFails(a)
  <2>1. cut' = cut /\ resolver' = [resolver EXCEPT ![a] = "failed"]
    BY <1>6 DEF ResolverFails, ResolverLeft
  <2>2. output' = [output EXCEPT ![a] = o]
    BY <1>4, <1>6 DEF ResolverFails, ResolverLeft
  <2>3. Fresh(o) \/ HalfBinary(o, a) \/ HalfSource(o, a)
    BY <1>1, <1>3, <1>4, RefreshAssumption DEF OutputInv
  <2>4. HalfSource(o, a) => HalfSource(o, a)'
    BY <2>1 DEF HalfSource
  <2>5. QED BY <1>3, <1>5, <2>1, <2>2, <2>3, <2>4, OneCut
<1>7. CASE ListingFails(a)
  <2>1. /\ output' = [output EXCEPT ![a] = [o EXCEPT !.source = {}]]
        /\ resolver' = [resolver EXCEPT ![a] = "source"] /\ resolver[a] = "binary"
        /\ cut' = cut \union {a}
    BY <1>4, <1>7 DEF ListingFails, ResolverLeft
  <2>2. HalfBinary(o, a)
    BY <1>1, <1>4, <2>1 DEF OutputInv
  <2>3. PICK dir : dir = [o EXCEPT !.source = {}]
    OBVIOUS
  <2>4. dir = [rpms |-> o.rpms, binary |-> o.binary, source |-> {}]
    BY <2>3 DEF Directories
  <2>5. /\ dir \in Directories /\ dir.source \subseteq Sources(dir.binary)
        /\ HalfSource(dir, a)'
    BY <2>1, <2>2, <2>4 DEF Directories, HalfBinary, HalfSource
  <2>6. QED BY <1>3, <1>5, <2>1, <2>3, <2>5, OneCut
<1>8. CASE SortFails(a)
  <2>1. HalfSource(o, a)
    BY <1>1, <1>4, <1>8 DEF SortFails, OutputInv
  <2>2. resolver' = [resolver EXCEPT ![a] = "failed"]
    BY <1>8 DEF SortFails, ResolverLeft
  <2>3. ASSUME NEW part \in SUBSET o.binary, cut' = cut \union {a},
               output' = [output EXCEPT ![a] = [o EXCEPT !.binary = part]]
        PROVE  ShapeInv' /\ \A b \in Arches : OutputInv(b)'
    <3>1. PICK dir : dir = [o EXCEPT !.binary = part]
      OBVIOUS
    <3>2. dir = [rpms |-> o.rpms, binary |-> part, source |-> o.source]
      BY <3>1 DEF Directories
    <3>3. o.rpms \in SUBSET Packages /\ part \in SUBSET o.rpms /\ o.source \in SUBSET Sources(Packages)
      BY <2>1, <2>3, WholePackages DEF HalfSource
    <3>4. dir \in Directories /\ HalfSource(dir, a)'
      BY <2>1, <2>3, <3>2, <3>3 DEF Directories, HalfSource
    <3>5. QED BY <1>3, <1>5, <2>2, <2>3, <3>1, <3>4, OneCut
  <2>4. ASSUME NEW part \in SUBSET o.source, cut' = cut,
               output' = [output EXCEPT ![a] = [o EXCEPT !.source = part]]
        PROVE  ShapeInv' /\ \A b \in Arches : OutputInv(b)'
    <3>1. PICK dir : dir = [o EXCEPT !.source = part]
      OBVIOUS
    <3>2. dir = [rpms |-> o.rpms, binary |-> o.binary, source |-> part]
      BY <3>1 DEF Directories
    <3>3. dir \in Directories /\ HalfSource(dir, a)'
      BY <2>1, <2>4, <3>2, WholePackages DEF Directories, HalfSource
    <3>4. QED BY <1>3, <1>5, <2>2, <2>4, <3>1, <3>3, OneCut
  <2>5. QED BY <1>4, <1>8, <2>3, <2>4 DEF SortFails, ResolverLeft
<1>9. QED BY <1>6, <1>7, <1>8

\* Neither the resolvers nor render-lock.py touch the branch.
LEMMA CommandStep ==
  ASSUME IInv, NEW a \in Arches, Command(a) \/ CommandFails(a),
         UNCHANGED <<inputs, snapshot, edits, tree, main>>
  PROVE  ShapeInv' /\ \A b \in Arches : OutputInv(b)'
<1> USE DEF tree
<1>1. CASE Fetch(a)
  <2>1. ShapeInv'
    BY <1>1 DEF Fetch, IInv, ShapeInv
  <2>2. ASSUME NEW b \in Arches PROVE OutputInv(b)'
    <3>1. seeds'[b] = seeds[b] \/ seeds[b] = Nothing
      BY <1>1 DEF Fetch, IInv, ShapeInv
    <3>2. Resolving(b) => seeds[b] # Nothing
      BY DEF IInv, OutputInv
    <3>3. QED BY <1>1, <3>1, <3>2 DEF Fetch, IInv, OutputInv, Resolving, HalfSource
  <2>3. QED BY <2>1, <2>2
<1>2. CASE \/ BeginResolve(a) \/ Download(a) \/ RecordBinary(a) \/ ListSources(a)
           \/ RecordSource(a) \/ FinishResolve(a)
  BY <1>2, ResolverSteps
<1>3. CASE Render(a)
  <2>1. ShapeInv'
    BY <1>3 DEF Render, IInv, ShapeInv
  <2>2. QED BY <1>3, <2>1, OutputFrame DEF Render, IInv
<1>4. CASE RenderKilled(a)
  <2>1. failures' \in 0 .. MaxFailures
    BY <1>4, RefreshAssumption DEF RenderKilled, Fail, IInv, ShapeInv
  <2>2. ShapeInv'
    BY <1>4, <2>1 DEF RenderKilled, IInv, ShapeInv
  <2>3. QED BY <1>4, <2>2, OutputFrame DEF RenderKilled, IInv
<1>5. CASE ResolverFails(a) \/ ListingFails(a) \/ SortFails(a)
  BY <1>5, FailedStep
<1>6. QED BY <1>1, <1>2, <1>3, <1>4, <1>5 DEF Command, CommandFails

\* What render-lock.py accepts was not half written, but for a cut and for lost
\* sources.
LEMMA RenderableIsWhole ==
  ASSUME IInv, NEW a \in Arches, Renderable(a)
  PROVE  PartLock(RenderedNow(a), a) /\ (a \notin cut => WholeLock(RenderedNow(a), a))
<1>1. HalfSource(output[a], a)
  BY DEF IInv, OutputInv, Renderable, Fresh, HalfBinary
<1>2. inputs \in Inputs
  BY DEF IInv, ShapeInv
<1>3. Part(output[a].binary, a)
  BY <1>1 DEF HalfSource, Whole, Part
<1>4. a \notin cut =>
        Whole(output[a].binary, a) /\ output[a].source \subseteq Sources(output[a].binary)
  BY <1>1 DEF HalfSource
<1>5. QED BY <1>2, <1>3, <1>4, RenderedIsPart, RenderedIsWhole DEF RenderedNow

LEMMA CandidateStep ==
  ASSUME IInv, NEW a \in Arches, Command(a) \/ CommandFails(a), UNCHANGED tree
  PROVE  LocksInv'
<1>1. locks' = locks
  BY DEF tree
<1>2. CASE Render(a) \/ RenderKilled(a)
  <2>1. \E l : /\ candidate' = [candidate EXCEPT ![a] = l]
               /\ l # Broken => PartLock(l, a) /\ (a \notin cut => WholeLock(l, a))
    BY <1>2, RenderableIsWhole DEF Render, RenderKilled
  <2>2. PICK l : /\ candidate' = [candidate EXCEPT ![a] = l]
                 /\ l # Broken => PartLock(l, a) /\ (a \notin cut => WholeLock(l, a))
    BY <2>1
  <2>3. \A b \in Arches : candidate'[b] = IF b = a THEN l ELSE candidate[b]
    BY <2>2 DEF IInv, ShapeInv
  <2>4. cut' = cut
    BY <1>2 DEF Render, RenderKilled
  <2>5. QED BY <1>1, <2>2, <2>3, <2>4 DEF IInv, LocksInv
<1>3. CASE ~(Render(a) \/ RenderKilled(a))
  <2>1. candidate' = candidate /\ cut \subseteq cut'
    BY <1>3 DEF Command, CommandFails, Fetch, BeginResolve, Download, RecordBinary,
       ListSources, RecordSource, FinishResolve, ResolverFails, ListingFails, SortFails,
       ResolverStep, ResolverLeft
  <2>2. QED BY <1>1, <2>1 DEF IInv, LocksInv
<1>4. QED BY <1>2, <1>3

\* What was verified follows its inputs: in particular the NGINX package is the
\* reviewed seed, down to the key that signed it.
LEMMA VerifiedFollows ==
  ASSUME IInv, Verified(inputs, locks, inventory), NEW a \in Arches
  PROVE  /\ Seed(inputs, a) \in locks[a].packages
         /\ \A p \in locks[a].packages : p.key \in inputs.keys
         /\ locks[a].base = inputs.base
<1> DEFINE l == locks[a]
           seedsIn == {p \in l.packages : p.name = "nginx"}
<1>1. ValidLock(l) /\ FollowsInputs(l, inputs) /\ l.arch = a
  BY DEF Verified
<1>2. PartLock(l, a) /\ inputs \in Inputs
  BY <1>1 DEF IInv, LocksInv, ShapeInv, ValidLock
<1>3. Cardinality(seedsIn) = 1
  BY <1>1 DEF ValidLock
<1>4. seedsIn # {}
  BY <1>3, FS_EmptySet
<1>5. PICK p \in l.packages : p.name = "nginx"
  BY <1>4
<1>6. PICK i \in Inputs : p = Seed(i, a)
  BY <1>2, <1>5, OneSeed DEF PartLock
<1>7. p.source = l.nginx /\ l.nginx = inputs.nginx /\ p.sha256 = inputs.seed[a]
  BY <1>1, <1>5 DEF ValidLock, ValidPackage, FollowsInputs
<1>8. i.nginx = inputs.nginx /\ i.seed[a] = inputs.seed[a]
  BY <1>6, <1>7 DEF Seed
<1>9. i.nginxKey = inputs.nginxKey
  BY <1>2, <1>8, RefreshAssumption
<1>10. Seed(inputs, a) = p
  BY <1>6, <1>8, <1>9 DEF Seed
<1>11. \A q \in l.packages : q.key \in inputs.keys
  BY <1>1 DEF ValidLock, ValidPackage, FollowsInputs
<1>12. QED BY <1>1, <1>5, <1>10, <1>11 DEF FollowsInputs

LEMMA MergeStep ==
  ASSUME IInv, Merge PROVE MainInv'
<1>1. main'.inputs = inputs /\ main'.locks = locks
  BY DEF Merge
<1>2. inputs \in Inputs
  BY DEF IInv, ShapeInv
<1>3. Verified(inputs, locks, inventory)
  BY DEF Merge
<1>4. QED BY <1>1, <1>2, <1>3, VerifiedFollows DEF MainInv, MainFollowsInputs

LEMMA NextInv == IInv /\ [Next]_vars => IInv'
<1> SUFFICES ASSUME IInv, [Next]_vars PROVE IInv'
  OBVIOUS
<1> USE DEF operator, tree, world
<1>1. main' = main => MainInv'
  BY DEF IInv, MainInv, MainFollowsInputs
<1>2. ASSUME NEW a \in Arches, Command(a) \/ CommandFails(a), UNCHANGED <<world, tree, main>>
      PROVE  IInv'
  BY <1>1, <1>2, CommandStep, CandidateStep DEF IInv
<1>3. ASSUME StartOver, UNCHANGED <<world, tree, main>> PROVE IInv'
  <2>1. ShapeInv'
    BY <1>3 DEF StartOver, IInv, ShapeInv
  <2>2. \A a \in Arches : OutputInv(a)'
    BY <1>3 DEF StartOver, OutputInv, Resolving
  <2>3. LocksInv'
    BY <1>3 DEF StartOver, IInv, LocksInv
  <2>4. QED BY <1>1, <1>3, <2>1, <2>2, <2>3 DEF IInv
<1>4. ASSUME NEW a \in Arches, Adopt(a), UNCHANGED <<world, operator, failures>> PROVE IInv'
  <2>1. locks' = [locks EXCEPT ![a] = candidate[a]] /\ candidate[a] # Nothing /\ main' = main
    BY <1>4 DEF Adopt
  <2>2. ShapeInv'
    BY <1>4, <2>1 DEF IInv, ShapeInv
  <2>3. \A b \in Arches : locks'[b] = IF b = a THEN candidate[a] ELSE locks[b]
    BY <2>1 DEF IInv, ShapeInv
  <2>4. LocksInv'
    BY <1>4, <2>1, <2>3 DEF IInv, LocksInv
  <2>5. \A b \in Arches : OutputInv(b)'
    BY <1>4, OutputFrame DEF IInv
  <2>6. QED BY <1>1, <2>1, <2>2, <2>4, <2>5 DEF IInv
<1>5. ASSUME Merge, UNCHANGED <<world, operator, failures>> PROVE IInv'
  <2>1. UNCHANGED <<locks, inventory>>
    BY <1>5 DEF Merge
  <2>2. ShapeInv' /\ LocksInv'
    BY <1>5, <2>1 DEF IInv, ShapeInv, LocksInv
  <2>3. \A a \in Arches : OutputInv(a)'
    BY <1>5, OutputFrame DEF IInv
  <2>4. QED BY <1>5, <2>2, <2>3, MergeStep DEF IInv
<1>6. ASSUME EditInputs \/ PublishersMove, UNCHANGED <<operator, tree, main, failures>>
      PROVE  IInv'
  <2>1. ShapeInv'
    BY <1>6, RefreshAssumption DEF EditInputs, PublishersMove, Snapshots, IInv, ShapeInv
  <2>2. LocksInv'
    BY <1>6 DEF IInv, LocksInv
  <2>3. \A a \in Arches : OutputInv(a)'
    BY <1>6, OutputFrame DEF IInv
  <2>4. QED BY <1>1, <1>6, <2>1, <2>2, <2>3 DEF IInv
<1>7. ASSUME UNCHANGED vars PROVE IInv'
  <2>1. ShapeInv' /\ LocksInv'
    BY <1>7 DEF vars, IInv, ShapeInv, LocksInv
  <2>2. \A a \in Arches : OutputInv(a)'
    BY <1>7, OutputFrame DEF vars, IInv
  <2>3. QED BY <1>1, <1>7, <2>1, <2>2 DEF vars, IInv
<1>8. QED BY <1>2, <1>3, <1>4, <1>5, <1>6, <1>7 DEF Next

LEMMA Invariance == Spec => []IInv
BY InitInv, NextInv, PTL DEF Spec

-----------------------------------------------------------------------------

\* Every variable keeps its type.
THEOREM Typed == Spec => []TypeOK
<1>1. IInv => TypeOK
  BY PartLockIsLock DEF IInv, ShapeInv, OutputInv, LocksInv, MainInv, TypeOK
<1>2. QED BY Invariance, <1>1, PTL

\* render-lock.py 32-96 with resolve-lock.sh: a candidate that validate_lock
\* accepts is of one snapshot's closure, with its seed and every source; and it
\* is all of that closure, whatever failed before it was rendered, unless its
\* binary inventory was cut short by its listing or its sort.
THEOREM CandidatesWhole == Spec => []ValidCandidateWhole
<1>1. IInv => ValidCandidateWhole
  <2> SUFFICES ASSUME IInv, NEW a \in Arches, ValidLock(candidate[a])
               PROVE  LET l == candidate[a] IN
                      /\ \E s \in Snapshots, i \in Inputs :
                           /\ Seed(i, a) \in l.packages
                           /\ l.packages \subseteq Closure[s][a] \union {Seed(i, a)}
                           /\ a \notin cut => l.packages = Closure[s][a] \union {Seed(i, a)}
                      /\ a \notin cut => l.sources = Sources(l.packages)
    BY DEF ValidCandidateWhole
  <2> DEFINE l == candidate[a]
  <2>1. PartLock(l, a) /\ (a \notin cut => WholeLock(l, a))
    BY DEF IInv, LocksInv, ValidLock
  <2>2. CASE a \notin cut
    BY <2>1, <2>2 DEF WholeLock, Whole, ValidLock
  <2>3. CASE a \in cut
    <3>1. PICK s \in Snapshots, i \in Inputs : l.packages \subseteq Closure[s][a] \union {Seed(i, a)}
      BY <2>1 DEF PartLock, Part
    <3> DEFINE seedsIn == {p \in l.packages : p.name = "nginx"}
    <3>2. Cardinality(seedsIn) = 1
      BY DEF ValidLock
    <3>3. PICK p \in l.packages : p.name = "nginx"
      BY <3>2, FS_EmptySet
    <3>4. p = Seed(i, a)
      BY <3>1, <3>3, RefreshAssumption
    <3>5. QED BY <2>3, <3>1, <3>3, <3>4
  <2>4. QED BY <2>2, <2>3
<1>2. QED BY Invariance, <1>1, PTL

\* components.py 60-206: the locks of the main branch are made of its inputs,
\* whatever order edits, fetches, resolutions and renderings came in.
THEOREM MainMatchesInputs == Spec => []MainFollowsInputs
<1>1. IInv => MainFollowsInputs
  BY DEF IInv, MainInv
<1>2. QED BY Invariance, <1>1, PTL

-----------------------------------------------------------------------------
(***************************************************************************)
(* Coherence across the architectures.  The inventory compares builds: the *)
(* names and sources of packages.  That is enough where publishers that    *)
(* offer both architectures the same builds at any two times do so at one, *)
(* and where a part of one closure has the builds of a whole closure of    *)
(* the other architecture only if it is a whole closure itself.            *)
(***************************************************************************)
Builds(packages) == {<<p.name, p.source>> : p \in packages}

SameBuildsOnce ==
  \A s, t \in Snapshots :
    Builds(Closure[s]["amd64"]) = Builds(Closure[t]["arm64"]) =>
      \E u \in Snapshots : /\ Closure[u]["amd64"] = Closure[s]["amd64"]
                           /\ Closure[u]["arm64"] = Closure[t]["arm64"]

WholeByBuilds ==
  \A s, t \in Snapshots, a, b \in Arches : \A P \in SUBSET Closure[t][b] :
    Builds(P) = Builds(Closure[s][a]) => \E u \in Snapshots : P = Closure[u][b]

Others(packages) == {p \in packages : p.name # "nginx"}

LEMMA OthersOfPart ==
  ASSUME NEW a \in Arches, NEW P, Part(P, a)
  PROVE  \E s \in Snapshots : Others(P) \subseteq Closure[s][a]
<1>1. PICK s \in Snapshots, i \in Inputs : P \subseteq Closure[s][a] \union {Seed(i, a)}
  BY DEF Part
<1>2. Seed(i, a).name = "nginx"
  BY DEF Seed
<1>3. Others(P) \subseteq Closure[s][a]
  BY <1>1, <1>2 DEF Others
<1>4. QED BY <1>3

\* One lock that is whole makes both whole, and of one snapshot.
LEMMA BothWhole ==
  ASSUME SameBuildsOnce, WholeByBuilds, NEW Q,
         \A a \in Arches : \E s \in Snapshots : Q[a] \subseteq Closure[s][a],
         Builds(Q["amd64"]) = Builds(Q["arm64"]),
         NEW c \in Arches, NEW s \in Snapshots, Q[c] = Closure[s][c]
  PROVE  \E u \in Snapshots : \A a \in Arches : Q[a] = Closure[u][a]
<1>1. "amd64" \in Arches /\ "arm64" \in Arches /\ Arches = {"amd64", "arm64"}
  BY DEF Arches
<1>2. ASSUME NEW a \in Arches PROVE \E t \in Snapshots : Q[a] = Closure[t][a]
  <2>1. PICK t \in Snapshots : Q[a] \subseteq Closure[t][a]
    OBVIOUS
  <2>2. Builds(Q[a]) = Builds(Closure[s][c])
    BY <1>1
  <2>3. QED BY <2>1, <2>2 DEF WholeByBuilds
<1>3. PICK t \in Snapshots : Q["amd64"] = Closure[t]["amd64"]
  BY <1>1, <1>2
<1>4. PICK v \in Snapshots : Q["arm64"] = Closure[v]["arm64"]
  BY <1>1, <1>2
<1>5. PICK u \in Snapshots : /\ Closure[u]["amd64"] = Closure[t]["amd64"]
                            /\ Closure[u]["arm64"] = Closure[v]["arm64"]
  BY <1>3, <1>4 DEF SameBuildsOnce
<1>6. QED BY <1>1, <1>3, <1>4, <1>5

LEMMA MergeCoherent ==
  ASSUME SameBuildsOnce, WholeByBuilds, IInv, Merge PROVE MainCoherent'
<1> DEFINE Q == [a \in Arches |-> Others(locks[a].packages)]
<1>1. main'.locks = locks /\ Verified(inputs, locks, inventory)
  BY DEF Merge
<1>2. ASSUME NEW a \in Arches
      PROVE  /\ \E s \in Snapshots : Others(locks[a].packages) \subseteq Closure[s][a]
             /\ Builds(locks[a].packages) =
                  {<<n, inventory.source[n]>> : n \in DOMAIN inventory.source}
  <2>1. PartLock(locks[a], a)
    BY <1>1 DEF IInv, LocksInv, Verified, ValidLock
  <2>2. \E s \in Snapshots : Others(locks[a].packages) \subseteq Closure[s][a]
    BY <2>1, OthersOfPart DEF PartLock
  <2>3. /\ {p.name : p \in locks[a].packages} = DOMAIN inventory.source
        /\ \A p \in locks[a].packages : inventory.source[p.name] = p.source
    BY <1>1 DEF Verified, SameNames, Named
  <2>4. QED BY <2>2, <2>3 DEF Builds
<1>3. \A P : Builds(Others(P)) = {b \in Builds(P) : b[1] # "nginx"}
  BY DEF Builds, Others
<1>4. \A a \in Arches : Q[a] = Others(locks[a].packages)
  OBVIOUS
<1>5. Builds(Q["amd64"]) = Builds(Q["arm64"])
  BY <1>2, <1>3, <1>4 DEF Arches
<1>6. \A a \in Arches : OnMain(a)' = Q[a]
  BY <1>1, <1>4 DEF OnMain, Others
<1>7. \A a \in Arches : \E s \in Snapshots : Q[a] \subseteq Closure[s][a]
  BY <1>2, <1>4
<1> HIDE DEF Q
<1>8. (\E a \in Arches, s \in Snapshots : Q[a] = Closure[s][a]) =>
        \E s \in Snapshots : \A a \in Arches : Q[a] = Closure[s][a]
  BY <1>5, <1>7, BothWhole
<1>9. QED BY <1>6, <1>7, <1>8 DEF MainCoherent

LEMMA InitCoherent == Init => MainCoherent
<1> SUFFICES ASSUME Init PROVE MainCoherent
  OBVIOUS
<1>1. 1 \in Snapshots
  BY RefreshAssumption DEF Snapshots
<1>2. ASSUME NEW a \in Arches
      PROVE  OnMain(a) = Closure[1][a]
  <2>1. main.locks[a].packages = Closure[1][a] \union {Seed(FirstInputs, a)}
    BY DEF Init, FirstLock, Rendered
  <2>2. Seed(FirstInputs, a).name = "nginx" /\ \A p \in Closure[1][a] : p.name # "nginx"
    BY <1>1, RefreshAssumption DEF Seed
  <2>3. QED BY <2>1, <2>2 DEF OnMain
<1>3. QED BY <1>1, <1>2 DEF MainCoherent

\* components.py 125-150: the source names of one inventory against both locks
\* keep two releases of the closure from meeting on the main branch, and a lock
\* that was cut short from meeting a whole one.
THEOREM OneReleaseOnMain ==
  ASSUME SameBuildsOnce, WholeByBuilds PROVE Spec => []MainCoherent
<1>1. IInv /\ MainCoherent /\ [Next]_vars => MainCoherent'
  <2> SUFFICES ASSUME IInv, MainCoherent, [Next]_vars PROVE MainCoherent'
    OBVIOUS
  <2>1. Merge \/ main' = main
    BY DEF Next, EditInputs, PublishersMove, Adopt, vars
  <2>2. QED BY <2>1, MergeCoherent DEF MainCoherent, OnMain
<1>2. QED BY <1>1, Invariance, InitCoherent, PTL DEF Spec

-----------------------------------------------------------------------------
(***************************************************************************)
(* What RefreshCompletes rests on, without its fairness: the commands that *)
(* Fairness names never come to an end before the inputs are on the main   *)
(* branch.  The guards are those of the actions; a command that would      *)
(* write what is there already does not count.                             *)
(***************************************************************************)
CommandReady(a) ==
  \/ seeds[a] = Nothing
  \/ resolver[a] = "idle" /\ output[a] = Nothing
  \/ resolver[a] = "download" /\ seeds[a].nginxKey \in seeds[a].keys
  \/ /\ resolver[a] = "binary"
     /\ output[a].binary = output[a].rpms \/ output[a].rpms \ output[a].binary # {}
  \/ /\ resolver[a] = "source"
     /\ \/ Sources(output[a].binary) = output[a].source
        \/ Sources(output[a].binary) \ output[a].source # {}
  \/ Renderable(a) /\ candidate[a] # RenderedNow(a)

AdoptReady(a) ==
  /\ candidate[a] # Nothing
  /\ \/ locks[a] # candidate[a]
     \/ inventory.bound # locks /\ \A b \in Arches : locks[b] # Broken

StartOverReady == (\A a \in Arches : ~Resolving(a)) /\ MustStartOver

NoDeadEnd ==
  \/ main.inputs = inputs
  \/ \E a \in Arches : CommandReady(a) \/ AdoptReady(a)
  \/ StartOverReady
  \/ Verified(inputs, locks, inventory)

\* The output directory is there before the resolver does anything else, and
\* only starting over takes it away.
IdleIsEmpty == \A a \in Arches : resolver[a] = "idle" => output[a] = Nothing

LEMMA IdleStays == Spec => []IdleIsEmpty
<1>1. Init => IdleIsEmpty
  BY DEF Init, IdleIsEmpty
<1>2. IInv /\ IdleIsEmpty /\ [Next]_vars => IdleIsEmpty'
  <2> SUFFICES ASSUME IInv, IdleIsEmpty, [Next]_vars, NEW b \in Arches
               PROVE  (resolver[b] = "idle" => output[b] = Nothing)'
    BY DEF IdleIsEmpty
  <2>1. CASE UNCHANGED <<resolver, output>>
    BY <2>1 DEF IdleIsEmpty
  <2>2. ASSUME NEW a \in Arches, NEW from, NEW to \in {"download", "binary", "source", "done"},
               NEW dir, ResolverStep(a, from, to, dir)
        PROVE  (resolver[b] = "idle" => output[b] = Nothing)'
    <3>1. resolver'[b] = (IF b = a THEN to ELSE resolver[b]) /\ (b # a => output'[b] = output[b])
      BY <2>2 DEF ResolverStep, IInv, ShapeInv
    <3>2. QED BY <2>2, <3>1 DEF IdleIsEmpty
  <2>3. ASSUME NEW a \in Arches, Command(a) PROVE (resolver[b] = "idle" => output[b] = Nothing)'
    <3>1. CASE Fetch(a) \/ Render(a)
      BY <2>1, <3>1 DEF Fetch, Render
    <3>2. CASE BeginResolve(a) \/ Download(a)
      BY <2>2, <3>2 DEF BeginResolve, Download
    <3>3. CASE RecordBinary(a) \/ ListSources(a)
      BY <2>2, <3>3 DEF RecordBinary, ListSources
    <3>4. CASE RecordSource(a) \/ FinishResolve(a)
      BY <2>2, <3>4 DEF RecordSource, FinishResolve
    <3>5. QED BY <2>3, <3>1, <3>2, <3>3, <3>4 DEF Command
  <2>4. ASSUME NEW a \in Arches, CommandFails(a)
        PROVE  (resolver[b] = "idle" => output[b] = Nothing)'
    <3>1. CASE RenderKilled(a)
      BY <2>1, <3>1 DEF RenderKilled
    <3>2. CASE ResolverFails(a) \/ ListingFails(a) \/ SortFails(a)
      <4>1. /\ \E to \in {"source", "failed"} :
                  resolver'[b] = IF b = a THEN to ELSE resolver[b]
            /\ b # a => output'[b] = output[b]
        BY <3>2 DEF ResolverFails, ListingFails, SortFails, ResolverLeft, IInv, ShapeInv
      <4>2. QED BY <4>1 DEF IdleIsEmpty
    <3>3. QED BY <2>4, <3>1, <3>2 DEF CommandFails
  <2>5. CASE StartOver
    BY <2>5 DEF StartOver
  <2>6. QED BY <2>1, <2>3, <2>4, <2>5 DEF Next, operator, vars
<1>3. QED BY <1>1, <1>2, Invariance, PTL DEF Spec

\* A resolver under way can always take its next step.
LEMMA ResolvingIsReady ==
  ASSUME IInv, NEW a \in Arches, Resolving(a) PROVE CommandReady(a)
<1>1. CASE resolver[a] = "download"
  <2>1. seeds[a] \in Inputs
    BY <1>1 DEF IInv, ShapeInv, OutputInv, Resolving
  <2>2. QED BY <1>1, <2>1, RefreshAssumption DEF CommandReady
<1>2. CASE resolver[a] = "binary"
  <2>1. output[a].binary \subseteq output[a].rpms
    BY <1>2 DEF IInv, OutputInv, HalfBinary
  <2>2. QED BY <1>2, <2>1 DEF CommandReady
<1>3. CASE resolver[a] = "source"
  <2>1. output[a].source \subseteq Sources(output[a].binary)
    BY <1>3 DEF IInv, OutputInv
  <2>2. QED BY <1>3, <2>1 DEF CommandReady
<1>4. QED BY <1>1, <1>2, <1>3 DEF Resolving

\* What can be rendered is a lock.
LEMMA RenderedIsLock ==
  ASSUME IInv, NEW a \in Arches, Renderable(a) PROVE RenderedNow(a) \notin {Nothing, Broken}
<1>1. inputs \in Inputs /\ output[a] \in Directories
  BY DEF IInv, ShapeInv, Renderable
<1>2. output[a].binary \in SUBSET Packages /\ output[a].source \in SUBSET Sources(Packages)
  BY <1>1 DEF Directories, Renderable
<1>3. QED BY <1>1, <1>2, LockAssumption DEF RenderedNow

\* fetch-lock-inputs.py 43 and resolve-lock.sh 19 refuse what is there already,
\* render-lock.py what is empty; whatever failures, edits and publishers left, there
\* is a command, an adoption, a new start or a merge that goes on from it.
THEOREM RefreshNeverStuck == Spec => []NoDeadEnd
<1>1. IInv /\ IdleIsEmpty => NoDeadEnd
  <2> SUFFICES ASSUME IInv, IdleIsEmpty, ~StartOverReady, ~Verified(inputs, locks, inventory),
                      \A a \in Arches : ~CommandReady(a) /\ ~AdoptReady(a)
               PROVE  FALSE
    BY DEF NoDeadEnd
  <2>1. \A a \in Arches : ~Resolving(a)
    BY ResolvingIsReady
  <2>2. ~MustStartOver
    BY <2>1 DEF StartOverReady
  <2>3. ASSUME NEW a \in Arches
        PROVE  resolver[a] = "done" /\ Renderable(a) /\ candidate[a] = RenderedNow(a)
    <3>1. resolver[a] # "idle"
      BY DEF IdleIsEmpty, CommandReady
    <3>2. resolver[a] # "failed"
      BY <2>2 DEF MustStartOver
    <3>3. resolver[a] = "done"
      BY <2>1, <3>1, <3>2 DEF IInv, ShapeInv, Resolving
    <3>4. Renderable(a)
      BY <2>2, <3>3 DEF MustStartOver
    <3>5. QED BY <3>3, <3>4 DEF CommandReady
  <2>4. ASSUME NEW a \in Arches
        PROVE  locks[a] = RenderedNow(a) /\ locks[a] # Broken /\ candidate[a] # Nothing
    <3>1. RenderedNow(a) \notin {Nothing, Broken}
      BY <2>3, RenderedIsLock
    <3>2. QED BY <2>3, <3>1 DEF AdoptReady
  <2>5. "amd64" \in Arches
    BY DEF Arches
  <2>6. inventory.bound = locks
    BY <2>4, <2>5 DEF AdoptReady
  <2>7. QED BY <2>2, <2>3, <2>4, <2>6 DEF MustStartOver
<1>2. QED BY <1>1, Invariance, IdleStays, PTL

-----------------------------------------------------------------------------
(***************************************************************************)
(* And each round is finite: nothing but a new start takes a resolver back.*)
(***************************************************************************)
ResolverRank ==
  [step \in {"idle", "download", "binary", "source", "done", "failed"} |->
     CASE step = "idle" -> 4 [] step = "download" -> 3 [] step = "binary" -> 2
       [] step = "source" -> 1 [] OTHER -> 0]

\* What the inventory that is being written does not list yet.
Unlisted(a) ==
  IF resolver[a] = "binary" THEN output[a].rpms \ output[a].binary
  ELSE IF resolver[a] = "source" THEN Sources(output[a].binary) \ output[a].source
  ELSE {}

Advances(a) ==
  \/ ResolverRank[resolver'[a]] < ResolverRank[resolver[a]]
  \/ resolver'[a] = resolver[a] /\ Cardinality(Unlisted(a)') < Cardinality(Unlisted(a))

Touched(a) == resolver'[a] # resolver[a] \/ output'[a] # output[a]

OnlyStartOverGoesBack == [][~StartOver => \A a \in Arches : Touched(a) => Advances(a)]_vars

LEMMA SourcesFinite ==
  ASSUME NEW P, IsFiniteSet(P) PROVE IsFiniteSet(Sources(P))
<1> DEFINE f == [p \in P |-> p.source]
<1>1. f \in Surjection(P, Sources(P))
  BY DEF Surjection, Sources
<1>2. QED BY <1>1, FS_Surjection

LEMMA UnlistedFinite ==
  ASSUME IsFiniteSet(Packages), IInv, NEW a \in Arches
  PROVE  IsFiniteSet(Unlisted(a)) /\ Cardinality(Unlisted(a)) \in Nat
<1>1. \E S : IsFiniteSet(S) /\ Unlisted(a) \subseteq S
  <2>1. CASE resolver[a] = "binary"
    <3>1. output[a].rpms \subseteq Packages
      BY <2>1, WholePackages DEF IInv, OutputInv, HalfBinary
    <3>2. QED BY <2>1, <3>1 DEF Unlisted
  <2>2. CASE resolver[a] = "source"
    <3>1. output[a].binary \subseteq Packages
      BY <2>2, WholePackages DEF IInv, OutputInv, HalfSource
    <3>2. IsFiniteSet(Sources(output[a].binary))
      BY <3>1, FS_Subset, SourcesFinite
    <3>3. QED BY <2>2, <3>2 DEF Unlisted
  <2>3. CASE resolver[a] \notin {"binary", "source"}
    BY <2>3, FS_EmptySet DEF Unlisted
  <2>4. QED BY <2>1, <2>2, <2>3
<1>2. PICK S : IsFiniteSet(S) /\ Unlisted(a) \subseteq S
  BY <1>1
<1>3. IsFiniteSet(Unlisted(a))
  BY <1>2, FS_Subset
<1>4. QED BY <1>3, FS_CardinalityType

\* One line of an inventory.
LEMMA OneLess ==
  ASSUME NEW S, IsFiniteSet(S), NEW x \in S
  PROVE  Cardinality(S \ {x}) < Cardinality(S)
<1>1. Cardinality(S) \in Nat
  BY FS_CardinalityType
<1>2. Cardinality(S \ {x}) = Cardinality(S) - 1
  BY FS_RemoveElement
<1>3. QED BY <1>1, <1>2

LEMMA OwnAdvances ==
  ASSUME IsFiniteSet(Packages), IInv, NEW a \in Arches, Command(a) \/ CommandFails(a), Touched(a)
  PROVE  Advances(a)
<1> DEFINE o == output[a]
<1>1. resolver \in [Arches -> {"idle", "download", "binary", "source", "done", "failed"}]
      /\ output \in [Arches -> {Nothing} \union Directories]
  BY DEF IInv, ShapeInv
<1>2. CASE Fetch(a) \/ Render(a) \/ RenderKilled(a)
  BY <1>2 DEF Fetch, Render, RenderKilled, Touched
<1>3. CASE BeginResolve(a) \/ Download(a) \/ ListSources(a) \/ FinishResolve(a)
  <2>1. \/ resolver[a] = "idle" /\ resolver'[a] = "download"
        \/ resolver[a] = "download" /\ resolver'[a] = "binary"
        \/ resolver[a] = "binary" /\ resolver'[a] = "source"
        \/ resolver[a] = "source" /\ resolver'[a] = "done"
    BY <1>1, <1>3 DEF BeginResolve, Download, ListSources, FinishResolve, ResolverStep
  <2>2. QED BY <2>1 DEF Advances, ResolverRank
<1>4. CASE ResolverFails(a) \/ ListingFails(a) \/ SortFails(a)
  <2>1. \/ Resolving(a) /\ resolver'[a] = "failed"
        \/ resolver[a] = "binary" /\ resolver'[a] = "source"
    BY <1>1, <1>4 DEF ResolverFails, ListingFails, SortFails, ResolverLeft, Resolving
  <2>2. QED BY <2>1 DEF Advances, ResolverRank, Resolving
<1>5. CASE RecordBinary(a)
  <2>1. PICK p \in o.rpms \ o.binary :
          ResolverStep(a, "binary", "binary", [o EXCEPT !.binary = @ \union {p}])
    BY <1>5 DEF RecordBinary
  <2>2. resolver[a] = "binary" /\ resolver'[a] = "binary"
        /\ output'[a] = [o EXCEPT !.binary = @ \union {p}]
    BY <1>1, <2>1 DEF ResolverStep
  <2>3. o \in Directories
    BY <1>1, <2>2 DEF IInv, OutputInv
  <2>4. output'[a].rpms = o.rpms /\ output'[a].binary = o.binary \union {p}
    BY <2>2, <2>3 DEF Directories
  <2>5. Unlisted(a)' = Unlisted(a) \ {p} /\ p \in Unlisted(a)
    BY <2>2, <2>4 DEF Unlisted
  <2>6. QED BY <2>2, <2>5, UnlistedFinite, OneLess DEF Advances
<1>6. CASE RecordSource(a)
  <2>1. PICK s \in Sources(o.binary) \ o.source :
          ResolverStep(a, "source", "source", [o EXCEPT !.source = @ \union {s}])
    BY <1>6 DEF RecordSource
  <2>2. resolver[a] = "source" /\ resolver'[a] = "source"
        /\ output'[a] = [o EXCEPT !.source = @ \union {s}]
    BY <1>1, <2>1 DEF ResolverStep
  <2>3. o \in Directories
    BY <1>1, <2>2 DEF IInv, OutputInv
  <2>4. output'[a].binary = o.binary /\ output'[a].source = o.source \union {s}
    BY <2>2, <2>3 DEF Directories
  <2>5. Unlisted(a)' = Unlisted(a) \ {s} /\ s \in Unlisted(a)
    BY <2>2, <2>4 DEF Unlisted
  <2>6. QED BY <2>2, <2>5, UnlistedFinite, OneLess DEF Advances
<1>7. QED BY <1>2, <1>3, <1>4, <1>5, <1>6 DEF Command, CommandFails

\* The commands of one architecture leave the other's resolver alone.
LEMMA OtherArchRests ==
  ASSUME IInv, NEW a \in Arches, NEW b \in Arches, b # a, Command(a) \/ CommandFails(a)
  PROVE  ~Touched(b)
<1>1. resolver = [c \in Arches |-> resolver[c]] /\ output = [c \in Arches |-> output[c]]
  BY DEF IInv, ShapeInv
<1>2. ASSUME NEW from, NEW to, NEW dir, ResolverStep(a, from, to, dir) PROVE ~Touched(b)
  BY <1>1, <1>2 DEF ResolverStep, Touched
<1>3. CASE Fetch(a) \/ Render(a) \/ RenderKilled(a)
  BY <1>3 DEF Fetch, Render, RenderKilled, Touched
<1>4. CASE BeginResolve(a) \/ Download(a) \/ RecordBinary(a)
  BY <1>2, <1>4 DEF BeginResolve, Download, RecordBinary
<1>5. CASE ListSources(a) \/ RecordSource(a) \/ FinishResolve(a)
  BY <1>2, <1>5 DEF ListSources, RecordSource, FinishResolve
<1>6. CASE ResolverFails(a) \/ ListingFails(a) \/ SortFails(a)
  <2>1. resolver'[b] = resolver[b] /\ output'[b] = output[b]
    BY <1>1, <1>6 DEF ResolverFails, ListingFails, SortFails, ResolverLeft
  <2>2. QED BY <2>1 DEF Touched
<1>7. QED BY <1>3, <1>4, <1>5, <1>6 DEF Command, CommandFails

\* resolve-lock.sh: until the operator starts over, every change of a resolver's
\* directory is one step of finitely many towards its end or its failure, for
\* each architecture whatever happens to the other; so there is no round
\* without an end, only rounds that a failure or other inputs make repeat.
THEOREM RoundsEnd ==
  ASSUME IsFiniteSet(Packages)
  PROVE  Spec => OnlyStartOverGoesBack
<1>1. ASSUME IInv, Next, ~StartOver, NEW b \in Arches, Touched(b) PROVE Advances(b)
  <2>1. CASE \E a \in Arches : Command(a) \/ CommandFails(a)
    BY <1>1, <2>1, OwnAdvances, OtherArchRests
  <2>2. CASE UNCHANGED operator
    BY <1>1, <2>2 DEF operator, Touched
  <2>3. QED BY <1>1, <2>1, <2>2 DEF Next
<1>2. IInv /\ [Next]_vars => [~StartOver => \A a \in Arches : Touched(a) => Advances(a)]_vars
  BY <1>1
<1>3. QED BY <1>2, Invariance, PTL DEF Spec, OnlyStartOverGoesBack
=============================================================================
