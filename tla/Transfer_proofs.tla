--------------------------- MODULE Transfer_proofs ---------------------------
(***************************************************************************)
(* Theorems about Transfer, for any number of creators, any payload, any   *)
(* edits of the staging directory and any two orders of paths.             *)
(***************************************************************************)
EXTENDS Transfer, TLAPS

(***************************************************************************)
(* Lemmas about sequences and payloads.                                    *)
(***************************************************************************)
LEMMA SeqMonotonic ==
  ASSUME NEW S, NEW T, S \subseteq T, NEW s \in Seq(S) PROVE s \in Seq(T)
OBVIOUS

LEMMA PutTyped ==
  ASSUME NEW f \in Payloads, NEW p \in Paths, NEW x \in File
  PROVE  Put(f, p, x) \in Payloads /\ DOMAIN Put(f, p, x) = DOMAIN f \union {p}
<1>1. PICK S \in SUBSET Paths : f \in [S -> File]
  BY DEF Payloads
<1>2. S \union {p} \in SUBSET Paths
  OBVIOUS
<1>3. Put(f, p, x) \in [S \union {p} -> File]
  BY <1>1 DEF Put
<1>4. QED BY <1>1, <1>2, <1>3 DEF Payloads

LEMMA WithoutTyped ==
  ASSUME NEW f \in Payloads, NEW p
  PROVE  Without(f, p) \in Payloads /\ DOMAIN Without(f, p) = DOMAIN f \ {p}
<1>1. PICK S \in SUBSET Paths : f \in [S -> File]
  BY DEF Payloads
<1>2. Without(f, p) \in [S \ {p} -> File]
  BY <1>1 DEF Without
<1>3. QED BY <1>1, <1>2 DEF Payloads

LEMMA RootFields ==
  ASSUME NEW r \in Roots
  PROVE  /\ r.payload \in Payloads /\ DOMAIN r.payload \subseteq Paths
         /\ r.manifest \in Manifests \union {NoManifest}
BY DEF Roots, Payloads

LEMMA RootEdited ==
  ASSUME NEW r \in Roots, NEW f \in Payloads, NEW m \in Manifests \union {NoManifest}
  PROVE  /\ [r EXCEPT !.payload = f] \in Roots
         /\ [r EXCEPT !.payload = f].payload = f
         /\ [r EXCEPT !.payload = f].manifest = r.manifest
         /\ [r EXCEPT !.manifest = m] \in Roots
         /\ [r EXCEPT !.manifest = m].payload = r.payload
         /\ [r EXCEPT !.manifest = m].manifest = m
         /\ [payload |-> f, manifest |-> m] \in Roots
BY DEF Roots

\* A path that a set's listing names is a path of the set, at one place.
LEMMA ListingTyped ==
  ASSUME NEW S \in SUBSET Paths
  PROVE  ByPath[S] \in Seq(S) /\ ByPath[S] \in Seq(Paths) /\ ToSet(ByPath[S]) = S
BY OrderAssumption, SeqMonotonic

-----------------------------------------------------------------------------
(***************************************************************************)
(* Types.                                                                  *)
(***************************************************************************)
LEMMA InitTyped == Init => TypeOK
<1> SUFFICES ASSUME Init PROVE TypeOK
  OBVIOUS
<1>1. root \in Roots
  <2>1. PICK f \in [Payload -> Contents] : root = [payload |-> f, manifest |-> NoManifest]
    BY DEF Init
  <2>2. Payload \in SUBSET Paths /\ f \in [Payload -> File]
    BY DEF Paths, File
  <2>3. f \in Payloads
    BY <2>2 DEF Payloads
  <2>4. QED BY <2>1, <2>3, RootEdited DEF Roots
<1>2. received \in Roots
  <2>1. NoFiles \in [{} -> File] /\ {} \in SUBSET Paths
    BY DEF NoFiles
  <2>2. NoFiles \in Payloads
    BY <2>1 DEF Payloads
  <2>3. QED BY <2>2 DEF Init, Roots
<1>3. QED BY <1>1, <1>2, FileAssumption DEF Init, TypeOK, Steps

\* What a creator's step does to everything but its own lists and the set.
LEMMA CreatorTyped ==
  ASSUME TypeOK, NEW c \in Creators, CreatorStep(c), UNCHANGED reception
  PROVE  TypeOK'
<1>1. ASSUME NEW step \in Steps, GoTo(c, step) PROVE pc' \in [Creators -> Steps]
  BY <1>1 DEF TypeOK, GoTo
<1>2. CASE CheckManifest(c)
  BY <1>2 DEF CheckManifest, TypeOK, GoTo, Steps, reception
<1>3. CASE ListFiles(c)
  <2>1. ByPath[DOMAIN root.payload] \in Seq(Paths)
    BY RootFields, ListingTyped DEF TypeOK
  <2>2. QED BY <1>3, <2>1 DEF ListFiles, TypeOK, GoTo, Steps, reception
<1>4. CASE HashFile(c)
  <2> DEFINE p == Head(todo[c])
  <2>1. todo[c] \in Seq(Paths) /\ todo[c] # <<>>
    BY <1>4 DEF HashFile, TypeOK
  <2>2. p \in Paths /\ Tail(todo[c]) \in Seq(Paths)
    BY <2>1
  <2>3. ASSUME p \in DOMAIN root.payload /\ root.payload[p] # Link
        PROVE  [path |-> p, content |-> root.payload[p]] \in Record
    <3>1. root.payload[p] \in File
      BY <2>3, RootFields DEF TypeOK, Payloads
    <3>2. QED BY <2>2, <2>3, <3>1 DEF Record, File
  <2>4. /\ todo' \in [Creators -> Seq(Paths)] /\ found' \in [Creators -> Seq(Record)]
        /\ pc' \in [Creators -> Steps]
    <3>1. CASE p \in DOMAIN root.payload /\ root.payload[p] # Link
      <4> DEFINE rec == [path |-> p, content |-> root.payload[p]]
      <4>1. rec \in Record
        BY <2>3, <3>1
      <4>2. found[c] \in Seq(Record)
        BY DEF TypeOK
      <4> HIDE DEF rec
      <4>3. Append(found[c], rec) \in Seq(Record)
        BY <4>1, <4>2
      <4>4. found' = [found EXCEPT ![c] = Append(@, rec)] /\ todo' = [todo EXCEPT ![c] = Tail(@)]
            /\ pc' = pc
        BY <1>4, <3>1 DEF HashFile, rec
      <4>5. QED BY <2>2, <4>3, <4>4 DEF TypeOK
    <3>2. CASE ~(p \in DOMAIN root.payload /\ root.payload[p] # Link)
      BY <1>1, <1>4, <3>2 DEF HashFile, TypeOK, Steps
    <3>3. QED BY <3>1, <3>2
  <2>5. QED BY <1>4, <2>4 DEF HashFile, TypeOK, reception
<1>5. CASE FinishInventory(c)
  BY <1>5 DEF FinishInventory, TypeOK, GoTo, Steps, reception
<1>6. CASE WriteDraft(c)
  <2>1. Draft[c] \in Paths /\ DraftText \in File
    BY DEF Paths, Drafts, File
  <2>2. root' \in Roots
    BY <1>6, <2>1, RootFields, PutTyped, RootEdited DEF WriteDraft, TypeOK
  <2>3. QED BY <1>6, <2>2 DEF WriteDraft, TypeOK, GoTo, Steps, reception
<1>7. CASE Replace(c)
  <2>1. Manifest(c) \in Manifests
    BY DEF Manifest, Manifests, TypeOK
  <2>2. root' \in Roots
    <3>1. root.payload \in Payloads
      BY RootFields DEF TypeOK
    <3>2. Without(root.payload, Draft[c]) \in Payloads
      BY <3>1, WithoutTyped
    <3>3. [payload |-> Without(root.payload, Draft[c]), manifest |-> Manifest(c)] \in Roots
      BY <2>1, <3>2 DEF Roots
    <3>4. QED BY <1>7, <3>3 DEF Replace, TypeOK
  <2>3. pc' \in [Creators -> Steps]
    BY <1>1, <1>7 DEF Replace, Steps
  <2>4. QED BY <1>7, <2>2, <2>3 DEF Replace, TypeOK, reception
<1>8. CASE PrintDigest(c)
  <2>1. root.manifest \in Manifests \union {NoManifest}
    BY RootFields DEF TypeOK
  <2>2. printed' \in [Creators -> Manifests \union {NoManifest}]
    BY <1>8, <2>1 DEF PrintDigest, TypeOK
  <2>3. pc' \in [Creators -> Steps]
    BY <1>1, <1>8 DEF PrintDigest, Steps
  <2>4. QED BY <1>8, <2>2, <2>3 DEF PrintDigest, TypeOK, reception
<1>9. CASE Interrupt(c)
  BY <1>9 DEF Interrupt, TypeOK, GoTo, Steps, reception
<1>10. CASE UnlinkDraft(c)
  <2>1. root' \in Roots
    BY <1>10, RootFields, WithoutTyped, RootEdited DEF UnlinkDraft, TypeOK
  <2>2. QED BY <1>10, <2>1 DEF UnlinkDraft, TypeOK, GoTo, Steps, reception
<1>11. CASE Kill(c)
  BY <1>11 DEF Kill, TypeOK, GoTo, Steps, reception
<1>12. QED
  BY <1>2, <1>3, <1>4, <1>5, <1>6, <1>7, <1>8, <1>9, <1>10, <1>11 DEF CreatorStep

LEMMA EditTyped == TypeOK /\ EditStaging /\ UNCHANGED reception => TypeOK'
<1> SUFFICES ASSUME TypeOK, EditStaging, UNCHANGED reception PROVE TypeOK'
  OBVIOUS
<1>1. root' \in Roots
  <2>1. ASSUME NEW p \in Payload, NEW x \in Contents \union {Link},
               root' = [root EXCEPT !.payload = Put(@, p, x)]
        PROVE  root' \in Roots
    BY <2>1, RootFields, PutTyped, RootEdited DEF TypeOK, Paths, File
  <2>2. ASSUME NEW p \in DOMAIN root.payload,
               root' = [root EXCEPT !.payload = Without(@, p)]
        PROVE  root' \in Roots
    BY <2>2, RootFields, WithoutTyped, RootEdited DEF TypeOK
  <2>3. CASE root' = [root EXCEPT !.manifest = NoManifest]
    BY <2>3, RootFields, RootEdited DEF TypeOK
  <2>4. QED BY <2>1, <2>2, <2>3 DEF EditStaging
<1>2. edits' \in 0 .. MaxEdits
  BY FileAssumption DEF EditStaging, TypeOK
<1>3. QED BY <1>1, <1>2 DEF EditStaging, TypeOK, reception

LEMMA ShortenedTyped ==
  ASSUME NEW m \in Manifests \union {NoManifest}
  PROVE  Shortened(m) \in Manifests \union {NoManifest}
<1>1. CASE m # NoManifest /\ Len(m.files) > 1
  <2>1. m.files \in Seq(Record) /\ m \in Manifests
    BY <1>1 DEF Manifests
  <2>2. Tail(m.files) \in Seq(Record)
    BY <1>1, <2>1
  <2>3. [m EXCEPT !.files = Tail(@)] \in Manifests
    BY <2>1, <2>2 DEF Manifests
  <2>4. QED BY <1>1, <2>3 DEF Shortened
<1>2. CASE ~(m # NoManifest /\ Len(m.files) > 1)
  BY <1>2 DEF Shortened
<1>3. QED BY <1>1, <1>2

LEMMA CarryTyped == TypeOK /\ Carry => TypeOK'
<1> SUFFICES ASSUME TypeOK, Carry PROVE TypeOK'
  OBVIOUS
<1>1. Altered(root) \subseteq Roots
  <2>1. ASSUME NEW p \in Payload, NEW x \in Contents \union {Link}
        PROVE  [root EXCEPT !.payload = Put(@, p, x)] \in Roots
    BY RootFields, PutTyped, RootEdited DEF TypeOK, Paths, File
  <2>2. ASSUME NEW p \in DOMAIN root.payload
        PROVE  [root EXCEPT !.payload = Without(@, p)] \in Roots
    BY RootFields, WithoutTyped, RootEdited DEF TypeOK
  <2>3. [root EXCEPT !.manifest = Shortened(@)] \in Roots
    BY RootFields, ShortenedTyped, RootEdited DEF TypeOK
  <2>4. QED BY <2>1, <2>2, <2>3 DEF Altered
<1>2. received' \in Roots
  BY <1>1 DEF Carry, TypeOK
<1>3. expected' \in Manifests \union {NoManifest}
  BY DEF Carry, TypeOK
<1>4. QED BY <1>2, <1>3 DEF Carry, TypeOK, creation

LEMMA VerifyTyped == TypeOK /\ Verify => TypeOK'
BY DEF TypeOK, Verify, creation

LEMMA NextTyped == TypeOK /\ [Next]_vars => TypeOK'
<1>1. TypeOK /\ UNCHANGED vars => TypeOK'
  BY DEF TypeOK, vars, creation, reception
<1>2. QED BY <1>1, CreatorTyped, EditTyped, CarryTyped, VerifyTyped DEF Next

\* Every variable keeps its type.
THEOREM Typed == Spec => []TypeOK
BY InitTyped, NextTyped, PTL DEF Spec

-----------------------------------------------------------------------------
(***************************************************************************)
(* Drafts.                                                                 *)
(***************************************************************************)

\* A draft in the set belongs to a creator that may still rename or unlink it,
\* or that was killed.
DraftInv == \A d \in Drafts \intersect DOMAIN root.payload :
  \E c \in Creators : Draft[c] = d /\ pc[c] \in {"replace", "unlink", "killed"}

LEMMA DraftStep ==
  ASSUME TypeOK, DraftInv, NEW c \in Creators, CreatorStep(c)
  PROVE  DraftInv'
<1>1. ASSUME NEW d \in Drafts, d \in DOMAIN root.payload,
             Draft[c] # d \/ pc'[c] \in {"replace", "unlink", "killed"},
             \A e \in Creators \ {c} : pc'[e] = pc[e]
      PROVE  \E e \in Creators : Draft[e] = d /\ pc'[e] \in {"replace", "unlink", "killed"}
  BY <1>1 DEF DraftInv
<1>2. \A e \in Creators \ {c} : pc'[e] = pc[e]
  BY DEF CreatorStep, CheckManifest, ListFiles, HashFile, FinishInventory, WriteDraft, Replace,
         PrintDigest, Interrupt, UnlinkDraft, Kill, GoTo, TypeOK
<1>3. ASSUME UNCHANGED root, pc[c] \in {"replace", "unlink", "killed"} =>
                               pc'[c] \in {"replace", "unlink", "killed"}
      PROVE  DraftInv'
  BY <1>2, <1>3 DEF DraftInv
<1>4. CASE CheckManifest(c) \/ ListFiles(c) \/ HashFile(c) \/ FinishInventory(c) \/ PrintDigest(c)
  BY <1>3, <1>4 DEF CheckManifest, ListFiles, HashFile, FinishInventory, PrintDigest
<1>5. CASE Interrupt(c) \/ Kill(c)
  BY <1>3, <1>5 DEF Interrupt, Kill, GoTo, TypeOK
<1>6. CASE WriteDraft(c)
  <2>1. DOMAIN root'.payload = DOMAIN root.payload \union {Draft[c]}
    <3>1. root.payload \in Payloads /\ Draft[c] \in Paths /\ DraftText \in File
      BY RootFields DEF TypeOK, Paths, Drafts, File
    <3>2. root'.payload = Put(root.payload, Draft[c], DraftText)
      BY <1>6 DEF WriteDraft, TypeOK, Roots
    <3>3. DOMAIN Put(root.payload, Draft[c], DraftText) = DOMAIN root.payload \union {Draft[c]}
      BY <3>1, PutTyped
    <3>4. QED BY <3>2, <3>3
  <2>2. pc'[c] = "replace"
    BY <1>6 DEF WriteDraft, GoTo, TypeOK
  <2>3. QED BY <1>1, <1>2, <2>1, <2>2 DEF DraftInv
<1>7. ASSUME DOMAIN root'.payload = DOMAIN root.payload \ {Draft[c]} PROVE DraftInv'
  BY <1>1, <1>2, <1>7 DEF DraftInv
<1>8. CASE Replace(c)
  <2>1. CASE Draft[c] \in DOMAIN root.payload
    <3>1. root'.payload = Without(root.payload, Draft[c])
      BY <1>8, <2>1 DEF Replace
    <3>2. QED BY <1>7, <3>1, RootFields, WithoutTyped DEF TypeOK
  <2>2. CASE Draft[c] \notin DOMAIN root.payload
    <3>1. root' = root
      BY <1>8, <2>2 DEF Replace
    <3>2. QED BY <1>7, <2>2, <3>1
  <2>3. QED BY <2>1, <2>2
<1>9. CASE UnlinkDraft(c)
  <2>1. root'.payload = Without(root.payload, Draft[c])
    BY <1>9, RootFields, WithoutTyped, RootEdited DEF UnlinkDraft, TypeOK
  <2>2. QED BY <1>7, <2>1, RootFields, WithoutTyped DEF TypeOK
<1>10. QED BY <1>4, <1>5, <1>6, <1>8, <1>9 DEF CreatorStep

LEMMA DraftEdit == TypeOK /\ DraftInv /\ EditStaging => DraftInv'
<1> SUFFICES ASSUME TypeOK, DraftInv, EditStaging PROVE DraftInv'
  OBVIOUS
<1>1. DOMAIN root'.payload \intersect Drafts \subseteq DOMAIN root.payload
  <2>1. ASSUME NEW p \in Payload, NEW x \in Contents \union {Link},
               root' = [root EXCEPT !.payload = Put(@, p, x)]
        PROVE  DOMAIN root'.payload = DOMAIN root.payload \union {p}
    <3>1. root.payload \in Payloads /\ p \in Paths /\ x \in File
      BY RootFields DEF TypeOK, Paths, File
    <3>2. root'.payload = Put(root.payload, p, x)
      BY <2>1 DEF TypeOK, Roots
    <3>3. QED BY <3>1, <3>2, PutTyped
  <2>2. ASSUME NEW p \in DOMAIN root.payload,
               root' = [root EXCEPT !.payload = Without(@, p)]
        PROVE  DOMAIN root'.payload \subseteq DOMAIN root.payload
    <3>1. root'.payload = Without(root.payload, p)
      BY <2>2 DEF TypeOK, Roots
    <3>2. root.payload \in Payloads
      BY RootFields DEF TypeOK
    <3>3. DOMAIN Without(root.payload, p) = DOMAIN root.payload \ {p}
      BY <3>2, WithoutTyped
    <3>4. QED BY <3>1, <3>3
  <2>3. CASE root' = [root EXCEPT !.manifest = NoManifest]
    BY <2>3, RootFields, RootEdited DEF TypeOK
  <2>4. QED BY <2>1, <2>2, <2>3, FileAssumption DEF EditStaging
<1>2. UNCHANGED pc
  BY DEF EditStaging
<1>3. QED BY <1>1, <1>2 DEF DraftInv

\* create_manifest's finally block: creators that ended leave no draft behind,
\* whatever their steps interleave with.
THEOREM DraftsRemoved == Spec => []NoDraftLeft
<1>1. Init => DraftInv
  BY FileAssumption DEF Init, DraftInv
<1>2. TypeOK /\ DraftInv /\ [Next]_vars => DraftInv'
  <2>1. DraftInv /\ UNCHANGED <<root, pc>> => DraftInv'
    BY DEF DraftInv
  <2>2. QED
    BY <2>1, DraftStep, DraftEdit DEF Next, Carry, Verify, vars, creation
<1>3. DraftInv => NoDraftLeft
  BY DEF DraftInv, NoDraftLeft
<1>4. QED BY Typed, <1>1, <1>2, <1>3, PTL DEF Spec

-----------------------------------------------------------------------------
(***************************************************************************)
(* Sealed manifests.                                                       *)
(***************************************************************************)

\* The files hashed so far, and those still to be hashed, are a set's listing.
Listed(files, rest, S) ==
  /\ Len(files) + Len(rest) = Len(ByPath[S])
  /\ \A i \in 1 .. Len(files) : files[i].path = ByPath[S][i] /\ files[i].content # Link
  /\ \A i \in 1 .. Len(rest) : rest[i] = ByPath[S][Len(files) + i]

Complete(files) == \E S \in SUBSET Paths : S # {} /\ Listed(files, <<>>, S)

Progress(step, files, rest) ==
  /\ step \in {"start", "list"} => files = <<>>
  /\ step = "hash" => \E S \in SUBSET Paths : Listed(files, rest, S)
  /\ step \in {"draft", "replace", "print", "done"} => Complete(files)

InventoryInv == \A c \in Creators : Progress(pc[c], found[c], todo[c])

Ended == {"print", "done", "failed", "killed"}

\* The manifests creators have renamed into place.
Seals(steps, contexts, files) ==
  {[context |-> contexts[c], files |-> files[c]] :
     c \in {d \in Creators : steps[d] \in Ended /\ Complete(files[d])}}

SealInv ==
  /\ root.manifest \in Seals(pc, context, found) \union {NoManifest}
  /\ \A c \in Creators : printed[c] \in Seals(pc, context, found) \union {NoManifest}
  /\ expected \in Seals(pc, context, found) \union {NoManifest}

VerdictInv ==
  /\ verdict # "none" => expected # NoManifest
  /\ verdict = "accepted" => VerifyAccepts
  /\ verdict = "rejected" => ~VerifyAccepts

(***************************************************************************)
(* The inventory.                                                          *)
(***************************************************************************)

\* The set just listed.
LEMMA ListedAll ==
  ASSUME NEW S \in SUBSET Paths PROVE Listed(<<>>, ByPath[S], S)
<1>1. ByPath[S] \in Seq(S)
  BY ListingTyped
<1>2. QED BY <1>1 DEF Listed

\* One more file hashed.
LEMMA ListedMore ==
  ASSUME NEW files \in Seq(Record), NEW rest \in Seq(Paths), NEW S \in SUBSET Paths,
         Listed(files, rest, S), rest # <<>>,
         NEW rec \in Record, rec.path = Head(rest), rec.content # Link
  PROVE  Listed(Append(files, rec), Tail(rest), S)
<1> DEFINE more == Append(files, rec)
           less == Tail(rest)
<1>1. /\ Len(more) = Len(files) + 1
      /\ Len(files) \in Nat
      /\ \A i \in 1 .. Len(files) : more[i] = files[i]
      /\ more[Len(files) + 1] = rec
  OBVIOUS
<1>2. /\ Len(rest) \in Nat \ {0} /\ Len(less) = Len(rest) - 1
      /\ \A i \in 1 .. Len(less) : less[i] = rest[i + 1]
      /\ Head(rest) = rest[1]
  OBVIOUS
<1> HIDE DEF more, less
<1>3. rec.path = ByPath[S][Len(files) + 1]
  BY <1>2 DEF Listed
<1>4. Len(more) + Len(less) = Len(ByPath[S])
  <2>1. Len(files) + Len(rest) = Len(ByPath[S])
    BY DEF Listed
  <2>2. Len(rest) \in Nat /\ Len(more) = Len(files) + 1 /\ Len(less) = Len(rest) - 1
    BY <1>1, <1>2
  <2>3. (Len(files) + 1) + (Len(rest) - 1) = Len(files) + Len(rest)
    BY <1>1, <2>2
  <2>4. QED BY <2>1, <2>2, <2>3
<1>5. \A i \in 1 .. Len(more) : more[i].path = ByPath[S][i] /\ more[i].content # Link
  <2> SUFFICES ASSUME NEW i \in 1 .. Len(more)
               PROVE  more[i].path = ByPath[S][i] /\ more[i].content # Link
    OBVIOUS
  <2>1. CASE i = Len(files) + 1
    BY <1>1, <1>3, <2>1
  <2>2. CASE i \in 1 .. Len(files)
    <3>1. more[i] = files[i]
      BY <1>1, <2>2
    <3>2. QED BY <2>2, <3>1 DEF Listed
  <2>3. QED BY <1>1, <2>1, <2>2
<1>6. \A i \in 1 .. Len(less) : less[i] = ByPath[S][Len(more) + i]
  <2> SUFFICES ASSUME NEW i \in 1 .. Len(less) PROVE less[i] = ByPath[S][Len(more) + i]
    OBVIOUS
  <2>1. i \in Nat /\ i + 1 \in 1 .. Len(rest) /\ less[i] = rest[i + 1]
    BY <1>2
  <2>2. rest[i + 1] = ByPath[S][Len(files) + (i + 1)]
    BY <2>1 DEF Listed
  <2>3. Len(files) + (i + 1) = Len(more) + i
    BY <1>1, <2>1
  <2>4. QED BY <2>1, <2>2, <2>3
<1>7. QED BY <1>4, <1>5, <1>6 DEF Listed, more, less

\* The inventory of a set with files is complete.
LEMMA ListedComplete ==
  ASSUME NEW files \in Seq(Record), files # <<>>, NEW S \in SUBSET Paths,
         Listed(files, <<>>, S)
  PROVE  Complete(files)
<1>1. Len(files) \in Nat \ {0}
  OBVIOUS
<1>2. ByPath[S] \in Seq(S) /\ Len(ByPath[S]) \in Nat \ {0}
  BY <1>1, ListingTyped DEF Listed
<1>3. ByPath[S][1] \in S
  BY <1>2
<1>4. QED BY <1>3 DEF Complete

LEMMA ProgressKept ==
  ASSUME NEW step, NEW next, NEW files, NEW rest, Progress(step, files, rest),
         \/ next \in {"failed", "killed", "unlink"}
         \/ step = "start" /\ next = "list"
         \/ step \in {"draft", "replace", "print"} /\ next \in {"replace", "print", "done"}
  PROVE  Progress(next, files, rest)
BY DEF Progress

LEMMA InventoryStep ==
  ASSUME TypeOK, InventoryInv, NEW c \in Creators, CreatorStep(c)
  PROVE  InventoryInv'
<1>1. \A e \in Creators \ {c} :
        pc'[e] = pc[e] /\ found'[e] = found[e] /\ todo'[e] = todo[e]
  BY DEF CreatorStep, CheckManifest, ListFiles, HashFile, FinishInventory, WriteDraft, Replace,
         PrintDigest, Interrupt, UnlinkDraft, Kill, GoTo, TypeOK
<1>2. ASSUME Progress(pc'[c], found'[c], todo'[c]) PROVE InventoryInv'
  BY <1>1, <1>2 DEF InventoryInv
<1>3. CASE CheckManifest(c)
  BY <1>2, <1>3, ProgressKept DEF CheckManifest, GoTo, TypeOK, InventoryInv
<1>4. CASE ListFiles(c)
  <2>1. found'[c] = <<>> /\ pc'[c] = "hash"
    BY <1>4 DEF ListFiles, InventoryInv, Progress, GoTo, TypeOK
  <2>2. todo'[c] = ByPath[DOMAIN root.payload] /\ DOMAIN root.payload \in SUBSET Paths
    BY <1>4, RootFields DEF ListFiles, TypeOK
  <2>3. QED BY <1>2, <2>1, <2>2, ListedAll DEF Progress
<1>5. CASE HashFile(c)
  <2> DEFINE p == Head(todo[c])
             rec == [path |-> p, content |-> root.payload[p]]
  <2>1. CASE p \in DOMAIN root.payload /\ root.payload[p] # Link
    <3>1. PICK S \in SUBSET Paths : Listed(found[c], todo[c], S)
      BY <1>5 DEF HashFile, InventoryInv, Progress
    <3>2. todo[c] \in Seq(Paths) /\ todo[c] # <<>> /\ found[c] \in Seq(Record) /\ p \in Paths
      BY <1>5 DEF HashFile, TypeOK
    <3>3. root.payload[p] \in File
      BY <2>1, RootFields DEF TypeOK, Payloads
    <3>4. rec \in Record /\ rec.path = p /\ rec.content # Link
      BY <2>1, <3>2, <3>3 DEF Record, File
    <3>5. /\ found' = [found EXCEPT ![c] = Append(@, rec)]
          /\ todo' = [todo EXCEPT ![c] = Tail(@)] /\ pc' = pc
      BY <1>5, <2>1 DEF HashFile
    <3> HIDE DEF rec
    <3>6. found'[c] = Append(found[c], rec) /\ todo'[c] = Tail(todo[c]) /\ pc'[c] = "hash"
      BY <1>5, <3>5 DEF HashFile, TypeOK
    <3>7. Listed(found'[c], todo'[c], S)
      BY <3>1, <3>2, <3>4, <3>6, ListedMore
    <3>8. QED BY <1>2, <3>6, <3>7 DEF Progress
  <2>2. CASE ~(p \in DOMAIN root.payload /\ root.payload[p] # Link)
    <3>1. pc'[c] = "failed" /\ UNCHANGED <<found, todo>>
      BY <1>5, <2>2 DEF HashFile, GoTo, TypeOK
    <3>2. QED BY <1>2, <3>1, ProgressKept DEF InventoryInv
  <2>3. QED BY <2>1, <2>2
<1>6. CASE FinishInventory(c)
  <2>1. CASE found[c] = <<>>
    BY <1>2, <1>6, <2>1, ProgressKept DEF FinishInventory, GoTo, TypeOK, InventoryInv
  <2>2. CASE found[c] # <<>>
    <3>1. PICK S \in SUBSET Paths : Listed(found[c], <<>>, S)
      BY <1>6 DEF FinishInventory, InventoryInv, Progress
    <3>2. Complete(found[c])
      BY <2>2, <3>1, ListedComplete DEF TypeOK
    <3>3. pc'[c] = "draft" /\ found' = found
      BY <1>6, <2>2 DEF FinishInventory, GoTo, TypeOK
    <3>4. QED BY <1>2, <3>2, <3>3 DEF Progress
  <2>3. QED BY <2>1, <2>2
<1>7. CASE WriteDraft(c) \/ Interrupt(c) \/ UnlinkDraft(c) \/ Kill(c)
  BY <1>2, <1>7, ProgressKept DEF WriteDraft, Interrupt, UnlinkDraft, Kill, GoTo, TypeOK, InventoryInv
<1>8. CASE Replace(c)
  BY <1>2, <1>8, ProgressKept DEF Replace, GoTo, TypeOK, InventoryInv
<1>9. CASE PrintDigest(c)
  BY <1>2, <1>9, ProgressKept DEF PrintDigest, GoTo, TypeOK, InventoryInv
<1>10. QED BY <1>3, <1>4, <1>5, <1>6, <1>7, <1>8, <1>9 DEF CreatorStep

(***************************************************************************)
(* Seals.  A manifest once renamed into place stays its creator's.         *)
(***************************************************************************)
LEMMA SealsStay ==
  ASSUME TypeOK, NEW c \in Creators, CreatorStep(c)
  PROVE  Seals(pc, context, found) \subseteq Seals(pc', context', found')
<1>1. context' = context
  BY DEF CreatorStep, CheckManifest, ListFiles, HashFile, FinishInventory, WriteDraft, Replace,
         PrintDigest, Interrupt, UnlinkDraft, Kill
<1>2. ASSUME NEW d \in Creators, pc[d] \in Ended PROVE pc'[d] \in Ended /\ found'[d] = found[d]
  BY <1>2 DEF CreatorStep, CheckManifest, ListFiles, HashFile, FinishInventory, WriteDraft,
              Replace, PrintDigest, Interrupt, UnlinkDraft, Kill, GoTo, TypeOK, Ended
<1>3. QED BY <1>1, <1>2 DEF Seals

LEMMA SealStep ==
  ASSUME TypeOK, InventoryInv, SealInv, NEW c \in Creators, CreatorStep(c), UNCHANGED reception
  PROVE  SealInv'
<1> DEFINE old == Seals(pc, context, found)
           new == Seals(pc', context', found')
<1>1. old \subseteq new
  BY SealsStay
<1>2. expected' \in new \union {NoManifest}
  BY <1>1 DEF SealInv, reception
<1>3. ASSUME root'.manifest \in new \union {NoManifest},
             \A d \in Creators : printed'[d] \in new \union {NoManifest}
      PROVE  SealInv'
  BY <1>2, <1>3 DEF SealInv
<1> HIDE DEF old, new
<1>4. ASSUME UNCHANGED <<root, printed>> PROVE SealInv'
  BY <1>1, <1>3, <1>4 DEF SealInv, old
<1>5. CASE CheckManifest(c) \/ ListFiles(c) \/ HashFile(c) \/ FinishInventory(c) \/ Interrupt(c)
           \/ Kill(c)
  BY <1>4, <1>5 DEF CheckManifest, ListFiles, HashFile, FinishInventory, Interrupt, Kill
<1>6. ASSUME root'.manifest = root.manifest, printed' = printed PROVE SealInv'
  BY <1>1, <1>3, <1>6 DEF SealInv, old
<1>7. CASE WriteDraft(c) \/ UnlinkDraft(c)
  <2>1. root'.manifest = root.manifest
    BY <1>7 DEF WriteDraft, UnlinkDraft, TypeOK, Roots
  <2>2. QED BY <1>6, <1>7, <2>1 DEF WriteDraft, UnlinkDraft
<1>8. CASE Replace(c)
  <2>1. CASE Draft[c] \in DOMAIN root.payload
    <3>1. root'.manifest = Manifest(c) /\ pc'[c] = "print" /\ printed' = printed
          /\ context' = context /\ found' = found
      BY <1>8, <2>1 DEF Replace, GoTo, TypeOK
    <3>2. Complete(found[c])
      BY <1>8 DEF Replace, InventoryInv, Progress
    <3>3. Manifest(c) \in new
      BY <3>1, <3>2 DEF new, Seals, Manifest, Ended
    <3>4. QED BY <1>1, <1>3, <3>1, <3>3 DEF SealInv, old
  <2>2. CASE Draft[c] \notin DOMAIN root.payload
    BY <1>4, <1>8, <2>2 DEF Replace
  <2>3. QED BY <2>1, <2>2
<1>9. CASE PrintDigest(c)
  <2>1. \A d \in Creators : printed'[d] = IF d = c THEN root.manifest ELSE printed[d]
    BY <1>9 DEF PrintDigest, TypeOK
  <2>2. root' = root
    BY <1>9 DEF PrintDigest
  <2>3. QED BY <1>1, <1>3, <2>1, <2>2 DEF SealInv, old
<1>10. QED BY <1>5, <1>7, <1>8, <1>9 DEF CreatorStep

LEMMA SealEdit ==
  TypeOK /\ SealInv /\ EditStaging /\ UNCHANGED reception => SealInv'
<1> SUFFICES ASSUME TypeOK, SealInv, EditStaging, UNCHANGED reception PROVE SealInv'
  OBVIOUS
<1>1. root'.manifest \in {root.manifest, NoManifest}
  BY DEF EditStaging, TypeOK, Roots
<1>2. QED BY <1>1 DEF SealInv, EditStaging, reception

LEMMA SealCarry == SealInv /\ Carry => SealInv'
BY DEF SealInv, Carry, creation

LEMMA VerdictNext == VerdictInv /\ [Next]_vars => VerdictInv'
<1> SUFFICES ASSUME VerdictInv, [Next]_vars PROVE VerdictInv'
  OBVIOUS
<1>1. CASE UNCHANGED reception
  BY <1>1 DEF VerdictInv, VerifyAccepts, reception
<1>2. CASE Carry
  BY <1>2 DEF VerdictInv, Carry
<1>3. CASE Verify
  BY <1>3 DEF VerdictInv, Verify, VerifyAccepts
<1>4. QED BY <1>1, <1>2, <1>3 DEF Next, vars

SealedInv == TypeOK /\ InventoryInv /\ SealInv /\ VerdictInv

LEMMA SealedInit == Init => SealedInv
<1> SUFFICES ASSUME Init PROVE SealedInv
  OBVIOUS
<1>1. InventoryInv
  BY DEF Init, InventoryInv, Progress
<1>2. root.manifest = NoManifest
  BY DEF Init
<1>3. SealInv
  BY <1>2 DEF Init, SealInv
<1>4. VerdictInv
  BY DEF Init, VerdictInv
<1>5. QED BY <1>1, <1>3, <1>4, InitTyped DEF SealedInv

LEMMA SealedNext == SealedInv /\ [Next]_vars => SealedInv'
<1> SUFFICES ASSUME SealedInv, [Next]_vars PROVE SealedInv'
  OBVIOUS
<1>1. InventoryInv' /\ SealInv'
  <2>1. CASE UNCHANGED creation /\ (UNCHANGED expected \/ Carry)
    <3>1. InventoryInv'
      BY <2>1 DEF SealedInv, InventoryInv, creation
    <3>2. SealInv'
      BY <2>1, SealCarry DEF SealedInv, SealInv, creation
    <3>3. QED BY <3>1, <3>2
  <2>2. ASSUME NEW c \in Creators, CreatorStep(c), UNCHANGED reception
        PROVE  InventoryInv' /\ SealInv'
    BY <2>2, InventoryStep, SealStep DEF SealedInv
  <2>3. CASE EditStaging /\ UNCHANGED reception
    <3>1. InventoryInv'
      BY <2>3 DEF SealedInv, InventoryInv, EditStaging
    <3>2. QED BY <2>3, <3>1, SealEdit DEF SealedInv
  <2>4. QED BY <2>1, <2>2, <2>3 DEF Next, Carry, Verify, vars, reception
<1>2. QED BY <1>1, NextTyped, VerdictNext DEF SealedInv

LEMMA SealedInvariant == Spec => []SealedInv
BY SealedInit, SealedNext, PTL DEF Spec

(***************************************************************************)
(* What verify compares.                                                   *)
(***************************************************************************)

\* The inventory of a payload lists its records, all of them.
LEMMA InventoryIsRecords ==
  ASSUME NEW f \in Payloads PROVE ToSet(InventoryOf(f)) = Records(f)
<1> DEFINE paths == ByPath[DOMAIN f]
<1>1. DOMAIN f \in SUBSET Paths
  BY DEF Payloads
<1>2. ToSet(paths) = DOMAIN f
  BY <1>1, ListingTyped
<1>3. InventoryOf(f) = [i \in DOMAIN paths |-> [path |-> paths[i], content |-> f[paths[i]]]]
  BY DEF InventoryOf
<1> HIDE DEF paths
<1>4. QED BY <1>2, <1>3 DEF ToSet, Records

\* transfer.py: what the receiver accepts is, record for record, what some
\* creator hashed for the context the receiver expects.
THEOREM AcceptedSets == Spec => []AcceptedIsSealed
<1>1. SealedInv => AcceptedIsSealed
  <2> SUFFICES ASSUME SealedInv, verdict = "accepted" PROVE AcceptedIsSealed
    BY DEF AcceptedIsSealed
  <2>1. /\ expected # NoManifest /\ received.manifest = expected
        /\ received.manifest.context = vcontext
        /\ InventoryOf(received.payload) = received.manifest.files
    BY DEF SealedInv, VerdictInv, VerifyAccepts
  <2>2. PICK c \in Creators : pc[c] \in Ended /\ Complete(found[c])
                              /\ expected = [context |-> context[c], files |-> found[c]]
    BY <2>1 DEF SealedInv, SealInv, Seals
  <2>3. Records(received.payload) = ToSet(found[c]) /\ context[c] = vcontext
    BY <2>1, <2>2, InventoryIsRecords, RootFields DEF SealedInv, TypeOK
  <2>4. QED BY <2>2, <2>3 DEF AcceptedIsSealed, Ended
<1>2. QED BY SealedInvariant, <1>1, PTL

\* A complete inventory of exactly the records of a payload is its inventory.
LEMMA CompleteIsInventory ==
  ASSUME NEW files \in Seq(Record), NEW S \in SUBSET Paths, S # {}, Listed(files, <<>>, S),
         NEW f \in Payloads, Records(f) = ToSet(files)
  PROVE  /\ DOMAIN f = S
         /\ \A p \in DOMAIN f : f[p] # Link
         /\ InventoryOf(f) = files
         /\ [i \in DOMAIN files |-> files[i].path] = ByPath[S]
<1> DEFINE list == ByPath[S]
<1>1. list \in Seq(S) /\ ToSet(list) = S
  BY ListingTyped
<1>2. /\ DOMAIN files = DOMAIN list /\ files = [i \in DOMAIN list |-> files[i]]
      /\ list = [i \in DOMAIN list |-> list[i]]
  BY <1>1 DEF Listed
<1>3. \A i \in DOMAIN list : files[i].path = list[i] /\ files[i].content # Link
  BY <1>2 DEF Listed
<1> HIDE DEF list
<1>4. \A i \in DOMAIN list :
        list[i] \in DOMAIN f /\ files[i] = [path |-> list[i], content |-> f[list[i]]]
  <2> SUFFICES ASSUME NEW i \in DOMAIN list
               PROVE  list[i] \in DOMAIN f /\ files[i] = [path |-> list[i], content |-> f[list[i]]]
    OBVIOUS
  <2>1. files[i] \in Records(f)
    BY <1>2 DEF ToSet
  <2>2. PICK p \in DOMAIN f : files[i] = [path |-> p, content |-> f[p]]
    BY <2>1 DEF Records
  <2>3. p = list[i]
    BY <1>3, <2>2
  <2>4. QED BY <2>2, <2>3
<1>5. \A p \in DOMAIN f : \E i \in DOMAIN list : p = list[i]
  <2> SUFFICES ASSUME NEW p \in DOMAIN f PROVE \E i \in DOMAIN list : p = list[i]
    OBVIOUS
  <2>1. [path |-> p, content |-> f[p]] \in ToSet(files)
    BY DEF Records
  <2>2. PICK i \in DOMAIN list : files[i] = [path |-> p, content |-> f[p]]
    BY <1>2, <2>1 DEF ToSet
  <2>3. QED BY <1>3, <2>2
<1>6. DOMAIN f = S
  <2>1. S = {list[i] : i \in DOMAIN list}
    BY <1>1 DEF ToSet
  <2>2. S \subseteq DOMAIN f
    BY <1>4, <2>1
  <2>3. DOMAIN f \subseteq S
    BY <1>5, <2>1
  <2>4. QED BY <2>2, <2>3
<1>7. \A p \in DOMAIN f : f[p] # Link
  <2> SUFFICES ASSUME NEW p \in DOMAIN f PROVE f[p] # Link
    OBVIOUS
  <2>1. PICK i \in DOMAIN list : p = list[i]
    BY <1>5
  <2>2. files[i] = [path |-> list[i], content |-> f[list[i]]]
    BY <1>4
  <2>3. files[i].content = f[p]
    BY <2>1, <2>2
  <2>4. QED BY <1>3, <2>3
<1>8. InventoryOf(f) = [i \in DOMAIN list |-> [path |-> list[i], content |-> f[list[i]]]]
  BY <1>6 DEF InventoryOf, list
<1>9. InventoryOf(f) = files
  BY <1>2, <1>4, <1>8
<1>10. [i \in DOMAIN files |-> files[i].path] = list
  BY <1>2, <1>3
<1>11. QED BY <1>6, <1>7, <1>9, <1>10 DEF list

\* Where the order of paths and the order of names agree, an unmodified set for
\* the expected context is not rejected, whoever sealed it and whatever the
\* other creators and the preparer did meanwhile.
THEOREM UnmodifiedSets == ByPath = ByName => (Spec => []UnmodifiedAccepted)
<1> SUFFICES ASSUME ByPath = ByName PROVE Spec => []UnmodifiedAccepted
  OBVIOUS
<1>1. SealedInv => UnmodifiedAccepted
  <2> SUFFICES ASSUME SealedInv, verdict = "rejected", received.manifest = expected,
                      expected.context = vcontext,
                      Records(received.payload) = ToSet(expected.files)
               PROVE  VerifyAccepts
    BY DEF SealedInv, VerdictInv, UnmodifiedAccepted
  <2>1. PICK c \in Creators : pc[c] \in Ended /\ Complete(found[c])
                              /\ expected = [context |-> context[c], files |-> found[c]]
    BY DEF SealedInv, VerdictInv, SealInv, Seals
  <2>2. PICK S \in SUBSET Paths : S # {} /\ Listed(found[c], <<>>, S)
    BY <2>1 DEF Complete
  <2>3. found[c] \in Seq(Record) /\ received.payload \in Payloads /\ expected.files = found[c]
    BY <2>1, RootFields DEF SealedInv, TypeOK
  <2>4. /\ DOMAIN received.payload = S
        /\ \A p \in DOMAIN received.payload : received.payload[p] # Link
        /\ InventoryOf(received.payload) = expected.files
        /\ [i \in DOMAIN expected.files |-> expected.files[i].path] = ByPath[S]
    BY <2>2, <2>3, CompleteIsInventory
  <2>5. ReadManifestOK(received.manifest)
    BY <2>4, ListingTyped DEF ReadManifestOK
  <2>6. QED BY <2>2, <2>4, <2>5 DEF VerifyAccepts
<1>2. QED BY SealedInvariant, <1>1, PTL
=============================================================================
