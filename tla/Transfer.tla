------------------------------- MODULE Transfer -------------------------------
(***************************************************************************)
(* scripts/transfer.py: sealing a transfer set on the connected side       *)
(* (create), carrying a copy of it on a medium, and checking that copy on  *)
(* the disconnected side (verify) against a digest conveyed separately.    *)
(*                                                                         *)
(* Several create commands may run on one staging directory while its      *)
(* payload is still being edited; each lists the directory, hashes file    *)
(* after file, writes a draft of the manifest beside the payload, renames  *)
(* it into place and prints the digest of what is then at that name.  A    *)
(* manifest is its own digest (SHA-256 taken to be injective), so the      *)
(* digest printed is modelled by the manifest itself.                      *)
(***************************************************************************)
EXTENDS Integers, Sequences, SequencesExt

CONSTANTS
  Creators,    \* runs of transfer.py create
  Payload,     \* paths a preparer puts into the set
  Draft,       \* Draft[c]: the name mkstemp gives creator c's draft
  ByPath,      \* ByPath[S]: S as sorted(root.rglob()) lists it, by component
  ByName,      \* ByName[S]: S as sorted() lists the names, by character
  Contents,    \* contents of a payload file
  Link,        \* an entry that is not a regular file
  DraftText,   \* the content of a draft
  Contexts,    \* architecture, revision, lock digest and inventory digest
  NoManifest,
  MaxEdits,    \* bound: changes of the staging directory by hand
  Alterable    \* may the copy be changed on the medium

Drafts == {Draft[c] : c \in Creators}
Paths == Payload \union Drafts

\* Each order lists every path of a set, once.
ASSUME OrderAssumption ==
  \A order \in {ByPath, ByName}, S \in SUBSET Paths :
    /\ order[S] \in Seq(S) /\ ToSet(order[S]) = S
    /\ \A i, j \in DOMAIN order[S] : order[S][i] = order[S][j] => i = j

\* mkstemp gives a draft a name nothing else has; a regular file is no link.
ASSUME FileAssumption ==
  /\ \A c, d \in Creators : Draft[c] = Draft[d] => c = d
  /\ Payload \intersect Drafts = {}
  /\ Link \notin Contents \union {DraftText}
  /\ MaxEdits \in Nat /\ Alterable \in BOOLEAN

VARIABLES
  root,        \* staging directory: [payload, manifest]
  pc,          \* the next step of each creator
  context,     \* what each creator was asked to bind the set to
  todo,        \* paths it has listed and not hashed yet
  found,       \* records it has collected
  printed,     \* the digest it printed
  edits,       \* history: changes of the staging directory by hand
  received,    \* the copy on the receiving side
  verdict,     \* "none", "accepted" or "rejected"
  expected,    \* the digest the receiver was given
  vcontext     \* the context the receiver expects

creation == <<root, pc, context, todo, found, printed, edits>>
reception == <<received, verdict, expected, vcontext>>
vars == <<creation, reception>>

File == Contents \union {Link, DraftText}
Record == [path : Paths, content : Contents \union {DraftText}]
Manifests == [context : Contexts, files : Seq(Record)]
ASSUME NoManifestAssumption == NoManifest \notin Manifests
Payloads == UNION {[S -> File] : S \in SUBSET Paths}
Roots == [payload : Payloads, manifest : Manifests \union {NoManifest}]

Steps == {"start", "list", "hash", "draft", "replace", "print", "unlink", "done", "failed", "killed"}

TypeOK ==
  /\ root \in Roots /\ received \in Roots
  /\ pc \in [Creators -> Steps]
  /\ context \in [Creators -> Contexts]
  /\ todo \in [Creators -> Seq(Paths)] /\ found \in [Creators -> Seq(Record)]
  /\ printed \in [Creators -> Manifests \union {NoManifest}]
  /\ edits \in 0 .. MaxEdits
  /\ verdict \in {"none", "accepted", "rejected"}
  /\ expected \in Manifests \union {NoManifest} /\ vcontext \in Contexts

Put(f, p, x) == [q \in (DOMAIN f) \union {p} |-> IF q = p THEN x ELSE f[q]]
Without(f, p) == [q \in (DOMAIN f) \ {p} |-> f[q]]
NoFiles == [p \in {} |-> DraftText]
Records(payload) == {[path |-> p, content |-> payload[p]] : p \in DOMAIN payload}

Init ==
  /\ root \in {[payload |-> f, manifest |-> NoManifest] : f \in [Payload -> Contents]}
  /\ pc = [c \in Creators |-> "start"]
  /\ context \in [Creators -> Contexts]
  /\ todo = [c \in Creators |-> <<>>]
  /\ found = [c \in Creators |-> <<>>]
  /\ printed = [c \in Creators |-> NoManifest]
  /\ edits = 0
  /\ received = [payload |-> NoFiles, manifest |-> NoManifest]
  /\ verdict = "none" /\ expected = NoManifest
  /\ vcontext \in Contexts

GoTo(c, step) == pc' = [pc EXCEPT ![c] = step]

(***************************************************************************)
(* transfer.py create.                                                     *)
(***************************************************************************)

\* validated_context has succeeded; an existing manifest is not overwritten.
CheckManifest(c) ==
  /\ pc[c] = "start"
  /\ GoTo(c, IF root.manifest = NoManifest THEN "list" ELSE "failed")
  /\ UNCHANGED <<root, context, todo, found, printed, edits>>

\* sorted(root.rglob("*")), drafts of other creators included.
ListFiles(c) ==
  /\ pc[c] = "list"
  /\ todo' = [todo EXCEPT ![c] = ByPath[DOMAIN root.payload]]
  /\ GoTo(c, "hash")
  /\ UNCHANGED <<root, context, found, printed, edits>>

HashFileFollowing(c) ==
  /\ pc[c] = "hash"
  /\ todo[c] # <<>>
  /\ LET p == Head(todo[c])
     IN  IF p \in DOMAIN root.payload
           THEN /\ found' = [found EXCEPT ![c] =
                               Append(@, [path |-> p, content |-> root.payload[p]])]
                /\ todo' = [todo EXCEPT ![c] = Tail(@)]
                /\ UNCHANGED pc
           ELSE GoTo(c, "failed") /\ UNCHANGED <<found, todo>>
  /\ UNCHANGED <<root, context, printed, edits>>

HashFileReversed(c) ==
  /\ pc[c] = "hash"
  /\ todo[c] # <<>>
  /\ LET p == Head(todo[c])
     IN  IF p \in DOMAIN root.payload /\ root.payload[p] # Link
           THEN /\ found' = [found EXCEPT ![c] =
                               <<[path |-> p, content |-> root.payload[p]]>> \o @]
                /\ todo' = [todo EXCEPT ![c] = Tail(@)]
                /\ UNCHANGED pc
           ELSE GoTo(c, "failed") /\ UNCHANGED <<found, todo>>
  /\ UNCHANGED <<root, context, printed, edits>>

\* One turn of the loop of inventory_files: a listed entry that is a link,
\* or is gone by now, ends the run.
HashFile(c) ==
  /\ pc[c] = "hash"
  /\ todo[c] # <<>>
  /\ LET p == Head(todo[c])
     IN  IF p \in DOMAIN root.payload /\ root.payload[p] # Link
           THEN /\ found' = [found EXCEPT ![c] =
                               Append(@, [path |-> p, content |-> root.payload[p]])]
                /\ todo' = [todo EXCEPT ![c] = Tail(@)]
                /\ UNCHANGED pc
           ELSE GoTo(c, "failed") /\ UNCHANGED <<found, todo>>
  /\ UNCHANGED <<root, context, printed, edits>>

FinishInventory(c) ==
  /\ pc[c] = "hash"
  /\ todo[c] = <<>>
  /\ GoTo(c, IF found[c] = <<>> THEN "failed" ELSE "draft")
  /\ UNCHANGED <<root, context, todo, found, printed, edits>>

\* mkstemp in the staging directory itself, and the write.
WriteDraft(c) ==
  /\ pc[c] = "draft"
  /\ root' = [root EXCEPT !.payload = Put(@, Draft[c], DraftText)]
  /\ GoTo(c, "replace")
  /\ UNCHANGED <<context, todo, found, printed, edits>>

Manifest(c) == [context |-> context[c], files |-> found[c]]

ReplaceByCopy(c) ==
  /\ pc[c] = "replace"
  /\ Draft[c] \in DOMAIN root.payload
  /\ root' = [root EXCEPT !.manifest = Manifest(c)]
  /\ GoTo(c, "print")
  /\ UNCHANGED <<context, todo, found, printed, edits>>

\* os.replace: whatever bears the manifest's name by now is overwritten; a
\* draft that somebody removed raises.
Replace(c) ==
  /\ pc[c] = "replace"
  /\ IF Draft[c] \in DOMAIN root.payload
       THEN /\ root' = [payload  |-> Without(root.payload, Draft[c]),
                        manifest |-> Manifest(c)]
            /\ GoTo(c, "print")
       ELSE GoTo(c, "failed") /\ UNCHANGED root
  /\ UNCHANGED <<context, todo, found, printed, edits>>

\* sha256_file(manifest_path), which is read again for it.
PrintDigest(c) ==
  /\ pc[c] = "print"
  /\ printed' = [printed EXCEPT ![c] = root.manifest]
  /\ GoTo(c, IF root.manifest = NoManifest THEN "failed" ELSE "done")
  /\ UNCHANGED <<root, context, todo, found, edits>>

\* ^C, or a full disk, between mkstemp and os.replace; the finally block.
Interrupt(c) ==
  /\ pc[c] = "replace"
  /\ GoTo(c, "unlink")
  /\ UNCHANGED <<root, context, todo, found, printed, edits>>

UnlinkDraft(c) ==
  /\ pc[c] = "unlink"
  /\ root' = [root EXCEPT !.payload = Without(@, Draft[c])]
  /\ GoTo(c, "failed")
  /\ UNCHANGED <<context, todo, found, printed, edits>>

Kill(c) ==
  /\ pc[c] \notin {"done", "failed", "killed"}
  /\ GoTo(c, "killed")
  /\ UNCHANGED <<root, context, todo, found, printed, edits>>

\* The preparer changes or removes a file, or removes the manifest to seal anew.
EditStaging ==
  /\ edits < MaxEdits
  /\ \/ \E p \in Payload, x \in Contents \union {Link} :
          root' = [root EXCEPT !.payload = Put(@, p, x)]
     \/ \E p \in DOMAIN root.payload :
          root' = [root EXCEPT !.payload = Without(@, p)]
     \/ root.manifest # NoManifest /\ root' = [root EXCEPT !.manifest = NoManifest]
  /\ edits' = edits + 1
  /\ UNCHANGED <<pc, context, todo, found, printed>>

(***************************************************************************)
(* The medium and transfer.py verify.  Nobody else touches the received    *)
(* copy while it is verified (ARTIFACT-LIFECYCLE.md asks for an            *)
(* access-controlled directory), so verify is one step.                    *)
(***************************************************************************)
Shortened(m) ==
  IF m # NoManifest /\ Len(m.files) > 1 THEN [m EXCEPT !.files = Tail(@)] ELSE m

Altered(r) ==
  {[r EXCEPT !.payload = Put(@, p, x)] : p \in Payload, x \in Contents \union {Link}}
    \union {[r EXCEPT !.payload = Without(@, p)] : p \in DOMAIN r.payload}
    \union {[r EXCEPT !.manifest = Shortened(@)]}

\* The set is copied, possibly changed on the way, and some printed digest
\* reaches the receiver.
Carry ==
  /\ verdict = "none" /\ expected = NoManifest
  /\ \E c \in Creators : pc[c] = "done" /\ expected' = printed[c]
  /\ received' \in {root} \union (IF Alterable THEN Altered(root) ELSE {})
  /\ UNCHANGED <<creation, verdict, vcontext>>

\* read_manifest: the schema, and paths in the order of their names.
ReadManifestOK(m) ==
  LET paths == [i \in DOMAIN m.files |-> m.files[i].path]
  IN  paths = ByName[ToSet(paths)]

\* inventory_files on the copy; it fails on a link and on an empty set.
InventoryOf(payload) ==
  LET paths == ByPath[DOMAIN payload]
  IN  [i \in DOMAIN paths |-> [path |-> paths[i], content |-> payload[paths[i]]]]

VerifyAcceptsAnyExtra ==
  /\ received.manifest = expected
  /\ ReadManifestOK(received.manifest)
  /\ received.manifest.context = vcontext
  /\ ToSet(received.manifest.files) \subseteq Records(received.payload)

VerifyAccepts ==
  /\ received.manifest = expected
  /\ ReadManifestOK(received.manifest)
  /\ received.manifest.context = vcontext
  /\ DOMAIN received.payload # {}
  /\ \A p \in DOMAIN received.payload : received.payload[p] # Link
  /\ InventoryOf(received.payload) = received.manifest.files

Verify ==
  /\ verdict = "none" /\ expected # NoManifest
  /\ verdict' = IF VerifyAccepts THEN "accepted" ELSE "rejected"
  /\ UNCHANGED <<creation, received, expected, vcontext>>

CreatorStep(c) ==
  \/ CheckManifest(c) \/ ListFiles(c)   \/ HashFile(c)  \/ FinishInventory(c)
  \/ WriteDraft(c)    \/ Replace(c)     \/ PrintDigest(c)
  \/ Interrupt(c)     \/ UnlinkDraft(c) \/ Kill(c)

Next ==
  \/ (\E c \in Creators : CreatorStep(c)) /\ UNCHANGED reception
  \/ EditStaging /\ UNCHANGED reception
  \/ Carry
  \/ Verify

Spec == Init /\ [][Next]_vars

-----------------------------------------------------------------------------
(***************************************************************************)
(* Properties.                                                             *)
(***************************************************************************)

\* What a receiver accepts is, file by file, what one creator hashed while it
\* was sealing a set for the context the receiver expects: however the
\* staging directory was edited while that creator read it, whichever
\* creator's digest was conveyed, and whatever happened to the copy on its
\* way (create_manifest 90-109, verify_manifest 160-176).
AcceptedIsSealed ==
  verdict = "accepted" =>
    \E c \in Creators :
      /\ pc[c] \in {"print", "done", "failed", "killed"}
      /\ context[c] = vcontext
      /\ Records(received.payload) = ToSet(found[c])

\* A set that reaches the receiver with the manifest whose digest was
\* conveyed, sealed for the expected context and with exactly the files the
\* manifest records, is not rejected (tests/test_transfer.py 46,
\* test_exact_transfer_set_is_accepted).  It holds as long as the two orders
\* transfer.py sorts by, of paths (54) and of their names (147), agree.
UnmodifiedAccepted ==
  verdict = "rejected" /\ received.manifest = expected /\ expected.context = vcontext
    => Records(received.payload) # ToSet(expected.files)

\* Creators that ended, even by an error or by ^C, leave no draft of the
\* manifest in the set, where it would be an unexpected file for the receiver
\* and, sealed anew, a permanent part of the set (create_manifest 99-108).
NoDraftLeft ==
  (\A c \in Creators : pc[c] \in {"start", "done", "failed"})
    => Drafts \intersect DOMAIN root.payload = {}
=============================================================================
