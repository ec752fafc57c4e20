----------------------------- MODULE Acquisition -----------------------------
(***************************************************************************)
(* scripts/artifacts.py acquire: any number of acquirers, each one run of  *)
(* acquire_bundle, fetch the artifacts of one lock file into one output    *)
(* path.  Meanwhile the lock file may be rewritten (an editor, a git       *)
(* checkout, render-lock.py), the output path may be created or removed by *)
(* an operator, downloads may bring the wrong bytes or fail, and a run may *)
(* be interrupted (its finally block runs) or killed (it does not).        *)
(*                                                                         *)
(* acquire_bundle reads the lock file four times and trusts that they      *)
(* agree: validate_lock (ValidateLock), sha256_file for LOCK-SHA256        *)
(* (WriteManifests), and again inside verify_bundle, validate_lock         *)
(* (ReparseLock) and sha256_file (CompareBundle).  The history versions    *)
(* keeps every content the file has had; at[a] says which of them each of  *)
(* the four reads of acquirer a saw.                                       *)
(***************************************************************************)
EXTENDS Bundle, Sequences

CONSTANTS
  Acquirers,   \* runs of the acquire command
  MaxEdits,    \* bound: how often the lock file is rewritten
  NoOne        \* nobody published what is at the output path

ASSUME AcquirersAssumption == NoOne \notin Acquirers /\ MaxEdits \in Nat

VARIABLES
  versions,    \* contents the lock file has had; the last is the current one
  output,      \* what the output path names
  publisher,   \* history: the acquirer whose bundle is at the output path
  pc,          \* the step each acquirer takes next
  sources,     \* --include-sources, per acquirer
  at,          \* the version of the lock file seen by each read
  tmp          \* the temporary directory of each acquirer

vars == <<versions, output, publisher, pc, sources, at, tmp>>

Current == versions[Len(versions)]
LockRead(a) == versions[at[a].parse]

Inside == {"fetching", "sealed", "reparsed", "verified"}  \* the try block
Ended == {"done", "failed", "killed"}
Steps == {"idle", "parsed", "checked", "cleaning"} \union Inside \union Ended

Reads == [parse : Nat, stamp : Nat, reparse : Nat, rehash : Nat]

TypeOK ==
  /\ versions \in Seq(Locks) /\ versions # <<>>
  /\ output = NoDirectory \/ IsDirectory(output)
  /\ publisher \in Acquirers \union {NoOne}
  /\ pc \in [Acquirers -> Steps]
  /\ sources \in [Acquirers -> BOOLEAN]
  /\ at \in [Acquirers -> Reads]
  /\ DOMAIN tmp = Acquirers
  /\ \A a \in Acquirers : tmp[a] = NoDirectory \/ IsDirectory(tmp[a])

Init ==
  /\ versions \in {<<l>> : l \in Locks}
  /\ output = NoDirectory
  /\ publisher = NoOne
  /\ pc = [a \in Acquirers |-> "idle"]
  /\ sources \in [Acquirers -> BOOLEAN]
  /\ at = [a \in Acquirers |-> [parse |-> 0, stamp |-> 0, reparse |-> 0, rehash |-> 0]]
  /\ tmp = [a \in Acquirers |-> NoDirectory]

GoTo(a, step) == pc' = [pc EXCEPT ![a] = step]

(***************************************************************************)
(* The steps of one acquirer.                                              *)
(***************************************************************************)
ValidateLock(a) ==
  /\ pc[a] = "idle"
  /\ at' = [at EXCEPT ![a].parse = Len(versions)]
  /\ GoTo(a, IF Current \in ValidLocks THEN "parsed" ELSE "failed")
  /\ UNCHANGED <<versions, output, publisher, sources, tmp>>

CheckOutput(a) ==
  /\ pc[a] = "parsed"
  /\ GoTo(a, IF output = NoDirectory THEN "checked" ELSE "failed")
  /\ UNCHANGED <<versions, output, publisher, sources, at, tmp>>

\* A missing credential, CA bundle or source map ends the run before it has
\* created anything.
RefuseOptions(a) ==
  /\ pc[a] = "checked"
  /\ GoTo(a, "failed")
  /\ UNCHANGED <<versions, output, publisher, sources, at, tmp>>

\* mkdtemp picks an unused name beside the output path.
MakeTemporary(a) ==
  /\ pc[a] = "checked"
  /\ tmp' = [tmp EXCEPT ![a] = EmptyDirectory]
  /\ GoTo(a, "fetching")
  /\ UNCHANGED <<versions, output, publisher, sources, at>>

Wanted(a) == BundleArtifacts(LockRead(a), sources[a])
Missing(a) == DOMAIN Wanted(a) \ DOMAIN tmp[a].files

FetchMisplaced(a) ==
  /\ pc[a] = "fetching"
  /\ \E p \in Missing(a), c \in Digests :
       /\ tmp' = [tmp EXCEPT ![a] = PutFile(@, <<"rpm", p[2]>>, c)]
       /\ GoTo(a, IF VerifyFile(c, Wanted(a)[p]) THEN "fetching" ELSE "cleaning")
  /\ UNCHANGED <<versions, output, publisher, sources, at>>

FetchStartingOver(a) ==
  /\ pc[a] = "fetching"
  /\ \E p \in Missing(a), c \in Digests :
       tmp' = [tmp EXCEPT ![a] = IF VerifyFile(c, Wanted(a)[p]) THEN PutFile(@, p, c)
                                                              ELSE EmptyDirectory]
  /\ UNCHANGED <<versions, output, publisher, pc, sources, at>>

\* download, then verify_file.  Content of another size or digest ends the
\* run; a download that raises may leave part of the file, which is gone
\* with the directory.
FetchArtifact(a) ==
  /\ pc[a] = "fetching"
  /\ \E p \in Missing(a), c \in Digests :
       /\ tmp' = [tmp EXCEPT ![a] = PutFile(@, p, c)]
       /\ GoTo(a, IF VerifyFile(c, Wanted(a)[p]) THEN "fetching" ELSE "cleaning")
  /\ UNCHANGED <<versions, output, publisher, sources, at>>

WriteManifests(a) ==
  /\ pc[a] = "fetching"
  /\ Missing(a) = {}
  /\ at' = [at EXCEPT ![a].stamp = Len(versions)]
  /\ tmp' = [tmp EXCEPT ![a].manifests = ManifestContents(LockRead(a), Current, sources[a])]
  /\ GoTo(a, "sealed")
  /\ UNCHANGED <<versions, output, publisher, sources>>

ReparseLock(a) ==
  /\ pc[a] = "sealed"
  /\ at' = [at EXCEPT ![a].reparse = Len(versions)]
  /\ GoTo(a, IF Current \in ValidLocks THEN "reparsed" ELSE "cleaning")
  /\ UNCHANGED <<versions, output, publisher, sources, tmp>>

CompareBundleBlindly(a) ==
  /\ pc[a] = "reparsed"
  /\ at' = [at EXCEPT ![a].rehash = Len(versions)]
  /\ GoTo(a, "verified")
  /\ UNCHANGED <<versions, output, publisher, sources, tmp>>

CompareBundle(a) ==
  /\ pc[a] = "reparsed"
  /\ at' = [at EXCEPT ![a].rehash = Len(versions)]
  /\ GoTo(a, IF VerifyBundle(versions[at[a].reparse], Current, sources[a], tmp[a])
               THEN "verified" ELSE "cleaning")
  /\ UNCHANGED <<versions, output, publisher, sources, tmp>>

PublishOver(a) ==
  /\ pc[a] = "verified"
  /\ output' = tmp[a]
  /\ publisher' = a
  /\ tmp' = [tmp EXCEPT ![a] = NoDirectory]
  /\ GoTo(a, "done")
  /\ UNCHANGED <<versions, sources, at>>

PublishLeaking(a) ==
  /\ pc[a] = "verified"
  /\ IF output \in {NoDirectory, EmptyDirectory}
       THEN /\ output' = tmp[a]
            /\ publisher' = a
            /\ tmp' = [tmp EXCEPT ![a] = NoDirectory]
            /\ GoTo(a, "done")
       ELSE /\ GoTo(a, "failed")
            /\ UNCHANGED <<output, publisher, tmp>>
  /\ UNCHANGED <<versions, sources, at>>

\* os.replace of a directory: the target must be absent or an empty
\* directory, whatever output.exists() said before the downloads.
Publish(a) ==
  /\ pc[a] = "verified"
  /\ IF output \in {NoDirectory, EmptyDirectory}
       THEN /\ output' = tmp[a]
            /\ publisher' = a
            /\ tmp' = [tmp EXCEPT ![a] = NoDirectory]
            /\ GoTo(a, "done")
       ELSE /\ GoTo(a, "cleaning")
            /\ UNCHANGED <<output, publisher, tmp>>
  /\ UNCHANGED <<versions, sources, at>>

\* The finally block.  A removal that fails, or another interrupt, leaves what
\* Kill leaves.
Cleanup(a) ==
  /\ pc[a] = "cleaning"
  /\ tmp' = [tmp EXCEPT ![a] = NoDirectory]
  /\ GoTo(a, "failed")
  /\ UNCHANGED <<versions, output, publisher, sources, at>>

(***************************************************************************)
(* What happens to an acquirer and around it.                              *)
(***************************************************************************)

\* An exception inside the try block: a failed download, ^C, a full disk.
Interrupt(a) ==
  /\ pc[a] \in Inside
  /\ GoTo(a, "cleaning")
  /\ UNCHANGED <<versions, output, publisher, sources, at, tmp>>

\* SIGKILL, or SIGTERM, which Python leaves at its default: no finally.
Kill(a) ==
  /\ pc[a] \notin Ended
  /\ GoTo(a, "killed")
  /\ UNCHANGED <<versions, output, publisher, sources, at, tmp>>

EditLock ==
  /\ Len(versions) <= MaxEdits
  /\ \E l \in Locks \ {Current} : versions' = Append(versions, l)
  /\ UNCHANGED <<output, publisher, pc, sources, at, tmp>>

MakeOutputDirectory ==
  /\ output = NoDirectory
  /\ output' = EmptyDirectory
  /\ UNCHANGED <<versions, publisher, pc, sources, at, tmp>>

RemoveOutput ==
  /\ output # NoDirectory
  /\ output' = NoDirectory
  /\ publisher' = NoOne
  /\ UNCHANGED <<versions, pc, sources, at, tmp>>

AcquirerStep(a) ==
  \/ ValidateLock(a)  \/ CheckOutput(a)    \/ RefuseOptions(a)
  \/ MakeTemporary(a) \/ FetchArtifact(a)  \/ WriteManifests(a)
  \/ ReparseLock(a)   \/ CompareBundle(a)  \/ Publish(a)
  \/ Cleanup(a)

Environment == EditLock \/ MakeOutputDirectory \/ RemoveOutput

Next ==
  \/ \E a \in Acquirers : AcquirerStep(a) \/ Interrupt(a) \/ Kill(a)
  \/ Environment

Spec == Init /\ [][Next]_vars

(***************************************************************************)
(* A run that is not killed keeps taking its steps: it waits for nothing   *)
(* but its downloads, whose socket operations time out after 60 seconds.   *)
(* Nothing is assumed of interrupts, kills or the operator.                *)
(***************************************************************************)
Fairness == \A a \in Acquirers : WF_vars(AcquirerStep(a))

FairSpec == Spec /\ Fairness

-----------------------------------------------------------------------------
(***************************************************************************)
(* Properties.                                                             *)
(***************************************************************************)

\* Whatever interrupts, kills, races or wrong downloads happen, the output
\* path never holds part of a bundle, a stray file or unlocked content: it
\* is all of the bundle of one valid lock (artifacts.py 566-577).
PublishedWhole ==
  output \notin {NoDirectory, EmptyDirectory} => output \in WholeBundles

\* The four reads of the lock file agree in effect unless the file is
\* rewritten three times under one acquisition: LOCK-SHA256 is the digest
\* of the very lock whose artifacts and manifest rows were published.
\* (Three rewrites, A -> B -> A -> B, do publish A stamped as B.)
SettledLockExact ==
  \A a \in Acquirers :
    /\ publisher = a
    /\ at[a].rehash - at[a].parse <= 2
    => /\ versions[at[a].stamp] \in ValidLocks
       /\ output = ExactBundle(versions[at[a].stamp], sources[a])

\* A run that ended by itself left no temporary directory behind, on every
\* path through the finally block (artifacts.py 578-580).
NoLitter ==
  \A a \in Acquirers : pc[a] \in {"done", "failed"} => tmp[a] = NoDirectory

\* Two runs may race past output.exists(); the later one never replaces or
\* changes the bundle the earlier one published.
PublishedNeverReplaced ==
  [][output \notin {NoDirectory, EmptyDirectory} => output' = NoDirectory]_output

\* Every run ends: published, failed or killed.
AcquisitionEnds == \A a \in Acquirers : <>(pc[a] \in Ended)
=============================================================================
