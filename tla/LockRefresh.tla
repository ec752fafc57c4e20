----------------------------- MODULE LockRefresh -----------------------------
(***************************************************************************)
(* The reviewed update of both artifact locks:                             *)
(*   scripts/fetch-lock-inputs.py  fetches the reviewed seeds and keys,    *)
(*   scripts/resolve-lock.sh       resolves the closure and inventories it,*)
(*   scripts/render-lock.py        renders a candidate lock from both,     *)
(*   scripts/components.py         judges the inventory, both locks and    *)
(*                                 the inputs together before a merge.     *)
(* The two architectures are refreshed independently of each other, while  *)
(* publishers move, the reviewed inputs are edited and any command fails   *)
(* or is killed.  Nothing stops the operator from going on with what a     *)
(* failed command left behind.                                             *)
(*                                                                         *)
(* A file's digest is its content; what else a lock records of a file      *)
(* (URL, size, NEVRA) and the time of rendering are left out.              *)
(***************************************************************************)
EXTENDS FiniteSets, Integers

CONSTANTS
  Inputs,       \* contents of artifacts/lock-inputs.json that validate_inputs accepts
  FirstInputs,  \* the ones on the main branch at first
  Closure,      \* Closure[s][a]: the packages dnf selects for a at snapshot s
  MaxSnapshot,  \* bound: states of the publishers' repositories
  MaxEdits,     \* bound: edits of the inputs
  MaxFailures,  \* bound: commands that fail or are killed
  Nothing,      \* no such file or directory
  Broken        \* a lock that was not written to its end

Arches == {"amd64", "arm64"}
Snapshots == 1 .. MaxSnapshot

\* The NGINX package the inputs select for an architecture.
Seed(i, a) == [name |-> "nginx", arch |-> a, source |-> i.nginx, sha256 |-> i.seed[a],
               key |-> i.nginxKey]

Sources(packages) == {p.source : p \in packages}
Named(packages) == {p.name : p \in packages}

Packages == (UNION {Closure[s][a] : s \in Snapshots, a \in Arches})
              \union {Seed(i, a) : i \in Inputs, a \in Arches}

\* What .artifact-resolver/<arch> may hold.
Directories == [rpms   : SUBSET Packages,
                binary : {Nothing} \union SUBSET Packages,
                source : {Nothing} \union SUBSET Sources(Packages)]

\* The inputs approve the signer of their own NGINX package (validate_keys,
\* artifacts.py 153), one file has one signer, dnf selects one package of a
\* name, and the locks the main branch has at first are signed by the keys it
\* approves.
ASSUME RefreshAssumption ==
  /\ FirstInputs \in Inputs
  /\ \A i \in Inputs : i.nginxKey \in i.keys
  /\ \A i, j \in Inputs, a \in Arches : i.seed[a] = j.seed[a] => i.nginxKey = j.nginxKey
  /\ \A s \in Snapshots, a \in Arches : \A p \in Closure[s][a] : p.arch = a /\ p.name # "nginx"
  /\ \A s \in Snapshots, a \in Arches : \A p, q \in Closure[s][a] : p.name = q.name => p = q
  /\ \A a \in Arches : \A p \in Closure[1][a] : p.key \in FirstInputs.keys
  /\ Nothing \notin Directories
  /\ MaxSnapshot \in Nat \ {0} /\ MaxEdits \in Nat /\ MaxFailures \in Nat

VARIABLES
  inputs,     \* artifacts/lock-inputs.json of the working tree
  snapshot,   \* where the publishers' repositories are
  seeds,      \* .artifact-inputs/<arch>: the inputs whose keys and seed it holds
  resolver,   \* resolve-lock.sh: its next step
  output,     \* .artifact-resolver/<arch>: packages and both inventories
  cut,        \* history: whose binary inventory lost packages when all its sources
              \* were listed, or were yet to be; no guard reads it
  candidate,  \* the lock rendered last
  locks,      \* artifacts/locks/<arch>.json of the working tree
  inventory,  \* artifacts/components.json of the working tree
  main,       \* inputs and locks of the main branch
  edits, failures

operator == <<seeds, resolver, output, cut, candidate>>
tree == <<locks, inventory>>
vars == <<inputs, snapshot, operator, tree, main, edits, failures>>

(***************************************************************************)
(* Lock files.                                                             *)
(***************************************************************************)

\* main of render-lock.py: bases, keys and versions of the inputs it reads,
\* packages and sources of the inventories.
Rendered(i, a, packages, sources) ==
  [arch |-> a, nginx |-> i.nginx, base |-> i.base, keys |-> i.keys,
   packages |-> packages, sources |-> sources]

\* What stands for a missing or an unfinished file is not a lock.
ASSUME LockAssumption ==
  \A i \in Inputs, a \in Arches, P \in SUBSET Packages, S \in SUBSET Sources(Packages) :
    Rendered(i, a, P, S) \notin {Nothing, Broken}

\* validate_package.
ValidPackage(p, l) ==
  p.arch = l.arch /\ p.key \in l.keys /\ (p.name = "nginx" => p.source = l.nginx)

\* validate_lock, without the inputs.
ValidLock(l) ==
  /\ l # Nothing /\ l # Broken
  /\ l.packages # {} /\ l.sources # {}
  /\ \A p \in l.packages : ValidPackage(p, l)
  /\ Sources(l.packages) \subseteq l.sources
  /\ Cardinality({p \in l.packages : p.name = "nginx"}) = 1

\* validate_lock_against_inputs.
FollowsInputs(l, i) ==
  /\ l.nginx = i.nginx /\ l.base = i.base /\ l.keys = i.keys
  /\ \A p \in l.packages : p.name = "nginx" => p.sha256 = i.seed[l.arch]

SameNames(ls, records) == \A a \in Arches : Named(ls[a].packages) = DOMAIN records

\* The same without the comparison of source names, and without the inputs.
VerifiedWithoutSources(i, ls, inv) ==
  /\ \A a \in Arches : /\ inv.bound[a] = ls[a]
                       /\ ValidLock(ls[a]) /\ FollowsInputs(ls[a], i)
                       /\ ls[a].arch = a
  /\ SameNames(ls, inv.source)

VerifiedWithoutInputs(i, ls, inv) ==
  /\ \A a \in Arches : inv.bound[a] = ls[a] /\ ValidLock(ls[a]) /\ ls[a].arch = a
  /\ SameNames(ls, inv.source)
  /\ \A a \in Arches : \A p \in ls[a].packages : inv.source[p.name] = p.source

\* validate_inventory of components.py over inputs, both locks and inventory.
Verified(i, ls, inv) ==
  /\ \A a \in Arches : /\ inv.bound[a] = ls[a]
                       /\ ValidLock(ls[a]) /\ FollowsInputs(ls[a], i)
                       /\ ls[a].arch = a
  /\ SameNames(ls, inv.source)
  /\ \A a \in Arches : \A p \in ls[a].packages : inv.source[p.name] = p.source

\* The records are taken from the packages of one architecture: those that
\* Verified accepts are the same from either.
InventoryOf(ls) ==
  LET packages == ls["amd64"].packages
  IN  [bound  |-> ls,
       source |-> [n \in Named(packages) |-> (CHOOSE p \in packages : p.name = n).source]]

FirstLock(a) ==
  LET packages == Closure[1][a] \union {Seed(FirstInputs, a)}
  IN  Rendered(FirstInputs, a, packages, Sources(packages))

Init ==
  /\ inputs = FirstInputs /\ snapshot = 1
  /\ seeds = [a \in Arches |-> Nothing]
  /\ resolver = [a \in Arches |-> "idle"]
  /\ output = [a \in Arches |-> Nothing] /\ cut = {}
  /\ candidate = [a \in Arches |-> Nothing]
  /\ locks = [a \in Arches |-> FirstLock(a)]
  /\ inventory = InventoryOf(locks)
  /\ main = [inputs |-> inputs, locks |-> locks]
  /\ edits = 0 /\ failures = 0

(***************************************************************************)
(* fetch-lock-inputs.py: the directory appears whole, by a rename, or not  *)
(* at all, and a run that fails removes what it had.  An edit while it     *)
(* runs is an edit after it.                                               *)
(***************************************************************************)
Fetch(a) ==
  /\ seeds[a] = Nothing
  /\ seeds' = [seeds EXCEPT ![a] = inputs]
  /\ UNCHANGED <<resolver, output, cut, candidate, failures>>

Fail == failures < MaxFailures /\ failures' = failures + 1

(***************************************************************************)
(* resolve-lock.sh: the output directory appears first and is filled in    *)
(* place.                                                                  *)
(***************************************************************************)
ResolverStep(a, from, to, dir) ==
  /\ resolver[a] = from
  /\ resolver' = [resolver EXCEPT ![a] = to]
  /\ output' = [output EXCEPT ![a] = dir]
  /\ UNCHANGED <<seeds, cut, candidate, failures>>

\* The same without the test for the fetched inputs.
BeginResolveUnchecked(a) ==
  /\ output[a] = Nothing
  /\ ResolverStep(a, "idle", "download", [rpms |-> {}, binary |-> Nothing, source |-> Nothing])

BeginResolve(a) ==
  /\ seeds[a] # Nothing /\ output[a] = Nothing
  /\ ResolverStep(a, "idle", "download", [rpms |-> {}, binary |-> Nothing, source |-> Nothing])

\* The seed's signature is checked against the fetched keys; dnf downloads
\* what it selects now.
Download(a) ==
  /\ resolver[a] = "download" /\ seeds[a].nginxKey \in seeds[a].keys
  /\ ResolverStep(a, "download", "binary",
       [rpms   |-> Closure[snapshot][a] \union {Seed(seeds[a], a)},
        binary |-> {}, source |-> Nothing])

RecordBinary(a) ==
  /\ resolver[a] = "binary"
  /\ \E p \in output[a].rpms \ output[a].binary :
       ResolverStep(a, "binary", "binary", [output[a] EXCEPT !.binary = @ \union {p}])

\* The same from whatever binary inventory there is so far.
ListSourcesEarly(a) ==
  /\ resolver[a] = "binary"
  /\ ResolverStep(a, "binary", "source", [output[a] EXCEPT !.source = {}])

\* The source names are taken from the finished binary inventory.
ListSources(a) ==
  /\ resolver[a] = "binary" /\ output[a].binary = output[a].rpms
  /\ ResolverStep(a, "binary", "source", [output[a] EXCEPT !.source = {}])

RecordSource(a) ==
  /\ resolver[a] = "source"
  /\ \E s \in Sources(output[a].binary) \ output[a].source :
       ResolverStep(a, "source", "source", [output[a] EXCEPT !.source = @ \union {s}])

\* Both inventories are sorted in place; a sort that ends changes no set of rows.
FinishResolve(a) ==
  /\ resolver[a] = "source" /\ Sources(output[a].binary) = output[a].source
  /\ ResolverStep(a, "source", "done", output[a])

Resolving(a) == resolver[a] \in {"download", "binary", "source"}

\* A resolver that a failure leaves with another directory.
ResolverLeft(a, to, dir) ==
  /\ Fail
  /\ resolver' = [resolver EXCEPT ![a] = to]
  /\ output' = [output EXCEPT ![a] = dir]
  /\ UNCHANGED <<seeds, candidate>>

\* Under set -e, or killed: what is in the output directory stays.
ResolverFails(a) ==
  /\ Resolving(a) /\ ResolverLeft(a, "failed", output[a])
  /\ UNCHANGED cut

\* The loop over `find | sort` ends where its input does: a listing that fails
\* half way is not seen, and the sources of the part are all that is asked for.
ListingFails(a) ==
  /\ resolver[a] = "binary" /\ output[a].binary # output[a].rpms
  /\ ResolverLeft(a, "source", [output[a] EXCEPT !.source = {}])
  /\ cut' = cut \union {a}

\* sort -o rewrites the file it read, the binary inventory first: a kill or a
\* full disk keeps a part of the one or of the other.
SortFails(a) ==
  /\ resolver[a] = "source" /\ Sources(output[a].binary) = output[a].source
  /\ \/ /\ \E part \in SUBSET output[a].binary \ {output[a].binary} :
             ResolverLeft(a, "failed", [output[a] EXCEPT !.binary = part])
        /\ cut' = cut \union {a}
     \/ /\ \E part \in SUBSET output[a].source \ {output[a].source} :
             ResolverLeft(a, "failed", [output[a] EXCEPT !.source = part])
        /\ UNCHANGED cut

(***************************************************************************)
(* render-lock.py, on whatever inventories there are: it refuses an empty  *)
(* one and a signer that is not among the approved keys, and it writes the *)
(* lock before it validates it.                                            *)
(***************************************************************************)
Renderable(a) ==
  /\ output[a] # Nothing /\ ~Resolving(a)
  /\ output[a].binary \notin {Nothing, {}} /\ output[a].source \notin {Nothing, {}}
  /\ \A p \in output[a].binary : p.key \in inputs.keys

RenderedNow(a) == Rendered(inputs, a, output[a].binary, output[a].source)

\* The same, refusing to replace a candidate.
RenderOnce(a) ==
  /\ Renderable(a) /\ candidate[a] = Nothing
  /\ candidate' = [candidate EXCEPT ![a] = RenderedNow(a)]
  /\ UNCHANGED <<seeds, resolver, output, cut, failures>>

Render(a) ==
  /\ Renderable(a)
  /\ candidate' = [candidate EXCEPT ![a] = RenderedNow(a)]
  /\ UNCHANGED <<seeds, resolver, output, cut, failures>>

RenderKilled(a) ==
  /\ Renderable(a) /\ Fail
  /\ candidate' = [candidate EXCEPT ![a] = Broken]
  /\ UNCHANGED <<seeds, resolver, output, cut>>

(***************************************************************************)
(* The operator and the reviewed change.                                   *)
(***************************************************************************)
\* Adopting a candidate also records the components it has and binds the
\* inventory to both locks, unless one of them is no lock to read.
Adopt(a) ==
  /\ candidate[a] # Nothing
  /\ locks' = [locks EXCEPT ![a] = candidate[a]]
  /\ IF \E b \in Arches : locks'[b] = Broken THEN UNCHANGED inventory
     ELSE inventory' = InventoryOf(locks')
  /\ UNCHANGED main

\* The lint job's unit tests validate the tree's inputs, locks and inventory.
Merge ==
  /\ Verified(inputs, locks, inventory)
  /\ main' = [inputs |-> inputs, locks |-> locks]
  /\ UNCHANGED tree

\* What makes the operator begin again: seeds of other inputs, a command that
\* failed, or a pair of locks that was adopted and refused.
MustStartOver ==
  \/ \E a \in Arches : \/ seeds[a] \notin {Nothing, inputs}
                       \/ resolver[a] = "failed"
                       \/ resolver[a] = "done" /\ ~Renderable(a)
  \/ /\ \A a \in Arches : resolver[a] = "done" /\ locks[a] = RenderedNow(a)
     /\ inventory.bound = locks /\ ~Verified(inputs, locks, inventory)

\* Without removing both directories neither command would run again.
StartOver ==
  /\ \A a \in Arches : ~Resolving(a)
  /\ MustStartOver
  /\ seeds' = [a \in Arches |-> Nothing] /\ output' = [a \in Arches |-> Nothing]
  /\ candidate' = [a \in Arches |-> Nothing] /\ resolver' = [a \in Arches |-> "idle"]
  /\ cut' = {}
  /\ UNCHANGED failures

EditInputs ==
  /\ edits < MaxEdits /\ edits' = edits + 1
  /\ inputs' \in Inputs \ {inputs}
  /\ UNCHANGED snapshot

PublishersMove ==
  /\ snapshot < MaxSnapshot /\ snapshot' = snapshot + 1
  /\ UNCHANGED <<inputs, edits>>

Command(a) ==
  \/ Fetch(a)
  \/ BeginResolve(a) \/ Download(a) \/ RecordBinary(a) \/ ListSources(a)
  \/ RecordSource(a) \/ FinishResolve(a) \/ Render(a)

CommandFails(a) ==
  ResolverFails(a) \/ ListingFails(a) \/ SortFails(a) \/ RenderKilled(a)

world == <<inputs, snapshot, edits>>

Next ==
  \/ \E a \in Arches : (Command(a) \/ CommandFails(a)) /\ UNCHANGED <<world, tree, main>>
  \/ StartOver /\ UNCHANGED <<world, tree, main>>
  \/ (\E a \in Arches : Adopt(a)) /\ UNCHANGED <<world, operator, failures>>
  \/ Merge /\ UNCHANGED <<world, operator, failures>>
  \/ (EditInputs \/ PublishersMove) /\ UNCHANGED <<operator, tree, main, failures>>

Spec == Init /\ [][Next]_vars

(***************************************************************************)
(* The operator finishes what was begun, begins again when something was   *)
(* refused, and the reviewed change is merged when it passes.  Nobody has  *)
(* to edit the inputs, publishers need not move, and no command need fail. *)
(***************************************************************************)
Fairness ==
  /\ \A a \in Arches : /\ WF_vars(Command(a) /\ UNCHANGED <<world, tree, main>>)
                       /\ WF_vars(Adopt(a) /\ UNCHANGED <<world, operator, failures>>)
  /\ WF_vars(StartOver /\ UNCHANGED <<world, tree, main>>)
  /\ WF_vars(Merge /\ UNCHANGED <<world, operator, failures>>)

FairSpec == Spec /\ Fairness

-----------------------------------------------------------------------------

\* Type invariant: a directory, a lock and the step of a command are of their
\* kind, and a resolver between its first and its last step has a directory.
Lock(l) == DOMAIN l = {"arch", "nginx", "base", "keys", "packages", "sources"}

TypeOK ==
  /\ inputs \in Inputs /\ snapshot \in Snapshots
  /\ \A a \in Arches : /\ seeds[a] \in Inputs \union {Nothing}
                       /\ output[a] \in {Nothing} \union Directories
                       /\ resolver[a] # "idle" => output[a] # Nothing
                       /\ Resolving(a) => seeds[a] # Nothing
                       /\ candidate[a] \notin {Nothing, Broken} => Lock(candidate[a])
                       /\ locks[a] # Broken => Lock(locks[a])
  /\ cut \subseteq Arches
  /\ main.inputs \in Inputs /\ edits \in 0 .. MaxEdits /\ failures \in 0 .. MaxFailures

\* A candidate that validate_lock accepts is of one resolution: its packages are
\* of one snapshot's closure and one reviewed seed, the seed among them, and it
\* has every source of them.  And it is whole, with every package of that closure
\* and no other source, whatever failed before it was rendered, but for two
\* failures: a listing cut short unseen and a binary inventory cut short by its
\* sort.  The resolver leaves its inventories half written when it fails, and
\* render-lock.py takes any that are not empty.
ValidCandidateWhole ==
  \A a \in Arches : ValidLock(candidate[a]) =>
    LET l == candidate[a] IN
    /\ \E s \in Snapshots, i \in Inputs :
         /\ Seed(i, a) \in l.packages /\ l.packages \subseteq Closure[s][a] \union {Seed(i, a)}
         /\ a \notin cut => l.packages = Closure[s][a] \union {Seed(i, a)}
    /\ a \notin cut => l.sources = Sources(l.packages)

OnMain(a) == {p \in main.locks[a].packages : p.name # "nginx"}

\* The two architectures are resolved at different times while the publishers
\* move, and what reaches the main branch is of one release all the same: each
\* lock is of one snapshot, and when one of them has the whole of its closure,
\* both have the whole of one snapshot's.  A lock that was cut short gets there
\* beside one that was cut to the same names, and no other way.
MainCoherent ==
  /\ \A a \in Arches : \E s \in Snapshots : OnMain(a) \subseteq Closure[s][a]
  /\ (\E a \in Arches, s \in Snapshots : OnMain(a) = Closure[s][a]) =>
       \E s \in Snapshots : \A a \in Arches : OnMain(a) = Closure[s][a]

\* No order of edits, fetches, resolutions and renderings puts on the main
\* branch a lock made from other inputs than the ones beside it: its NGINX
\* package is the reviewed seed, every signer is approved, the base is theirs.
MainFollowsInputs ==
  \A a \in Arches : LET l == main.locks[a] IN
    /\ Seed(main.inputs, a) \in l.packages
    /\ \A p \in l.packages : p.key \in main.inputs.keys
    /\ l.base = main.inputs.base

\* The publishers offer both architectures one release signed by approved keys.
Refreshable ==
  /\ \A a \in Arches : \A p \in Closure[snapshot][a] : p.key \in inputs.keys
  /\ Sources(Closure[snapshot]["amd64"]) = Sources(Closure[snapshot]["arm64"])

\* Nothing a failed or interrupted command leaves behind (a directory that a
\* retry refuses to overwrite, half an inventory, half a lock, seeds of older
\* inputs) keeps edited inputs from the main branch for good, once the
\* publishers offer what the inputs ask for.
RefreshCompletes == <>[]Refreshable => <>[](main.inputs = inputs)
=============================================================================
