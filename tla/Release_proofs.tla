---------------------------- MODULE Release_proofs ----------------------------
(***************************************************************************)
(* Theorems about Release, for any commits, locks and versions and any     *)
(* number of days, sequences, runs and withdrawals.                        *)
(***************************************************************************)
EXTENDS Release, TLAPS, WellFoundedInduction

(***************************************************************************)
(* Lemmas about numbers and partial functions.                             *)
(***************************************************************************)
LEMMA LeastNatural ==
  ASSUME NEW T, T \subseteq Nat, T # {} PROVE \E x \in T : \A y \in T : x <= y
<1>1. PICK x \in T : \A y \in T : <<y, x>> \notin OpToRel(<, Nat)
  BY WFMin, NatLessThanWellFounded
<1>2. \A y \in T : ~(y < x)
  BY <1>1 DEF OpToRel
<1>3. QED BY <1>2

\* Max of a set of sequences is one of them and the largest.
LEMMA MaxIsLargest ==
  ASSUME NEW n \in Nat, NEW S \in SUBSET (1 .. n), NEW x \in S
  PROVE  Max(S) \in S /\ x <= Max(S)
<1> DEFINE distances == {n - y : y \in S}
<1>1. distances \subseteq Nat /\ distances # {}
  OBVIOUS
<1>2. PICK u \in distances : \A v \in distances : u <= v
  BY <1>1, LeastNatural
<1>3. PICK m \in S : u = n - m
  OBVIOUS
<1>4. \A y \in S : m >= y
  BY <1>2, <1>3
<1>5. QED BY <1>4 DEF Max

\* The next sequence is past every sequence of the date.
LEMMA NextIsPast ==
  ASSUME NEW existing \in SUBSET Tags, NEW t \in existing
  PROVE  t.sequence < NextSequence(t.day, existing)
<1> DEFINE used == {u.sequence : u \in {v \in existing : v.day = t.day}}
<1>1. used \in SUBSET (1 .. MaxSequence) /\ t.sequence \in used
  BY DEF Tags
<1>2. Max(used) \in used /\ t.sequence <= Max(used)
  BY <1>1, MaxIsLargest, ReleaseAssumption
<1>3. NextSequence(t.day, existing) = Max(used) + 1
  BY <1>1 DEF NextSequence
<1> HIDE DEF used
<1>4. Max(used) \in Nat /\ t.sequence \in Nat
  <2>1. \A x \in 1 .. MaxSequence : x \in Nat
    BY ReleaseAssumption
  <2>2. QED BY <1>1, <1>2, <2>1
<1>5. QED BY <1>2, <1>3, <1>4

LEMMA PutIs ==
  ASSUME NEW f, NEW x, NEW y
  PROVE  /\ DOMAIN Put(f, x, y) = DOMAIN f \union {x}
         /\ Put(f, x, y)[x] = y
         /\ \A z \in DOMAIN f : z # x => Put(f, x, y)[z] = f[z]
BY DEF Put

LEMMA PutTyped ==
  ASSUME NEW S, NEW T, NEW f, PartialTo(f, S, T), NEW x \in S, NEW y \in T
  PROVE  PartialTo(Put(f, x, y), S, T)
BY DEF Put, PartialTo

LEMMA ListPutTyped ==
  ASSUME NEW f \in ManifestLists, NEW a \in Arches, NEW i \in Image
  PROVE  Put(f, a, i) \in ManifestLists
<1>1. PICK S \in SUBSET Arches : f \in [S -> Image]
  BY DEF ManifestLists
<1>2. Put(f, a, i) \in [S \union {a} -> Image] /\ S \union {a} \in SUBSET Arches
  BY <1>1 DEF Put
<1>3. QED BY <1>2 DEF ManifestLists

-----------------------------------------------------------------------------
(***************************************************************************)
(* The three jobs, and what each leaves alone.                             *)
(***************************************************************************)
ValidationStep(r) == CheckOut(r) \/ RequireOnMain(r) \/ ValidateTag(r) \/ ConfirmLocks(r)
BuildStep(r) == \E a \in Arches : BuildCandidate(r, a) \/ PushImage(r, a) \/ BuildFails(r, a)
PublishStep(r) ==
  \/ CreateList(r)
  \/ \E a \in Arches : AddImage(r, a)
  \/ PushManifest(r) \/ PushCommitTag(r) \/ GenerateInventory(r)
  \/ \E kind \in DOMAIN NextStep : Bind(r, kind)
  \/ VerifySignature(r) \/ CreateRelease(r) \/ PublishFails(r)

\* Of the repository a job changes at most its tag, when it makes it again.
OwnTagOnly(r) ==
  /\ UNCHANGED <<today, main, withdrawn, runs>>
  /\ UNCHANGED tags \/ CreateRelease(r)

LEMMA JobSteps ==
  ASSUME NEW r,
         \/ JobStep(r) /\ UNCHANGED repository
         \/ CreateRelease(r) /\ UNCHANGED <<today, main, withdrawn, runs>>
  PROVE  \/ (ValidationStep(r) \/ BuildStep(r)) /\ UNCHANGED repository
         \/ PublishStep(r) /\ OwnTagOnly(r)
BY DEF JobStep, ValidationStep, BuildStep, PublishStep, OwnTagOnly, repository

LEMMA ValidationFrame ==
  ASSUME NEW r, ValidationStep(r) PROVE UNCHANGED <<build, publish, list, registry>>
BY DEF ValidationStep, CheckOut, RequireOnMain, ValidateTag, ConfirmLocks

LEMMA BuildFrame ==
  ASSUME NEW r, BuildStep(r)
  PROVE  UNCHANGED <<validation, seen, publish, list, manifests, commitTags, evidence, releases>>
BY DEF BuildStep, BuildCandidate, PushImage, BuildFails, registry

LEMMA PublishFrame ==
  ASSUME NEW r, PublishStep(r) PROVE UNCHANGED <<validation, seen, build, images>>
BY DEF PublishStep, CreateList, AddImage, PushManifest, PushCommitTag, GenerateInventory, Bind,
       VerifySignature, CreateRelease, PublishFails, registry

LEMMA RunsTyped == TypeOK => /\ DOMAIN runs = 1 .. Len(runs) /\ Len(runs) \in Nat
                             /\ DOMAIN runs \subseteq Runs
                             /\ \A r \in DOMAIN runs : /\ runs[r].tag \in Tags
                                                       /\ runs[r].commit \in Commits
                                                       /\ runs[r].rightful \in BOOLEAN
<1> SUFFICES ASSUME TypeOK
             PROVE  /\ DOMAIN runs = 1 .. Len(runs) /\ Len(runs) \in Nat
                    /\ DOMAIN runs \subseteq Runs
                    /\ \A r \in DOMAIN runs : /\ runs[r].tag \in Tags
                                              /\ runs[r].commit \in Commits
                                              /\ runs[r].rightful \in BOOLEAN
  OBVIOUS
<1> DEFINE Pushes == [tag : Tags, commit : Commits, rightful : BOOLEAN]
<1>1. runs \in Seq(Pushes) /\ Len(runs) <= MaxRuns /\ MaxRuns \in Nat
  BY ReleaseAssumption DEF TypeOK
<1>2. \A push \in Pushes : push.tag \in Tags /\ push.commit \in Commits /\ push.rightful \in BOOLEAN
  OBVIOUS
<1> HIDE DEF Pushes
<1>3. /\ DOMAIN runs = 1 .. Len(runs) /\ Len(runs) \in Nat
      /\ \A r \in DOMAIN runs : runs[r] \in Pushes
  BY <1>1
<1>4. DOMAIN runs \subseteq Runs
  BY <1>1, <1>3 DEF Runs
<1>5. QED BY <1>2, <1>3, <1>4

-----------------------------------------------------------------------------
(***************************************************************************)
(* The inductive invariant.                                                *)
(***************************************************************************)

\* A run past a check has passed it, and what passed it stays so.
ValidationInv == \A r \in Runs :
  /\ validation[r] # "checkout" => r \in DOMAIN runs
  /\ validation[r] \in {"contract", "locks", "passed"} => runs[r].commit \in main
  /\ validation[r] \in {"locks", "passed"} =>
       /\ runs[r].tag.version = LockOf[runs[r].commit]["amd64"]
       /\ runs[r].tag.day <= today
       /\ runs[r].tag.sequence = NextSequence(runs[r].tag.day, seen[r] \ {runs[r].tag})
  /\ validation[r] = "passed" =>
       \A a, b \in Arches : LockOf[runs[r].commit][a] = LockOf[runs[r].commit][b]

\* A checkout brings every tag pushed so far that was not withdrawn.
SeenInv ==
  /\ \A r \in DOMAIN runs : runs[r].tag \in DOMAIN tags \union withdrawn
  /\ \A r \in DOMAIN runs : validation[r] \notin {"checkout", "failed"} =>
       \A q \in 1 .. r : runs[q].tag \in seen[r] \union withdrawn

\* Images come from validated runs of their tag.
BuildInv ==
  /\ \A r \in Runs, a \in Arches :
       /\ build[r][a] # "waiting" => validation[r] = "passed"
       /\ build[r][a] = "pushed" => <<runs[r].tag, a>> \in DOMAIN images
  /\ \A p \in DOMAIN images :
       LET r == images[p].run
       IN  r \in Runs /\ validation[r] = "passed" /\ runs[r].tag = p[1]

After(step) ==
  CASE step = "commit tag" -> {"inventory"} \union {"provenance", "sbom", "signature", "verify", "release"}
    [] step = "provenance" -> {"sbom", "signature", "verify", "release"}
    [] step = "sbom" -> {"signature", "verify", "release"}
    [] step = "signature" -> {"verify", "release"}

\* How far a publish job is tells what it has pushed.
PublishInv == \A r \in Runs :
  /\ publish[r] # "waiting" => \A a \in Arches : build[r][a] = "pushed"
  /\ publish[r] \in {"waiting", "amd64"} => DOMAIN list[r] = {}
  /\ publish[r] = "arm64" => DOMAIN list[r] = {"amd64"}
  /\ publish[r] \in {"push", "commit tag"} \union After("commit tag") => DOMAIN list[r] = Arches
  /\ publish[r] \in {"commit tag"} \union After("commit tag") => runs[r].tag \in DOMAIN manifests
  /\ \A kind \in DOMAIN NextStep : publish[r] \in After(kind) => <<kind, list[r]>> \in evidence

IInv == TypeOK /\ ValidationInv /\ SeenInv /\ BuildInv /\ PublishInv /\ ReleaseHasEvidence

LEMMA InitInv == Init => IInv
<1> SUFFICES ASSUME Init PROVE IInv
  OBVIOUS
<1>1. DOMAIN Nowhere = {} /\ Nowhere \in ManifestLists
  <2>1. Nowhere \in [{} -> Image] /\ {} \in SUBSET Arches
    BY DEF Nowhere
  <2>2. QED BY <2>1 DEF ManifestLists
<1>2. DOMAIN runs = {}
  BY DEF Init
<1>3. TypeOK
  <2>1. /\ validation \in [Runs -> {"checkout", "ancestor", "contract", "locks", "passed", "failed"}]
        /\ seen \in [Runs -> SUBSET Tags]
        /\ build \in [Runs -> [Arches -> {"waiting", "built", "pushed", "failed", "cancelled"}]]
        /\ publish \in [Runs -> PublishSteps]
        /\ list \in [Runs -> ManifestLists]
    BY <1>1 DEF Init, PublishSteps
  <2>2. runs \in Seq([tag : Tags, commit : Commits, rightful : BOOLEAN]) /\ Len(runs) = 0
    BY DEF Init
  <2>3. today \in Days /\ main \subseteq Commits
    BY ReleaseAssumption DEF Init, Days
  <2>4. /\ PartialTo(tags, Tags, Commits) /\ withdrawn \subseteq Tags
        /\ PartialTo(images, Tags \X Arches, Image) /\ PartialTo(manifests, Tags, ManifestLists)
        /\ PartialTo(commitTags, Commits, ManifestLists)
        /\ DOMAIN releases \subseteq DOMAIN manifests
    BY <1>1 DEF Init, PartialTo
  <2>5. Len(runs) <= MaxRuns
    BY <2>2, ReleaseAssumption
  <2>6. QED BY <2>1, <2>2, <2>3, <2>4, <2>5 DEF TypeOK
<1>4. ValidationInv /\ SeenInv
  BY <1>2 DEF Init, ValidationInv, SeenInv
<1>5. BuildInv
  BY <1>1 DEF Init, BuildInv
<1>6. PublishInv
  BY <1>1 DEF Init, PublishInv, After, NextStep
<1>7. ReleaseHasEvidence
  BY <1>1 DEF Init, ReleaseHasEvidence
<1>8. QED BY <1>3, <1>4, <1>5, <1>6, <1>7 DEF IInv

(***************************************************************************)
(* The repository.                                                         *)
(***************************************************************************)
LEMMA PushTagInv == IInv /\ PushTag /\ UNCHANGED <<jobs, registry>> => IInv'
<1> SUFFICES ASSUME IInv, PushTag, UNCHANGED <<jobs, registry>> PROVE IInv'
  OBVIOUS
<1>1. PICK t \in Tags \ DOMAIN tags, c \in Commits, b \in BOOLEAN :
        /\ tags' = Put(tags, t, c)
        /\ runs' = Append(runs, [tag |-> t, commit |-> c, rightful |-> b])
  BY DEF PushTag
<1> DEFINE new == [tag |-> t, commit |-> c, rightful |-> b]
           n == Len(runs) + 1
<1>2. new \in [tag : Tags, commit : Commits, rightful : BOOLEAN] /\ new.tag = t
  OBVIOUS
<1>3. runs \in Seq([tag : Tags, commit : Commits, rightful : BOOLEAN]) /\ Len(runs) < MaxRuns
  BY DEF IInv, TypeOK, PushTag
<1> HIDE DEF new
<1>4. /\ runs' \in Seq([tag : Tags, commit : Commits, rightful : BOOLEAN])
      /\ Len(runs') = n /\ DOMAIN runs' = 1 .. n /\ DOMAIN runs = 1 .. Len(runs)
      /\ Len(runs) \in Nat
      /\ \A r \in DOMAIN runs : runs'[r] = runs[r]
      /\ runs'[n] = new
  BY <1>1, <1>2, <1>3 DEF new
<1>5. UNCHANGED <<today, main, withdrawn, validation, seen, build, publish, list, images, manifests,
                  commitTags, evidence, releases>>
  BY DEF PushTag, jobs, registry
<1>6. DOMAIN tags' = DOMAIN tags \union {t}
  BY <1>1, PutIs
<1>7. TypeOK'
  <2>1. PartialTo(tags', Tags, Commits)
    BY <1>1, PutTyped DEF IInv, TypeOK
  <2>2. Len(runs') <= MaxRuns
    BY <1>3, <1>4, ReleaseAssumption
  <2>3. QED BY <1>4, <1>5, <2>1, <2>2 DEF IInv, TypeOK
<1>8. ValidationInv'
  <2>1. \A r \in Runs : validation[r] # "checkout" => r \in DOMAIN runs
    BY DEF IInv, ValidationInv
  <2>2. \A r \in Runs : validation[r] # "checkout" => r \in DOMAIN runs' /\ runs'[r] = runs[r]
    BY <1>4, <2>1
  <2>3. QED BY <1>5, <2>1, <2>2 DEF IInv, ValidationInv
<1>9. SeenInv'
  <2>1. \A r \in DOMAIN runs' : runs'[r].tag \in DOMAIN tags' \union withdrawn'
    BY <1>2, <1>4, <1>5, <1>6 DEF IInv, SeenInv
  <2>2. n \in Runs /\ n \notin DOMAIN runs
    BY <1>3, <1>4, ReleaseAssumption DEF Runs
  <2>3. validation'[n] = "checkout"
    BY <1>5, <2>2 DEF IInv, ValidationInv
  <2>4. ASSUME NEW r \in DOMAIN runs', validation'[r] \notin {"checkout", "failed"}, NEW q \in 1 .. r
        PROVE  runs'[q].tag \in seen'[r] \union withdrawn'
    <3>1. r \in DOMAIN runs /\ q \in DOMAIN runs
      BY <1>4, <2>3, <2>4
    <3>2. QED BY <1>4, <1>5, <2>4, <3>1 DEF IInv, SeenInv
  <2>5. QED BY <2>1, <2>4 DEF SeenInv
<1>10. BuildInv'
  <2>1. \A r \in Runs : validation[r] = "passed" => runs'[r] = runs[r]
    BY <1>4 DEF IInv, ValidationInv
  <2>2. QED BY <1>5, <2>1 DEF IInv, BuildInv
<1>11. PublishInv'
  <2>1. \A r \in Runs : publish[r] # "waiting" => runs'[r] = runs[r]
    BY <1>4 DEF IInv, ValidationInv, BuildInv, PublishInv, Arches
  <2>2. \A r \in Runs : publish[r] \in {"commit tag"} \union After("commit tag") => publish[r] # "waiting"
    BY DEF After
  <2>3. QED BY <1>5, <2>1, <2>2 DEF IInv, PublishInv
<1>12. ReleaseHasEvidence'
  BY <1>5 DEF IInv, ReleaseHasEvidence
<1>13. QED BY <1>7, <1>8, <1>9, <1>10, <1>11, <1>12 DEF IInv

LEMMA OtherRepositoryInv ==
  ASSUME IInv, WithdrawTag \/ NextDay \/ Merge, UNCHANGED <<jobs, registry>>
  PROVE  IInv'
<1>1. /\ UNCHANGED <<runs, validation, seen, build, publish, list, images, manifests, commitTags,
                     evidence, releases>>
      /\ today' \in Days /\ today <= today' /\ main \subseteq main' /\ main' \subseteq Commits
      /\ PartialTo(tags', Tags, Commits)
      /\ withdrawn \subseteq withdrawn' /\ withdrawn' \subseteq Tags
      /\ DOMAIN tags \subseteq DOMAIN tags' \union withdrawn'
  <2>1. UNCHANGED <<runs, validation, seen, build, publish, list, images, manifests, commitTags,
                    evidence, releases>>
    BY DEF WithdrawTag, NextDay, Merge, jobs, registry
  <2>2. today \in Int /\ today \in Days
    BY DEF IInv, TypeOK, Days
  <2>3. CASE WithdrawTag
    BY <2>1, <2>2, <2>3 DEF WithdrawTag, IInv, TypeOK, PartialTo
  <2>4. CASE NextDay
    BY <2>1, <2>2, <2>4, ReleaseAssumption DEF NextDay, IInv, TypeOK, PartialTo, Days
  <2>5. CASE Merge
    BY <2>1, <2>2, <2>5 DEF Merge, IInv, TypeOK, PartialTo
  <2>6. QED BY <2>3, <2>4, <2>5
<1>2. TypeOK'
  BY <1>1 DEF IInv, TypeOK
<1>3. ValidationInv'
  <2>1. \A r \in Runs : validation[r] \in {"locks", "passed"} => runs[r].tag.day <= today'
    <3> SUFFICES ASSUME NEW r \in Runs, validation[r] \in {"locks", "passed"}
                 PROVE  runs[r].tag.day <= today'
      OBVIOUS
    <3>1. runs[r].tag \in Tags /\ runs[r].tag.day <= today
      BY RunsTyped DEF IInv, ValidationInv
    <3>2. runs[r].tag.day \in Int /\ today \in Int /\ today' \in Int
      BY <1>1, <3>1 DEF IInv, TypeOK, Tags, Days
    <3>3. QED BY <1>1, <3>1, <3>2
  <2>2. QED BY <1>1, <2>1 DEF IInv, ValidationInv
<1>4. SeenInv'
  BY <1>1 DEF IInv, SeenInv
<1>5. BuildInv' /\ PublishInv' /\ ReleaseHasEvidence'
  BY <1>1 DEF IInv, BuildInv, PublishInv, ReleaseHasEvidence
<1>6. QED BY <1>2, <1>3, <1>4, <1>5 DEF IInv

(***************************************************************************)
(* Job validate-tag.                                                       *)
(***************************************************************************)
LEMMA ValidationJobInv ==
  ASSUME IInv, NEW r \in DOMAIN runs, ValidationStep(r), UNCHANGED repository
  PROVE  IInv'
<1>1. UNCHANGED <<today, main, tags, withdrawn, runs, build, publish, list, images, manifests,
                  commitTags, evidence, releases>>
  BY ValidationFrame DEF repository, registry
<1>2. r \in Runs
  BY RunsTyped DEF IInv
<1>3. /\ \A q \in Runs \ {r} : validation'[q] = validation[q] /\ seen'[q] = seen[q]
      /\ validation' \in [Runs -> {"checkout", "ancestor", "contract", "locks", "passed", "failed"}]
      /\ seen' \in [Runs -> SUBSET Tags]
  <2>1. ASSUME NEW b, NEW step \in {"ancestor", "contract", "locks", "passed"}, Validated(r, b, step)
        PROVE  /\ \A q \in Runs \ {r} : validation'[q] = validation[q]
               /\ validation' \in [Runs -> {"checkout", "ancestor", "contract", "locks", "passed", "failed"}]
    BY <1>2, <2>1 DEF Validated, IInv, TypeOK
  <2>2. CASE CheckOut(r)
    BY <1>2, <2>1, <2>2 DEF CheckOut, IInv, TypeOK, PartialTo
  <2>3. CASE RequireOnMain(r)
    BY <2>1, <2>3 DEF RequireOnMain, IInv, TypeOK
  <2>4. CASE ValidateTag(r)
    BY <2>1, <2>4 DEF ValidateTag, IInv, TypeOK
  <2>5. CASE ConfirmLocks(r)
    BY <2>1, <2>5 DEF ConfirmLocks, IInv, TypeOK
  <2>6. QED BY <2>2, <2>3, <2>4, <2>5 DEF ValidationStep
<1>4. TypeOK'
  BY <1>1, <1>3 DEF IInv, TypeOK
<1>5. /\ validation'[r] \in {"contract", "locks", "passed"} => runs[r].commit \in main
      /\ validation'[r] \in {"locks", "passed"} =>
           /\ runs[r].tag.version = LockOf[runs[r].commit]["amd64"]
           /\ runs[r].tag.day <= today
           /\ runs[r].tag.sequence = NextSequence(runs[r].tag.day, seen'[r] \ {runs[r].tag})
      /\ validation'[r] = "passed" =>
           \A a, b \in Arches : LockOf[runs[r].commit][a] = LockOf[runs[r].commit][b]
  <2>1. CASE CheckOut(r)
    BY <1>2, <2>1 DEF CheckOut, Validated, IInv, TypeOK
  <2>2. CASE RequireOnMain(r)
    BY <1>2, <2>2 DEF RequireOnMain, Validated, IInv, TypeOK
  <2>3. CASE ValidateTag(r)
    BY <1>2, <2>3 DEF ValidateTag, Validated, Conforms, IInv, TypeOK, ValidationInv
  <2>4. CASE ConfirmLocks(r)
    BY <1>2, <2>4 DEF ConfirmLocks, Validated, IInv, TypeOK, ValidationInv
  <2>5. QED BY <2>1, <2>2, <2>3, <2>4 DEF ValidationStep
<1>6. ValidationInv'
  <2> SUFFICES ASSUME NEW q \in Runs
               PROVE  /\ validation'[q] # "checkout" => q \in DOMAIN runs
                      /\ validation'[q] \in {"contract", "locks", "passed"} => runs[q].commit \in main
                      /\ validation'[q] \in {"locks", "passed"} =>
                           /\ runs[q].tag.version = LockOf[runs[q].commit]["amd64"]
                           /\ runs[q].tag.day <= today
                           /\ runs[q].tag.sequence =
                                NextSequence(runs[q].tag.day, seen'[q] \ {runs[q].tag})
                      /\ validation'[q] = "passed" =>
                           \A a, b \in Arches : LockOf[runs[q].commit][a] = LockOf[runs[q].commit][b]
    BY <1>1 DEF ValidationInv
  <2>1. CASE q = r
    BY <1>5, <2>1
  <2>2. CASE q # r
    BY <1>3, <2>2 DEF IInv, ValidationInv
  <2>3. QED BY <2>1, <2>2
<1>7. SeenInv'
  <2> SUFFICES ASSUME NEW q \in DOMAIN runs, validation'[q] \notin {"checkout", "failed"}
               PROVE  \A p \in 1 .. q : runs[p].tag \in seen'[q] \union withdrawn
    BY <1>1 DEF IInv, SeenInv
  <2>1. CASE q # r
    BY <1>3, <2>1, RunsTyped DEF IInv, SeenInv
  <2>2. CASE q = r /\ CheckOut(r)
    <3>1. seen'[r] = DOMAIN tags
      BY <1>2, <2>2 DEF CheckOut, IInv, TypeOK
    <3>2. 1 .. q \subseteq DOMAIN runs
      BY RunsTyped DEF IInv
    <3>3. QED BY <2>2, <3>1, <3>2 DEF IInv, SeenInv
  <2>3. CASE q = r /\ (RequireOnMain(r) \/ ValidateTag(r) \/ ConfirmLocks(r))
    <3>1. seen' = seen /\ validation[r] \notin {"checkout", "failed"}
      BY <2>3 DEF RequireOnMain, ValidateTag, ConfirmLocks
    <3>2. QED BY <2>3, <3>1 DEF IInv, SeenInv
  <2>4. QED BY <2>1, <2>2, <2>3 DEF ValidationStep
<1>8. BuildInv'
  <2>1. \A q \in Runs : validation[q] = "passed" => validation'[q] = "passed"
    <3>1. validation[r] # "passed"
      BY DEF ValidationStep, CheckOut, RequireOnMain, ValidateTag, ConfirmLocks
    <3>2. QED BY <1>3, <3>1
  <2>2. QED BY <1>1, <2>1 DEF IInv, BuildInv
<1>9. PublishInv' /\ ReleaseHasEvidence'
  BY <1>1 DEF IInv, PublishInv, ReleaseHasEvidence
<1>10. QED BY <1>4, <1>6, <1>7, <1>8, <1>9 DEF IInv

(***************************************************************************)
(* Job build.                                                              *)
(***************************************************************************)
LEMMA BuildJobInv ==
  ASSUME IInv, NEW r \in DOMAIN runs, BuildStep(r), UNCHANGED repository
  PROVE  IInv'
<1>1. UNCHANGED <<today, main, tags, withdrawn, runs, validation, seen, publish, list, manifests,
                  commitTags, evidence, releases>>
  BY BuildFrame DEF repository
<1>2. r \in Runs /\ runs[r].tag \in Tags
  BY RunsTyped DEF IInv
<1>3. PICK a \in Arches : BuildCandidate(r, a) \/ PushImage(r, a) \/ BuildFails(r, a)
  BY DEF BuildStep
<1>4. /\ build' \in [Runs -> [Arches -> {"waiting", "built", "pushed", "failed", "cancelled"}]]
      /\ \A q \in Runs, b \in Arches : q # r \/ b # a => build'[q][b] = build[q][b]
      /\ validation[r] = "passed" /\ build[r][a] # "pushed"
      /\ build'[r][a] = "pushed" => PushImage(r, a)
  <2>1. PICK v \in {"built", "pushed", "failed", "cancelled"} :
          /\ build' = [build EXCEPT ![r][a] = v]
          /\ v = "pushed" => PushImage(r, a)
    BY <1>3 DEF BuildCandidate, PushImage, BuildFails
  <2>2. build \in [Runs -> [Arches -> {"waiting", "built", "pushed", "failed", "cancelled"}]]
    BY DEF IInv, TypeOK
  <2>3. build' \in [Runs -> [Arches -> {"waiting", "built", "pushed", "failed", "cancelled"}]]
    BY <1>2, <2>1, <2>2
  <2>4. \A q \in Runs, b \in Arches :
          build'[q][b] = IF q = r /\ b = a THEN v ELSE build[q][b]
    BY <1>2, <2>1, <2>2
  <2>5. build[r][a] \in {"waiting", "built"}
    BY <1>3 DEF BuildCandidate, PushImage, BuildFails
  <2>6. validation[r] = "passed"
    BY <1>2, <1>3 DEF BuildCandidate, PushImage, BuildFails, IInv, BuildInv
  <2>7. QED BY <1>2, <2>1, <2>3, <2>4, <2>5, <2>6
<1> DEFINE p == <<runs[r].tag, a>>
<1>5. ASSUME PushImage(r, a) PROVE TypeOK' /\ BuildInv'
  <2>1. images' = Put(images, p, OfRun(r, a))
    BY <1>5 DEF PushImage
  <2>2. /\ DOMAIN images' = DOMAIN images \union {p} /\ images'[p] = OfRun(r, a)
        /\ \A x \in DOMAIN images : x # p => images'[x] = images[x]
    <3> HIDE DEF p
    <3>1. images' = [z \in (DOMAIN images) \union {p} |-> IF z = p THEN OfRun(r, a) ELSE images[z]]
      BY <2>1 DEF Put
    <3>2. QED BY <3>1
  <2>3. OfRun(r, a) \in Image /\ OfRun(r, a).run = r /\ p \in Tags \X Arches
    BY <1>2 DEF OfRun, Image
  <2>4. PartialTo(images', Tags \X Arches, Image)
    BY <2>1, <2>3, PutTyped DEF IInv, TypeOK
  <2>5. TypeOK'
    BY <1>1, <1>4, <2>4 DEF IInv, TypeOK
  <2>6. BuildInv'
    <3>1. \A x \in DOMAIN images' :
            /\ images'[x].run \in Runs /\ validation[images'[x].run] = "passed"
            /\ runs[images'[x].run].tag = x[1]
      <4> SUFFICES ASSUME NEW x \in DOMAIN images'
                   PROVE  /\ images'[x].run \in Runs /\ validation[images'[x].run] = "passed"
                          /\ runs[images'[x].run].tag = x[1]
        OBVIOUS
      <4>1. CASE x = p
        BY <1>2, <1>4, <2>2, <2>3, <4>1
      <4>2. CASE x # p
        BY <2>2, <4>2 DEF IInv, BuildInv
      <4>3. QED BY <4>1, <4>2
    <3>2. ASSUME NEW q \in Runs, NEW b \in Arches
          PROVE  /\ build'[q][b] # "waiting" => validation[q] = "passed"
                 /\ build'[q][b] = "pushed" => <<runs[q].tag, b>> \in DOMAIN images'
      BY <1>4, <2>2 DEF IInv, BuildInv
    <3>3. QED BY <1>1, <3>1, <3>2 DEF BuildInv
  <2>7. QED BY <2>5, <2>6
<1>6. ASSUME ~PushImage(r, a) PROVE TypeOK' /\ BuildInv'
  <2>1. images' = images
    BY <1>3, <1>6 DEF BuildCandidate, BuildFails, registry
  <2>2. TypeOK'
    BY <1>1, <1>4, <2>1 DEF IInv, TypeOK
  <2>3. ASSUME NEW q \in Runs, NEW b \in Arches
        PROVE  /\ build'[q][b] # "waiting" => validation[q] = "passed"
               /\ build'[q][b] = "pushed" => <<runs[q].tag, b>> \in DOMAIN images
    BY <1>4, <1>6 DEF IInv, BuildInv
  <2>4. BuildInv'
    BY <1>1, <2>1, <2>3 DEF IInv, BuildInv
  <2>5. QED BY <2>2, <2>4
<1>7. ValidationInv' /\ SeenInv' /\ ReleaseHasEvidence'
  BY <1>1 DEF IInv, ValidationInv, SeenInv, ReleaseHasEvidence
<1>8. PublishInv'
  <2>1. \A q \in Runs, b \in Arches : build[q][b] = "pushed" => build'[q][b] = "pushed"
    BY <1>4
  <2>2. QED BY <1>1, <2>1 DEF IInv, PublishInv
<1>9. QED BY <1>5, <1>6, <1>7, <1>8 DEF IInv

(***************************************************************************)
(* Job publish-manifest.                                                   *)
(***************************************************************************)

\* What PublishInv says of one run.
Prepared(step, contents, tag, evid, mans) ==
  /\ step \in {"waiting", "amd64"} => DOMAIN contents = {}
  /\ step = "arm64" => DOMAIN contents = {"amd64"}
  /\ step \in {"push", "commit tag"} \union After("commit tag") => DOMAIN contents = Arches
  /\ step \in {"commit tag"} \union After("commit tag") => tag \in DOMAIN mans
  /\ \A kind \in DOMAIN NextStep : step \in After(kind) => <<kind, contents>> \in evid

\* A step of the job adds to what is published and takes nothing away.
Grows(r) ==
  /\ DOMAIN manifests \subseteq DOMAIN manifests'
  /\ evidence \subseteq evidence'
  /\ \A q \in Runs \ {r} : publish'[q] = publish[q] /\ list'[q] = list[q]

LEMMA PublishInvStep ==
  ASSUME IInv, NEW r \in DOMAIN runs, Grows(r), UNCHANGED <<runs, build>>,
         publish'[r] # "waiting" => \A a \in Arches : build[r][a] = "pushed",
         Prepared(publish'[r], list'[r], runs[r].tag, evidence', manifests')
  PROVE  PublishInv'
<1> SUFFICES ASSUME NEW q \in Runs
             PROVE  /\ publish'[q] # "waiting" => \A a \in Arches : build[q][a] = "pushed"
                    /\ Prepared(publish'[q], list'[q], runs[q].tag, evidence', manifests')
  BY DEF PublishInv, Prepared
<1>1. CASE q = r
  BY <1>1
<1>2. CASE q # r
  BY <1>2 DEF IInv, PublishInv, Prepared, Grows
<1>3. QED BY <1>1, <1>2

LEMMA PublishTyped ==
  ASSUME TypeOK, NEW r \in Runs, NEW step \in PublishSteps, Published(r, step)
  PROVE  /\ publish' \in [Runs -> PublishSteps] /\ publish'[r] = step
         /\ \A q \in Runs \ {r} : publish'[q] = publish[q]
BY DEF TypeOK, Published

\* A tag that is made again was withdrawn.
LEMMA TagMadeAgain ==
  ASSUME IInv, NEW r \in DOMAIN runs, OwnTagOnly(r)
  PROVE  /\ PartialTo(tags', Tags, Commits)
         /\ DOMAIN tags \subseteq DOMAIN tags' /\ DOMAIN tags' \subseteq DOMAIN tags \union withdrawn
<1>1. PartialTo(tags, Tags, Commits) /\ main \subseteq Commits
  BY DEF IInv, TypeOK
<1>2. runs[r].tag \in Tags /\ runs[r].tag \in DOMAIN tags \union withdrawn
  BY RunsTyped DEF IInv, SeenInv
<1>3. tags' = tags \/ \E c \in main : runs[r].tag \notin DOMAIN tags /\ tags' = Put(tags, runs[r].tag, c)
  BY DEF OwnTagOnly, CreateRelease, MakeTag
<1>4. CASE tags' = tags
  BY <1>1, <1>4
<1>5. ASSUME NEW c \in main, runs[r].tag \notin DOMAIN tags, tags' = Put(tags, runs[r].tag, c)
      PROVE  /\ PartialTo(tags', Tags, Commits)
             /\ DOMAIN tags \subseteq DOMAIN tags'
             /\ DOMAIN tags' \subseteq DOMAIN tags \union withdrawn
  <2>1. c \in Commits
    BY <1>1
  <2>2. PartialTo(tags', Tags, Commits)
    BY <1>1, <1>2, <1>5, <2>1, PutTyped
  <2>3. DOMAIN tags' = DOMAIN tags \union {runs[r].tag}
    BY <1>5 DEF Put
  <2>4. QED BY <1>2, <1>5, <2>2, <2>3
<1>6. QED BY <1>3, <1>4, <1>5

LEMMA PublishJobInv ==
  ASSUME IInv, NEW r \in DOMAIN runs, PublishStep(r), OwnTagOnly(r)
  PROVE  IInv'
<1>0. PartialTo(tags', Tags, Commits) /\ DOMAIN tags \subseteq DOMAIN tags'
  BY TagMadeAgain
<1>1. UNCHANGED <<today, main, withdrawn, runs, validation, seen, build, images>>
  BY PublishFrame DEF OwnTagOnly
<1>2. r \in Runs /\ runs[r].tag \in Tags /\ runs[r].commit \in Commits
  BY RunsTyped DEF IInv
<1>3. TypeOK /\ list[r] \in ManifestLists
  BY <1>2 DEF IInv, TypeOK
<1>4. /\ publish[r] # "waiting" => \A a \in Arches : build[r][a] = "pushed"
      /\ Prepared(publish[r], list[r], runs[r].tag, evidence, manifests)
  BY <1>2 DEF IInv, PublishInv, Prepared
<1>5. ValidationInv' /\ SeenInv' /\ BuildInv'
  BY <1>0, <1>1 DEF IInv, ValidationInv, SeenInv, BuildInv
<1>6. ASSUME publish' \in [Runs -> PublishSteps], list' \in [Runs -> ManifestLists],
             PartialTo(manifests', Tags, ManifestLists),
             PartialTo(commitTags', Commits, ManifestLists),
             DOMAIN releases' \subseteq DOMAIN manifests',
             Grows(r),
             \A a \in Arches : build[r][a] = "pushed",
             Prepared(publish'[r], list'[r], runs[r].tag, evidence', manifests'),
             ReleaseHasEvidence'
      PROVE  IInv'
  <2>1. TypeOK'
    BY <1>0, <1>1, <1>3, <1>6 DEF TypeOK
  <2>2. PublishInv'
    BY <1>1, <1>6, PublishInvStep
  <2>3. QED BY <1>5, <1>6, <2>1, <2>2 DEF IInv
<1>7. /\ list \in [Runs -> ManifestLists] /\ PartialTo(manifests, Tags, ManifestLists)
      /\ PartialTo(commitTags, Commits, ManifestLists) /\ DOMAIN releases \subseteq DOMAIN manifests
      /\ ReleaseHasEvidence
  BY DEF IInv, TypeOK
<1>8. ASSUME registry' = registry, list' = list, NEW step \in PublishSteps, Published(r, step),
             Prepared(step, list[r], runs[r].tag, evidence, manifests),
             \A a \in Arches : build[r][a] = "pushed"
      PROVE  IInv'
  <2>1. /\ publish' \in [Runs -> PublishSteps] /\ publish'[r] = step
        /\ \A q \in Runs \ {r} : publish'[q] = publish[q]
    BY <1>2, <1>3, <1>8, PublishTyped
  <2>2. UNCHANGED <<manifests, commitTags, evidence, releases>>
    BY <1>8 DEF registry
  <2>3. Grows(r) /\ ReleaseHasEvidence'
    BY <1>7, <1>8, <2>1, <2>2 DEF Grows, ReleaseHasEvidence
  <2>4. QED BY <1>6, <1>7, <1>8, <2>1, <2>2, <2>3
<1>9. Prepared("failed", list[r], runs[r].tag, evidence, manifests)
  BY DEF Prepared, After, NextStep
<1>10. CASE CreateList(r)
  <2>1. Prepared("amd64", list[r], runs[r].tag, evidence, manifests)
    BY <1>4, <1>10 DEF CreateList, Prepared, After, NextStep
  <2>2. \A a \in Arches : build[r][a] = "pushed"
    BY <1>10 DEF CreateList
  <2>3. PICK step \in {"amd64", "failed"} : Published(r, step)
    BY <1>10 DEF CreateList
  <2>4. step \in PublishSteps /\ Prepared(step, list[r], runs[r].tag, evidence, manifests)
    BY <1>9, <2>1 DEF PublishSteps
  <2>5. registry' = registry /\ list' = list
    BY <1>10 DEF CreateList
  <2>6. QED BY <1>8, <2>2, <2>3, <2>4, <2>5
<1>11. ASSUME NEW a \in Arches, AddImage(r, a) PROVE IInv'
  <2> DEFINE i == images[<<runs[r].tag, a>>]
  <2>1. \A b \in Arches : build[r][b] = "pushed"
    BY <1>4, <1>11 DEF AddImage, Arches
  <2>2. i \in Image
    BY <1>2, <2>1 DEF IInv, BuildInv, TypeOK, PartialTo
  <2> HIDE DEF i
  <2>3. Put(list[r], a, i) \in ManifestLists
    BY <1>3, <2>2, ListPutTyped
  <2>4. list' = [list EXCEPT ![r] = Put(list[r], a, i)]
    BY <1>11 DEF AddImage, i
  <2>5. /\ list' \in [Runs -> ManifestLists] /\ list'[r] = Put(list[r], a, i)
        /\ \A q \in Runs \ {r} : list'[q] = list[q]
    BY <1>2, <1>7, <2>3, <2>4
  <2>6. DOMAIN list'[r] = DOMAIN list[r] \union {a}
    BY <2>5 DEF Put
  <2>7. UNCHANGED <<manifests, commitTags, evidence, releases>>
    BY <1>11 DEF AddImage, registry
  <2>8. PICK step \in {"arm64", "push"} :
          Published(r, step) /\ step = (IF a = "amd64" THEN "arm64" ELSE "push")
    BY <1>11 DEF AddImage
  <2>9. step \in PublishSteps
    BY DEF PublishSteps
  <2>10. /\ publish' \in [Runs -> PublishSteps] /\ publish'[r] = step
         /\ \A q \in Runs \ {r} : publish'[q] = publish[q]
    BY <1>2, <1>3, <2>8, <2>9, PublishTyped
  <2>11. Prepared(step, list'[r], runs[r].tag, evidence, manifests)
    <3>1. publish[r] = a
      BY <1>11 DEF AddImage
    <3>2. CASE a = "amd64"
      BY <1>4, <2>6, <2>8, <3>1, <3>2 DEF Prepared, After, NextStep
    <3>3. CASE a = "arm64"
      BY <1>4, <2>6, <2>8, <3>1, <3>3 DEF Prepared, After, NextStep, Arches
    <3>4. QED BY <3>2, <3>3 DEF Arches
  <2>12. Grows(r) /\ ReleaseHasEvidence'
    BY <1>7, <2>5, <2>7, <2>10 DEF Grows, ReleaseHasEvidence
  <2>13. QED BY <1>6, <1>7, <2>1, <2>5, <2>7, <2>10, <2>11, <2>12
<1>12. ASSUME publish[r] # "waiting" PROVE \A a \in Arches : build[r][a] = "pushed"
  BY <1>4, <1>12
<1>13. ASSUME list' = list, publish[r] # "waiting", NEW step \in PublishSteps, Published(r, step),
              PartialTo(manifests', Tags, ManifestLists), DOMAIN manifests \subseteq DOMAIN manifests',
              PartialTo(commitTags', Commits, ManifestLists),
              evidence \subseteq evidence',
              DOMAIN releases' \subseteq DOMAIN manifests', ReleaseHasEvidence',
              Prepared(step, list[r], runs[r].tag, evidence', manifests')
       PROVE  IInv'
  <2>1. /\ publish' \in [Runs -> PublishSteps] /\ publish'[r] = step
        /\ \A q \in Runs \ {r} : publish'[q] = publish[q]
    BY <1>2, <1>3, <1>13, PublishTyped
  <2>2. Grows(r)
    BY <1>13, <2>1 DEF Grows
  <2>3. QED BY <1>6, <1>7, <1>12, <1>13, <2>1, <2>2
<1>14. CASE PushManifest(r)
  <2>1. manifests' = Put(manifests, runs[r].tag, list[r])
    BY <1>14 DEF PushManifest
  <2>2. /\ DOMAIN manifests' = DOMAIN manifests \union {runs[r].tag}
        /\ PartialTo(manifests', Tags, ManifestLists)
    BY <1>2, <1>3, <1>7, <2>1, PutIs, PutTyped
  <2>3. Prepared("commit tag", list[r], runs[r].tag, evidence, manifests')
    BY <1>4, <1>14, <2>2 DEF PushManifest, Prepared, After, NextStep
  <2>4. UNCHANGED <<list, commitTags, evidence, releases>> /\ Published(r, "commit tag")
        /\ publish[r] = "push"
    BY <1>14 DEF PushManifest
  <2>5. ReleaseHasEvidence'
    BY <1>7, <2>4 DEF ReleaseHasEvidence
  <2>6. "commit tag" \in PublishSteps
    BY DEF PublishSteps
  <2>7. QED BY <1>7, <1>13, <2>2, <2>3, <2>4, <2>5, <2>6
<1>15. CASE PushCommitTag(r)
  <2>1. PartialTo(commitTags', Commits, ManifestLists)
    BY <1>2, <1>3, <1>7, <1>15, PutTyped DEF PushCommitTag
  <2>2. UNCHANGED <<list, manifests, evidence, releases>> /\ Published(r, "inventory")
        /\ publish[r] = "commit tag"
    BY <1>15 DEF PushCommitTag
  <2>3. Prepared("inventory", list[r], runs[r].tag, evidence, manifests)
    BY <1>4, <2>2 DEF Prepared, After, NextStep
  <2>4. ReleaseHasEvidence' /\ "inventory" \in PublishSteps
    BY <1>7, <2>2 DEF ReleaseHasEvidence, PublishSteps
  <2>5. QED BY <1>7, <1>13, <2>1, <2>2, <2>3, <2>4
<1>16. CASE GenerateInventory(r)
  <2>1. registry' = registry /\ list' = list /\ Published(r, "provenance") /\ publish[r] = "inventory"
    BY <1>16 DEF GenerateInventory
  <2>2. Prepared("provenance", list[r], runs[r].tag, evidence, manifests) /\ "provenance" \in PublishSteps
    BY <1>4, <2>1 DEF Prepared, After, NextStep, PublishSteps
  <2>3. QED BY <1>8, <1>12, <2>1, <2>2
<1>17. ASSUME NEW kind \in DOMAIN NextStep, Bind(r, kind) PROVE IInv'
  <2>1. /\ UNCHANGED <<list, manifests, commitTags, releases>>
        /\ evidence' = evidence \union {<<kind, list[r]>>}
        /\ Published(r, NextStep[kind]) /\ publish[r] = kind
    BY <1>17 DEF Bind
  <2> DEFINE next == NextStep[kind]
  <2>2. \/ kind = "provenance" /\ next = "sbom"
        \/ kind = "sbom" /\ next = "signature"
        \/ kind = "signature" /\ next = "verify"
    BY DEF NextStep
  <2> HIDE DEF next
  <2>3. Prepared(next, list[r], runs[r].tag, evidence', manifests)
    <3>1. DOMAIN NextStep = {"provenance", "sbom", "signature"}
      BY DEF NextStep
    <3>2. CASE kind = "provenance"
      BY <1>4, <2>1, <2>2, <3>1, <3>2 DEF Prepared, After
    <3>3. CASE kind = "sbom"
      BY <1>4, <2>1, <2>2, <3>1, <3>3 DEF Prepared, After
    <3>4. CASE kind = "signature"
      BY <1>4, <2>1, <2>2, <3>1, <3>4 DEF Prepared, After
    <3>5. QED BY <2>2, <3>2, <3>3, <3>4
  <2>4. ReleaseHasEvidence'
    BY <1>7, <2>1 DEF ReleaseHasEvidence
  <2>5. next \in PublishSteps /\ publish[r] # "waiting"
    BY <2>1, <2>2 DEF PublishSteps
  <2>6. QED BY <1>7, <1>13, <2>1, <2>3, <2>4, <2>5 DEF next
<1>18. CASE VerifySignature(r)
  <2>1. registry' = registry /\ list' = list /\ publish[r] = "verify"
    BY <1>18 DEF VerifySignature
  <2>2. PICK step \in {"release", "failed"} : Published(r, step)
    BY <1>18 DEF VerifySignature
  <2>3. Prepared(step, list[r], runs[r].tag, evidence, manifests) /\ step \in PublishSteps
    BY <1>4, <1>9, <2>1 DEF Prepared, After, NextStep, PublishSteps
  <2>4. QED BY <1>8, <1>12, <2>1, <2>2, <2>3
<1>19. CASE CreateRelease(r)
  <2>1. UNCHANGED <<list, manifests, commitTags, evidence>> /\ publish[r] = "release"
    BY <1>19 DEF CreateRelease
  <2>2. PICK step \in {"done", "failed"} : Published(r, step)
    BY <1>19 DEF CreateRelease
  <2>3. Prepared(step, list[r], runs[r].tag, evidence, manifests) /\ step \in PublishSteps
    BY DEF Prepared, After, NextStep, PublishSteps
  <2>4. releases' \in {releases, Put(releases, runs[r].tag, list[r])}
    BY <1>19 DEF CreateRelease
  <2>5. /\ runs[r].tag \in DOMAIN manifests /\ DOMAIN list[r] = Arches
        /\ \A kind \in DOMAIN NextStep : <<kind, list[r]>> \in evidence
    BY <1>4, <2>1 DEF Prepared, After, NextStep
  <2>6. ReleaseHasEvidence' /\ DOMAIN releases' \subseteq DOMAIN manifests
    <3>1. CASE releases' = releases
      BY <1>7, <2>1, <3>1 DEF ReleaseHasEvidence
    <3>2. CASE releases' = Put(releases, runs[r].tag, list[r])
      BY <1>7, <2>1, <2>5, <3>2 DEF ReleaseHasEvidence, Put
    <3>3. QED BY <2>4, <3>1, <3>2
  <2>7. QED BY <1>7, <1>13, <2>1, <2>2, <2>3, <2>6
<1>20. CASE PublishFails(r)
  <2>1. registry' = registry /\ list' = list /\ Published(r, "failed") /\ publish[r] # "waiting"
        /\ "failed" \in PublishSteps
    BY <1>20 DEF PublishFails, PublishSteps
  <2>2. QED BY <1>8, <1>9, <1>12, <2>1
<1>21. QED
  BY <1>10, <1>11, <1>14, <1>15, <1>16, <1>17, <1>18, <1>19, <1>20 DEF PublishStep

LEMMA NextInv == IInv /\ [Next]_vars => IInv'
<1> SUFFICES ASSUME IInv, [Next]_vars PROVE IInv'
  OBVIOUS
<1>1. CASE (PushTag \/ WithdrawTag \/ NextDay \/ Merge) /\ UNCHANGED <<jobs, registry>>
  BY <1>1, PushTagInv, OtherRepositoryInv
<1>2. ASSUME NEW r \in DOMAIN runs,
             \/ JobStep(r) /\ UNCHANGED repository
             \/ CreateRelease(r) /\ UNCHANGED <<today, main, withdrawn, runs>>
      PROVE  IInv'
  BY <1>2, JobSteps, ValidationJobInv, BuildJobInv, PublishJobInv
<1>3. CASE UNCHANGED vars
  <2>1. UNCHANGED <<today, main, tags, withdrawn, runs, validation, seen, build, publish, list,
                    images, manifests, commitTags, evidence, releases>>
    BY <1>3 DEF vars, repository, jobs, registry
  <2>2. TypeOK'
    BY <2>1 DEF IInv, TypeOK
  <2>3. ValidationInv' /\ SeenInv'
    BY <2>1 DEF IInv, ValidationInv, SeenInv
  <2>4. BuildInv' /\ PublishInv' /\ ReleaseHasEvidence'
    BY <2>1 DEF IInv, BuildInv, PublishInv, ReleaseHasEvidence
  <2>5. QED BY <2>2, <2>3, <2>4 DEF IInv
<1>4. QED BY <1>1, <1>2, <1>3 DEF Next

LEMMA Invariance == Spec => []IInv
BY InitInv, NextInv, PTL DEF Spec

-----------------------------------------------------------------------------

\* Every variable keeps its type.
THEOREM Typed == Spec => []TypeOK
<1>1. IInv => TypeOK
  BY DEF IInv
<1>2. QED BY Invariance, <1>1, PTL

\* release.yml 201-285: what a release announces has its evidence, whatever
\* other runs do to the tags.
THEOREM EvidenceOfReleases == Spec => []ReleaseHasEvidence
<1>1. IInv => ReleaseHasEvidence
  BY DEF IInv
<1>2. QED BY Invariance, <1>1, PTL

\* release.yml 35-164: no image is pushed before its run has passed every check
\* of its tag, and what it passed stays true.
THEOREM ContractOfImages == Spec => []PublishedHonoursContract
<1>1. IInv => PublishedHonoursContract
  <2> SUFFICES ASSUME IInv, NEW p \in DOMAIN images
               PROVE  LET c == runs[images[p].run].commit
                      IN  c \in main /\ LockOf[c][p[2]] = p[1].version /\ p[1].day <= today
    BY DEF PublishedHonoursContract
  <2> DEFINE r == images[p].run
  <2>1. r \in Runs /\ validation[r] = "passed" /\ runs[r].tag = p[1]
    BY DEF IInv, BuildInv
  <2>2. p \in Tags \X Arches
    BY DEF IInv, TypeOK, PartialTo
  <2>3. p[2] \in Arches /\ "amd64" \in Arches
    BY <2>2 DEF Arches
  <2>4. /\ runs[r].commit \in main /\ runs[r].tag.version = LockOf[runs[r].commit]["amd64"]
        /\ runs[r].tag.day <= today
        /\ \A a, b \in Arches : LockOf[runs[r].commit][a] = LockOf[runs[r].commit][b]
    BY <2>1 DEF IInv, ValidationInv
  <2>5. QED BY <2>1, <2>3, <2>4
<1>2. QED BY Invariance, <1>1, PTL

\* release_tag.py 101-153 with release.yml 35-39: tags that were accepted and
\* not withdrawn have different sequences, however their runs overlap.
THEOREM SequencesOfAccepted == Spec => []AcceptedSequencesDistinct
<1>1. IInv => AcceptedSequencesDistinct
  <2>1. ASSUME IInv, NEW q \in Runs, NEW r \in Runs, Accepted(q), Accepted(r), q <= r,
               runs[q].tag # runs[r].tag, {runs[q].tag, runs[r].tag} \intersect withdrawn = {}
        PROVE  ~SameSequence(runs[q].tag, runs[r].tag)
    <3> DEFINE t == runs[q].tag
               existing == seen[r] \ {runs[r].tag}
    <3>1. q \in DOMAIN runs /\ r \in DOMAIN runs /\ q \in 1 .. r
      BY <2>1, RunsTyped, ReleaseAssumption DEF Accepted, IInv, Runs
    <3>2. t \in seen[r]
      BY <2>1, <3>1 DEF Accepted, IInv, SeenInv
    <3>3. t \in existing /\ existing \in SUBSET Tags
      BY <2>1, <3>2 DEF IInv, TypeOK
    <3>4. t.sequence < NextSequence(t.day, existing)
      BY <3>3, NextIsPast
    <3>5. runs[r].tag.sequence = NextSequence(runs[r].tag.day, existing)
      BY <2>1 DEF Accepted, IInv, ValidationInv
    <3>6. t.sequence \in Nat /\ runs[r].tag.sequence \in Nat
      <4>1. \A u \in Tags : u.sequence \in Nat
        BY ReleaseAssumption DEF Tags
      <4>2. QED BY <2>1, <3>1, <4>1, RunsTyped DEF IInv
    <3> HIDE DEF t, existing
    <3>7. ASSUME t.day = runs[r].tag.day PROVE t.sequence # runs[r].tag.sequence
      BY <3>4, <3>5, <3>6, <3>7
    <3>8. QED BY <3>7 DEF SameSequence, t
  <2>2. \A q, r \in Runs : q <= r \/ r <= q
    BY ReleaseAssumption DEF Runs
  <2>3. \A t, u : SameSequence(t, u) => SameSequence(u, t)
    BY DEF SameSequence
  <2>4. QED BY <2>1, <2>2, <2>3 DEF AcceptedSequencesDistinct
<1>2. QED BY Invariance, <1>1, PTL

-----------------------------------------------------------------------------
(***************************************************************************)
(* What a tag leads back to.                                               *)
(***************************************************************************)
BuiltFor(contents, tag, pushes) ==
  \A a \in DOMAIN contents : /\ contents[a].run \in DOMAIN pushes
                             /\ pushes[contents[a].run].tag = tag

\* Runs of one tag are runs of a tag that was withdrawn in between; lists and
\* what was published of them hold images of their run's tag.
TraceInv ==
  /\ \A q, r \in DOMAIN runs : q # r /\ runs[q].tag = runs[r].tag => runs[q].tag \in withdrawn
  /\ \A r \in DOMAIN runs : BuiltFor(list[r], runs[r].tag, runs)
  /\ \A t \in DOMAIN releases : BuiltFor(releases[t], t, runs)
  /\ \A c \in DOMAIN commitTags :
       /\ DOMAIN commitTags[c] = Arches
       /\ \E r \in DOMAIN runs :
            runs[r].commit = c /\ BuiltFor(commitTags[c], runs[r].tag, runs)

LEMMA BuiltForKept ==
  ASSUME NEW contents, NEW tag, NEW pushes, NEW more, BuiltFor(contents, tag, pushes),
         DOMAIN pushes \subseteq DOMAIN more,
         \A r \in DOMAIN pushes : more[r] = pushes[r]
  PROVE  BuiltFor(contents, tag, more)
BY DEF BuiltFor

LEMMA TracePush ==
  ASSUME IInv, TraceInv, PushTag, UNCHANGED <<jobs, registry>> PROVE TraceInv'
<1>1. PICK t \in Tags \ DOMAIN tags, c \in Commits, b \in BOOLEAN :
        runs' = Append(runs, [tag |-> t, commit |-> c, rightful |-> b])
  BY DEF PushTag
<1> DEFINE new == [tag |-> t, commit |-> c, rightful |-> b]
           n == Len(runs) + 1
<1>2. new.tag = t /\ new \in [tag : Tags, commit : Commits, rightful : BOOLEAN]
  OBVIOUS
<1>3. runs \in Seq([tag : Tags, commit : Commits, rightful : BOOLEAN]) /\ Len(runs) < MaxRuns
  BY DEF IInv, TypeOK, PushTag
<1>4. runs' = Append(runs, new)
  BY <1>1
<1> HIDE DEF new
<1>5. /\ DOMAIN runs' = 1 .. n /\ DOMAIN runs = 1 .. Len(runs) /\ Len(runs) \in Nat
      /\ \A r \in DOMAIN runs : runs'[r] = runs[r]
      /\ runs'[n] = new
  BY <1>2, <1>3, <1>4
<1>6. DOMAIN runs' = DOMAIN runs \union {n} /\ n \notin DOMAIN runs
  BY <1>5
<1>7. UNCHANGED <<withdrawn, list, releases, commitTags>>
  BY DEF PushTag, jobs, registry
<1>8. \A q \in DOMAIN runs : runs[q].tag = t => t \in withdrawn
  BY DEF IInv, SeenInv
<1>9. \A q, r \in DOMAIN runs' : q # r /\ runs'[q].tag = runs'[r].tag => runs'[q].tag \in withdrawn
  BY <1>2, <1>5, <1>6, <1>8 DEF TraceInv
<1>10. \A r \in DOMAIN runs' : BuiltFor(list[r], runs'[r].tag, runs')
  <2>1. DOMAIN list[n] = {}
    <3>1. n \in Runs
      BY <1>3, <1>5, ReleaseAssumption DEF Runs
    <3>2. validation[n] = "checkout"
      BY <1>6, <3>1 DEF IInv, ValidationInv
    <3>3. publish[n] = "waiting"
      BY <3>1, <3>2 DEF IInv, BuildInv, PublishInv, Arches
    <3>4. QED BY <3>1, <3>3 DEF IInv, PublishInv
  <2>2. BuiltFor(list[n], runs'[n].tag, runs')
    BY <2>1 DEF BuiltFor
  <2>3. \A r \in DOMAIN runs : BuiltFor(list[r], runs'[r].tag, runs')
    BY <1>5, <1>6, BuiltForKept DEF TraceInv
  <2>4. QED BY <1>6, <2>2, <2>3
<1>11. \A x \in DOMAIN releases : BuiltFor(releases[x], x, runs')
  BY <1>5, <1>6, BuiltForKept DEF TraceInv
<1>12. ASSUME NEW x \in DOMAIN commitTags
       PROVE  /\ DOMAIN commitTags[x] = Arches
              /\ \E r \in DOMAIN runs' :
                   runs'[r].commit = x /\ BuiltFor(commitTags[x], runs'[r].tag, runs')
  <2>1. PICK r \in DOMAIN runs :
          runs[r].commit = x /\ BuiltFor(commitTags[x], runs[r].tag, runs)
    BY DEF TraceInv
  <2>2. BuiltFor(commitTags[x], runs[r].tag, runs')
    BY <1>5, <1>6, <2>1, BuiltForKept
  <2>3. QED BY <1>5, <1>6, <2>1, <2>2 DEF TraceInv
<1>13. QED BY <1>7, <1>9, <1>10, <1>11, <1>12 DEF TraceInv

\* Nothing is listed or published.
LEMMA TraceKept ==
  ASSUME TraceInv, UNCHANGED <<runs, list, releases, commitTags>>, withdrawn \subseteq withdrawn'
  PROVE  TraceInv'
BY DEF TraceInv

LEMMA TraceAdd ==
  ASSUME IInv, TraceInv, NEW r \in DOMAIN runs, NEW a \in Arches, AddImage(r, a),
         OwnTagOnly(r)
  PROVE  TraceInv'
<1>1. UNCHANGED <<runs, withdrawn, releases, commitTags>>
  BY DEF AddImage, registry, OwnTagOnly
<1>2. r \in Runs /\ DOMAIN runs \subseteq Runs
  BY RunsTyped DEF IInv
<1> DEFINE i == images[<<runs[r].tag, a>>]
<1>3. i.run \in DOMAIN runs /\ runs[i.run].tag = runs[r].tag
  <2>1. build[r][a] = "pushed"
    BY <1>2 DEF AddImage, IInv, PublishInv, Arches
  <2>2. <<runs[r].tag, a>> \in DOMAIN images
    BY <1>2, <2>1 DEF IInv, BuildInv
  <2>3. i.run \in Runs /\ validation[i.run] = "passed" /\ runs[i.run].tag = runs[r].tag
    BY <2>2 DEF IInv, BuildInv
  <2>4. QED BY <2>3 DEF IInv, ValidationInv
<1> HIDE DEF i
<1>4. list' = [list EXCEPT ![r] = Put(list[r], a, i)]
  BY DEF AddImage, i
<1>5. list'[r] = Put(list[r], a, i) /\ \A q \in Runs \ {r} : list'[q] = list[q]
  BY <1>2, <1>4 DEF IInv, TypeOK
<1>6. BuiltFor(list'[r], runs[r].tag, runs)
  <2>1. BuiltFor(list[r], runs[r].tag, runs)
    BY DEF TraceInv
  <2>2. QED BY <1>3, <1>5, <2>1 DEF BuiltFor, Put
<1>7. \A q \in DOMAIN runs : BuiltFor(list'[q], runs[q].tag, runs)
  BY <1>2, <1>5, <1>6 DEF TraceInv
<1>8. QED BY <1>1, <1>7 DEF TraceInv

LEMMA TraceCommitTag ==
  ASSUME IInv, TraceInv, NEW r \in DOMAIN runs, PushCommitTag(r), OwnTagOnly(r)
  PROVE  TraceInv'
<1>1. UNCHANGED <<runs, withdrawn, releases, list>>
  BY DEF PushCommitTag, OwnTagOnly
<1>2. r \in Runs
  BY RunsTyped DEF IInv
<1> DEFINE c == runs[r].commit
<1>3. commitTags' = Put(commitTags, c, list[r]) /\ publish[r] = "commit tag"
  BY DEF PushCommitTag
<1>4. DOMAIN list[r] = Arches /\ BuiltFor(list[r], runs[r].tag, runs) /\ runs[r].commit = c
  BY <1>2, <1>3 DEF IInv, PublishInv, TraceInv
<1> HIDE DEF c
<1>5. ASSUME NEW x \in DOMAIN commitTags'
      PROVE  /\ DOMAIN commitTags'[x] = Arches
             /\ \E q \in DOMAIN runs :
                  runs[q].commit = x /\ BuiltFor(commitTags'[x], runs[q].tag, runs)
  <2>1. CASE x = c
    <3>1. commitTags'[x] = list[r]
      BY <1>3, <2>1 DEF Put
    <3>2. QED BY <1>4, <2>1, <3>1
  <2>2. CASE x # c
    <3>1. x \in DOMAIN commitTags /\ commitTags'[x] = commitTags[x]
      BY <1>3, <1>5, <2>2 DEF Put
    <3>2. QED BY <3>1 DEF TraceInv
  <2>3. QED BY <2>1, <2>2
<1>6. QED BY <1>1, <1>5 DEF TraceInv

LEMMA TraceRelease ==
  ASSUME IInv, TraceInv, NEW r \in DOMAIN runs, CreateRelease(r), OwnTagOnly(r)
  PROVE  TraceInv'
<1>1. UNCHANGED <<runs, withdrawn, commitTags, list>>
  BY DEF CreateRelease, OwnTagOnly
<1>2. releases' \in {releases, Put(releases, runs[r].tag, list[r])}
  BY DEF CreateRelease
<1>3. ASSUME NEW t \in DOMAIN releases' PROVE BuiltFor(releases'[t], t, runs)
  <2>1. CASE releases' = releases
    BY <1>3, <2>1 DEF TraceInv
  <2>2. CASE releases' = Put(releases, runs[r].tag, list[r])
    <3>1. CASE t = runs[r].tag
      <4>1. releases'[t] = list[r]
        BY <2>2, <3>1 DEF Put
      <4>2. QED BY <3>1, <4>1 DEF TraceInv
    <3>2. CASE t # runs[r].tag
      <4>1. t \in DOMAIN releases /\ releases'[t] = releases[t]
        BY <1>3, <2>2, <3>2 DEF Put
      <4>2. QED BY <4>1 DEF TraceInv
    <3>3. QED BY <3>1, <3>2
  <2>3. QED BY <1>2, <2>1, <2>2
<1>4. QED BY <1>1, <1>3 DEF TraceInv

LEMMA TraceNext == IInv /\ TraceInv /\ [Next]_vars => TraceInv'
<1> SUFFICES ASSUME IInv, TraceInv, [Next]_vars PROVE TraceInv'
  OBVIOUS
<1>1. CASE PushTag /\ UNCHANGED <<jobs, registry>>
  BY <1>1, TracePush
<1>2. CASE (WithdrawTag \/ NextDay \/ Merge) /\ UNCHANGED <<jobs, registry>>
  <2>1. UNCHANGED <<runs, list, releases, commitTags>> /\ withdrawn \subseteq withdrawn'
    BY <1>2 DEF WithdrawTag, NextDay, Merge, jobs, registry
  <2>2. QED BY <2>1, TraceKept
<1>3. ASSUME NEW r \in DOMAIN runs, ValidationStep(r) \/ BuildStep(r), UNCHANGED repository
      PROVE  TraceInv'
  <2>1. UNCHANGED <<runs, withdrawn, list, releases, commitTags>>
    BY <1>3, ValidationFrame, BuildFrame DEF repository, registry
  <2>2. QED BY <2>1, TraceKept
<1>4. ASSUME NEW r \in DOMAIN runs, PublishStep(r), OwnTagOnly(r)
      PROVE  TraceInv'
  <2>1. ASSUME \/ CreateList(r) \/ PushManifest(r) \/ GenerateInventory(r)
               \/ \E kind \in DOMAIN NextStep : Bind(r, kind)
               \/ VerifySignature(r) \/ PublishFails(r)
        PROVE  TraceInv'
    <3>1. UNCHANGED <<runs, withdrawn, list, releases, commitTags>>
      BY <1>4, <2>1 DEF CreateList, PushManifest, GenerateInventory, Bind, VerifySignature,
                        PublishFails, registry, OwnTagOnly
    <3>2. QED BY <3>1, TraceKept
  <2>2. QED BY <1>4, <2>1, TraceAdd, TraceCommitTag, TraceRelease DEF PublishStep
<1>5. CASE UNCHANGED vars
  <2>1. UNCHANGED <<runs, withdrawn, list, releases, commitTags>>
    BY <1>5 DEF vars, repository, jobs, registry
  <2>2. QED BY <2>1, TraceKept
<1>6. QED BY <1>1, <1>2, <1>3, <1>4, <1>5, JobSteps DEF Next

\* release.yml 197-211 and 271-285: whatever other runs push meanwhile, a tag
\* leads back to what it was made from.
THEOREM TagsLeadBack == Spec => []TagsTraceable
<1>1. Init => TraceInv
  <2>1. Init => DOMAIN runs = {} /\ DOMAIN releases = {} /\ DOMAIN commitTags = {}
    BY DEF Init, Nowhere
  <2>2. QED BY <2>1 DEF TraceInv
<1>2. IInv /\ TraceInv => TagsTraceable
  <2> SUFFICES ASSUME IInv, TraceInv PROVE TagsTraceable
    OBVIOUS
  <2>1. \A t \in DOMAIN releases : DOMAIN releases[t] = Arches
    BY DEF IInv, ReleaseHasEvidence
  <2>2. \A t \in DOMAIN releases : \A a \in Arches : runs[releases[t][a].run].tag = t
    BY <2>1 DEF TraceInv, BuiltFor
  <2>3. ASSUME NEW c \in DOMAIN commitTags, NEW a \in Arches
        PROVE  \/ runs[commitTags[c][a].run].commit = c
               \/ runs[commitTags[c][a].run].tag \in withdrawn
    <3>1. PICK r \in DOMAIN runs :
            runs[r].commit = c /\ BuiltFor(commitTags[c], runs[r].tag, runs)
      BY DEF TraceInv
    <3> DEFINE q == commitTags[c][a].run
    <3>2. q \in DOMAIN runs /\ runs[q].tag = runs[r].tag
      BY <3>1 DEF TraceInv, BuiltFor
    <3> HIDE DEF q
    <3>3. q = r \/ runs[q].tag \in withdrawn
      BY <3>2 DEF TraceInv
    <3>4. QED BY <3>1, <3>3 DEF q
  <2>4. QED BY <2>2, <2>3 DEF TagsTraceable
<1>3. QED BY <1>1, <1>2, TraceNext, Invariance, PTL DEF Spec

-----------------------------------------------------------------------------
(***************************************************************************)
(* Rightful tags.  The tags a run's checkout brings are those the pusher   *)
(* saw, but for tags pushed since and tags withdrawn, by then or since, of *)
(* which a release may have made one again.                                *)
(***************************************************************************)
Bridge(existing, present, r, pushes, gone) ==
  /\ present \subseteq existing \union {pushes[s].tag : s \in r .. Len(pushes)} \union gone
  /\ existing \subseteq present \union gone

Rightful(r, present, pushes, gone) ==
  \E existing \in SUBSET Tags :
    /\ pushes[r].tag \notin existing
    /\ pushes[r].tag.sequence = NextSequence(pushes[r].tag.day, existing)
    /\ Bridge(existing, present, r, pushes, gone)

RightfulInv == \A r \in DOMAIN runs : runs[r].rightful =>
  /\ runs[r].commit \in main /\ runs[r].tag.day <= today
  /\ LockOf[runs[r].commit]["amd64"] = runs[r].tag.version
  /\ validation[r] = "checkout" => Rightful(r, DOMAIN tags, runs, withdrawn)
  /\ validation[r] \in {"ancestor", "contract"} => Rightful(r, seen[r], runs, withdrawn)

LEMMA BridgeKept ==
  ASSUME NEW existing, NEW present, NEW r, NEW pushes, NEW more, NEW gone, NEW moreGone,
         NEW now, Bridge(existing, present, r, pushes, gone),
         Len(pushes) \in Nat, Len(more) \in Nat, Len(pushes) <= Len(more), r \in Nat,
         \A s \in r .. Len(pushes) : more[s] = pushes[s],
         gone \subseteq moreGone,
         now \subseteq present \union {more[s].tag : s \in r .. Len(more)} \union moreGone,
         present \subseteq now \union moreGone
  PROVE  Bridge(existing, now, r, more, moreGone)
<1>1. {pushes[s].tag : s \in r .. Len(pushes)} \subseteq {more[s].tag : s \in r .. Len(more)}
  <2>1. r .. Len(pushes) \subseteq r .. Len(more)
    OBVIOUS
  <2>2. QED BY <2>1
<1>2. QED BY <1>1 DEF Bridge

LEMMA RightfulKept ==
  ASSUME TypeOK, NEW r \in DOMAIN runs, NEW present, NEW now,
         Rightful(r, present, runs, withdrawn),
         NEW more, Len(more) \in Nat, Len(runs) <= Len(more),
         \A s \in DOMAIN runs : more[s] = runs[s],
         NEW moreGone, withdrawn \subseteq moreGone,
         now \subseteq present \union {more[s].tag : s \in r .. Len(more)} \union moreGone,
         present \subseteq now \union moreGone
  PROVE  Rightful(r, now, more, moreGone)
<1>1. PICK existing \in SUBSET Tags :
        /\ runs[r].tag \notin existing
        /\ runs[r].tag.sequence = NextSequence(runs[r].tag.day, existing)
        /\ Bridge(existing, present, r, runs, withdrawn)
  BY DEF Rightful
<1>2. Len(runs) \in Nat /\ DOMAIN runs = 1 .. Len(runs)
  BY RunsTyped
<1>3. r \in Nat /\ r .. Len(runs) \subseteq DOMAIN runs
  BY <1>2
<1>4. Bridge(existing, now, r, more, moreGone)
  BY <1>1, <1>2, <1>3, BridgeKept
<1>5. QED BY <1>1, <1>4 DEF Rightful

LEMMA RightfulPush ==
  ASSUME IInv, RightfulInv, PushTag, UNCHANGED <<jobs, registry>>
  PROVE  RightfulInv'
<1>1. PICK t \in Tags \ DOMAIN tags, c \in Commits :
        /\ tags' = Put(tags, t, c)
        /\ runs' = Append(runs,
             [tag |-> t, commit |-> c,
              rightful |-> /\ c \in main /\ t.day = today
                           /\ \A a \in Arches : LockOf[c][a] = t.version
                           /\ Conforms(t, t.version, DOMAIN tags)])
  BY DEF PushTag
<1> DEFINE b == /\ c \in main /\ t.day = today
                /\ \A a \in Arches : LockOf[c][a] = t.version
                /\ Conforms(t, t.version, DOMAIN tags)
           new == [tag |-> t, commit |-> c, rightful |-> b]
           n == Len(runs) + 1
<1>2. new.tag = t /\ new.commit = c /\ new.rightful = b /\ b \in BOOLEAN
      /\ new \in [tag : Tags, commit : Commits, rightful : BOOLEAN]
  OBVIOUS
<1>3. runs \in Seq([tag : Tags, commit : Commits, rightful : BOOLEAN]) /\ Len(runs) < MaxRuns
  BY DEF IInv, TypeOK, PushTag
<1>4. runs' = Append(runs, new)
  BY <1>1
<1> HIDE DEF new
<1>5. /\ Len(runs') = n /\ DOMAIN runs' = 1 .. n /\ DOMAIN runs = 1 .. Len(runs)
      /\ Len(runs) \in Nat
      /\ \A r \in DOMAIN runs : runs'[r] = runs[r]
      /\ runs'[n] = new
  BY <1>2, <1>3, <1>4
<1>6. UNCHANGED <<today, main, withdrawn, validation, seen>>
  BY DEF PushTag, jobs
<1>7. DOMAIN tags' = DOMAIN tags \union {t} /\ DOMAIN tags \subseteq Tags
  BY <1>1, PutIs DEF IInv, TypeOK, PartialTo
<1> SUFFICES ASSUME NEW r \in DOMAIN runs', runs'[r].rightful
             PROVE  /\ runs'[r].commit \in main /\ runs'[r].tag.day <= today
                    /\ LockOf[runs'[r].commit]["amd64"] = runs'[r].tag.version
                    /\ validation[r] = "checkout" => Rightful(r, DOMAIN tags', runs', withdrawn)
                    /\ validation[r] \in {"ancestor", "contract"} => Rightful(r, seen[r], runs', withdrawn)
  BY <1>6 DEF RightfulInv
<1>8. CASE r = n
  <2>1. b /\ runs'[r] = new
    BY <1>2, <1>5, <1>8
  <2>2. /\ c \in main /\ t.day = today /\ LockOf[c]["amd64"] = t.version
        /\ t \notin DOMAIN tags /\ t.sequence = NextSequence(t.day, DOMAIN tags)
    BY <2>1 DEF Conforms, Arches
  <2>3. validation[r] = "checkout"
    <3>1. n \in Runs /\ n \notin DOMAIN runs
      BY <1>3, <1>5, ReleaseAssumption DEF Runs
    <3>2. QED BY <1>8, <3>1 DEF IInv, ValidationInv
  <2>4. t \in {runs'[s].tag : s \in r .. Len(runs')}
    <3>1. r \in r .. Len(runs')
      BY <1>5, <1>8
    <3>2. QED BY <1>2, <2>1, <3>1
  <2>5. Bridge(DOMAIN tags, DOMAIN tags', r, runs', withdrawn)
    BY <1>7, <2>4 DEF Bridge
  <2>6. Rightful(r, DOMAIN tags', runs', withdrawn)
    BY <1>2, <1>7, <2>1, <2>2, <2>5 DEF Rightful
  <2>7. t.day <= today
    BY <2>2, ReleaseAssumption DEF IInv, TypeOK, Days
  <2>8. QED BY <1>2, <2>1, <2>2, <2>3, <2>6, <2>7
<1>9. CASE r # n
  <2>1. r \in DOMAIN runs /\ runs'[r] = runs[r]
    BY <1>5, <1>9
  <2>2. ASSUME validation[r] = "checkout" PROVE Rightful(r, DOMAIN tags', runs', withdrawn)
    <3>1. Rightful(r, DOMAIN tags, runs, withdrawn)
      BY <2>1, <2>2 DEF RightfulInv
    <3>2. t \in {runs'[s].tag : s \in r .. Len(runs')}
      <4>1. n \in r .. Len(runs')
        BY <1>5, <2>1
      <4>2. QED BY <1>2, <1>5, <4>1
    <3>3. QED BY <1>5, <1>6, <1>7, <2>1, <3>1, <3>2, RightfulKept DEF IInv
  <2>3. ASSUME validation[r] \in {"ancestor", "contract"} PROVE Rightful(r, seen[r], runs', withdrawn)
    <3>1. Rightful(r, seen[r], runs, withdrawn)
      BY <2>1, <2>3 DEF RightfulInv
    <3>2. QED BY <1>5, <1>6, <2>1, <3>1, RightfulKept DEF IInv
  <2>4. QED BY <2>1, <2>2, <2>3 DEF RightfulInv
<1>10. QED BY <1>8, <1>9

LEMMA RightfulRepository ==
  ASSUME IInv, RightfulInv, WithdrawTag \/ NextDay \/ Merge, UNCHANGED <<jobs, registry>>
  PROVE  RightfulInv'
<1>1. /\ UNCHANGED <<runs, validation, seen>>
      /\ today <= today' /\ main \subseteq main' /\ withdrawn \subseteq withdrawn'
      /\ DOMAIN tags' \subseteq DOMAIN tags /\ DOMAIN tags \subseteq DOMAIN tags' \union withdrawn'
  <2>1. UNCHANGED <<runs, validation, seen>> /\ today \in Int
    BY DEF WithdrawTag, NextDay, Merge, jobs, IInv, TypeOK, Days
  <2>2. CASE WithdrawTag
    BY <2>1, <2>2 DEF WithdrawTag
  <2>3. CASE NextDay
    BY <2>1, <2>3 DEF NextDay
  <2>4. CASE Merge
    BY <2>1, <2>4 DEF Merge
  <2>5. QED BY <2>1, <2>2, <2>3, <2>4
<1> SUFFICES ASSUME NEW r \in DOMAIN runs, runs[r].rightful
             PROVE  /\ runs[r].commit \in main' /\ runs[r].tag.day <= today'
                    /\ LockOf[runs[r].commit]["amd64"] = runs[r].tag.version
                    /\ validation[r] = "checkout" => Rightful(r, DOMAIN tags', runs, withdrawn')
                    /\ validation[r] \in {"ancestor", "contract"} =>
                         Rightful(r, seen[r], runs, withdrawn')
  BY <1>1 DEF RightfulInv
<1>2. Len(runs) \in Nat /\ TypeOK
  BY RunsTyped DEF IInv
<1>3. runs[r].tag.day <= today'
  <2>1. runs[r].tag \in Tags /\ runs[r].tag.day <= today
    BY RunsTyped DEF IInv, RightfulInv
  <2>2. runs[r].tag.day \in Int /\ today \in Int /\ today' \in Int
    <3>1. IInv'
      BY OtherRepositoryInv
    <3>2. QED BY <2>1, <3>1 DEF IInv, TypeOK, Tags, Days
  <2>3. QED BY <1>1, <2>1, <2>2
<1>4. ASSUME validation[r] = "checkout" PROVE Rightful(r, DOMAIN tags', runs, withdrawn')
  <2>1. Rightful(r, DOMAIN tags, runs, withdrawn)
    BY <1>4 DEF RightfulInv
  <2>2. QED BY <1>1, <1>2, <2>1, RightfulKept
<1>5. ASSUME validation[r] \in {"ancestor", "contract"}
      PROVE  Rightful(r, seen[r], runs, withdrawn')
  <2>1. Rightful(r, seen[r], runs, withdrawn)
    BY <1>5 DEF RightfulInv
  <2>2. QED BY <1>1, <1>2, <2>1, RightfulKept
<1>6. QED BY <1>1, <1>3, <1>4, <1>5 DEF RightfulInv

LEMMA RightfulJob ==
  ASSUME IInv, RightfulInv, NEW q \in DOMAIN runs,
         \/ JobStep(q) /\ UNCHANGED repository
         \/ CreateRelease(q) /\ UNCHANGED <<today, main, withdrawn, runs>>
  PROVE  RightfulInv'
<1>1. /\ UNCHANGED <<today, main, withdrawn, runs>>
      /\ DOMAIN tags \subseteq DOMAIN tags' /\ DOMAIN tags' \subseteq DOMAIN tags \union withdrawn
  <2>1. OwnTagOnly(q)
    BY JobSteps DEF OwnTagOnly, repository
  <2>2. QED BY <2>1, TagMadeAgain DEF OwnTagOnly
<1>2. q \in Runs /\ DOMAIN runs \subseteq Runs
  BY RunsTyped DEF IInv
<1>3. \A r \in DOMAIN runs :
        /\ validation'[r] = "checkout" => validation[r] = "checkout"
        /\ validation'[r] \in {"ancestor", "contract"} =>
             \/ validation[r] = "checkout" /\ seen'[r] = DOMAIN tags
             \/ validation[r] \in {"ancestor", "contract"} /\ seen'[r] = seen[r]
  <2>1. CASE CheckOut(q)
    BY <1>2, <2>1 DEF CheckOut, Validated, IInv, TypeOK
  <2>2. CASE RequireOnMain(q) \/ ValidateTag(q) \/ ConfirmLocks(q)
    BY <1>2, <2>2 DEF RequireOnMain, ValidateTag, ConfirmLocks, Validated, IInv, TypeOK
  <2>3. CASE UNCHANGED <<validation, seen>>
    BY <2>3
  <2>4. QED BY <2>1, <2>2, <2>3, JobSteps, BuildFrame, PublishFrame DEF ValidationStep
<1>4. ASSUME NEW r \in DOMAIN runs, Rightful(r, DOMAIN tags, runs, withdrawn)
      PROVE  Rightful(r, DOMAIN tags', runs, withdrawn)
  <2>1. TypeOK /\ Len(runs) \in Nat
    BY RunsTyped DEF IInv
  <2>2. QED BY <1>1, <1>4, <2>1, RightfulKept
<1>5. QED BY <1>1, <1>3, <1>4 DEF RightfulInv

LEMMA RightfulNext == IInv /\ RightfulInv /\ [Next]_vars => RightfulInv'
<1>1. RightfulInv /\ UNCHANGED vars => RightfulInv'
  BY DEF RightfulInv, vars, repository, jobs
<1>2. QED BY <1>1, RightfulPush, RightfulRepository, RightfulJob DEF Next

\* The contract job rejects a rightful run only for the neighbours of its tag.
LEMMA RejectedFor ==
  ASSUME IInv, RightfulInv, NEW r \in DOMAIN runs, runs[r].rightful, validation[r] = "contract",
         ~Conforms(runs[r].tag, LockOf[runs[r].commit]["amd64"], seen[r] \ {runs[r].tag})
  PROVE  \/ \E s \in DOMAIN runs :
              s > r /\ runs[s].tag.day = runs[r].tag.day /\ runs[s].tag \in seen[r]
         \/ \E t \in withdrawn : t.day = runs[r].tag.day
<1> DEFINE tag == runs[r].tag
           d == tag.day
<1> SUFFICES ASSUME \A s \in DOMAIN runs :
                      ~(s > r /\ runs[s].tag.day = d /\ runs[s].tag \in seen[r]),
                    \A t \in withdrawn : t.day # d
             PROVE  FALSE
  OBVIOUS
<1>1. tag.sequence # NextSequence(d, seen[r] \ {tag})
  BY DEF RightfulInv, Conforms
<1>2. PICK existing \in SUBSET Tags :
        /\ tag \notin existing
        /\ tag.sequence = NextSequence(d, existing)
        /\ Bridge(existing, seen[r], r, runs, withdrawn)
  BY DEF RightfulInv, Rightful
<1>3. {u \in existing : u.day = d} \subseteq {u \in seen[r] \ {tag} : u.day = d}
  BY <1>2 DEF Bridge
<1>4. {u \in seen[r] \ {tag} : u.day = d} \subseteq {u \in existing : u.day = d}
  <2> SUFFICES ASSUME NEW u \in seen[r], u # tag, u.day = d PROVE u \in existing
    OBVIOUS
  <2>1. ASSUME NEW s \in r .. Len(runs), u = runs[s].tag PROVE FALSE
    <3>1. DOMAIN runs = 1 .. Len(runs) /\ Len(runs) \in Nat
      BY RunsTyped DEF IInv
    <3>2. s \in DOMAIN runs /\ s > r
      BY <2>1, <3>1
    <3>3. QED BY <2>1, <3>2
  <2>2. QED BY <1>2, <2>1 DEF Bridge
<1>5. {u \in existing : u.day = d} = {u \in seen[r] \ {tag} : u.day = d}
  BY <1>3, <1>4
<1>6. NextSequence(d, existing) = NextSequence(d, seen[r] \ {tag})
  BY <1>5 DEF NextSequence
<1>7. QED BY <1>1, <1>2, <1>6

\* release_tag.py 117-153: a tag that followed docs/VERSION.md when it was
\* pushed is rejected only for a later tag of its day or a withdrawn one.
THEOREM RightfulAccepted == Spec => RejectedByNeighbourOnly
<1> DEFINE A == \A r \in DOMAIN runs :
       runs[r].rightful /\ validation[r] = "contract" /\ validation'[r] = "failed" =>
         \/ \E s \in DOMAIN runs :
              s > r /\ runs[s].tag.day = runs[r].tag.day /\ runs[s].tag \in seen[r]
         \/ \E t \in withdrawn : t.day = runs[r].tag.day
<1>1. Init => RightfulInv
  <2>1. Init => DOMAIN runs = {}
    BY DEF Init
  <2>2. QED BY <2>1 DEF RightfulInv
<1>2. IInv /\ RightfulInv /\ [Next]_vars => [A]_vars
  <2> SUFFICES ASSUME IInv, RightfulInv, Next, NEW r \in DOMAIN runs, runs[r].rightful,
                      validation[r] = "contract", validation'[r] = "failed"
               PROVE  \/ \E s \in DOMAIN runs :
                           s > r /\ runs[s].tag.day = runs[r].tag.day /\ runs[s].tag \in seen[r]
                      \/ \E t \in withdrawn : t.day = runs[r].tag.day
    OBVIOUS
  <2>1. r \in Runs /\ DOMAIN runs \subseteq Runs
    BY RunsTyped DEF IInv
  <2>2. PICK q \in DOMAIN runs : ValidationStep(q)
    BY JobSteps, BuildFrame, PublishFrame DEF Next, jobs
  <2>3. validation' = [validation EXCEPT ![q] = validation'[q]]
    BY <2>1, <2>2 DEF ValidationStep, CheckOut, RequireOnMain, ValidateTag, ConfirmLocks, Validated,
                      IInv, TypeOK
  <2>4. q = r
    BY <2>1, <2>3 DEF IInv, TypeOK
  <2>5. ~Conforms(runs[r].tag, LockOf[runs[r].commit]["amd64"], seen[r] \ {runs[r].tag})
    BY <2>1, <2>2, <2>4 DEF ValidationStep, CheckOut, RequireOnMain, ValidateTag, ConfirmLocks,
                            Validated, IInv, TypeOK
  <2>6. QED BY <2>5, RejectedFor
<1>3. QED BY <1>1, <1>2, Invariance, RightfulNext, PTL DEF Spec, RejectedByNeighbourOnly

-----------------------------------------------------------------------------
(***************************************************************************)
(* The refinement.                                                         *)
(***************************************************************************)

\* The manifest list of a job that has pushed it names an image for each
\* architecture.
LEMMA ListIsWhole ==
  ASSUME IInv, NEW r \in Runs, publish[r] \in After("commit tag")
  PROVE  list[r] \in [Arches -> Image]
<1>1. DOMAIN list[r] = Arches
  BY Zenon DEF IInv, PublishInv
<1>2. list[r] \in ManifestLists
  BY Zenon DEF IInv, TypeOK
<1>3. ASSUME NEW f \in ManifestLists, DOMAIN f = Arches PROVE f \in [Arches -> Image]
  BY ONLY f \in ManifestLists, DOMAIN f = Arches DEF ManifestLists
<1>4. QED BY <1>1, <1>2, <1>3, Zenon

\* Runs of the release workflow, however they overlap, implement the record of
\* evidence and releases that consumers rely on.
THEOREM ImplementsRecord == Spec => KeepsRecord
<1>1. Init => Record!Init
  BY DEF Init, Nowhere, Record!Init
<1>2. IInv /\ [Next]_vars => [Record!Next]_<<evidence, releases>>
  <2> SUFFICES ASSUME IInv, [Next]_vars, <<evidence, releases>>' # <<evidence, releases>>
               PROVE  Record!Next
    OBVIOUS
  <2>1. PICK r \in DOMAIN runs : \/ JobStep(r) /\ UNCHANGED repository
                                 \/ CreateRelease(r) /\ UNCHANGED <<today, main, withdrawn, runs>>
    BY DEF Next, vars, registry
  <2>2. PublishStep(r)
    BY <2>1, JobSteps, ValidationFrame, BuildFrame DEF registry
  <2>3. r \in Runs /\ runs[r].tag \in Tags
    BY RunsTyped DEF IInv
  <2>4. ASSUME NEW m \in [Arches -> Image],
               Record!Attest(m) \/ Record!Sign(m) \/ Record!Announce(m)
        PROVE  Record!Next
    BY <2>4 DEF Record!Next, Record!record
  <2>5. ASSUME NEW kind \in DOMAIN NextStep, Bind(r, kind) PROVE Record!Next
    <3>1. /\ publish[r] = kind /\ kind \in {"provenance", "sbom", "signature"}
          /\ publish[r] \in After("commit tag")
      BY <2>5 DEF Bind, NextStep, After
    <3>2. list[r] \in [Arches -> Image]
      BY <2>3, <3>1, ListIsWhole
    <3>3. Record!BindEvidence(kind, list[r])
      BY <2>5 DEF Bind, Record!BindEvidence
    <3>4. CASE kind \in {"provenance", "sbom"}
      BY <2>4, <3>2, <3>3, <3>4 DEF Record!Attest, Record!Attestations
    <3>5. CASE kind = "signature"
      <4>1. publish[r] \in After("provenance") /\ publish[r] \in After("sbom")
        BY <3>1, <3>5 DEF After
      <4>2. <<"provenance", list[r]>> \in evidence /\ <<"sbom", list[r]>> \in evidence
        BY <2>3, <4>1 DEF IInv, PublishInv, NextStep
      <4>3. Record!Sign(list[r])
        BY <3>3, <3>5, <4>2 DEF Record!Sign, Record!Attestations
      <4>4. QED BY <2>4, <3>2, <4>3
    <3>6. QED BY <3>1, <3>4, <3>5
  <2>6. CASE CreateRelease(r)
    <3>1. publish[r] \in After("commit tag") /\ publish[r] \in After("signature")
      BY <2>6 DEF CreateRelease, After
    <3>2. list[r] \in [Arches -> Image] /\ <<"signature", list[r]>> \in evidence
      BY <2>3, <3>1, ListIsWhole DEF IInv, PublishInv, NextStep
    <3>3. /\ runs[r].tag \notin DOMAIN releases /\ evidence' = evidence
          /\ releases' = Put(releases, runs[r].tag, list[r])
      BY <2>6 DEF CreateRelease
    <3>4. Record!Announce(list[r])
      BY <2>3, <3>2, <3>3 DEF Record!Announce, Put
    <3>5. QED BY <2>4, <3>2, <3>4
  <2>7. QED BY <2>2, <2>5, <2>6 DEF PublishStep, CreateList, AddImage, PushManifest,
                PushCommitTag, GenerateInventory, VerifySignature, PublishFails, registry
<1>3. QED BY <1>1, <1>2, Invariance, PTL DEF Spec, KeepsRecord, Record!Spec, Record!record

=============================================================================
