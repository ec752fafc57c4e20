-------------------------- MODULE InputDrift_proofs --------------------------
(***************************************************************************)
(* Theorems about InputDrift, for any inputs, any number of overlapping    *)
(* jobs and any number of moves, outages, refreshes and failures.          *)
(***************************************************************************)
EXTENDS InputDrift, TLAPS, FiniteSetTheorems, WellFoundedInduction

(***************************************************************************)
(* Lemmas about numbers, sequences and partial functions.                  *)
(***************************************************************************)
LEMMA LeastNatural ==
  ASSUME NEW T, T \subseteq Nat, T # {} PROVE \E x \in T : \A y \in T : x <= y
<1>1. PICK x \in T : \A y \in T : <<y, x>> \notin OpToRel(<, Nat)
  BY WFMin, NatLessThanWellFounded
<1>2. \A y \in T : ~(y < x)
  BY <1>1 DEF OpToRel
<1>3. QED BY <1>2

\* Max of a bounded set of issue numbers is one of them.
LEMMA MaxIsMember ==
  ASSUME NEW n \in Nat, NEW S, S # {}, \A x \in S : x \in Nat /\ x <= n
  PROVE  Max(S) \in S
<1> DEFINE distances == {n - y : y \in S}
<1>1. distances \subseteq Nat /\ distances # {}
  OBVIOUS
<1>2. PICK u \in distances : \A v \in distances : u <= v
  BY <1>1, LeastNatural
<1>3. PICK m \in S : u = n - m
  OBVIOUS
<1>4. \A y \in S : m >= y
  BY <1>2, <1>3
<1>5. QED BY <1>4 DEF Max

LEMMA NextInput ==
  ASSUME NEW s \in Seq(Inputs), s # <<>>
  PROVE  /\ Head(s) \in Inputs /\ Tail(s) \in Seq(Inputs)
         /\ ToSet(s) \subseteq {Head(s)} \union ToSet(Tail(s))
<1>1. Head(s) \in Inputs /\ Tail(s) \in Seq(Inputs)
  OBVIOUS
<1>2. ASSUME NEW i \in DOMAIN s, i # 1 PROVE s[i] \in ToSet(Tail(s))
  <2>1. i \in 1 .. Len(s) /\ Len(s) \in Nat /\ Len(Tail(s)) = Len(s) - 1
    OBVIOUS
  <2> DEFINE k == i - 1
  <2>2. k \in 1 .. Len(Tail(s)) /\ k + 1 = i
    BY <1>2, <2>1
  <2>3. Tail(s)[k] = s[k + 1]
    BY <2>1, <2>2
  <2>4. k \in DOMAIN Tail(s)
    BY <1>1, <2>2
  <2>5. QED BY <2>2, <2>3, <2>4 DEF ToSet
<1>3. QED BY <1>1, <1>2 DEF ToSet

LEMMA PutTyped ==
  ASSUME NEW S, NEW T, NEW f \in PartialTo(S, T), NEW x \in S, NEW y \in T
  PROVE  /\ Put(f, x, y) \in PartialTo(S, T)
         /\ DOMAIN Put(f, x, y) = DOMAIN f \union {x}
<1>1. PICK D \in SUBSET S : f \in [D -> T]
  BY DEF PartialTo
<1>2. Put(f, x, y) \in [D \union {x} -> T] /\ D \union {x} \in SUBSET S
  BY <1>1 DEF Put
<1>3. QED BY <1>1, <1>2 DEF PartialTo, Put

-----------------------------------------------------------------------------
(***************************************************************************)
(* The inductive invariant.                                                *)
(***************************************************************************)

\* A job that has left its first run of the script has a finding for every
\* input: what it writes into an issue is complete.
ReportInv ==
  \A j \in Jobs :
    /\ pc[j] = "markdown" => Inputs = DOMAIN markdown[j] \union ToSet(todo[j])
    /\ pc[j] \notin {"idle", "markdown"} => DOMAIN markdown[j] = Inputs

\* There is a number above those of the open issues and those jobs know of.
NumberInv ==
  \E n \in Nat : /\ \A i \in OpenIssues : i <= n
                 /\ \A j \in Jobs : existing[j] # NoIssue => existing[j] <= n

\* The jobs that found no issue and will create one.
Creating == {j \in Jobs : pc[j] = "update" /\ existing[j] = NoIssue}

BoundInv == Cardinality(OpenIssues) + Cardinality(Creating) <= Cardinality(Jobs)

\* No publisher has moved more often than all of them together.
MovesInv == \A i \in Inputs : offered[i] <= count.moves

IInv == TypeOK /\ MovesInv /\ ReportInv /\ NumberInv /\ BoundInv

LEMMA InitInv == Init => IInv
<1> SUFFICES ASSUME Init PROVE IInv
  OBVIOUS
<1>1. OpenIssues = {} /\ Creating = {}
  BY DEF Init, Nothing, OpenIssues, Creating
<1>2. Nothing \in Reports /\ Nothing \in PartialTo(Inputs, Silent)
  <2>1. Nothing \in [{} -> Verdicts] /\ Nothing \in [{} -> Silent] /\ {} \in SUBSET Inputs
    BY DEF Nothing
  <2>2. QED BY <2>1 DEF Reports, PartialTo
<1>3. TypeOK
  BY <1>1, <1>2, DriftAssumption, FS_EmptySet
  DEF Init, TypeOK, AtFirst, Steps, Nothing, OpenIssues
<1>4. MovesInv /\ ReportInv /\ NumberInv
  BY <1>1 DEF Init, MovesInv, AtFirst, ReportInv, NumberInv
<1>5. BoundInv
  BY <1>1, FS_EmptySet, FS_CardinalityType, DriftAssumption DEF BoundInv
<1>6. QED BY <1>3, <1>4, <1>5 DEF IInv

-----------------------------------------------------------------------------
\* A job that ends leaves nothing behind.
LEMMA EndTyped ==
  ASSUME TypeOK, NEW j \in Jobs, End(j)
  PROVE  /\ pc' \in [Jobs -> Steps] /\ copy' \in [Jobs -> [Inputs -> 0 .. MaxMoves]]
         /\ todo' \in [Jobs -> Seq(Inputs)]
         /\ markdown' \in [Jobs -> Reports] /\ json' \in [Jobs -> Reports]
         /\ existing' \in [Jobs -> Nat \union {NoIssue}]
<1>1. Nothing \in Reports
  <2>1. Nothing \in [{} -> Verdicts] /\ {} \in SUBSET Inputs
    BY DEF Nothing
  <2>2. QED BY <2>1 DEF Reports, PartialTo
<1>2. AtFirst \in [Inputs -> 0 .. MaxMoves] /\ <<>> \in Seq(Inputs) /\ "idle" \in Steps
  BY DriftAssumption DEF AtFirst, Steps
<1>3. QED BY <1>1, <1>2 DEF End, GoTo, TypeOK

\* The number of a new issue is past every number anybody knows.
LEMMA NewNumberTyped ==
  ASSUME TypeOK, NEW n \in Nat, \A i \in OpenIssues : i <= n,
         \A k \in Jobs : existing[k] # NoIssue => existing[k] <= n
  PROVE  NewNumber \in Nat /\ NewNumber <= n + 1
<1> DEFINE known == OpenIssues \union {existing[k] : k \in {l \in Jobs : existing[l] # NoIssue}}
<1>1. \A x \in known : x \in Nat /\ x <= n
  BY DEF TypeOK
<1>2. CASE known = {}
  BY <1>2 DEF NewNumber
<1>3. CASE known # {}
  <2>1. Max(known) \in known
    BY <1>1, <1>3, MaxIsMember
  <2>2. NewNumber = Max(known) + 1
    BY <1>3 DEF NewNumber
  <2> HIDE DEF known
  <2>3. QED BY <1>1, <2>1, <2>2
<1>4. QED BY <1>2, <1>3

\* The issue gh lists is an open one, or there is none.
LEMMA NewestTyped ==
  ASSUME TypeOK, NumberInv
  PROVE  /\ OpenIssues = {} => NewestOf(OpenIssues) = NoIssue
         /\ OpenIssues # {} => /\ NewestOf(OpenIssues) \in OpenIssues
                              /\ NewestOf(OpenIssues) # NoIssue
<1>1. PICK n \in Nat : \A i \in OpenIssues : i <= n
  BY DEF NumberInv
<1>2. OpenIssues # {} => Max(OpenIssues) \in OpenIssues
  BY <1>1, MaxIsMember DEF TypeOK
<1>3. QED BY <1>2, DriftAssumption DEF NewestOf, TypeOK

LEMMA IssuePutTyped ==
  ASSUME TypeOK, ReportInv, NEW j \in Jobs, pc[j] = "update", NEW n \in Nat
  PROVE  /\ DOMAIN Put(issues, n, markdown[j]) = OpenIssues \union {n}
         /\ Put(issues, n, markdown[j]) \in
              [OpenIssues \union {n} -> [Inputs -> Verdicts]]
<1>1. markdown[j] \in [Inputs -> Verdicts]
  <2>1. DOMAIN markdown[j] = Inputs
    BY DEF ReportInv
  <2>2. PICK D \in SUBSET Inputs : markdown[j] \in [D -> Verdicts]
    BY DEF TypeOK, Reports, PartialTo
  <2>3. QED BY <2>1, <2>2
<1>2. QED BY <1>1 DEF Put, TypeOK, OpenIssues

JobTyped ==
  /\ pc \in [Jobs -> Steps]
  /\ copy \in [Jobs -> [Inputs -> 0 .. MaxMoves]]
  /\ todo \in [Jobs -> Seq(Inputs)]
  /\ markdown \in [Jobs -> Reports] /\ json \in [Jobs -> Reports]
  /\ existing \in [Jobs -> Nat \union {NoIssue}]

IssuesTyped ==
  /\ IsFiniteSet(OpenIssues) /\ OpenIssues \subseteq Nat
  /\ issues \in [OpenIssues -> [Inputs -> Verdicts]]

WorldTyped ==
  /\ pinned \in [Inputs -> 0 .. MaxMoves] /\ offered \in [Inputs -> 0 .. MaxMoves]
  /\ silence \in PartialTo(Inputs, Silent)

LEMMA VerdictTyped ==
  ASSUME TypeOK, NEW j \in Jobs, NEW i \in Inputs
  PROVE  Verdict(j, i) \in Verdicts
<1>1. PICK D \in SUBSET Inputs : silence \in [D -> Silent]
  BY DEF TypeOK, PartialTo
<1>2. i \in DOMAIN silence => silence[i] \in Silent
  BY <1>1
<1>3. QED BY <1>2 DEF Verdict, Verdicts

LEMMA JobStepTyped ==
  ASSUME TypeOK, ReportInv, NumberInv, NEW j \in Jobs, Start(j) \/ JobStep(j) \/ JobFails(j)
  PROVE  JobTyped'
<1> USE DEF GoTo, Steps
<1>1. CASE Start(j)
  BY <1>1, DriftAssumption DEF Start, TypeOK, JobTyped
<1>2. CASE CheckInput(j)
  <2> DEFINE i == Head(todo[j])
  <2>1. i \in Inputs /\ Tail(todo[j]) \in Seq(Inputs)
    BY <1>2, NextInput DEF CheckInput, TypeOK
  <2>2. /\ Put(markdown[j], i, Verdict(j, i)) \in Reports
        /\ Put(json[j], i, Verdict(j, i)) \in Reports
    <3>1. markdown[j] \in PartialTo(Inputs, Verdicts) /\ json[j] \in PartialTo(Inputs, Verdicts)
      BY DEF TypeOK, Reports
    <3>2. Verdict(j, i) \in Verdicts
      BY <2>1, VerdictTyped
    <3> HIDE DEF i
    <3>3. QED BY <2>1, <3>1, <3>2, PutTyped DEF Reports
  <2>3. todo' \in [Jobs -> Seq(Inputs)]
    BY <1>2, <2>1 DEF CheckInput, TypeOK
  <2>4. markdown' \in [Jobs -> Reports] /\ json' \in [Jobs -> Reports]
    <3>1. markdown \in [Jobs -> Reports] /\ json \in [Jobs -> Reports]
      BY DEF TypeOK
    <3>2. /\ markdown' \in {markdown, [markdown EXCEPT ![j] = Put(markdown[j], i, Verdict(j, i))]}
          /\ json' \in {json, [json EXCEPT ![j] = Put(json[j], i, Verdict(j, i))]}
      BY <1>2 DEF CheckInput
    <3> HIDE DEF i
    <3>3. QED BY <2>2, <3>1, <3>2
  <2>5. QED BY <1>2, <2>3, <2>4 DEF CheckInput, TypeOK, JobTyped
<1>3. CASE FinishReport(j)
  <2>1. todo \in [Jobs -> Seq(Inputs)] /\ pc \in [Jobs -> Steps]
    BY DEF TypeOK
  <2>2. \/ todo' = [todo EXCEPT ![j] = InputOrder] /\ pc' = [pc EXCEPT ![j] = "json"]
        \/ todo' = todo /\ pc' = [pc EXCEPT ![j] = "decide"]
    BY <1>3 DEF FinishReport
  <2>3. todo' \in [Jobs -> Seq(Inputs)] /\ pc' \in [Jobs -> Steps]
    BY <2>1, <2>2, DriftAssumption
  <2>4. QED BY <1>3, <2>3 DEF FinishReport, TypeOK, JobTyped
<1>4. CASE Decide(j)
  BY <1>4 DEF Decide, TypeOK, JobTyped
<1>5. CASE FindIssue(j)
  <2>1. NewestOf(OpenIssues) \in Nat \union {NoIssue}
    BY NewestTyped DEF TypeOK
  <2>2. existing' \in [Jobs -> Nat \union {NoIssue}]
    BY <1>5, <2>1 DEF FindIssue, TypeOK
  <2>3. QED BY <1>5, <2>2 DEF FindIssue, TypeOK, JobTyped
<1>6. CASE UpdateIssue(j) \/ CreateIssue(j) \/ CloseIssue(j) \/ JobFails(j)
  <2>1. End(j)
    BY <1>6 DEF UpdateIssue, CreateIssue, CloseIssue, JobFails
  <2>2. QED BY <2>1, EndTyped DEF JobTyped
<1>7. QED BY <1>1, <1>2, <1>3, <1>4, <1>5, <1>6 DEF JobStep

LEMMA IssueStep ==
  ASSUME TypeOK, ReportInv, NumberInv, NEW j \in Jobs, Start(j) \/ JobStep(j) \/ JobFails(j)
  PROVE  /\ IssuesTyped'
         /\ \/ OpenIssues' \subseteq OpenIssues
            \/ CreateIssue(j) /\ OpenIssues' = OpenIssues \union {NewNumber}
<1>1. CASE CreateIssue(j)
  <2>1. NewNumber \in Nat
    BY NewNumberTyped DEF NumberInv
  <2>2. /\ issues' \in [OpenIssues \union {NewNumber} -> [Inputs -> Verdicts]]
        /\ DOMAIN issues' = OpenIssues \union {NewNumber}
    BY <1>1, <2>1, IssuePutTyped DEF CreateIssue
  <2>3. IsFiniteSet(OpenIssues \union {NewNumber})
    BY FS_AddElement DEF TypeOK
  <2>4. QED BY <1>1, <2>1, <2>2, <2>3 DEF IssuesTyped, OpenIssues, TypeOK
<1>2. CASE UpdateIssue(j)
  <2>1. CASE existing[j] \in OpenIssues
    <3>1. existing[j] \in Nat /\ OpenIssues \union {existing[j]} = OpenIssues
      BY <2>1 DEF TypeOK
    <3>2. /\ issues' \in [OpenIssues -> [Inputs -> Verdicts]] /\ DOMAIN issues' = OpenIssues
      BY <1>2, <2>1, <3>1, IssuePutTyped DEF UpdateIssue
    <3>3. QED BY <3>2 DEF IssuesTyped, OpenIssues, TypeOK
  <2>2. CASE existing[j] \notin OpenIssues
    BY <1>2, <2>2 DEF UpdateIssue, IssuesTyped, OpenIssues, TypeOK
  <2>3. QED BY <2>1, <2>2
<1>3. CASE CloseIssue(j)
  <2>1. DOMAIN issues' = OpenIssues \ {existing[j]}
    BY <1>3 DEF CloseIssue
  <2>2. IsFiniteSet(OpenIssues \ {existing[j]})
    BY FS_RemoveElement DEF TypeOK
  <2>3. QED BY <1>3, <2>1, <2>2 DEF CloseIssue, IssuesTyped, OpenIssues, TypeOK
<1>4. CASE \/ Start(j) \/ CheckInput(j) \/ FinishReport(j) \/ Decide(j) \/ FindIssue(j)
           \/ JobFails(j)
  <2>1. issues' = issues
    BY <1>4 DEF Start, CheckInput, FinishReport, Decide, FindIssue, JobFails
  <2>2. QED BY <2>1 DEF IssuesTyped, OpenIssues, TypeOK
<1>5. QED BY <1>1, <1>2, <1>3, <1>4 DEF JobStep

LEMMA CountStep ==
  ASSUME TypeOK, NEW j \in Jobs, Start(j) \/ JobStep(j) \/ JobFails(j)
  PROVE  /\ WorldTyped'
         /\ count' \in [moves : 0 .. MaxMoves, outages : 0 .. MaxOutages,
                       refreshes : 0 .. MaxRefreshes, failures : 0 .. MaxFailures]
<1>1. world' = world
  BY DEF Start, JobStep, CheckInput, FinishReport, Decide, FindIssue, UpdateIssue,
         CreateIssue, CloseIssue, JobFails, world
<1>2. CASE count' = count
  BY <1>1, <1>2 DEF world, WorldTyped, TypeOK
<1>3. CASE JobFails(j)
  <2>1. count.failures \in Nat /\ count.failures + 1 \in 0 .. MaxFailures
    BY <1>3, DriftAssumption DEF JobFails, TypeOK
  <2>2. QED BY <1>1, <1>3, <2>1 DEF JobFails, world, WorldTyped, TypeOK
<1>4. QED BY <1>2, <1>3 DEF Start, JobStep, CheckInput, FinishReport, Decide, FindIssue,
             UpdateIssue, CreateIssue, CloseIssue

LEMMA WorldStep ==
  ASSUME TypeOK, MovesInv, World
  PROVE  TypeOK' /\ MovesInv' /\ UNCHANGED <<issues, job>>
<1>1. UNCHANGED <<issues, job>>
  BY DEF World, PublisherMoves, FallSilent, Recover, RefreshInput
<1>2. IssuesTyped' /\ JobTyped'
  BY <1>1 DEF job, IssuesTyped, JobTyped, TypeOK, OpenIssues
<1> DEFINE Counts == [moves : 0 .. MaxMoves, outages : 0 .. MaxOutages,
                      refreshes : 0 .. MaxRefreshes, failures : 0 .. MaxFailures]
<1>3. count \in Counts
  BY DEF TypeOK
<1>4. CASE PublisherMoves
  <2>1. PICK i \in Inputs : offered' = [offered EXCEPT ![i] = @ + 1]
    BY <1>4 DEF PublisherMoves
  <2>2. /\ count' = [count EXCEPT !.moves = @ + 1] /\ count.moves < MaxMoves
        /\ UNCHANGED <<pinned, silence>>
    BY <1>4 DEF PublisherMoves
  <2>3. count.moves + 1 \in 0 .. MaxMoves
    BY <1>3, <2>2, DriftAssumption
  <2>4. count' \in Counts /\ count'.moves = count.moves + 1
    BY <1>3, <2>2, <2>3
  <2>5. \A k \in Inputs : offered[k] \in 0 .. MaxMoves /\ offered[k] <= count.moves
    BY DEF TypeOK, MovesInv
  <2>6. offered' \in [Inputs -> 0 .. MaxMoves]
    <3>1. offered[i] + 1 \in 0 .. MaxMoves
      <4>1. offered[i] \in 0 .. MaxMoves /\ offered[i] <= count.moves
        BY <2>5
      <4>2. count.moves \in 0 .. MaxMoves
        BY <1>3
      <4>3. QED BY <2>2, <4>1, <4>2, DriftAssumption
    <3>2. QED BY <2>1, <3>1 DEF TypeOK
  <2>7. MovesInv'
    <3>1. ASSUME NEW k \in Inputs PROVE offered'[k] <= count.moves + 1
      <4>1. offered'[k] = IF k = i THEN offered[i] + 1 ELSE offered[k]
        BY <2>1 DEF TypeOK
      <4>2. QED BY <1>3, <2>5, <4>1
    <3>2. QED BY <2>4, <3>1 DEF MovesInv
  <2>8. WorldTyped'
    BY <2>2, <2>6 DEF WorldTyped, TypeOK
  <2>9. QED BY <1>1, <1>2, <2>4, <2>7, <2>8 DEF TypeOK, WorldTyped, IssuesTyped, JobTyped
<1>5. CASE FallSilent
  <2>1. PICK i \in Inputs, s \in Silent : silence' = Put(silence, i, s)
    BY <1>5 DEF FallSilent
  <2>2. silence' \in PartialTo(Inputs, Silent)
    BY <2>1, PutTyped DEF TypeOK
  <2>3. count.outages + 1 \in 0 .. MaxOutages
    BY <1>3, <1>5, DriftAssumption DEF FallSilent
  <2>4. count' \in Counts /\ count'.moves = count.moves
    BY <1>3, <1>5, <2>3 DEF FallSilent
  <2>5. WorldTyped' /\ MovesInv'
    BY <1>5, <2>2, <2>4 DEF FallSilent, WorldTyped, TypeOK, MovesInv
  <2>6. QED BY <1>1, <1>2, <2>4, <2>5 DEF TypeOK, WorldTyped, IssuesTyped, JobTyped
<1>6. CASE Recover
  <2>1. PICK i \in DOMAIN silence : silence' = [k \in (DOMAIN silence) \ {i} |-> silence[k]]
    BY <1>6 DEF Recover
  <2>2. PICK D \in SUBSET Inputs : silence \in [D -> Silent]
    BY DEF TypeOK, PartialTo
  <2>3. silence' \in [D \ {i} -> Silent] /\ D \ {i} \in SUBSET Inputs
    BY <2>1, <2>2
  <2>4. silence' \in PartialTo(Inputs, Silent)
    BY <2>3 DEF PartialTo
  <2>5. WorldTyped' /\ MovesInv' /\ count' \in Counts
    BY <1>3, <1>6, <2>4 DEF Recover, WorldTyped, TypeOK, MovesInv
  <2>6. QED BY <1>1, <1>2, <2>5 DEF TypeOK, WorldTyped, IssuesTyped, JobTyped
<1>7. CASE RefreshInput
  <2>1. PICK i \in Inputs : pinned' = [pinned EXCEPT ![i] = offered[i]]
    BY <1>7 DEF RefreshInput
  <2>2. pinned' \in [Inputs -> 0 .. MaxMoves]
    BY <2>1 DEF TypeOK
  <2>3. count.refreshes + 1 \in 0 .. MaxRefreshes
    BY <1>3, <1>7, DriftAssumption DEF RefreshInput
  <2>4. count' \in Counts /\ count'.moves = count.moves
    BY <1>3, <1>7, <2>3 DEF RefreshInput
  <2>5. WorldTyped' /\ MovesInv'
    BY <1>7, <2>2, <2>4 DEF RefreshInput, WorldTyped, TypeOK, MovesInv
  <2>6. QED BY <1>1, <1>2, <2>4, <2>5 DEF TypeOK, WorldTyped, IssuesTyped, JobTyped
<1>8. QED BY <1>4, <1>5, <1>6, <1>7 DEF World

\* The findings of the first run are complete when it ends, and stay so.
LEMMA ReportStep ==
  ASSUME TypeOK, ReportInv, NEW j \in Jobs, Start(j) \/ JobStep(j) \/ JobFails(j)
  PROVE  ReportInv'
<1> SUFFICES ASSUME NEW k \in Jobs
             PROVE  /\ pc'[k] = "markdown" => Inputs = DOMAIN markdown'[k] \union ToSet(todo'[k])
                    /\ pc'[k] \notin {"idle", "markdown"} => DOMAIN markdown'[k] = Inputs
  BY DEF ReportInv
<1>1. CASE k # j
  <2>1. pc'[k] = pc[k] /\ markdown'[k] = markdown[k] /\ todo'[k] = todo[k]
    BY <1>1 DEF Start, JobStep, CheckInput, FinishReport, Decide, FindIssue, UpdateIssue,
       CreateIssue, CloseIssue, JobFails, End, GoTo, TypeOK
  <2>2. QED BY <2>1 DEF ReportInv
<1>2. CASE k = j /\ Start(j)
  <2>1. pc'[j] = "markdown" /\ todo'[j] = InputOrder /\ markdown'[j] = markdown[j]
    BY <1>2 DEF Start, GoTo, TypeOK
  <2>2. DOMAIN markdown[j] \subseteq Inputs
    BY DEF TypeOK, Reports, PartialTo
  <2>3. QED BY <1>2, <2>1, <2>2 DEF Inputs
<1>3. CASE k = j /\ CheckInput(j)
  <2> DEFINE i == Head(todo[j])
  <2>1. /\ i \in Inputs /\ ToSet(todo[j]) \subseteq {i} \union ToSet(Tail(todo[j]))
        /\ Tail(todo[j]) \in Seq(Inputs)
    BY <1>3, NextInput DEF CheckInput, TypeOK
  <2>2. pc'[j] = pc[j] /\ todo'[j] = Tail(todo[j])
    BY <1>3 DEF CheckInput, TypeOK
  <2>3. CASE pc[j] = "markdown"
    <3>1. markdown'[j] = Put(markdown[j], i, Verdict(j, i))
      BY <1>3, <2>3 DEF CheckInput, TypeOK
    <3>2. DOMAIN markdown'[j] = DOMAIN markdown[j] \union {i}
      BY <3>1 DEF Put
    <3>3. Inputs = DOMAIN markdown[j] \union ToSet(todo[j])
      BY <2>3 DEF ReportInv
    <3>4. ToSet(Tail(todo[j])) \subseteq Inputs
      BY <2>1 DEF ToSet
    <3> HIDE DEF i
    <3>5. QED BY <1>3, <2>1, <2>2, <2>3, <3>2, <3>3, <3>4
  <2>4. CASE pc[j] = "json"
    BY <1>3, <2>2, <2>4 DEF CheckInput, ReportInv
  <2>5. QED BY <1>3, <2>3, <2>4 DEF CheckInput
<1>4. CASE k = j /\ FinishReport(j)
  <2>1. ToSet(todo[j]) = {}
    BY <1>4 DEF FinishReport, ToSet
  <2>2. pc'[j] \in {"json", "decide"} /\ markdown'[j] = markdown[j]
    BY <1>4 DEF FinishReport, GoTo, TypeOK
  <2>3. DOMAIN markdown[j] = Inputs
    BY <1>4, <2>1 DEF FinishReport, ReportInv
  <2>4. QED BY <1>4, <2>2, <2>3
<1>5. CASE k = j /\ (Decide(j) \/ FindIssue(j))
  BY <1>5 DEF Decide, FindIssue, GoTo, TypeOK, ReportInv
<1>6. CASE k = j /\ (UpdateIssue(j) \/ CreateIssue(j) \/ CloseIssue(j) \/ JobFails(j))
  BY <1>6 DEF UpdateIssue, CreateIssue, CloseIssue, JobFails, End, GoTo, TypeOK
<1>7. QED BY <1>1, <1>2, <1>3, <1>4, <1>5, <1>6 DEF JobStep

LEMMA NumberStep ==
  ASSUME TypeOK, NumberInv, ReportInv, NEW j \in Jobs, Start(j) \/ JobStep(j) \/ JobFails(j)
  PROVE  NumberInv'
<1>1. PICK n \in Nat : /\ \A i \in OpenIssues : i <= n
                       /\ \A k \in Jobs : existing[k] # NoIssue => existing[k] <= n
  BY DEF NumberInv
<1>2. NewNumber \in Nat /\ NewNumber <= n + 1
  BY <1>1, NewNumberTyped
<1>3. \A i \in OpenIssues : i \in Nat
  BY DEF TypeOK
<1>4. ASSUME NEW i \in OpenIssues' PROVE i <= n + 1
  <2>1. i \in OpenIssues \/ i = NewNumber
    BY <1>4, IssueStep
  <2>2. QED BY <1>1, <1>2, <1>3, <2>1
<1>5. ASSUME NEW k \in Jobs, existing'[k] # NoIssue PROVE existing'[k] <= n + 1
  <2>1. existing'[k] \in OpenIssues \union {existing[k], NoIssue}
    <3>1. CASE FindIssue(j)
      <4>1. existing'[k] = IF k = j THEN NewestOf(OpenIssues) ELSE existing[k]
        BY <3>1 DEF FindIssue, TypeOK
      <4>2. QED BY <4>1, NewestTyped
    <3>2. CASE ~FindIssue(j)
      BY <3>2 DEF Start, JobStep, CheckInput, FinishReport, Decide, UpdateIssue, CreateIssue,
         CloseIssue, JobFails, End, TypeOK
    <3>3. QED BY <3>1, <3>2
  <2>2. existing[k] # NoIssue => existing[k] \in Nat /\ existing[k] <= n
    BY <1>1 DEF TypeOK
  <2>3. QED BY <1>1, <1>3, <1>5, <2>1, <2>2
<1>6. QED BY <1>4, <1>5 DEF NumberInv

\* Jobs create issues only where they found none, and each of them one: an
\* issue more is a creating job less.
LEMMA BoundStep ==
  ASSUME TypeOK, NumberInv, BoundInv, ReportInv, NEW j \in Jobs,
         Start(j) \/ JobStep(j) \/ JobFails(j)
  PROVE  BoundInv'
<1>1. /\ IsFiniteSet(OpenIssues) /\ IsFiniteSet(OpenIssues')
      /\ IsFiniteSet(Creating) /\ IsFiniteSet(Creating') /\ IsFiniteSet(Jobs)
  <2>1. Creating \in SUBSET Jobs /\ Creating' \in SUBSET Jobs
    BY DEF Creating
  <2>2. QED BY <2>1, IssueStep, DriftAssumption, FS_Subset DEF IssuesTyped, TypeOK
<1>2. /\ {Cardinality(OpenIssues), Cardinality(OpenIssues'), Cardinality(Creating),
          Cardinality(Creating'), Cardinality(Jobs)} \subseteq Nat
  BY <1>1, FS_CardinalityType
<1>3. CASE CreateIssue(j)
  <2>1. j \in Creating /\ Creating' = Creating \ {j}
    BY <1>3 DEF CreateIssue, Creating, End, GoTo, TypeOK
  <2>2. Cardinality(Creating') = Cardinality(Creating) - 1
    BY <1>1, <2>1, FS_RemoveElement
  <2>3. OpenIssues' = OpenIssues \union {NewNumber} \/ OpenIssues' \subseteq OpenIssues
    BY IssueStep
  <2>4. Cardinality(OpenIssues') <= Cardinality(OpenIssues) + 1
    <3>1. CASE OpenIssues' = OpenIssues \union {NewNumber}
      <4>1. Cardinality(OpenIssues') =
              IF NewNumber \in OpenIssues THEN Cardinality(OpenIssues)
                                          ELSE Cardinality(OpenIssues) + 1
        BY <1>1, <3>1, FS_AddElement
      <4>2. QED BY <1>2, <4>1
    <3>2. CASE OpenIssues' \subseteq OpenIssues
      BY <1>1, <1>2, <3>2, FS_Subset
    <3>3. QED BY <2>3, <3>1, <3>2
  <2>5. QED BY <1>2, <2>2, <2>4 DEF BoundInv
<1>4. CASE ~CreateIssue(j)
  <2>1. OpenIssues' \subseteq OpenIssues
    BY <1>4, IssueStep
  <2>2. Cardinality(OpenIssues') <= Cardinality(OpenIssues)
    BY <1>1, <2>1, FS_Subset
  <2>3. CASE FindIssue(j) /\ OpenIssues = {}
    <3>1. Creating' \in SUBSET Jobs
      BY DEF Creating
    <3>2. Cardinality(Creating') <= Cardinality(Jobs)
      BY <1>1, <3>1, FS_Subset
    <3>3. Cardinality(OpenIssues') = 0
      BY <2>1, <2>3, FS_EmptySet
    <3>4. QED BY <1>2, <3>2, <3>3 DEF BoundInv
  <2>4. CASE ~(FindIssue(j) /\ OpenIssues = {})
    <3>1. Creating' \subseteq Creating
      <4>1. CASE FindIssue(j)
        <5>1. existing'[j] # NoIssue
          BY <2>4, <4>1, NewestTyped DEF FindIssue, TypeOK
        <5>2. QED BY <4>1, <5>1 DEF FindIssue, Creating, GoTo, TypeOK
      <4>2. CASE ~FindIssue(j)
        BY <1>4, <4>2 DEF Start, JobStep, CheckInput, FinishReport, Decide, UpdateIssue,
           CloseIssue, JobFails, End, GoTo, Creating, TypeOK
      <4>3. QED BY <4>1, <4>2
    <3>2. Cardinality(Creating') <= Cardinality(Creating)
      BY <1>1, <3>1, FS_Subset
    <3>3. QED BY <1>2, <2>2, <3>2 DEF BoundInv
  <2>5. QED BY <2>3, <2>4
<1>5. QED BY <1>3, <1>4

LEMMA NextInv == IInv /\ [Next]_vars => IInv'
<1> SUFFICES ASSUME IInv, [Next]_vars PROVE IInv'
  OBVIOUS
<1>1. ASSUME NEW j \in Jobs, Start(j) \/ JobStep(j) \/ JobFails(j) PROVE IInv'
  <2>1. TypeOK'
    BY <1>1, JobStepTyped, IssueStep, CountStep
    DEF IInv, TypeOK, WorldTyped, IssuesTyped, JobTyped
  <2>2. MovesInv'
    <3>1. offered' = offered /\ count'.moves = count.moves
      BY <1>1 DEF Start, JobStep, CheckInput, FinishReport, Decide, FindIssue, UpdateIssue,
         CreateIssue, CloseIssue, JobFails, world, IInv, TypeOK
    <3>2. QED BY <3>1 DEF IInv, MovesInv
  <2>3. QED BY <1>1, <2>1, <2>2, ReportStep, NumberStep, BoundStep DEF IInv
<1>2. ASSUME World PROVE IInv'
  BY <1>2, WorldStep
  DEF IInv, ReportInv, NumberInv, BoundInv, Creating, OpenIssues, job
<1>3. ASSUME UNCHANGED vars PROVE IInv'
  BY <1>3 DEF IInv, TypeOK, MovesInv, ReportInv, NumberInv, BoundInv, Creating, OpenIssues,
     vars, world, job
<1>4. QED BY <1>1, <1>2, <1>3 DEF Next

LEMMA Invariance == Spec => []IInv
BY InitInv, NextInv, PTL DEF Spec

-----------------------------------------------------------------------------

\* Every variable keeps its type; above all, the body of an open issue has a
\* finding for every input.
THEOREM Typed == Spec => []TypeOK
<1>1. IInv => TypeOK
  BY DEF IInv
<1>2. QED BY Invariance, <1>1, PTL

\* input-drift.yml 45-71: jobs that overlap open duplicates, but never more
\* issues than there are jobs at a time.
THEOREM FewDuplicates == Spec => []DuplicatesBounded
<1>1. IInv => DuplicatesBounded
  <2> SUFFICES ASSUME IInv PROVE DuplicatesBounded
    OBVIOUS
  <2>1. Creating \in SUBSET Jobs
    BY DEF Creating
  <2>2. IsFiniteSet(Creating)
    BY <2>1, DriftAssumption, FS_Subset
  <2>3. /\ Cardinality(OpenIssues) \in Nat /\ Cardinality(Creating) \in Nat
        /\ Cardinality(Jobs) \in Nat
    BY <2>2, DriftAssumption, FS_CardinalityType DEF IInv, TypeOK
  <2>4. QED BY <2>3 DEF IInv, BoundInv, DuplicatesBounded
<1>2. QED BY Invariance, <1>1, PTL

-----------------------------------------------------------------------------
(***************************************************************************)
(* The safety halves of the two liveness properties: once every job under  *)
(* way has only drift, or only quiet, to tell of, that stays so, and what  *)
(* the jobs then do to the issues goes one way.                            *)
(***************************************************************************)

\* What an idle job has, and what the second run of the script has gathered.
JsonInv ==
  \A j \in Jobs :
    /\ pc[j] = "idle" => DOMAIN markdown[j] = {} /\ DOMAIN json[j] = {}
    /\ pc[j] = "json" => Inputs \subseteq DOMAIN json[j] \union ToSet(todo[j])
    /\ pc[j] \notin {"idle", "markdown", "json"} => Inputs \subseteq DOMAIN json[j]

\* A job that works with today's inputs and has found nothing of input i but
\* that it moved; it cannot come to close an issue.
TellsDrift(j, i) ==
  pc[j] # "idle" =>
    /\ copy[j][i] = pinned[i]
    /\ i \in DOMAIN markdown[j] => markdown[j][i] = "moved"
    /\ i \in DOMAIN json[j] => json[j][i] = "moved"
    /\ pc[j] \notin {"find quiet", "close"}

\* A job that works with today's inputs and has found no drift; it cannot come
\* to open an issue.
TellsQuiet(j) ==
  pc[j] # "idle" =>
    /\ \A i \in Inputs : copy[j][i] = pinned[i]
    /\ \A i \in DOMAIN json[j] : json[j][i] = "same"
    /\ pc[j] \notin {"find drifted", "update"}

\* While an input has moved and every job tells of it, every job goes on to do
\* so, no report of it is lost, and whatever changes the issues reports it.
DriftHolds ==
  [][\A i \in Inputs :
       /\ HasMoved(i) /\ HasMoved(i)'
       /\ \A j \in Jobs : TellsDrift(j, i)
       => /\ \A j \in Jobs : TellsDrift(j, i)'
          /\ Reported(i) \/ issues' # issues => Reported(i)']_vars

\* While all is quiet and every job tells so, every job goes on to do so, and
\* no issue is opened; the issue a job finds is an open one, if there is any.
QuietHolds ==
  [][/\ AllQuiet /\ AllQuiet'
     /\ \A j \in Jobs : TellsQuiet(j)
     => /\ \A j \in Jobs : TellsQuiet(j)'
        /\ OpenIssues' \subseteq OpenIssues
        /\ \A j \in Jobs : FindIssue(j) /\ OpenIssues # {} => existing'[j] \in OpenIssues]_vars

\* A job leaves the others and the world alone.
LEMMA OthersRest ==
  ASSUME TypeOK, NEW j \in Jobs, Start(j) \/ JobStep(j) \/ JobFails(j)
  PROVE  /\ UNCHANGED world
         /\ \A k \in Jobs \ {j} : /\ pc'[k] = pc[k] /\ copy'[k] = copy[k] /\ todo'[k] = todo[k]
                                 /\ markdown'[k] = markdown[k] /\ json'[k] = json[k]
BY DEF Start, JobStep, CheckInput, FinishReport, Decide, FindIssue, UpdateIssue, CreateIssue,
       CloseIssue, JobFails, End, GoTo, TypeOK, world

\* The steps of a job, in what these proofs ask of them.
LEMMA EndedIdle ==
  ASSUME TypeOK, NEW j \in Jobs,
         UpdateIssue(j) \/ CreateIssue(j) \/ CloseIssue(j) \/ JobFails(j)
  PROVE  pc'[j] = "idle" /\ DOMAIN markdown'[j] = {} /\ DOMAIN json'[j] = {}
<1>1. pc'[j] = "idle" /\ markdown'[j] = Nothing /\ json'[j] = Nothing
  BY DEF UpdateIssue, CreateIssue, CloseIssue, JobFails, End, GoTo, TypeOK
<1>2. QED BY <1>1 DEF Nothing

LEMMA CheckShape ==
  ASSUME TypeOK, NEW j \in Jobs, CheckInput(j)
  PROVE  LET h == Head(todo[j])
         IN  /\ pc[j] \in {"markdown", "json"} /\ pc'[j] = pc[j] /\ copy'[j] = copy[j]
             /\ h \in Inputs /\ todo'[j] = Tail(todo[j])
             /\ ToSet(todo[j]) \subseteq {h} \union ToSet(Tail(todo[j]))
             /\ \/ /\ pc[j] = "markdown" /\ json'[j] = json[j]
                   /\ markdown'[j] = Put(markdown[j], h, Verdict(j, h))
                \/ /\ pc[j] = "json" /\ markdown'[j] = markdown[j]
                   /\ json'[j] = Put(json[j], h, Verdict(j, h))
<1>1. Head(todo[j]) \in Inputs /\ ToSet(todo[j]) \subseteq {Head(todo[j])} \union ToSet(Tail(todo[j]))
  BY NextInput DEF CheckInput, TypeOK
<1>2. QED BY <1>1 DEF CheckInput, TypeOK

LEMMA JsonStep ==
  ASSUME TypeOK, JsonInv, NEW j \in Jobs, Start(j) \/ JobStep(j) \/ JobFails(j)
  PROVE  JsonInv'
<1> SUFFICES ASSUME NEW k \in Jobs
             PROVE  /\ pc'[k] = "idle" => DOMAIN markdown'[k] = {} /\ DOMAIN json'[k] = {}
                    /\ pc'[k] = "json" => Inputs \subseteq DOMAIN json'[k] \union ToSet(todo'[k])
                    /\ pc'[k] \notin {"idle", "markdown", "json"} => Inputs \subseteq DOMAIN json'[k]
  BY DEF JsonInv
<1>1. CASE k # j
  <2>1. /\ pc'[k] = pc[k] /\ todo'[k] = todo[k]
        /\ markdown'[k] = markdown[k] /\ json'[k] = json[k]
    BY <1>1, OthersRest
  <2>2. QED BY <2>1 DEF JsonInv
<1>2. CASE k = j /\ Start(j)
  <2>1. pc'[j] = "markdown"
    BY <1>2 DEF Start, GoTo, TypeOK
  <2>2. QED BY <1>2, <2>1
<1>3. CASE k = j /\ CheckInput(j)
  <2> DEFINE h == Head(todo[j])
  <2>1. /\ pc[j] \in {"markdown", "json"} /\ pc'[j] = pc[j]
        /\ todo'[j] = Tail(todo[j])
        /\ ToSet(todo[j]) \subseteq {h} \union ToSet(Tail(todo[j]))
        /\ pc[j] = "json" => json'[j] = Put(json[j], h, Verdict(j, h))
    BY <1>3, CheckShape
  <2>2. pc[j] = "json" => DOMAIN json'[j] = DOMAIN json[j] \union {h}
    BY <2>1 DEF Put
  <2>3. pc[j] = "json" => Inputs \subseteq DOMAIN json[j] \union ToSet(todo[j])
    BY DEF JsonInv
  <2> HIDE DEF h
  <2>4. QED BY <1>3, <2>1, <2>2, <2>3
<1>4. CASE k = j /\ FinishReport(j)
  <2>1. ToSet(todo[j]) = {}
    BY <1>4 DEF FinishReport, ToSet
  <2>2. /\ pc[j] \in {"markdown", "json"} /\ json'[j] = json[j]
        /\ pc[j] = "markdown" => pc'[j] = "json" /\ todo'[j] = InputOrder
        /\ pc[j] = "json" => pc'[j] = "decide"
    BY <1>4 DEF FinishReport, GoTo, TypeOK
  <2>3. pc[j] = "markdown" => Inputs \subseteq DOMAIN json'[j] \union ToSet(todo'[j])
    BY <2>2 DEF Inputs
  <2>4. pc[j] = "json" => Inputs \subseteq DOMAIN json'[j]
    BY <2>1, <2>2 DEF JsonInv
  <2>5. QED BY <1>4, <2>2, <2>3, <2>4
<1>5. CASE k = j /\ (Decide(j) \/ FindIssue(j))
  BY <1>5 DEF Decide, FindIssue, GoTo, TypeOK, JsonInv
<1>6. CASE k = j /\ (UpdateIssue(j) \/ CreateIssue(j) \/ CloseIssue(j) \/ JobFails(j))
  BY <1>6, EndedIdle
<1>7. QED BY <1>1, <1>2, <1>3, <1>4, <1>5, <1>6 DEF JobStep

LEMMA JsonInvariance == Spec => [](IInv /\ JsonInv)
<1>1. Init => JsonInv
  BY DEF Init, JsonInv, Nothing
<1>2. IInv /\ JsonInv /\ [Next]_vars => JsonInv'
  <2> SUFFICES ASSUME IInv, JsonInv, [Next]_vars PROVE JsonInv'
    OBVIOUS
  <2>1. ASSUME World PROVE JsonInv'
    BY <2>1, WorldStep DEF IInv, JsonInv, job
  <2>2. ASSUME UNCHANGED vars PROVE JsonInv'
    BY <2>2 DEF JsonInv, vars, job
  <2>3. QED BY <2>1, <2>2, JsonStep DEF Next, IInv
<1>3. QED BY <1>1, <1>2, Invariance, PTL DEF Spec

\* The world's own steps: while an input has moved, its pin stays.
LEMMA WorldRest ==
  ASSUME TypeOK, NEW i \in Inputs, HasMoved(i)', World
  PROVE  UNCHANGED <<issues, job>> /\ pinned'[i] = pinned[i]
<1>1. UNCHANGED <<issues, job>>
  BY DEF World, PublisherMoves, FallSilent, Recover, RefreshInput
<1>2. pinned' = pinned \/ RefreshInput
  BY DEF World, PublisherMoves, FallSilent, Recover
<1>3. ASSUME RefreshInput PROVE pinned'[i] = pinned[i]
  <2>1. PICK k \in Inputs : pinned' = [pinned EXCEPT ![k] = offered[k]]
    BY <1>3 DEF RefreshInput
  <2>2. offered' = offered
    BY <1>3 DEF RefreshInput
  <2>3. QED BY <2>1, <2>2 DEF HasMoved, TypeOK
<1>4. QED BY <1>1, <1>2, <1>3

LEMMA DriftJobStep ==
  ASSUME IInv, JsonInv, NEW i \in Inputs, HasMoved(i), NEW j \in Jobs, TellsDrift(j, i),
         Start(j) \/ JobStep(j) \/ JobFails(j)
  PROVE  TellsDrift(j, i)'
<1> USE DEF IInv
<1>1. pinned' = pinned
  BY OthersRest DEF world
<1>2. CASE Start(j)
  <2>1. pc'[j] = "markdown" /\ copy'[j] = pinned /\ UNCHANGED <<markdown, json>>
    BY <1>2 DEF Start, GoTo, TypeOK
  <2>2. DOMAIN markdown[j] = {} /\ DOMAIN json[j] = {}
    BY <1>2 DEF Start, JsonInv
  <2>3. QED BY <1>1, <2>1, <2>2 DEF TellsDrift
<1>3. CASE CheckInput(j)
  <2> DEFINE h == Head(todo[j])
  <2>1. /\ pc[j] \in {"markdown", "json"} /\ pc'[j] = pc[j] /\ copy'[j] = copy[j]
        /\ \/ json'[j] = json[j] /\ markdown'[j] = Put(markdown[j], h, Verdict(j, h))
           \/ markdown'[j] = markdown[j] /\ json'[j] = Put(json[j], h, Verdict(j, h))
    BY <1>3, CheckShape
  <2>2. /\ copy[j][i] = pinned[i]
        /\ i \in DOMAIN markdown[j] => markdown[j][i] = "moved"
        /\ i \in DOMAIN json[j] => json[j][i] = "moved"
    BY <2>1 DEF TellsDrift
  <2>3. h = i => Verdict(j, h) = "moved"
    BY <2>2 DEF Verdict, HasMoved
  <2> HIDE DEF h
  <2>4. ASSUME NEW f, i \in DOMAIN f => f[i] = "moved",
               i \in DOMAIN Put(f, h, Verdict(j, h))
        PROVE  Put(f, h, Verdict(j, h))[i] = "moved"
    BY <2>3, <2>4 DEF Put
  <2>5. /\ i \in DOMAIN markdown'[j] => markdown'[j][i] = "moved"
        /\ i \in DOMAIN json'[j] => json'[j][i] = "moved"
    BY <2>1, <2>2, <2>4
  <2>6. QED BY <1>1, <2>1, <2>2, <2>5 DEF TellsDrift
<1>4. CASE FinishReport(j)
  BY <1>1, <1>4 DEF FinishReport, GoTo, TypeOK, TellsDrift
<1>5. CASE Decide(j)
  <2>1. pc[j] = "decide" /\ UNCHANGED <<copy, markdown, json>>
    BY <1>5 DEF Decide
  <2>2. i \in DOMAIN json[j] /\ json[j][i] = "moved"
    BY <2>1 DEF JsonInv, TellsDrift
  <2>3. i \in Drifted(json[j])
    BY <2>2 DEF Drifted
  <2>4. pc'[j] = IF Drifted(json[j]) # {} THEN "find drifted" ELSE "find quiet"
    BY <1>5 DEF Decide, GoTo, TypeOK
  <2>5. pc'[j] # "find quiet" /\ pc'[j] # "close"
    BY <2>3, <2>4, Zenon
  <2>6. QED BY <1>1, <2>1, <2>5 DEF TellsDrift
<1>6. CASE FindIssue(j)
  BY <1>1, <1>6 DEF FindIssue, GoTo, TypeOK, TellsDrift
<1>7. CASE UpdateIssue(j) \/ CreateIssue(j) \/ CloseIssue(j) \/ JobFails(j)
  BY <1>7, EndedIdle DEF TellsDrift
<1>8. QED BY <1>2, <1>3, <1>4, <1>5, <1>6, <1>7 DEF JobStep

\* A job that tells of drift writes it into the issue it changes.
LEMMA DriftIssueStep ==
  ASSUME IInv, NEW i \in Inputs, NEW j \in Jobs, TellsDrift(j, i),
         Start(j) \/ JobStep(j) \/ JobFails(j), Reported(i) \/ issues' # issues
  PROVE  Reported(i)'
<1> USE DEF IInv
<1>1. ASSUME NEW n, issues' = Put(issues, n, markdown[j]), pc[j] = "update"
      PROVE  Reported(i)'
  <2>1. i \in DOMAIN markdown[j]
    BY <1>1 DEF ReportInv
  <2>2. markdown[j][i] = "moved"
    BY <1>1, <2>1 DEF TellsDrift
  <2>3. n \in OpenIssues' /\ issues'[n] = markdown[j]
    BY <1>1 DEF Put, OpenIssues
  <2>4. QED BY <2>2, <2>3 DEF Reported
<1>2. CASE UpdateIssue(j)
  BY <1>1, <1>2 DEF UpdateIssue, Reported, OpenIssues
<1>3. CASE CreateIssue(j)
  BY <1>1, <1>3 DEF CreateIssue
<1>4. ~CloseIssue(j)
  BY DEF CloseIssue, TellsDrift
<1>5. CASE issues' = issues
  BY <1>5 DEF Reported, OpenIssues
<1>6. QED BY <1>2, <1>3, <1>4, <1>5 DEF Start, JobStep, CheckInput, FinishReport, Decide,
               FindIssue, JobFails

\* input-drift.yml 45-71: while an input has moved and no job carries an older
\* finding, jobs that start, end, die and overlap keep the report of it open.
\* The fair steps of one job then make DriftEventuallyReported true.
THEOREM DriftKeptReported == Spec => DriftHolds
<1>1. ASSUME IInv, JsonInv, [Next]_vars, NEW i \in Inputs, HasMoved(i), HasMoved(i)',
             \A j \in Jobs : TellsDrift(j, i)
      PROVE  /\ \A j \in Jobs : TellsDrift(j, i)'
             /\ Reported(i) \/ issues' # issues => Reported(i)'
  <2>1. ASSUME NEW j \in Jobs, Start(j) \/ JobStep(j) \/ JobFails(j)
        PROVE  /\ \A k \in Jobs : TellsDrift(k, i)'
               /\ Reported(i) \/ issues' # issues => Reported(i)'
    <3>1. TellsDrift(j, i)'
      BY <1>1, <2>1, DriftJobStep
    <3>2. ASSUME NEW k \in Jobs, k # j PROVE TellsDrift(k, i)'
      <4>1. pinned' = pinned /\ pc'[k] = pc[k] /\ copy'[k] = copy[k]
            /\ markdown'[k] = markdown[k] /\ json'[k] = json[k]
        BY <1>1, <2>1, <3>2, OthersRest DEF IInv, world
      <4>2. TellsDrift(k, i)
        BY <1>1
      <4>3. QED BY <4>1, <4>2 DEF TellsDrift
    <3>3. Reported(i) \/ issues' # issues => Reported(i)'
      BY <1>1, <2>1, DriftIssueStep
    <3>4. QED BY <3>1, <3>2, <3>3
  <2>2. ASSUME World \/ UNCHANGED vars
        PROVE  /\ \A k \in Jobs : TellsDrift(k, i)'
               /\ Reported(i) \/ issues' # issues => Reported(i)'
    <3>1. UNCHANGED <<issues, job>> /\ pinned'[i] = pinned[i]
      BY <1>1, <2>2, WorldRest DEF IInv, vars, world
    <3>2. QED BY <1>1, <3>1 DEF TellsDrift, Reported, OpenIssues, job
  <2>3. QED BY <1>1, <2>1, <2>2 DEF Next
<1>2. IInv /\ JsonInv /\ [Next]_vars =>
        [\A i \in Inputs :
           /\ HasMoved(i) /\ HasMoved(i)'
           /\ \A j \in Jobs : TellsDrift(j, i)
           => /\ \A j \in Jobs : TellsDrift(j, i)'
              /\ Reported(i) \/ issues' # issues => Reported(i)']_vars
  BY <1>1
<1>3. QED BY <1>2, JsonInvariance, PTL DEF Spec, DriftHolds

-----------------------------------------------------------------------------
LEMMA QuietJobStep ==
  ASSUME IInv, JsonInv, AllQuiet, NEW j \in Jobs, TellsQuiet(j),
         Start(j) \/ JobStep(j) \/ JobFails(j)
  PROVE  TellsQuiet(j)'
<1> USE DEF IInv
<1>1. pinned' = pinned
  BY OthersRest DEF world
<1>2. CASE Start(j)
  <2>1. pc'[j] = "markdown" /\ copy'[j] = pinned /\ UNCHANGED <<markdown, json>>
    BY <1>2 DEF Start, GoTo, TypeOK
  <2>2. DOMAIN json[j] = {}
    BY <1>2 DEF Start, JsonInv
  <2>3. QED BY <1>1, <2>1, <2>2 DEF TellsQuiet
<1>3. CASE CheckInput(j)
  <2> DEFINE h == Head(todo[j])
  <2>1. /\ pc[j] \in {"markdown", "json"} /\ pc'[j] = pc[j] /\ copy'[j] = copy[j] /\ h \in Inputs
        /\ json'[j] = json[j] \/ json'[j] = Put(json[j], h, Verdict(j, h))
    BY <1>3, CheckShape
  <2>2. /\ \A i \in Inputs : copy[j][i] = pinned[i]
        /\ \A i \in DOMAIN json[j] : json[j][i] = "same"
    BY <2>1 DEF TellsQuiet
  <2>3. Verdict(j, h) = "same"
    BY <2>1, <2>2 DEF Verdict, AllQuiet
  <2> HIDE DEF h
  <2>4. \A i \in DOMAIN json'[j] : json'[j][i] = "same"
    <3>1. ASSUME NEW i \in DOMAIN Put(json[j], h, "same")
          PROVE  Put(json[j], h, "same")[i] = "same"
      BY <2>2, <3>1 DEF Put
    <3>2. QED BY <2>1, <2>2, <2>3, <3>1
  <2>5. QED BY <1>1, <2>1, <2>2, <2>4 DEF TellsQuiet
<1>4. CASE FinishReport(j)
  BY <1>1, <1>4 DEF FinishReport, GoTo, TypeOK, TellsQuiet
<1>5. CASE Decide(j)
  <2>1. pc[j] = "decide" /\ UNCHANGED <<copy, json>>
    BY <1>5 DEF Decide
  <2>2. Drifted(json[j]) = {}
    BY <2>1 DEF TellsQuiet, Drifted
  <2>3. pc'[j] = IF Drifted(json[j]) # {} THEN "find drifted" ELSE "find quiet"
    BY <1>5 DEF Decide, GoTo, TypeOK
  <2>4. pc'[j] # "find drifted" /\ pc'[j] # "update"
    BY <2>2, <2>3, Zenon
  <2>5. QED BY <1>1, <2>1, <2>4 DEF TellsQuiet
<1>6. CASE FindIssue(j)
  BY <1>1, <1>6 DEF FindIssue, GoTo, TypeOK, TellsQuiet
<1>7. CASE UpdateIssue(j) \/ CreateIssue(j) \/ CloseIssue(j) \/ JobFails(j)
  BY <1>7, EndedIdle DEF TellsQuiet
<1>8. QED BY <1>2, <1>3, <1>4, <1>5, <1>6, <1>7 DEF JobStep

\* input-drift.yml 73-85: while everything matches and no job carries an older
\* finding, jobs open nothing, and the closing of one issue after another that
\* they find open makes QuietEventuallyClosed true.
THEOREM QuietOpensNothing == Spec => QuietHolds
<1>1. ASSUME IInv, JsonInv, [Next]_vars, AllQuiet, AllQuiet', \A j \in Jobs : TellsQuiet(j)
      PROVE  /\ \A j \in Jobs : TellsQuiet(j)'
             /\ OpenIssues' \subseteq OpenIssues
             /\ \A j \in Jobs : FindIssue(j) /\ OpenIssues # {} => existing'[j] \in OpenIssues
  <2>1. ASSUME NEW j \in Jobs, Start(j) \/ JobStep(j) \/ JobFails(j)
        PROVE  (\A k \in Jobs : TellsQuiet(k)') /\ OpenIssues' \subseteq OpenIssues
    <3>1. TellsQuiet(j)'
      BY <1>1, <2>1, QuietJobStep
    <3>2. ASSUME NEW k \in Jobs, k # j PROVE TellsQuiet(k)'
      <4>1. pinned' = pinned /\ pc'[k] = pc[k] /\ copy'[k] = copy[k] /\ json'[k] = json[k]
        BY <1>1, <2>1, <3>2, OthersRest DEF IInv, world
      <4>2. TellsQuiet(k)
        BY <1>1
      <4>3. QED BY <4>1, <4>2 DEF TellsQuiet
    <3>3. ~CreateIssue(j)
      BY <1>1 DEF CreateIssue, TellsQuiet
    <3>4. QED BY <1>1, <2>1, <3>1, <3>2, <3>3, IssueStep DEF IInv
  <2>2. ASSUME World \/ UNCHANGED vars
        PROVE  (\A k \in Jobs : TellsQuiet(k)') /\ OpenIssues' \subseteq OpenIssues
    <3>1. UNCHANGED <<issues, job>>
      BY <2>2 DEF World, PublisherMoves, FallSilent, Recover, RefreshInput, vars
    <3>2. \A i \in Inputs : pinned'[i] = pinned[i]
      <4>1. ~RefreshInput
        BY <1>1 DEF RefreshInput, AllQuiet
      <4>2. pinned' = pinned
        BY <2>2, <4>1 DEF World, PublisherMoves, FallSilent, Recover, vars, world
      <4>3. QED BY <4>2
    <3>3. QED BY <1>1, <3>1, <3>2 DEF TellsQuiet, OpenIssues, job
  <2>3. ASSUME NEW j \in Jobs, FindIssue(j), OpenIssues # {} PROVE existing'[j] \in OpenIssues
    <3>1. existing'[j] = NewestOf(OpenIssues)
      BY <1>1, <2>3 DEF FindIssue, IInv, TypeOK
    <3>2. QED BY <1>1, <2>3, <3>1, NewestTyped DEF IInv
  <2>4. QED BY <1>1, <2>1, <2>2, <2>3 DEF Next
<1>2. IInv /\ JsonInv /\ [Next]_vars =>
        [/\ AllQuiet /\ AllQuiet'
         /\ \A j \in Jobs : TellsQuiet(j)
         => /\ \A j \in Jobs : TellsQuiet(j)'
            /\ OpenIssues' \subseteq OpenIssues
            /\ \A j \in Jobs : FindIssue(j) /\ OpenIssues # {} => existing'[j] \in OpenIssues]_vars
  BY <1>1
<1>3. QED BY <1>2, JsonInvariance, PTL DEF Spec, QuietHolds
=============================================================================
