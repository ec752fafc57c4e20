----------------------------- MODULE InputDrift -----------------------------
(***************************************************************************)
(* .github/workflows/input-drift.yml with scripts/check_input_drift.py:    *)
(* the weekly (or dispatched) job that compares the reviewed inputs with   *)
(* what their publishers offer and keeps one issue current with the        *)
(* result.                                                                 *)
(*                                                                         *)
(* The script runs twice in a job, for the issue's body (markdown) and for *)
(* the decision whether there is drift (json), and asks every publisher    *)
(* again each time.  Nothing keeps two jobs from overlapping.  The locked  *)
(* closure is compared with itself and never drifts, so it is left out.    *)
(***************************************************************************)
EXTENDS Integers, Sequences, SequencesExt, FiniteSetsExt

CONSTANTS
  InputOrder,   \* the inputs, in the order the script checks them
  Jobs,         \* jobs that may be under way at one time
  NoIssue,
  MaxMoves,     \* bound: times publishers move an input
  MaxOutages,   \* bound: times a publisher falls silent
  MaxRefreshes, \* bound: reviewed refreshes of the inputs
  MaxFailures   \* bound: jobs that die

Inputs == ToSet(InputOrder)

\* What the script can learn of a publisher without a value to compare: no
\* answer, or one that names no package or digest.
Silent == {"unreachable", "none"}

ASSUME DriftAssumption ==
  /\ InputOrder \in Seq(Inputs)
  /\ IsFiniteSet(Jobs)
  /\ {MaxMoves, MaxOutages, MaxRefreshes, MaxFailures} \subseteq Nat
  /\ NoIssue \notin Nat

VARIABLES
  pinned,     \* the value of each reviewed input on main
  offered,    \* the value its publisher has
  silence,    \* how a publisher is silent: input -> Silent, for those that are
  issues,     \* open issues labelled input-drift: number -> body
  pc,         \* the next step of each job
  copy,       \* pinned, as the job checked it out
  todo,       \* inputs the script has not asked about yet
  markdown,   \* findings of its first run
  json,       \* findings of its second
  existing,   \* the issue gh found
  count       \* history: moves, outages, refreshes and failures so far

world == <<pinned, offered, silence>>
job == <<pc, copy, todo, markdown, json, existing>>
vars == <<world, issues, job, count>>

Steps == {"idle", "markdown", "json", "decide", "find drifted", "update", "find quiet", "close"}
Verdicts == {"same", "moved"} \union Silent
PartialTo(S, T) == UNION {[D -> T] : D \in SUBSET S}
Reports == PartialTo(Inputs, Verdicts)
OpenIssues == DOMAIN issues

TypeOK ==
  /\ pinned \in [Inputs -> 0 .. MaxMoves] /\ offered \in [Inputs -> 0 .. MaxMoves]
  /\ silence \in PartialTo(Inputs, Silent)
  /\ IsFiniteSet(OpenIssues) /\ OpenIssues \subseteq Nat
  /\ issues \in [OpenIssues -> [Inputs -> Verdicts]]
  /\ pc \in [Jobs -> Steps]
  /\ copy \in [Jobs -> [Inputs -> 0 .. MaxMoves]]
  /\ todo \in [Jobs -> Seq(Inputs)]
  /\ markdown \in [Jobs -> Reports] /\ json \in [Jobs -> Reports]
  /\ existing \in [Jobs -> Nat \union {NoIssue}]
  /\ count \in [moves : 0 .. MaxMoves, outages : 0 .. MaxOutages,
               refreshes : 0 .. MaxRefreshes, failures : 0 .. MaxFailures]

Nothing == [i \in {} |-> "same"]
AtFirst == [i \in Inputs |-> 0]
Put(f, x, y) == [z \in (DOMAIN f) \union {x} |-> IF z = x THEN y ELSE f[z]]

Init ==
  /\ pinned = AtFirst /\ offered = AtFirst
  /\ silence = Nothing
  /\ issues = Nothing
  /\ pc = [j \in Jobs |-> "idle"]
  /\ copy = [j \in Jobs |-> AtFirst]
  /\ todo = [j \in Jobs |-> <<>>]
  /\ markdown = [j \in Jobs |-> Nothing] /\ json = [j \in Jobs |-> Nothing]
  /\ existing = [j \in Jobs |-> NoIssue]
  /\ count = [moves |-> 0, outages |-> 0, refreshes |-> 0, failures |-> 0]

GoTo(j, step) == pc' = [pc EXCEPT ![j] = step]

(***************************************************************************)
(* Step drift.                                                             *)
(***************************************************************************)

\* The schedule or a dispatch starts a job, which checks main out.
Start(j) ==
  /\ pc[j] = "idle"
  /\ copy' = [copy EXCEPT ![j] = pinned]
  /\ todo' = [todo EXCEPT ![j] = InputOrder]
  /\ GoTo(j, "markdown")
  /\ UNCHANGED <<world, issues, markdown, json, existing, count>>

\* A job ends, and its workspace with it.
End(j) ==
  /\ GoTo(j, "idle")
  /\ copy' = [copy EXCEPT ![j] = AtFirst] /\ todo' = [todo EXCEPT ![j] = <<>>]
  /\ markdown' = [markdown EXCEPT ![j] = Nothing] /\ json' = [json EXCEPT ![j] = Nothing]
  /\ existing' = [existing EXCEPT ![j] = NoIssue]

\* Finding: a value in parentheses stands for none and never counts as drift.
Verdict(j, i) ==
  IF i \in DOMAIN silence THEN silence[i]
  ELSE IF offered[i] = copy[j][i] THEN "same" ELSE "moved"

\* check_nginx, check_signing_keys or check_base_images, for one input: a value
\* is what the script compares: the version x.y.z, the first digits of a digest.
CheckInput(j) ==
  /\ pc[j] \in {"markdown", "json"}
  /\ todo[j] # <<>>
  /\ LET i == Head(todo[j])
     IN  IF pc[j] = "markdown"
           THEN markdown' = [markdown EXCEPT ![j] = Put(@, i, Verdict(j, i))] /\ UNCHANGED json
           ELSE json' = [json EXCEPT ![j] = Put(@, i, Verdict(j, i))] /\ UNCHANGED markdown
  /\ todo' = [todo EXCEPT ![j] = Tail(@)]
  /\ UNCHANGED <<world, issues, pc, copy, existing, count>>

FinishReportEarly(j) ==
  /\ pc[j] \in {"markdown", "json"}
  /\ IF pc[j] = "markdown"
       THEN todo' = [todo EXCEPT ![j] = InputOrder] /\ GoTo(j, "json")
       ELSE GoTo(j, "decide") /\ UNCHANGED todo
  /\ UNCHANGED <<world, issues, copy, markdown, json, existing, count>>

\* The report is written; the markdown run is followed by the json run.
FinishReport(j) ==
  /\ pc[j] \in {"markdown", "json"}
  /\ todo[j] = <<>>
  /\ IF pc[j] = "markdown"
       THEN todo' = [todo EXCEPT ![j] = InputOrder] /\ GoTo(j, "json")
       ELSE GoTo(j, "decide") /\ UNCHANGED todo
  /\ UNCHANGED <<world, issues, copy, markdown, json, existing, count>>

Drifted(report) == {i \in DOMAIN report : report[i] = "moved"}

\* steps.drift.outputs.moved
Decide(j) ==
  /\ pc[j] = "decide"
  /\ GoTo(j, IF Drifted(json[j]) # {} THEN "find drifted" ELSE "find quiet")
  /\ UNCHANGED <<world, issues, copy, todo, markdown, json, existing, count>>

(***************************************************************************)
(* Steps "Open or update" and "Close the drift issue".                     *)
(***************************************************************************)
NewestOf(S) == IF S = {} THEN NoIssue ELSE Max(S)

FindNoIssue(j) ==
  /\ pc[j] \in {"find drifted", "find quiet"}
  /\ GoTo(j, IF pc[j] = "find drifted" THEN "update" ELSE "close")
  /\ UNCHANGED <<world, issues, copy, todo, markdown, json, existing, count>>

\* gh issue list --state open --limit 1: the newest open one.
FindIssue(j) ==
  /\ pc[j] \in {"find drifted", "find quiet"}
  /\ existing' = [existing EXCEPT ![j] = NewestOf(OpenIssues)]
  /\ GoTo(j, IF pc[j] = "find drifted" THEN "update" ELSE "close")
  /\ UNCHANGED <<world, issues, copy, todo, markdown, json, count>>

\* gh issue edit replaces the body.  An issue closed by now stays closed, and
\* its body is of no more interest.
UpdateIssue(j) ==
  /\ pc[j] = "update"
  /\ existing[j] # NoIssue
  /\ issues' = IF existing[j] \in OpenIssues THEN Put(issues, existing[j], markdown[j])
                                             ELSE issues
  /\ End(j)
  /\ UNCHANGED <<world, count>>

\* A number above those of the open issues and those jobs know of.
NewNumber ==
  LET known == OpenIssues \union {existing[k] : k \in {l \in Jobs : existing[l] # NoIssue}}
  IN  IF known = {} THEN 1 ELSE Max(known) + 1

CreateUnlabelled(j) ==
  /\ pc[j] = "update"
  /\ existing[j] = NoIssue
  /\ End(j)
  /\ UNCHANGED <<world, issues, count>>

\* The label is there, or made, before the issue.
CreateIssue(j) ==
  /\ pc[j] = "update"
  /\ existing[j] = NoIssue
  /\ issues' = Put(issues, NewNumber, markdown[j])
  /\ End(j)
  /\ UNCHANGED <<world, count>>

CommentOnly(j) ==
  /\ pc[j] = "close"
  /\ End(j)
  /\ UNCHANGED <<world, issues, count>>

\* gh issue close leaves an issue that is closed by now as it is.
CloseIssue(j) ==
  /\ pc[j] = "close"
  /\ issues' = [n \in OpenIssues \ {existing[j]} |-> issues[n]]
  /\ End(j)
  /\ UNCHANGED <<world, count>>

\* An exception that is no OSError, the job's timeout, a failing gh.
JobFails(j) ==
  /\ pc[j] # "idle"
  /\ count.failures < MaxFailures
  /\ count' = [count EXCEPT !.failures = @ + 1]
  /\ End(j)
  /\ UNCHANGED <<world, issues>>

(***************************************************************************)
(* Publishers and maintainers.                                             *)
(***************************************************************************)
PublisherMoves ==
  /\ count.moves < MaxMoves
  /\ \E i \in Inputs : offered' = [offered EXCEPT ![i] = @ + 1]
  /\ count' = [count EXCEPT !.moves = @ + 1]
  /\ UNCHANGED <<pinned, silence, issues, job>>

FallSilent ==
  /\ count.outages < MaxOutages
  /\ \E i \in Inputs \ DOMAIN silence, s \in Silent : silence' = Put(silence, i, s)
  /\ count' = [count EXCEPT !.outages = @ + 1]
  /\ UNCHANGED <<pinned, offered, issues, job>>

Recover ==
  /\ \E i \in DOMAIN silence : silence' = [k \in (DOMAIN silence) \ {i} |-> silence[k]]
  /\ UNCHANGED <<pinned, offered, issues, job, count>>

\* A reviewed refresh is merged.
RefreshInput ==
  /\ count.refreshes < MaxRefreshes
  /\ \E i \in Inputs : pinned[i] # offered[i] /\ pinned' = [pinned EXCEPT ![i] = offered[i]]
  /\ count' = [count EXCEPT !.refreshes = @ + 1]
  /\ UNCHANGED <<offered, silence, issues, job>>

JobStep(j) ==
  \/ CheckInput(j) \/ FinishReport(j) \/ Decide(j) \/ FindIssue(j)
  \/ UpdateIssue(j) \/ CreateIssue(j) \/ CloseIssue(j)

World == PublisherMoves \/ FallSilent \/ Recover \/ RefreshInput

Next ==
  \/ \E j \in Jobs : Start(j) \/ JobStep(j) \/ JobFails(j)
  \/ World

Spec == Init /\ [][Next]_vars

\* The schedule starts a job every week, and a runner that has one goes on
\* with it; publishers and maintainers owe nothing.
FairSpec == Spec /\ \A j \in Jobs : WF_vars(Start(j)) /\ WF_vars(JobStep(j))

-----------------------------------------------------------------------------
(***************************************************************************)
(* Properties.                                                             *)
(***************************************************************************)
HasMoved(i) == pinned[i] # offered[i] /\ i \notin DOMAIN silence
Reported(i) == \E n \in OpenIssues : issues[n][i] = "moved"
AllQuiet == \A i \in Inputs : pinned[i] = offered[i] /\ i \notin DOMAIN silence

\* An input that has moved for good, and can be read, ends up in the body of
\* an open issue and stays there, whatever overlapping jobs, closings on the
\* word of an older report and jobs that die do first (docs/CI.md 127-129).
DriftEventuallyReported == \A i \in Inputs : <>[]HasMoved(i) => <>[]Reported(i)

\* Once the reviewed inputs match what every publisher offers, every issue
\* that was opened ends up closed, duplicates included, one a week
\* (input-drift.yml 73-85).
QuietEventuallyClosed == <>[]AllQuiet => <>[](OpenIssues = {})

\* Overlapping jobs do open duplicates ("one open issue is kept current",
\* input-drift.yml 43-44, holds for jobs that do not overlap), but never more
\* of them than jobs overlapped, however often those jobs are repeated.
DuplicatesBounded == Cardinality(OpenIssues) <= Cardinality(Jobs)

\* "Silence from a publisher is not evidence that nothing moved"
\* (docs/CI.md 135-136): the workflow does not close an issue that reports an
\* input as moved while its publisher did not answer the job that closes it.
SilenceClosesNothing ==
  [][\A n \in OpenIssues \ (DOMAIN issues'), j \in Jobs :
       existing[j] = n /\ pc[j] = "close" /\ pc'[j] = "idle" =>
         \A i \in Inputs : issues[n][i] = "moved" => json[j][i] \notin Silent]_vars
=============================================================================
