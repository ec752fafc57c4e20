----------------------------- MODULE TraceMatrix -----------------------------
(***************************************************************************)
(* scripts/build-trace-matrix.py: the status of every requirement, derived *)
(* from the requirement documents and the markers in the tests, and the    *)
(* lint job that keeps the committed docs/TRACE-MATRIX.md equal to it.     *)
(*                                                                         *)
(* Documents are edited freely: a requirement may name a parent that does  *)
(* not exist or that is below it, and a marker may outlive what it marks.  *)
(* A document is what its parser finds in it: the parent and whether Test  *)
(* is among the methods.  The layout of the matrix and the table of        *)
(* non-requirements, which is copied, are left out.                        *)
(***************************************************************************)
EXTENDS FiniteSets, Integers

CONSTANTS
  Ids,        \* requirement identifiers that are ever written or marked
  Level,      \* Level[id], the number after L, and the document it stands in
  Tests,      \* verifying artifacts
  FirstTree,  \* requirements and markers at first
  MaxEdits,   \* bound: edits of documents and tests
  None        \* no Parent line

ASSUME TraceAssumption ==
  /\ IsFiniteSet(Ids) /\ Level \in [Ids -> 1 .. 3]
  /\ MaxEdits \in Nat /\ None \notin Ids

VARIABLES
  reqs,    \* the parsed documents: [parent, tested] of every requirement written
  marks,   \* the markers in the tests: <<test, identifier>>
  matrix,  \* docs/TRACE-MATRIX.md of the working tree
  main,    \* reqs, marks and matrix of the main branch
  edits

vars == <<reqs, marks, matrix, main, edits>>

\* What an entry of any of the documents may say: a parent is any L1 or L2
\* identifier.
Requirement == [parent : {None} \union {i \in Ids : Level[i] < 3}, tested : BOOLEAN]

Children(r, id) == {c \in DOMAIN r : r[c].parent = id}
Artifacts(m, id) == {t \in Tests : <<t, id>> \in m}

\* A composite that any one covered child covers.
CompositeAny(below) ==
  CASE "recursion" \in below -> "recursion"
    [] OTHER                 -> IF "covered" \in below THEN "covered" ELSE "uncovered"

\* What the children's statuses make of an unmarked requirement; "recursion" is
\* the error that a cycle of parents ends in.
Composite(below) ==
  CASE "recursion" \in below -> "recursion"
    [] below = {"covered"}   -> "covered"
    [] OTHER                 -> IF "covered" \in below THEN "partial" ELSE "uncovered"

\* One call of compute_status for each requirement, where the calls for its
\* children return what `answer` says.
Call(r, m, answer) ==
  [i \in DOMAIN r |->
     CASE Artifacts(m, i) # {} -> "covered"
       [] Artifacts(m, i) = {} /\ Children(r, i) # {} ->
            Composite({answer[c] : c \in Children(r, i)})
       [] OTHER -> IF r[i].tested THEN "uncovered" ELSE "not-test-verified"]

\* compute_status: what the calls return that nest as deep as a tree of these
\* requirements can; one that goes deeper never returns.
Status(r, m) ==
  LET answers[n \in 0 .. Cardinality(DOMAIN r)] ==
        IF n = 0 THEN [i \in DOMAIN r |-> "recursion"] ELSE Call(r, m, answers[n - 1])
  IN  answers[Cardinality(DOMAIN r)]

BuildsAlways(r, m) == TRUE

Builds(r, m) == \A id \in DOMAIN r : Status(r, m)[id] # "recursion"

\* The requirements and markers that the project starts from: the parsers find
\* nothing else in the documents, and a matrix could be generated from them.
ASSUME FirstAssumption ==
  /\ DOMAIN FirstTree.reqs \subseteq Ids
  /\ \A id \in DOMAIN FirstTree.reqs : FirstTree.reqs[id] \in Requirement
  /\ FirstTree.marks \subseteq Tests \X Ids
  /\ Builds(FirstTree.reqs, FirstTree.marks)

\* All but L1.
CountedBelowL1(r) == {id \in DOMAIN r : Level[id] \in {2, 3}}

\* Composite L1 requirements are excluded from the count.
Counted(r) == {id \in DOMAIN r : Level[id] \in {2, 3} \/ Children(r, id) = {}}

\* build: the three lists that are counted, two lists of dangling names, and
\* the tables.
Build(r, m) ==
  LET status == Status(r, m)
      counted(s) == {id \in Counted(r) : status[id] = s} IN
  [covered   |-> counted("covered"),
   notTested |-> counted("not-test-verified"),
   gaps      |-> counted("uncovered"),
   unknown   |-> {id \in DOMAIN r : r[id].parent \notin DOMAIN r \union {None}},
   orphans   |-> {e[2] : e \in m} \ DOMAIN r,
   rows      |-> [id \in DOMAIN r |->
                    [tested |-> r[id].tested, parent |-> r[id].parent,
                     children |-> Children(r, id), artifacts |-> Artifacts(m, id),
                     status |-> status[id]]]]

Init ==
  /\ reqs = FirstTree.reqs /\ marks = FirstTree.marks
  /\ matrix = Build(reqs, marks)
  /\ main = [reqs |-> reqs, marks |-> marks, matrix |-> matrix]
  /\ edits = 0

(***************************************************************************)
(* The contributor.                                                        *)
(***************************************************************************)
Edit(r, m) ==
  /\ edits < MaxEdits /\ edits' = edits + 1
  /\ reqs' = r /\ marks' = m
  /\ UNCHANGED <<matrix, main>>

WriteRequirement(id) ==
  \E record \in Requirement :
    Edit([i \in DOMAIN reqs \union {id} |-> IF i = id THEN record ELSE reqs[i]], marks)

DropRequirement(id) ==
  id \in DOMAIN reqs /\ Edit([i \in DOMAIN reqs \ {id} |-> reqs[i]], marks)

Mark(id) == \E t \in Tests : <<t, id>> \notin marks /\ Edit(reqs, marks \union {<<t, id>>})

Unmark(id) == \E t \in Tests : <<t, id>> \in marks /\ Edit(reqs, marks \ {<<t, id>>})

Regenerate ==
  /\ Builds(reqs, marks)
  /\ matrix' = Build(reqs, marks)
  /\ UNCHANGED <<reqs, marks, main, edits>>

(***************************************************************************)
(* The lint job, required and up to date with the main branch.             *)
(***************************************************************************)

\* A comparison of the counts only.
CheckCounts ==
  /\ Builds(reqs, marks)
  /\ LET new == Build(reqs, marks) IN
       /\ Cardinality(matrix.covered) = Cardinality(new.covered)
       /\ Cardinality(matrix.notTested) = Cardinality(new.notTested)
       /\ Cardinality(matrix.gaps) = Cardinality(new.gaps)

\* main with --check.
Check == Builds(reqs, marks) /\ matrix = Build(reqs, marks)

Merge ==
  /\ Check
  /\ main' = [reqs |-> reqs, marks |-> marks, matrix |-> matrix]
  /\ UNCHANGED <<reqs, marks, matrix, edits>>

Next ==
  \/ \E id \in Ids : WriteRequirement(id) \/ DropRequirement(id) \/ Mark(id) \/ Unmark(id)
  \/ Regenerate \/ Merge

Spec == Init /\ [][Next]_vars

-----------------------------------------------------------------------------

\* Type invariant: the documents hold requirements, and a matrix calls each of
\* them by one of the four labels.
TypeOK ==
  /\ \A r \in {reqs, main.reqs} : DOMAIN r \subseteq Ids /\ \A id \in DOMAIN r : r[id] \in Requirement
  /\ marks \union main.marks \subseteq Tests \X Ids
  /\ \A x \in {matrix, main.matrix} : \A id \in DOMAIN x.rows :
       x.rows[id].status \in {"covered", "partial", "uncovered", "not-test-verified"}
  /\ edits \in 0 .. MaxEdits

\* The requirements on the ways down from id that go through unmarked ones: what
\* lies in every set that holds id and the children of its unmarked members.
Closed(r, m, S) == \A i \in S : Artifacts(m, i) = {} => Children(r, i) \subseteq S

Below(r, m, id) ==
  {i \in DOMAIN r : \A S \in SUBSET DOMAIN r : id \in S /\ Closed(r, m, S) => i \in S}

Exposed(r, m, id) == {i \in Below(r, m, id) : Artifacts(m, i) = {}}

Evidenced(r, m, id) == \A i \in Exposed(r, m, id) : Children(r, i) # {}

\* However the tree is shaped, the recursion of compute_status calls covered
\* exactly the requirements under which every way down ends at a marker, and it
\* fails to end exactly when somewhere an unmarked requirement is below itself.
CoveredReference ==
  \A id \in DOMAIN reqs : LET status == Status(reqs, marks)[id] IN
    /\ status = "recursion" => \E i \in DOMAIN reqs :
         Artifacts(marks, i) = {} /\ \E j \in Exposed(reqs, marks, i) : i \in Children(reqs, j)
    /\ status # "recursion" =>
         /\ status = "covered" <=> Evidenced(reqs, marks, id)
         /\ ~\E j \in Exposed(reqs, marks, id) : id \in Children(reqs, j)

\* A requirement on the main branch that is not covered never hides in the
\* summary, although "partial" is in none of its counts and a composite L1
\* requirement is not counted: something at or below it is listed as uncovered
\* or counted as not test-verified.
NoHiddenGap ==
  \A id \in DOMAIN main.matrix.rows : main.matrix.rows[id].status # "covered" =>
    \E i \in Exposed(main.reqs, main.marks, id) :
      i \in main.matrix.gaps \union main.matrix.notTested

\* "so a requirement cannot lose its evidence silently" (docs/CI.md:37): when a
\* change on the main branch leaves a requirement with a way down that ends at no
\* marker, by whichever edits and even when every count stays the same, the
\* committed matrix stops calling the requirement covered in the same change.
EvidenceLossShown ==
  [][main' # main =>
       \A id \in DOMAIN main.reqs \intersect DOMAIN main'.reqs :
         Evidenced(main.reqs, main.marks, id) /\ ~Evidenced(main'.reqs, main'.marks, id)
           => main'.matrix.rows[id].status # "covered"]_vars

\* "A requirement whose declared verification method is not Test is reported as
\* such rather than counted as a gap" (build-trace-matrix.py:20).  The method is
\* asked for only where a requirement has no children.
NonTestReportedAsSuch ==
  \A id \in DOMAIN main.matrix.rows :
    ~main.matrix.rows[id].tested => main.matrix.rows[id].status # "uncovered"
=============================================================================
