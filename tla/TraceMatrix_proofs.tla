------------------------- MODULE TraceMatrix_proofs -------------------------
(***************************************************************************)
(* Proofs about TraceMatrix: for any set of requirements, however their    *)
(* parents are written, the recursion of compute_status agrees with the    *)
(* reference definition over ways down, and the committed matrix of the    *)
(* main branch hides no gap and no loss of evidence.                       *)
(***************************************************************************)
EXTENDS TraceMatrix, FiniteSetTheorems, WellFoundedInduction, TLAPS

LEMMA LeastNatural ==
  ASSUME NEW T, T \subseteq Nat, T # {} PROVE \E x \in T : \A y \in T : x <= y
<1>1. PICK x \in T : \A y \in T : <<y, x>> \notin OpToRel(<, Nat)
  BY WFMin, NatLessThanWellFounded
<1>2. \A y \in T : ~(y < x)
  BY <1>1 DEF OpToRel
<1>3. QED BY <1>2

-----------------------------------------------------------------------------
(***************************************************************************)
(* The ways down.                                                          *)
(***************************************************************************)

\* A requirement is below itself; so are the children of every unmarked one;
\* and nothing is that a closed set leaves out.
LEMMA BelowIsLeast ==
  ASSUME NEW r, NEW m, NEW id \in DOMAIN r
  PROVE  /\ id \in Below(r, m, id)
         /\ Below(r, m, id) \subseteq DOMAIN r
         /\ Closed(r, m, Below(r, m, id))
         /\ \A S \in SUBSET DOMAIN r :
              id \in S /\ Closed(r, m, S) => Below(r, m, id) \subseteq S
  BY DEF Below, Closed, Children

LEMMA BelowIsTransitive ==
  ASSUME NEW r, NEW m, NEW id \in DOMAIN r, NEW c \in Below(r, m, id)
  PROVE  c \in DOMAIN r /\ Below(r, m, c) \subseteq Below(r, m, id)
<1>1. c \in DOMAIN r /\ Below(r, m, id) \in SUBSET DOMAIN r /\ Closed(r, m, Below(r, m, id))
  BY BelowIsLeast
<1>2. QED BY <1>1, BelowIsLeast

\* A marked requirement ends the way down; an unmarked one leads to what is
\* below its children.
LEMMA BelowSplits ==
  ASSUME NEW r, NEW m, NEW id \in DOMAIN r
  PROVE  /\ Artifacts(m, id) # {} => Below(r, m, id) = {id}
         /\ Artifacts(m, id) = {} =>
              /\ \A c \in Children(r, id) : Below(r, m, c) \subseteq Below(r, m, id)
              /\ \A j \in Below(r, m, id) :
                   j = id \/ \E c \in Children(r, id) : j \in Below(r, m, c)
<1>1. ASSUME Artifacts(m, id) # {} PROVE Below(r, m, id) = {id}
  <2>1. {id} \in SUBSET DOMAIN r /\ Closed(r, m, {id})
    BY <1>1 DEF Closed
  <2>2. QED BY <2>1, BelowIsLeast
<1>2. ASSUME Artifacts(m, id) = {}, NEW c \in Children(r, id)
      PROVE  Below(r, m, c) \subseteq Below(r, m, id)
  <2>1. c \in Below(r, m, id)
    BY <1>2, BelowIsLeast DEF Closed
  <2>2. QED BY <2>1, BelowIsTransitive
<1>3. ASSUME Artifacts(m, id) = {}, NEW j \in Below(r, m, id)
      PROVE  j = id \/ \E c \in Children(r, id) : j \in Below(r, m, c)
  <2> DEFINE S == {i \in DOMAIN r : i = id \/ \E c \in Children(r, id) : i \in Below(r, m, c)}
  <2>1. ASSUME NEW i \in S, Artifacts(m, i) = {}, NEW k \in Children(r, i) PROVE k \in S
    <3>1. k \in DOMAIN r
      BY DEF Children
    <3>2. CASE i = id
      BY <3>1, <3>2, BelowIsLeast
    <3>3. ASSUME NEW c \in Children(r, id), i \in Below(r, m, c) PROVE k \in S
      <4>1. c \in DOMAIN r
        BY DEF Children
      <4>2. k \in Below(r, m, c)
        BY <2>1, <3>3, <4>1, BelowIsLeast DEF Closed
      <4>3. QED BY <3>1, <4>2
    <3>4. QED BY <3>2, <3>3
  <2>2. S \in SUBSET DOMAIN r /\ id \in S /\ Closed(r, m, S)
    BY <2>1 DEF Closed
  <2>3. j \in S
    BY <1>3, <2>2, BelowIsLeast
  <2>4. QED BY <2>3
<1>4. QED BY <1>1, <1>2, <1>3

\* The last step of a way down.
LEMMA LastStep ==
  ASSUME NEW r, NEW m, NEW id \in DOMAIN r, NEW j \in Below(r, m, id), j # id
  PROVE  \E k \in Exposed(r, m, id) : j \in Children(r, k)
<1> DEFINE S == {i \in Below(r, m, id) :
                   i = id \/ \E k \in Exposed(r, m, id) : i \in Children(r, k)}
<1>1. ASSUME NEW i \in S, Artifacts(m, i) = {}, NEW c \in Children(r, i) PROVE c \in S
  <2>1. i \in Exposed(r, m, id)
    BY <1>1 DEF Exposed
  <2>2. c \in Below(r, m, id)
    BY <1>1, BelowIsLeast DEF Closed
  <2>3. QED BY <2>1, <2>2
<1>2. S \in SUBSET DOMAIN r /\ id \in S /\ Closed(r, m, S)
  BY <1>1, BelowIsLeast DEF Closed
<1>3. j \in S
  BY <1>2, BelowIsLeast
<1>4. QED BY <1>3

-----------------------------------------------------------------------------
(***************************************************************************)
(* compute_status.                                                         *)
(***************************************************************************)

Labels == {"covered", "partial", "uncovered", "not-test-verified"}

LEMMA CompositeIs ==
  ASSUME NEW S, S # {}
  PROVE  /\ Composite(S) \in Labels \union {"recursion"}
         /\ Composite(S) = "recursion" <=> "recursion" \in S
         /\ Composite(S) = "covered" <=> \A s \in S : s = "covered"
<1>1. S = {"covered"} <=> \A s \in S : s = "covered"
  OBVIOUS
<1>2. CASE "recursion" \in S
  BY <1>2 DEF Composite, Labels
<1>3. CASE "recursion" \notin S /\ S = {"covered"}
  BY <1>3 DEF Composite, Labels
<1>4. CASE "recursion" \notin S /\ S # {"covered"}
  BY <1>1, <1>4 DEF Composite, Labels
<1>5. QED BY <1>2, <1>3, <1>4

\* What one call returns, by what the calls for the children do.
LEMMA CallIs ==
  ASSUME NEW r, NEW m, NEW answer, NEW i \in DOMAIN r
  PROVE  /\ Call(r, m, answer)[i] \in Labels \union {"recursion"}
         /\ Artifacts(m, i) # {} => Call(r, m, answer)[i] = "covered"
         /\ Artifacts(m, i) = {} /\ Children(r, i) = {} =>
              Call(r, m, answer)[i] \in {"uncovered", "not-test-verified"}
         /\ Artifacts(m, i) = {} /\ Children(r, i) # {} =>
              /\ Call(r, m, answer)[i] = "recursion" <=>
                   \E c \in Children(r, i) : answer[c] = "recursion"
              /\ Call(r, m, answer)[i] = "covered" <=>
                   \A c \in Children(r, i) : answer[c] = "covered"
<1> DEFINE below == {answer[c] : c \in Children(r, i)}
<1>1. CASE Artifacts(m, i) # {}
  BY <1>1 DEF Call, Labels
<1>2. CASE Artifacts(m, i) = {} /\ Children(r, i) = {}
  BY <1>2 DEF Call, Labels
<1>3. CASE Artifacts(m, i) = {} /\ Children(r, i) # {}
  <2>1. Call(r, m, answer)[i] = Composite(below) /\ below # {}
    BY <1>3 DEF Call
  <2>2. "recursion" \in below <=> \E c \in Children(r, i) : answer[c] = "recursion"
    OBVIOUS
  <2>3. (\A s \in below : s = "covered") <=> \A c \in Children(r, i) : answer[c] = "covered"
    OBVIOUS
  <2> HIDE DEF below
  <2>4. QED BY <1>3, <2>1, <2>2, <2>3, CompositeIs
<1>4. QED BY <1>1, <1>2, <1>3

\* What the calls that nest at most n deep return.
Nested(r, m, n, a) ==
  a = [k \in 0 .. n |-> IF k = 0 THEN [i \in DOMAIN r |-> "recursion"]
                                 ELSE Call(r, m, a[k - 1])]

LEMMA NestedIs ==
  ASSUME NEW r, NEW m, NEW n \in Nat, NEW a, Nested(r, m, n, a)
  PROVE  /\ \A i \in DOMAIN r : a[0][i] = "recursion"
         /\ \A k \in 1 .. n : a[k] = Call(r, m, a[k - 1])
<1>1. \A k \in 0 .. n : a[k] = IF k = 0 THEN [i \in DOMAIN r |-> "recursion"]
                                        ELSE Call(r, m, a[k - 1])
  BY DEF Nested
<1>2. a[0] = [i \in DOMAIN r |-> "recursion"]
  BY <1>1
<1>3. \A k \in 1 .. n : a[k] = Call(r, m, a[k - 1])
  BY <1>1
<1>4. QED BY <1>2, <1>3

\* The recursion defines something at every depth.
LEMMA NestedExists ==
  ASSUME NEW r, NEW m, NEW n \in Nat
  PROVE  \E a : Nested(r, m, n, a)
<1> DEFINE T == {k \in Nat : ~\E a : Nested(r, m, k, a)}
<1>1. SUFFICES ASSUME T # {} PROVE FALSE
  OBVIOUS
<1>2. PICK x \in T : \A y \in T : x <= y
  BY <1>1, LeastNatural
<1>3. CASE x = 0
  <2> DEFINE b == [k \in 0 .. 0 |-> [i \in DOMAIN r |-> "recursion"]]
  <2>1. Nested(r, m, 0, b)
    BY DEF Nested
  <2>2. QED BY <1>3, <2>1
<1>4. CASE x # 0
  <2>1. x \in Nat /\ x - 1 \in Nat /\ ~(x <= x - 1)
    BY <1>4
  <2>2. PICK a : Nested(r, m, x - 1, a)
    BY <1>2, <2>1
  <2>3. \A k \in 1 .. x - 1 : a[k] = Call(r, m, a[k - 1])
    <3> DEFINE z == x - 1
    <3>1. z \in Nat /\ Nested(r, m, z, a)
      BY <2>1, <2>2
    <3> HIDE DEF z
    <3>2. \A k \in 1 .. z : a[k] = Call(r, m, a[k - 1])
      BY ONLY <3>1, NestedIs
    <3>3. QED BY <3>2 DEF z
  <2> DEFINE b == [k \in 0 .. x |-> IF k = x THEN Call(r, m, a[x - 1]) ELSE a[k]]
  <2>4. ASSUME NEW k \in 0 .. x
        PROVE  b[k] = IF k = 0 THEN [i \in DOMAIN r |-> "recursion"]
                               ELSE Call(r, m, b[k - 1])
    <3>1. CASE k = 0
      <4>1. a[0] = [i \in DOMAIN r |-> "recursion"]
        BY <2>1, <2>2 DEF Nested
      <4>2. QED BY <1>4, <2>1, <3>1, <4>1
    <3>2. CASE k # 0 /\ k = x
      BY <1>4, <2>1, <3>2
    <3>3. CASE k # 0 /\ k # x
      <4>1. k \in 1 .. x - 1 /\ k - 1 \in 0 .. x - 1 /\ k - 1 # x
        BY <2>1, <3>3
      <4>2. a[k] = Call(r, m, a[k - 1])
        BY <2>3, <4>1
      <4>3. b[k] = a[k] /\ b[k - 1] = a[k - 1]
        BY <3>3, <4>1
      <4>4. QED BY <3>3, <4>2, <4>3
    <3>4. QED BY <3>1, <3>2, <3>3
  <2>5. Nested(r, m, x, b)
    BY <2>4 DEF Nested
  <2>6. QED BY <2>5
<1>5. QED BY <1>3, <1>4

LEMMA StatusIs ==
  ASSUME NEW r, NEW m, IsFiniteSet(DOMAIN r)
  PROVE  \E a : /\ Nested(r, m, Cardinality(DOMAIN r), a)
                /\ Status(r, m) = a[Cardinality(DOMAIN r)]
<1> DEFINE n == Cardinality(DOMAIN r)
           answers == CHOOSE a : Nested(r, m, n, a)
<1>1. n \in Nat
  BY FS_CardinalityType
<1>2. Nested(r, m, n, answers)
  BY <1>1, NestedExists
<1>3. Status(r, m) = answers[n]
  BY DEF Status, Nested
<1>4. QED BY <1>2, <1>3

\* A call that returns says "covered" exactly when every way down from the
\* requirement ends at a marker.
LEMMA AnswerMeansEvidence ==
  ASSUME NEW r, NEW m, NEW n \in Nat, NEW a, Nested(r, m, n, a),
         NEW k \in 0 .. n, NEW i \in DOMAIN r, a[k][i] # "recursion"
  PROVE  a[k][i] = "covered" <=> Evidenced(r, m, i)
<1>0. /\ \A q \in DOMAIN r : a[0][q] = "recursion"
      /\ \A y \in 1 .. n : a[y] = Call(r, m, a[y - 1])
  BY ONLY n \in Nat, Nested(r, m, n, a), NestedIs
<1> DEFINE Wrong(x) == \E j \in DOMAIN r : /\ a[x][j] # "recursion"
                                          /\ ~(a[x][j] = "covered" <=> Evidenced(r, m, j))
           T == {x \in 0 .. n : Wrong(x)}
<1>1. SUFFICES ASSUME T # {} PROVE FALSE
  OBVIOUS
<1> HIDE DEF T
<1>2. PICK x \in T : \A y \in T : x <= y
  <2>1. T \subseteq Nat
    BY DEF T
  <2>2. QED BY <1>1, <2>1, LeastNatural
<1> x \in 0 .. n
  BY DEF T
<1>3. PICK j \in DOMAIN r : /\ a[x][j] # "recursion"
                            /\ ~(a[x][j] = "covered" <=> Evidenced(r, m, j))
  BY <1>2 DEF T
<1>4. x # 0
  BY <1>0, <1>3
<1>5. x \in 1 .. n /\ x - 1 \in 0 .. n /\ ~(x <= x - 1)
  BY <1>2, <1>4
<1>6. a[x] = Call(r, m, a[x - 1])
  BY <1>0, <1>5
<1>7. CASE Artifacts(m, j) # {}
  <2>1. Exposed(r, m, j) = {}
    BY <1>7, BelowSplits DEF Exposed
  <2>2. QED BY <1>3, <1>6, <1>7, <2>1, CallIs DEF Evidenced
<1>8. CASE Artifacts(m, j) = {} /\ Children(r, j) = {}
  <2>1. j \in Exposed(r, m, j)
    BY <1>8, BelowIsLeast DEF Exposed
  <2>2. QED BY <1>3, <1>6, <1>8, <2>1, CallIs DEF Evidenced
<1>9. CASE Artifacts(m, j) = {} /\ Children(r, j) # {}
  <2>1. a[x][j] = "covered" <=> \A c \in Children(r, j) : a[x - 1][c] = "covered"
    BY <1>6, <1>9, CallIs
  <2>2. \A c \in Children(r, j) : a[x - 1][c] # "recursion"
    BY <1>3, <1>6, <1>9, CallIs
  <2>3. \A c \in Children(r, j) : c \in DOMAIN r
    BY DEF Children
  <2>4. \A c \in Children(r, j) : a[x - 1][c] = "covered" <=> Evidenced(r, m, c)
    BY <1>2, <1>5, <2>2, <2>3 DEF T
  <2>5. Evidenced(r, m, j) <=> \A c \in Children(r, j) : Evidenced(r, m, c)
    <3>1. \A c \in Children(r, j) : Exposed(r, m, c) \subseteq Exposed(r, m, j)
      BY <1>9, BelowSplits DEF Exposed
    <3>2. \A q \in Exposed(r, m, j) :
            q = j \/ \E c \in Children(r, j) : q \in Exposed(r, m, c)
      BY <1>9, BelowSplits DEF Exposed
    <3>3. QED BY <1>9, <3>1, <3>2 DEF Evidenced
  <2>6. QED BY <1>3, <2>1, <2>4, <2>5
<1>10. QED BY <1>7, <1>8, <1>9

\* An unmarked requirement that is below itself.
Cyclic(r, m, i) == \E j \in Exposed(r, m, i) : i \in Children(r, j)

\* A call returns only where no unmarked requirement is below itself.
LEMMA AnswerMeansNoCycle ==
  ASSUME NEW r, NEW m, NEW n \in Nat, NEW a, Nested(r, m, n, a),
         NEW k \in 0 .. n, NEW i \in DOMAIN r, a[k][i] # "recursion"
  PROVE  ~Cyclic(r, m, i)
<1>0. /\ \A q \in DOMAIN r : a[0][q] = "recursion"
      /\ \A y \in 1 .. n : a[y] = Call(r, m, a[y - 1])
  BY ONLY n \in Nat, Nested(r, m, n, a), NestedIs
<1> DEFINE T == {x \in 0 .. n : \E j \in DOMAIN r : a[x][j] # "recursion" /\ Cyclic(r, m, j)}
<1>1. SUFFICES ASSUME T # {} PROVE FALSE
  OBVIOUS
<1> HIDE DEF T
<1>2. PICK x \in T : \A y \in T : x <= y
  <2>1. T \subseteq Nat
    BY DEF T
  <2>2. QED BY <1>1, <2>1, LeastNatural
<1> x \in 0 .. n
  BY DEF T
<1>3. PICK j \in DOMAIN r : a[x][j] # "recursion" /\ Cyclic(r, m, j)
  BY <1>2 DEF T
<1>4. x # 0
  BY <1>0, <1>3
<1>5. x \in 1 .. n /\ x - 1 \in 0 .. n /\ ~(x <= x - 1)
  BY <1>2, <1>4
<1>6. a[x] = Call(r, m, a[x - 1])
  BY <1>0, <1>5
<1>7. PICK q \in Exposed(r, m, j) : j \in Children(r, q)
  BY <1>3 DEF Cyclic
<1>8. Artifacts(m, j) = {}
  <2>1. SUFFICES ASSUME Artifacts(m, j) # {} PROVE FALSE
    OBVIOUS
  <2>2. QED BY <1>7, <2>1, BelowSplits DEF Exposed
<1>9. PICK c \in Children(r, j) : (q = j /\ c = j) \/ q \in Below(r, m, c)
  BY <1>7, <1>8, BelowSplits DEF Exposed
<1>10. c \in DOMAIN r
  BY DEF Children
<1>11. q \in Exposed(r, m, c)
  BY <1>7, <1>9, <1>10, BelowIsLeast DEF Exposed
<1>12. j \in Below(r, m, c)
  BY <1>7, <1>10, <1>11, BelowIsLeast DEF Closed, Exposed
<1>13. j \in Exposed(r, m, c)
  BY <1>8, <1>12 DEF Exposed
<1>14. Cyclic(r, m, c)
  BY <1>9, <1>13 DEF Cyclic
<1>15. a[x - 1][c] # "recursion"
  BY <1>3, <1>6, <1>8, <1>9, CallIs
<1>16. QED BY <1>2, <1>5, <1>10, <1>14, <1>15 DEF T

\* Where no unmarked requirement is below itself a call returns once it may
\* nest as deep as there are requirements below.
LEMMA AnswerComes ==
  ASSUME NEW r, NEW m, IsFiniteSet(DOMAIN r),
         \A j \in DOMAIN r : ~Cyclic(r, m, j),
         NEW n \in Nat, NEW a, Nested(r, m, n, a),
         NEW k \in 0 .. n, NEW i \in DOMAIN r, Cardinality(Below(r, m, i)) <= k
  PROVE  a[k][i] # "recursion"
<1>0. /\ \A q \in DOMAIN r : a[0][q] = "recursion"
      /\ \A y \in 1 .. n : a[y] = Call(r, m, a[y - 1])
  BY ONLY n \in Nat, Nested(r, m, n, a), NestedIs
<1> DEFINE T == {x \in 0 .. n : \E j \in DOMAIN r : /\ Cardinality(Below(r, m, j)) <= x
                                                   /\ a[x][j] = "recursion"}
<1>1. SUFFICES ASSUME T # {} PROVE FALSE
  OBVIOUS
<1> HIDE DEF T
<1>2. PICK x \in T : \A y \in T : x <= y
  <2>1. T \subseteq Nat
    BY DEF T
  <2>2. QED BY <1>1, <2>1, LeastNatural
<1> x \in 0 .. n
  BY DEF T
<1>3. PICK j \in DOMAIN r : Cardinality(Below(r, m, j)) <= x /\ a[x][j] = "recursion"
  BY <1>2 DEF T
<1>4. \A q \in DOMAIN r : /\ q \in Below(r, m, q) /\ IsFiniteSet(Below(r, m, q))
                          /\ Cardinality(Below(r, m, q)) \in Nat
  BY BelowIsLeast, FS_Subset, FS_CardinalityType
<1>5. x # 0
  BY <1>3, <1>4, FS_EmptySet
<1>6. x \in 1 .. n /\ x - 1 \in 0 .. n /\ ~(x <= x - 1)
  BY <1>2, <1>5
<1>7. a[x] = Call(r, m, a[x - 1])
  BY <1>0, <1>6
<1>8. Artifacts(m, j) = {} /\ Children(r, j) # {}
  BY <1>3, <1>7, CallIs
<1>9. PICK c \in Children(r, j) : a[x - 1][c] = "recursion"
  BY <1>3, <1>7, <1>8, CallIs
<1>10. c \in DOMAIN r /\ Below(r, m, c) \subseteq Below(r, m, j)
  BY <1>8, BelowSplits DEF Children
<1>11. j \notin Below(r, m, c)
  <2>1. SUFFICES ASSUME j \in Below(r, m, c) PROVE FALSE
    OBVIOUS
  <2>2. PICK q \in Exposed(r, m, j) : j \in Children(r, q)
    <3>1. CASE j = c
      BY <1>4, <1>8, <1>9, <3>1 DEF Exposed
    <3>2. CASE j # c
      BY <1>10, <2>1, <3>2, LastStep DEF Exposed
    <3>3. QED BY <3>1, <3>2
  <2>3. QED BY <2>2 DEF Cyclic
<1>12. Cardinality(Below(r, m, c)) < Cardinality(Below(r, m, j))
  BY <1>4, <1>10, <1>11, FS_Subset
<1>13. Cardinality(Below(r, m, c)) <= x - 1
  BY <1>3, <1>4, <1>6, <1>10, <1>12
<1>14. QED BY <1>2, <1>6, <1>9, <1>10, <1>13 DEF T

\* What compute_status returns for a requirement of a finite set of documents.
LEMMA StatusLaw ==
  ASSUME NEW r, NEW m, IsFiniteSet(DOMAIN r), NEW id \in DOMAIN r
  PROVE  /\ Status(r, m)[id] \in Labels \union {"recursion"}
         /\ Status(r, m)[id] = "recursion" => \E i \in DOMAIN r : Cyclic(r, m, i)
         /\ Status(r, m)[id] # "recursion" =>
              /\ Status(r, m)[id] = "covered" <=> Evidenced(r, m, id)
              /\ ~Cyclic(r, m, id)
         /\ Artifacts(m, id) = {} /\ Children(r, id) = {} =>
              Status(r, m)[id] \in {"uncovered", "not-test-verified"}
<1> DEFINE n == Cardinality(DOMAIN r)
<1>1. n \in Nat /\ n # 0
  BY FS_CardinalityType, FS_EmptySet
<1>2. PICK a : Nested(r, m, n, a) /\ Status(r, m) = a[n]
  BY StatusIs
<1>3. Cardinality(Below(r, m, id)) <= n
  BY BelowIsLeast, FS_Subset
<1> HIDE DEF n
<1>4. n \in 1 .. n /\ n \in 0 .. n
  BY <1>1
<1>5. a[n] = Call(r, m, a[n - 1])
  BY <1>1, <1>2, <1>4, NestedIs
<1>6. /\ a[n][id] \in Labels \union {"recursion"}
      /\ Artifacts(m, id) = {} /\ Children(r, id) = {} =>
           a[n][id] \in {"uncovered", "not-test-verified"}
  BY <1>5, CallIs
<1>7. a[n][id] # "recursion" =>
        (a[n][id] = "covered" <=> Evidenced(r, m, id)) /\ ~Cyclic(r, m, id)
  BY <1>1, <1>2, <1>4, AnswerMeansEvidence, AnswerMeansNoCycle
<1>8. (\A j \in DOMAIN r : ~Cyclic(r, m, j)) => a[n][id] # "recursion"
  BY <1>1, <1>2, <1>3, <1>4, AnswerComes
<1>9. QED BY <1>2, <1>6, <1>7, <1>8

\* The rows of a matrix show what compute_status returns, and the summary lists
\* every counted requirement of the two kinds.
LEMMA BuildIs ==
  ASSUME NEW r, NEW m
  PROVE  /\ DOMAIN Build(r, m).rows = DOMAIN r
         /\ \A id \in DOMAIN r : Build(r, m).rows[id].status = Status(r, m)[id]
         /\ \A id \in Counted(r) :
              Status(r, m)[id] \in {"uncovered", "not-test-verified"} =>
                id \in Build(r, m).gaps \union Build(r, m).notTested
  BY DEF Build

-----------------------------------------------------------------------------
(***************************************************************************)
(* The inductive invariant: the documents and markers, edited or merged,   *)
(* are what the parsers can find, and the matrix of the main branch is the *)
(* one that its own documents and markers give.  Merge needs Check, and    *)
(* nothing but Merge writes the main branch; without the second part no    *)
(* property of the matrix of the main branch is inductive.                 *)
(***************************************************************************)
Parsed(r, m) ==
  /\ DOMAIN r \subseteq Ids /\ \A id \in DOMAIN r : r[id] \in Requirement
  /\ m \subseteq Tests \X Ids

Labelled(x) == \A id \in DOMAIN x.rows : x.rows[id].status \in Labels

MainInv ==
  /\ main.matrix = Build(main.reqs, main.marks)
  /\ Builds(main.reqs, main.marks)

IInv ==
  /\ Parsed(reqs, marks) /\ Parsed(main.reqs, main.marks)
  /\ Labelled(matrix) /\ edits \in 0 .. MaxEdits
  /\ MainInv

LEMMA ParsedIsFinite ==
  ASSUME NEW r, NEW m, Parsed(r, m)
  PROVE  /\ IsFiniteSet(DOMAIN r)
         /\ \A id \in DOMAIN r : Level[id] \in 1 .. 3
  BY FS_Subset, TraceAssumption DEF Parsed

LEMMA BuildIsLabelled ==
  ASSUME NEW r, NEW m, Parsed(r, m), Builds(r, m)
  PROVE  Labelled(Build(r, m))
<1>1. \A id \in DOMAIN r : Status(r, m)[id] \in Labels \union {"recursion"}
  BY ParsedIsFinite, StatusLaw
<1>2. \A id \in DOMAIN r : Status(r, m)[id] \in Labels
  BY <1>1 DEF Builds
<1>3. QED BY <1>2, BuildIs DEF Labelled

LEMMA InitIsInductive == Init => IInv
<1> SUFFICES ASSUME Init PROVE IInv
  OBVIOUS
<1>1. Parsed(reqs, marks) /\ Builds(reqs, marks)
  BY FirstAssumption DEF Init, Parsed
<1>2. main.reqs = reqs /\ main.marks = marks /\ main.matrix = matrix /\ matrix = Build(reqs, marks)
  BY DEF Init
<1>3. edits \in 0 .. MaxEdits
  BY TraceAssumption DEF Init
<1>4. QED BY <1>1, <1>2, <1>3, BuildIsLabelled DEF IInv, MainInv

LEMMA EditKeeps ==
  ASSUME NEW r, NEW m, Edit(r, m), IInv, Parsed(r, m) PROVE IInv'
<1>1. edits' \in 0 .. MaxEdits
  BY TraceAssumption DEF Edit, IInv
<1>2. Parsed(reqs, marks)'
  BY DEF Edit, Parsed
<1>3. UNCHANGED <<matrix, main>>
  BY DEF Edit
<1>4. QED BY <1>1, <1>2, <1>3 DEF IInv, MainInv, Parsed, Labelled

LEMMA NextIsInductive == IInv /\ [Next]_vars => IInv'
<1> SUFFICES ASSUME IInv, [Next]_vars PROVE IInv'
  OBVIOUS
<1>1. ASSUME NEW id \in Ids, WriteRequirement(id) PROVE IInv'
  <2>1. PICK record \in Requirement :
          Edit([i \in DOMAIN reqs \union {id} |-> IF i = id THEN record ELSE reqs[i]], marks)
    BY <1>1 DEF WriteRequirement
  <2> DEFINE r == [i \in DOMAIN reqs \union {id} |-> IF i = id THEN record ELSE reqs[i]]
  <2>2. Parsed(r, marks)
    BY DEF IInv, Parsed
  <2> HIDE DEF r
  <2>3. QED BY <2>1, <2>2, EditKeeps DEF r
<1>2. ASSUME NEW id \in Ids, DropRequirement(id) PROVE IInv'
  <2> DEFINE r == [i \in DOMAIN reqs \ {id} |-> reqs[i]]
  <2>1. Edit(r, marks)
    BY <1>2 DEF DropRequirement
  <2>2. Parsed(r, marks)
    BY DEF IInv, Parsed
  <2> HIDE DEF r
  <2>3. QED BY <2>1, <2>2, EditKeeps
<1>3. ASSUME NEW id \in Ids, Mark(id) PROVE IInv'
  <2>1. PICK t \in Tests : Edit(reqs, marks \union {<<t, id>>})
    BY <1>3 DEF Mark
  <2>2. Parsed(reqs, marks \union {<<t, id>>})
    BY DEF IInv, Parsed
  <2>3. QED BY <2>1, <2>2, EditKeeps
<1>4. ASSUME NEW id \in Ids, Unmark(id) PROVE IInv'
  <2>1. PICK t \in Tests : Edit(reqs, marks \ {<<t, id>>})
    BY <1>4 DEF Unmark
  <2>2. Parsed(reqs, marks \ {<<t, id>>})
    BY DEF IInv, Parsed
  <2>3. QED BY <2>1, <2>2, EditKeeps
<1>5. CASE Regenerate
  <2>1. Labelled(matrix')
    BY <1>5, BuildIsLabelled DEF Regenerate, IInv
  <2>2. QED BY <1>5, <2>1 DEF Regenerate, IInv, MainInv, Parsed, Labelled
<1>6. CASE Merge
  <2>1. /\ main'.reqs = reqs /\ main'.marks = marks /\ main'.matrix = Build(reqs, marks)
        /\ Builds(reqs, marks)
    BY <1>6 DEF Merge, Check
  <2>2. UNCHANGED <<reqs, marks, matrix, edits>>
    BY <1>6 DEF Merge
  <2>3. QED BY <2>1, <2>2 DEF IInv, MainInv, Parsed, Labelled
<1>7. CASE UNCHANGED vars
  BY <1>7 DEF vars, IInv, MainInv, Parsed, Labelled
<1>8. QED BY <1>1, <1>2, <1>3, <1>4, <1>5, <1>6, <1>7 DEF Next

THEOREM InductiveInvariant == Spec => []IInv
  BY InitIsInductive, NextIsInductive, PTL DEF Spec

-----------------------------------------------------------------------------

\* The documents and markers are always what the parsers can find, and neither
\* the matrix of the working tree nor that of the main branch calls a
\* requirement by anything but the four labels of build-trace-matrix.py.
THEOREM TypesAreRight == Spec => []TypeOK
<1>1. IInv => TypeOK
  <2> SUFFICES ASSUME IInv PROVE TypeOK
    OBVIOUS
  <2>1. Labelled(matrix) /\ Labelled(main.matrix)
    BY BuildIsLabelled DEF IInv, MainInv
  <2>2. QED BY <2>1 DEF IInv, Parsed, Labelled, Labels, TypeOK
<1>2. QED BY <1>1, InductiveInvariant, PTL

\* compute_status, whatever the documents and the markers are: it fails to end
\* only when an unmarked requirement is below itself, and otherwise says
\* "covered" exactly when every way down ends at a marker.
THEOREM StatusIsEvidence == Spec => []CoveredReference
<1>1. IInv => CoveredReference
  <2> SUFFICES ASSUME IInv, NEW id \in DOMAIN reqs
      PROVE LET status == Status(reqs, marks)[id] IN
        /\ status = "recursion" => \E i \in DOMAIN reqs :
             Artifacts(marks, i) = {} /\ \E j \in Exposed(reqs, marks, i) : i \in Children(reqs, j)
        /\ status # "recursion" =>
             /\ status = "covered" <=> Evidenced(reqs, marks, id)
             /\ ~\E j \in Exposed(reqs, marks, id) : id \in Children(reqs, j)
    BY DEF CoveredReference
  <2>1. IsFiniteSet(DOMAIN reqs)
    BY ParsedIsFinite DEF IInv
  <2>2. ASSUME NEW i \in DOMAIN reqs, Cyclic(reqs, marks, i) PROVE Artifacts(marks, i) = {}
    <3>1. SUFFICES ASSUME Artifacts(marks, i) # {} PROVE FALSE
      OBVIOUS
    <3>2. QED BY <2>2, <3>1, BelowSplits DEF Cyclic, Exposed
  <2>3. QED BY <2>1, <2>2, StatusLaw DEF Cyclic
<1>2. QED BY <1>1, InductiveInvariant, PTL

\* Every requirement of the main branch that its committed matrix does not call
\* covered has, at or below it, one that the summary lists as uncovered or
\* counts as not test-verified.
THEOREM NoGapHides == Spec => []NoHiddenGap
<1>1. IInv => NoHiddenGap
  <2> DEFINE r == main.reqs
             m == main.marks
  <2> SUFFICES ASSUME IInv, NEW id \in DOMAIN main.matrix.rows,
                      main.matrix.rows[id].status # "covered"
               PROVE  \E i \in Exposed(r, m, id) :
                        i \in main.matrix.gaps \union main.matrix.notTested
    BY DEF NoHiddenGap
  <2>1. main.matrix = Build(r, m) /\ Builds(r, m) /\ Parsed(r, m)
    BY DEF IInv, MainInv
  <2> HIDE DEF r, m
  <2>2. IsFiniteSet(DOMAIN r) /\ \A i \in DOMAIN r : Level[i] \in 1 .. 3
    BY <2>1, ParsedIsFinite
  <2>3. id \in DOMAIN r /\ Status(r, m)[id] # "covered" /\ Status(r, m)[id] # "recursion"
    BY <2>1, BuildIs DEF Builds
  <2>4. PICK j \in Exposed(r, m, id) : Children(r, j) = {}
    BY <2>2, <2>3, StatusLaw DEF Evidenced
  <2>5. j \in DOMAIN r /\ Artifacts(m, j) = {}
    BY <2>3, <2>4, BelowIsLeast DEF Exposed
  <2>6. Status(r, m)[j] \in {"uncovered", "not-test-verified"}
    BY <2>2, <2>4, <2>5, StatusLaw
  <2>7. j \in Counted(r)
    BY <2>4, <2>5 DEF Counted
  <2>8. QED BY <2>1, <2>4, <2>6, <2>7, BuildIs
<1>2. QED BY <1>1, InductiveInvariant, PTL

\* A merge that takes a requirement's last evidence away also commits a matrix
\* that no longer calls it covered.
THEOREM LossIsShown == Spec => EvidenceLossShown
<1>1. IInv' /\ [Next]_vars =>
        [main' # main =>
           \A id \in DOMAIN main.reqs \intersect DOMAIN main'.reqs :
             Evidenced(main.reqs, main.marks, id) /\ ~Evidenced(main'.reqs, main'.marks, id)
               => main'.matrix.rows[id].status # "covered"]_vars
  <2> SUFFICES ASSUME IInv', NEW id \in DOMAIN main'.reqs,
                      ~Evidenced(main'.reqs, main'.marks, id)
               PROVE  main'.matrix.rows[id].status # "covered"
    OBVIOUS
  <2> DEFINE r == main'.reqs
             m == main'.marks
  <2>1. main'.matrix = Build(r, m) /\ Builds(r, m) /\ Parsed(r, m)
    BY DEF IInv, MainInv
  <2> HIDE DEF r, m
  <2>2. id \in DOMAIN r /\ ~Evidenced(r, m, id) /\ IsFiniteSet(DOMAIN r)
    BY <2>1, ParsedIsFinite DEF r, m
  <2>3. Status(r, m)[id] # "covered"
    BY <2>1, <2>2, StatusLaw DEF Builds
  <2>4. QED BY <2>1, <2>2, <2>3, BuildIs
<1>2. QED BY <1>1, InductiveInvariant, PTL DEF Spec, EvidenceLossShown

=============================================================================
