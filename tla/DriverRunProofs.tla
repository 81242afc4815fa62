-------------------------- MODULE DriverRunProofs --------------------------
(* Proofs about DriverRun: what the two records on disk and the session's  *)
(* memory say about each other, whatever was interrupted, and from that    *)
(* that the records are the history of one task, that no step runs past    *)
(* its state's visit budget, that an operator is not asked twice, and that *)
(* a crash duplicates at most one record of evidence.                      *)
EXTENDS DriverRun, FiniteSetTheorems, WellFoundedInduction, TLAPS

---------------------------------------------------------------------------
(* The operators the loop is built from                                    *)

(* The first permitted transition exists whenever one is permitted: a      *)
(* non-empty set of naturals has a least element.                          *)
Below == {ss \in Nat \X Nat : ss[1] < ss[2]}

LEMMA BelowWellFounded == IsWellFoundedOn(Below, Nat)
<1>1. Below = OpToRel(<, Nat)
  BY Zenon DEF OpToRel, Below
<1>. QED
  BY <1>1, NatLessThanWellFounded, Zenon

LEMMA MinIsLeast ==
  ASSUME NEW S \in SUBSET Nat, S # {}
  PROVE  Min(S) \in S /\ \A n \in S : Min(S) <= n
<1>1. PICK m \in S : \A n \in S : <<n, m>> \notin Below
  BY BelowWellFounded, WFMin
<1>2. ASSUME NEW n \in S PROVE m <= n
  <2>1. n \in Nat /\ m \in Nat /\ <<n, m>> \notin Below
    BY <1>1
  <2>2. ~(n < m)
    BY <2>1 DEF Below
  <2>. QED
    BY <2>1, <2>2
<1>. QED
  BY <1>2 DEF Min

---------------------------------------------------------------------------
(* Sums over finite sets: the fold takes the elements one by one.          *)
First(s) == CHOOSE x \in s : TRUE

Total(att, S) == MapThenSumSet(LAMBDA key : att[key], S)

Adds(f, att, S) ==
  \A s \in SUBSET S : f[s] = IF s = {} THEN 0 ELSE att[First(s)] + f[s \ {First(s)}]

LEMMA Smaller ==
  ASSUME NEW S, IsFiniteSet(S), NEW s \in SUBSET S, s # {}
  PROVE  /\ First(s) \in s /\ s \ {First(s)} \in SUBSET S
         /\ Cardinality(s) \in Nat /\ Cardinality(s \ {First(s)}) = Cardinality(s) - 1
         /\ Cardinality(s \ {First(s)}) \in Nat /\ Cardinality(s) # 0
<1>1. IsFiniteSet(s) /\ Cardinality(s) \in Nat
  BY FS_Subset, FS_CardinalityType
<1>2. First(s) \in s
  BY DEF First
<1>3. IsFiniteSet(s \ {First(s)}) /\ Cardinality(s \ {First(s)}) = Cardinality(s) - 1
  BY <1>1, <1>2, FS_RemoveElement
<1>4. Cardinality(s) # 0
  BY <1>1, FS_EmptySet
<1>5. Cardinality(s \ {First(s)}) \in Nat
  BY <1>3, FS_CardinalityType
<1>. QED
  BY <1>1, <1>2, <1>3, <1>4, <1>5

LEMMA TotalExists ==
  ASSUME NEW S, IsFiniteSet(S), NEW T, S \subseteq T, NEW att \in [T -> Nat]
  PROVE  \E f \in [SUBSET S -> Nat] : Adds(f, att, S)
<1>. DEFINE Upto(f, n) ==
              \A s \in SUBSET S : Cardinality(s) <= n =>
                f[s] = IF s = {} THEN 0 ELSE att[First(s)] + f[s \ {First(s)}]
            Bad == {n \in Nat : ~\E f \in [SUBSET S -> Nat] : Upto(f, n)}
<1>1. Upto([s \in SUBSET S |-> 0], 0)
  <2>1. ASSUME NEW s \in SUBSET S, Cardinality(s) <= 0 PROVE s = {}
    <3>1. Cardinality(s) \in Nat /\ IsFiniteSet(s)
      BY FS_Subset, FS_CardinalityType
    <3>2. Cardinality(s) = 0
      BY <2>1, <3>1
    <3>. QED
      BY <3>1, <3>2, FS_EmptySet
  <2>. QED
    BY <2>1
<1>2. ASSUME NEW n \in Nat, NEW f \in [SUBSET S -> Nat], Upto(f, n)
      PROVE  \E g \in [SUBSET S -> Nat] : Upto(g, n + 1)
  <2>. DEFINE Plus(s) == att[First(s)] + f[s \ {First(s)}]
              g == [s \in SUBSET S |-> IF Cardinality(s) = n + 1 THEN Plus(s) ELSE f[s]]
  <2>1. ASSUME NEW s \in SUBSET S, Cardinality(s) = n + 1
        PROVE  s # {} /\ Plus(s) \in Nat
    <3>1. s # {}
      <4>1. Cardinality({}) = 0 /\ n + 1 # 0
        BY FS_EmptySet
      <4>. QED
        BY <2>1, <4>1
    <3>2. att[First(s)] \in Nat /\ f[s \ {First(s)}] \in Nat
      BY <3>1, Smaller
    <3>. QED
      BY <3>1, <3>2
  <2>2. g \in [SUBSET S -> Nat]
    BY <2>1
  <2>3. ASSUME NEW s \in SUBSET S, Cardinality(s) <= n + 1, s # {}
        PROVE  g[s] = att[First(s)] + g[s \ {First(s)}]
    <3>1. /\ s \ {First(s)} \in SUBSET S
          /\ Cardinality(s) \in Nat /\ Cardinality(s \ {First(s)}) = Cardinality(s) - 1
      BY <2>3, Smaller
    <3>2. g[s \ {First(s)}] = f[s \ {First(s)}]
      BY <2>3, <3>1
    <3>3. CASE Cardinality(s) = n + 1
      BY <3>2, <3>3
    <3>4. CASE Cardinality(s) <= n
      BY <1>2, <2>3, <3>1, <3>2, <3>4
    <3>. QED
      BY <2>3, <3>1, <3>3, <3>4
  <2>4. g[{}] = 0
    BY <1>2, FS_EmptySet
  <2>5. Upto(g, n + 1)
    BY <2>3, <2>4
  <2>. HIDE DEF g
  <2>. QED
    BY <2>2, <2>5
<1>3. Bad = {}
  <2>. SUFFICES ASSUME Bad # {} PROVE FALSE
    OBVIOUS
  <2>1. Bad \in SUBSET Nat
    OBVIOUS
  <2>2. [s \in SUBSET S |-> 0] \in [SUBSET S -> Nat]
    OBVIOUS
  <2>3. 0 \notin Bad
    BY <1>1, <2>2
  <2>4. ASSUME NEW n \in Nat, n \notin Bad PROVE n + 1 \notin Bad
    BY <1>2, <2>4
  <2>. HIDE DEF Bad
  <2>5. Min(Bad) \in Bad /\ \A n \in Bad : Min(Bad) <= n
    BY <2>1, MinIsLeast
  <2>6. PICK m \in Bad : \A n \in Bad : m <= n
    BY <2>5
  <2>7. m \in Nat /\ m # 0
    BY <2>1, <2>3
  <2>8. m - 1 \in Nat /\ ~(m <= m - 1) /\ (m - 1) + 1 = m
    BY <2>7
  <2>9. m - 1 \notin Bad
    BY <2>6, <2>8
  <2>10. (m - 1) + 1 \notin Bad
    BY <2>4, <2>8, <2>9
  <2>. QED
    BY <2>8, <2>10
<1>4. Cardinality(S) \in Nat /\ \A s \in SUBSET S : Cardinality(s) <= Cardinality(S)
  BY FS_Subset, FS_CardinalityType
<1>5. PICK f \in [SUBSET S -> Nat] : Upto(f, Cardinality(S))
  BY <1>3, <1>4
<1>. QED
  BY <1>4, <1>5 DEF Adds

BumpedAt(x, d, att, new, S) ==
  \A y \in S : att[y] \in Nat /\ new[y] = att[y] + (IF x = y THEN d ELSE 0)

HigherBy(x, d, f, g, S) == g[S] = f[S] + (IF x \in S THEN d ELSE 0)

(* Two sums whose terms differ by d at x differ by d if x is a term.       *)
LEMMA AddsDiffer ==
  ASSUME NEW S, IsFiniteSet(S), NEW x, NEW d \in Nat, NEW att, NEW new,
         BumpedAt(x, d, att, new, S),
         NEW f \in [SUBSET S -> Nat], Adds(f, att, S), NEW g, Adds(g, new, S)
  PROVE  HigherBy(x, d, f, g, S)
<1>. DEFINE More(s) == IF x \in s THEN d ELSE 0
            Wrong == {s \in SUBSET S : g[s] # f[s] + More(s)}
            Sizes == {n \in Nat : \E s \in Wrong : Cardinality(s) = n}
<1>. SUFFICES ASSUME Wrong # {} PROVE FALSE
  BY DEF HigherBy
<1>1. \A s \in SUBSET S : Cardinality(s) \in Nat
  BY FS_Subset, FS_CardinalityType
<1>2. Sizes \in SUBSET Nat /\ Sizes # {}
  BY <1>1
<1>3. \E n \in Sizes : \A m \in Sizes : n <= m
  <2>. HIDE DEF Sizes
  <2>. QED
    BY <1>2, MinIsLeast
<1>4. PICK s \in Wrong : \A r \in Wrong : Cardinality(s) <= Cardinality(r)
  BY <1>1, <1>3
<1>5. s # {}
  <2>1. f[{}] = 0 /\ g[{}] = 0
    BY DEF Adds
  <2>2. {} \notin Wrong
    BY <2>1
  <2>. HIDE DEF Wrong
  <2>. QED
    BY <2>2
<1>6. PICK y : y = First(s)
  OBVIOUS
<1>7. /\ y \in s /\ s \ {y} \in SUBSET S /\ y \in S
      /\ Cardinality(s) \in Nat /\ Cardinality(s \ {y}) = Cardinality(s) - 1
  BY <1>5, <1>6, Smaller
<1>8. s \ {y} \notin Wrong
  <2>1. ~(Cardinality(s) <= Cardinality(s \ {y}))
    BY <1>7
  <2>. HIDE DEF Wrong
  <2>. QED
    BY <1>4, <2>1
<1>9. g[s \ {y}] = f[s \ {y}] + More(s \ {y}) /\ f[s \ {y}] \in Nat
  BY <1>7, <1>8
<1>10. f[s] = att[y] + f[s \ {y}] /\ g[s] = new[y] + g[s \ {y}]
  BY <1>5, <1>6 DEF Adds
<1>11. More(s) = (IF x = y THEN d ELSE 0) + More(s \ {y}) /\ More(s \ {y}) \in Nat
  BY <1>7
<1>12. g[s] = f[s] + More(s)
  <2>. HIDE DEF More
  <2>1. att[y] \in Nat /\ new[y] = att[y] + (IF x = y THEN d ELSE 0)
    BY <1>7 DEF BumpedAt
  <2>. QED
    BY <2>1, <1>9, <1>10, <1>11
<1>. QED
  BY <1>12

LEMMA TotalIs ==
  ASSUME NEW S, IsFiniteSet(S), NEW T, S \subseteq T, NEW att \in [T -> Nat],
         NEW f \in [SUBSET S -> Nat], Adds(f, att, S)
  PROVE  Total(att, S) = f[S]
<1>. DEFINE Eq(h, s) == IF s = {} THEN 0 ELSE att[First(s)] + h[s \ {First(s)}]
            F == CHOOSE h : h = [s \in SUBSET S |-> Eq(h, s)]
<1>2. \A s \in SUBSET S : f[s] = Eq(f, s)
  BY DEF Adds
<1>3. Total(att, S) = F[S]
  BY DEF Total, MapThenSumSet, MapThenFoldSet, First
<1>. HIDE DEF Eq
<1>4. f = [s \in SUBSET S |-> Eq(f, s)]
  BY <1>2
<1>5. F = [s \in SUBSET S |-> Eq(F, s)]
  BY <1>4
<1>. HIDE DEF F
<1>6. \A s \in SUBSET S : F[s] = Eq(F, s)
  BY <1>5
<1>7. Adds(F, att, S)
  BY <1>6 DEF Adds, Eq
<1>8. PICK none : none = 0
  OBVIOUS
<1>9. F[S] = f[S] + (IF none \in S THEN 0 ELSE 0)
  <2>1. BumpedAt(none, 0, att, att, S)
    BY DEF BumpedAt
  <2>2. 0 \in Nat
    OBVIOUS
  <2>3. HigherBy(none, 0, f, F, S)
    BY <1>7, <2>1, <2>2, AddsDiffer, Zenon
  <2>. QED
    BY <2>3 DEF HigherBy
<1>. QED
  BY <1>3, <1>9

LEMMA TotalFacts ==
  ASSUME NEW S, IsFiniteSet(S), NEW T, S \subseteq T, NEW att \in [T -> Nat]
  PROVE  /\ Total(att, S) \in Nat
         /\ \A x \in T : Total([att EXCEPT ![x] = @ + 1], S)
                           = Total(att, S) + (IF x \in S THEN 1 ELSE 0)
<1>1. PICK f \in [SUBSET S -> Nat] : Adds(f, att, S)
  BY TotalExists
<1>2. Total(att, S) = f[S]
  BY <1>1, TotalIs
<1>3. ASSUME NEW x \in T
      PROVE  Total([att EXCEPT ![x] = @ + 1], S) = Total(att, S) + (IF x \in S THEN 1 ELSE 0)
  <2>0. [att EXCEPT ![x] = @ + 1] \in [T -> Nat]
    OBVIOUS
  <2>1. PICK new \in [T -> Nat] : new = [att EXCEPT ![x] = @ + 1]
    BY <2>0
  <2>2. PICK g \in [SUBSET S -> Nat] : Adds(g, new, S)
    BY TotalExists
  <2>3. PICK one \in Nat : one = 1
    OBVIOUS
  <2>4. g[S] = f[S] + (IF x \in S THEN one ELSE 0)
    <3>1. BumpedAt(x, one, att, new, S)
      BY <2>1, <2>3 DEF BumpedAt
    <3>2. HigherBy(x, one, f, g, S)
      BY <1>1, <2>2, <3>1, AddsDiffer, Zenon
    <3>. QED
      BY <3>2 DEF HigherBy
  <2>5. Total(new, S) = g[S]
    BY <2>2, TotalIs
  <2>. QED
    BY <1>2, <2>1, <2>3, <2>4, <2>5
<1>. QED
  BY <1>2, <1>3

---------------------------------------------------------------------------
(* What the plan says                                                      *)
LEMMA Element ==
  ASSUME NEW T, NEW q \in Seq(T), NEW i \in DOMAIN q
  PROVE  q[i] \in T /\ i \in 1 .. Len(q)
  OBVIOUS

LEMMA TransitionFacts ==
  ASSUME NEW i \in DOMAIN Transitions
  PROVE  /\ Transitions[i] \in [from : State \ Terminal, to : State, guard : SUBSET Fact]
         /\ Transitions[i].from \in State \ Terminal
         /\ Transitions[i].to \in State
         /\ Transitions[i].guard \subseteq Fact
<1>1. Transitions[i] \in [from : State \ Terminal, to : State, guard : SUBSET Fact]
  BY PlanAssumption, Element
<1>. QED
  BY <1>1

(* The transition Advance takes is a permitted one.                        *)
LEMMA FirstPermitted ==
  ASSUME NEW e, NEW g, Permitted(e, g) # {}
  PROVE  /\ Min(Permitted(e, g)) \in DOMAIN Transitions
         /\ Transitions[Min(Permitted(e, g))].to \in State
         /\ Transitions[Min(Permitted(e, g))].from = e.state
         /\ Holds(Transitions[Min(Permitted(e, g))].guard, e, g)
<1>1. DOMAIN Transitions \subseteq Nat
  BY PlanAssumption
<1>2. Permitted(e, g) \subseteq Nat
  BY <1>1 DEF Permitted
<1>3. Min(Permitted(e, g)) \in Permitted(e, g)
  BY <1>2, MinIsLeast
<1>. QED
  BY <1>3, TransitionFacts DEF Permitted

LEMMA StepFacts ==
  ASSUME NEW s \in State
  PROVE  /\ Len(Steps[s]) \in Nat
         /\ DOMAIN Steps[s] = 1 .. Len(Steps[s])
         /\ \A i \in 1 .. Len(Steps[s]) :
              /\ Steps[s][i].type \in StepKind /\ Steps[s][i].retry \in Nat
              /\ Steps[s][i].type = "command" => Steps[s][i].kind \in Kind
              /\ <<s, i>> \in StepKey
<1>1. Steps[s] \in Seq(StepRecord)
  BY PlanAssumption
<1>2. \A i \in 1 .. Len(Steps[s]) : <<s, i>> \in StepKey
  BY <1>1 DEF StepKey
<1>3. \A i \in 1 .. Len(Steps[s]) :
        /\ Steps[s][i].type \in StepKind /\ Steps[s][i].retry \in Nat
        /\ Steps[s][i].type = "command" => Steps[s][i].kind \in Kind
  BY <1>1 DEF StepRecord, StepKind
<1>. QED
  BY <1>1, <1>2, <1>3

LEMMA NewExecutionFacts == NewExecution \in Executions
  BY PlanAssumption DEF NewExecution, Executions

LEMMA EnterFacts ==
  ASSUME NEW e \in Executions, NEW s \in State
  PROVE  /\ Enter(e, s) \in Executions
         /\ Enter(e, s).state = s
         /\ Enter(e, s).entered = [e.entered EXCEPT ![s] = @ + 1]
         /\ Enter(e, s).verdict = e.verdict /\ Enter(e, s).submitted = e.submitted
<1>1. e.entered \in [State -> Nat]
  BY DEF Executions
<1>2. [e.entered EXCEPT ![s] = @ + 1] \in [State -> Nat]
  BY <1>1
<1>3. ASSUME NEW f, f = Enter(e, s)
      PROVE  f = [state |-> s, entered |-> [e.entered EXCEPT ![s] = @ + 1],
                  verdict |-> e.verdict, submitted |-> e.submitted]
  BY <1>3 DEF Enter, Executions
<1>. QED
  BY <1>2, <1>3 DEF Executions

LEMMA SubmitFacts ==
  ASSUME NEW e \in Executions, NEW k \in Kind, NEW v \in Verdict
  PROVE  /\ Submit(e, k, v) \in Executions
         /\ Submit(e, k, v).state = e.state /\ Submit(e, k, v).entered = e.entered
         /\ Submit(e, k, v).verdict = [e.verdict EXCEPT ![k] = v]
         /\ Submit(e, k, v).submitted = [e.submitted EXCEPT ![k] = @ + 1]
<1>1. e.verdict \in [Kind -> Verdict \cup {"none"}] /\ e.submitted \in [Kind -> Nat]
  BY DEF Executions
<1>2. /\ [e.verdict EXCEPT ![k] = v] \in [Kind -> Verdict \cup {"none"}]
      /\ [e.submitted EXCEPT ![k] = @ + 1] \in [Kind -> Nat]
  BY <1>1
<1>3. ASSUME NEW f, f = Submit(e, k, v)
      PROVE  f = [state |-> e.state, entered |-> e.entered,
                  verdict |-> [e.verdict EXCEPT ![k] = v],
                  submitted |-> [e.submitted EXCEPT ![k] = @ + 1]]
  BY <1>3 DEF Submit, Executions
<1>. QED
  BY <1>2, <1>3 DEF Executions

LEMMA FreshCursorFacts ==
  ASSUME using \in [Document -> 1 .. 2]
  PROVE  /\ FreshCursor \in Cursors
         /\ FreshCursor.step \in 1 .. Len(Steps[FreshCursor.state]) + 1
  BY PlanAssumption, StepFacts DEF FreshCursor, Cursors, Status

(* What each change the loop makes to a cursor leaves of it.               *)
WellStepped(c) == c \in Cursors /\ c.step \in 1 .. Len(Steps[c.state]) + 1

CursorKept(c, d) ==
  d.state = c.state /\ d.step = c.step /\ d.visits = c.visits /\ d.pins = c.pins

LEMMA CursorFields ==
  ASSUME NEW c \in Cursors
  PROVE  /\ c.state \in State /\ c.step \in Nat /\ c.visits \in [State -> Nat]
         /\ c.attempts \in [StepKey -> Nat] /\ c.iterations \in Nat
         /\ c.status \in Status /\ c.pins \in [Document -> 1 .. 2]
  BY DEF Cursors

LEMMA StatusChange ==
  ASSUME NEW c, WellStepped(c), NEW status \in Status,
         NEW d, d = [c EXCEPT !.status = status]
  PROVE  /\ WellStepped(d)
         /\ CursorKept(c, d) /\ d.status = status /\ d.attempts = c.attempts
<1>. USE DEF WellStepped
<1>1. c \in Cursors
  OBVIOUS
<1>2. d = [state |-> c.state, step |-> c.step,
           visits |-> c.visits,
           attempts |-> c.attempts,
           iterations |-> c.iterations,
           status |-> status, pins |-> c.pins]
  BY <1>1 DEF Cursors
<1>3. CursorKept(c, d) /\ d.status = status /\ d.attempts = c.attempts
  BY <1>2 DEF CursorKept
<1>4. d \in Cursors
  <2>1. /\ c.state \in State /\ c.step \in Nat /\ c.visits \in [State -> Nat]
        /\ c.attempts \in [StepKey -> Nat] /\ c.iterations \in Nat
        /\ c.status \in Status /\ c.pins \in [Document -> 1 .. 2]
    BY CursorFields
  <2>. QED
    BY <1>1, <1>2, <2>1 DEF Cursors
<1>. QED
  BY <1>1, <1>3, <1>4 DEF CursorKept

LEMMA IterationCounted ==
  ASSUME NEW c, WellStepped(c),
         NEW d, d = [c EXCEPT !.iterations = @ + 1]
  PROVE  /\ WellStepped(d)
         /\ CursorKept(c, d) /\ d.status = c.status /\ d.attempts = c.attempts
<1>. USE DEF WellStepped
<1>1. c \in Cursors /\ c.iterations + 1 \in Nat
  BY CursorFields
<1>2. d = [state |-> c.state, step |-> c.step,
           visits |-> c.visits,
           attempts |-> c.attempts,
           iterations |-> c.iterations + 1,
           status |-> c.status, pins |-> c.pins]
  BY <1>1 DEF Cursors
<1>3. CursorKept(c, d) /\ d.status = c.status /\ d.attempts = c.attempts
  BY <1>2 DEF CursorKept
<1>4. d \in Cursors
  <2>1. /\ c.state \in State /\ c.step \in Nat /\ c.visits \in [State -> Nat]
        /\ c.attempts \in [StepKey -> Nat] /\ c.iterations \in Nat
        /\ c.status \in Status /\ c.pins \in [Document -> 1 .. 2]
    BY CursorFields
  <2>. QED
    BY <1>1, <1>2, <2>1 DEF Cursors
<1>. QED
  BY <1>1, <1>3, <1>4 DEF CursorKept

LEMMA StepPassed ==
  ASSUME NEW c, WellStepped(c), c.step <= Len(Steps[c.state]),
         NEW d, d = [c EXCEPT !.step = @ + 1]
  PROVE  /\ WellStepped(d)
         /\ d.step = c.step + 1 /\ d.state = c.state /\ d.visits = c.visits
         /\ d.pins = c.pins /\ d.status = c.status /\ d.attempts = c.attempts
<1>. USE DEF WellStepped
<1>1. c.step + 1 \in Nat /\ c.step + 1 \in 1 .. Len(Steps[c.state]) + 1
  BY CursorFields, StepFacts
<1>2. d = [state |-> c.state, step |-> c.step + 1,
           visits |-> c.visits,
           attempts |-> c.attempts,
           iterations |-> c.iterations,
           status |-> c.status, pins |-> c.pins]
  BY <1>1 DEF Cursors
<1>3. /\ d.step = c.step + 1 /\ d.state = c.state /\ d.visits = c.visits
      /\ d.pins = c.pins /\ d.status = c.status /\ d.attempts = c.attempts
  BY <1>2 DEF CursorKept
<1>4. d \in Cursors
  <2>1. /\ c.state \in State /\ c.step \in Nat /\ c.visits \in [State -> Nat]
        /\ c.attempts \in [StepKey -> Nat] /\ c.iterations \in Nat
        /\ c.status \in Status /\ c.pins \in [Document -> 1 .. 2]
    BY CursorFields
  <2>. QED
    BY <1>1, <1>2, <2>1 DEF Cursors
<1>. QED
  BY <1>1, <1>3, <1>4 DEF CursorKept

LEMMA AttemptCounted ==
  ASSUME NEW c, WellStepped(c), c.step <= Len(Steps[c.state]),
         NEW d, d = [c EXCEPT !.attempts[<<c.state, c.step>>] = @ + 1]
  PROVE  /\ WellStepped(d)
         /\ CursorKept(c, d) /\ d.status = c.status
         /\ d.attempts = [c.attempts EXCEPT ![<<c.state, c.step>>] = @ + 1]
<1>. USE DEF WellStepped
<1>0. [c.attempts EXCEPT ![<<c.state, c.step>>] = @ + 1] \in [StepKey -> Nat]
  BY CursorFields, StepFacts
<1>1. PICK a \in [StepKey -> Nat] : a = [c.attempts EXCEPT ![<<c.state, c.step>>] = @ + 1]
  BY <1>0
<1>2. d = [state |-> c.state, step |-> c.step,
           visits |-> c.visits,
           attempts |-> a,
           iterations |-> c.iterations,
           status |-> c.status, pins |-> c.pins]
  BY <1>1 DEF Cursors
<1>3. CursorKept(c, d) /\ d.status = c.status /\ d.attempts = a
  BY <1>2 DEF CursorKept
<1>4. d \in Cursors
  <2>1. /\ c.state \in State /\ c.step \in Nat /\ c.visits \in [State -> Nat]
        /\ c.attempts \in [StepKey -> Nat] /\ c.iterations \in Nat
        /\ c.status \in Status /\ c.pins \in [Document -> 1 .. 2]
    BY CursorFields
  <2>. QED
    BY <1>1, <1>2, <2>1 DEF Cursors
<1>. QED
  BY <1>1, <1>3, <1>4 DEF CursorKept

(* The cursor as Advance leaves it.                                        *)
MovedTo(c, to) == [c EXCEPT !.state = to, !.step = 1, !.visits[to] = @ + 1]

LEMMA StateEntered ==
  ASSUME NEW c, WellStepped(c), NEW to \in State, NEW d, d = MovedTo(c, to)
  PROVE  /\ WellStepped(d)
         /\ d.state = to /\ d.step = 1 /\ d.pins = c.pins /\ d.status = c.status
         /\ d.attempts = c.attempts
         /\ \A s \in State : d.visits[s] = c.visits[s] + (IF s = to THEN 1 ELSE 0)
<1>. USE DEF WellStepped
<1>0. 1 \in 1 .. Len(Steps[to]) + 1
  BY StepFacts
<1>a. [c.visits EXCEPT ![to] = @ + 1] \in [State -> Nat]
  BY CursorFields
<1>1. PICK v \in [State -> Nat] : v = [c.visits EXCEPT ![to] = @ + 1]
  BY <1>a
<1>2. d = [state |-> to, step |-> 1,
           visits |-> v,
           attempts |-> c.attempts,
           iterations |-> c.iterations,
           status |-> c.status, pins |-> c.pins]
  BY <1>1 DEF Cursors, MovedTo
<1>b. c.visits \in [State -> Nat]
  BY CursorFields
<1>c. \A s \in State : v[s] = c.visits[s] + (IF s = to THEN 1 ELSE 0)
  BY <1>1, <1>b
<1>d. d.visits = v
  BY <1>2
<1>3. /\ d.state = to /\ d.step = 1 /\ d.pins = c.pins /\ d.status = c.status
      /\ d.attempts = c.attempts
  BY <1>1, <1>2
<1>4. d \in Cursors
  <2>1. /\ c.state \in State /\ c.step \in Nat /\ c.visits \in [State -> Nat]
        /\ c.attempts \in [StepKey -> Nat] /\ c.iterations \in Nat
        /\ c.status \in Status /\ c.pins \in [Document -> 1 .. 2]
    BY CursorFields
  <2>. QED
    BY <1>2, <2>1 DEF Cursors
<1>. QED
  BY <1>0, <1>3, <1>4, <1>c, <1>d

---------------------------------------------------------------------------
(* Types                                                                   *)

TypeInv ==
  /\ TypeOK
  /\ docs \in [Document -> 1 .. 2] /\ using \in [Document -> 1 .. 2]
  /\ crashes \in Nat /\ sessions \in Nat
  /\ after \in {"loop", "stop"}
  /\ pc = "executing" => StepsLeft

(* The step under way is one of the map.                                   *)
LEMMA CurrentStep ==
  ASSUME TypeInv, cur # Nothing, StepsLeft
  PROVE  /\ Key = <<cur.state, cur.step>> /\ Key \in StepKey
         /\ Step.type \in StepKind /\ Step.retry \in Nat
         /\ Step.type = "command" => Step.kind \in Kind
<1>1. cur \in Cursors /\ cur.step \in 1 .. Len(Steps[cur.state]) + 1
  BY DEF TypeInv, TypeOK
<1>2. cur.state \in State /\ cur.step \in Nat
  BY <1>1, CursorFields
<1>3. cur.step \in 1 .. Len(Steps[cur.state])
  BY <1>1, <1>2, StepFacts DEF StepsLeft
<1>. QED
  BY <1>2, <1>3, StepFacts DEF Key, Step

(* Wherever a session evaluates, executes or writes, it has loaded both.   *)
LEMMA Loaded ==
  ASSUME TypeInv, pc \in {"route", "executing", "write_snapshot", "write_cursor"}
  PROVE  exec \in Executions /\ cur \in Cursors
  BY DEF TypeInv, TypeOK

LEMMA TypeInit == Init => TypeInv
  BY DEF Init, TypeInv, TypeOK

(* When a session returns or is killed, the records stay what they were.   *)
LEMMA MemoryEnds ==
  ASSUME TypeInv, End, snapshot' = snapshot, cursor' = cursor, docs' = docs,
         sessions' = sessions, crashes' \in Nat
  PROVE  TypeInv'
  BY DEF TypeInv, TypeOK, End

LEMMA TypeNext == TypeInv /\ [Next]_vars => TypeInv'
<1>. SUFFICES ASSUME TypeInv, [Next]_vars PROVE TypeInv'
  OBVIOUS
<1>. USE DEF TypeInv, disk, world, memory, counters, history
<1>a. cur # Nothing => WellStepped(cur)
  BY DEF TypeOK, WellStepped
<1>b. cursor # Nothing => WellStepped(cursor)
  BY DEF TypeOK, WellStepped
<1>c. exec # Nothing => exec \in Executions
  BY DEF TypeOK
<1>1. CASE UNCHANGED vars
  BY <1>1 DEF TypeOK, StepsLeft, vars
<1>2. CASE Drive
  BY <1>2 DEF Drive, Begin, TypeOK
<1>3. CASE Resume
  <2>1. snapshot.execution \in Executions
    BY <1>3 DEF Resume, TypeOK, Snapshots
  <2>. QED
    BY <1>3, <2>1, SentinelAssumption DEF Resume, Begin, TypeOK
<1>4. CASE BrokenStore
  <2>1. CASE exec = Nothing \/ cur = Nothing
    <3>1. End /\ UNCHANGED <<snapshot, cursor, docs, sessions, crashes>>
      BY <1>4, <2>1 DEF BrokenStore
    <3>. QED
      BY <3>1, MemoryEnds
  <2>2. CASE ~(exec = Nothing \/ cur = Nothing)
    <3>1. cur' = [cur EXCEPT !.status = "store-broken"] /\ pc' = "write_snapshot"
          /\ after' = "stop" /\ UNCHANGED <<snapshot, cursor, exec, docs, using, sessions, crashes>>
      BY <1>4, <2>2 DEF BrokenStore, Finish, Persist
    <3>2. WellStepped(cur')
      BY <3>1, <2>2, <1>a, StatusChange DEF Status
    <3>. QED
      BY <3>1, <3>2, <2>2, SentinelAssumption DEF TypeOK, WellStepped
  <2>. QED
    BY <2>1, <2>2
<1>5. CASE Load
  <2>. DEFINE e == IF exec = Nothing THEN NewExecution ELSE exec
              c == IF cur = Nothing THEN FreshCursor ELSE cur
  <2>1. e \in Executions /\ WellStepped(c)
    BY <1>a, <1>c, NewExecutionFacts, FreshCursorFacts DEF WellStepped
  <2>2. CASE c.state # e.state
    <3>1. End /\ UNCHANGED <<snapshot, cursor, docs, sessions, crashes>>
      BY <1>5, <2>2 DEF Load
    <3>. QED
      BY <3>1, MemoryEnds
  <2>3. CASE c.state = e.state
    <3>1. exec' = e /\ cur' = [c EXCEPT !.iterations = @ + 1] /\ pc' = "route"
          /\ UNCHANGED <<snapshot, cursor, docs, using, after, sessions, crashes>>
      BY <1>5, <2>3 DEF Load
    <3>2. WellStepped(cur')
      BY <3>1, <2>1, IterationCounted
    <3>. QED
      BY <3>1, <3>2, <2>1, SentinelAssumption DEF TypeOK, WellStepped
  <2>. QED
    BY <2>2, <2>3
<1>6. CASE BudgetExhausted
  <2>1. cur' = [cur EXCEPT !.status = "budget-exhausted"] /\ pc' = "write_snapshot"
        /\ after' = "stop" /\ UNCHANGED <<snapshot, cursor, exec, docs, using, sessions, crashes>>
        /\ exec # Nothing /\ cur # Nothing
    BY <1>6 DEF BudgetExhausted, Finish, Persist, TypeOK
  <2>2. WellStepped(cur')
    BY <2>1, <1>a, StatusChange DEF Status
  <2>. QED
    BY <2>1, <2>2, SentinelAssumption DEF TypeOK, WellStepped
<1>7. CASE Advance
  <2>. DEFINE to == Transitions[Min(Permitted(exec, graph))].to
  <2>1. /\ exec' = Enter(exec, to) /\ pc' = "write_snapshot"
        /\ cur' = MovedTo(cur, to)
        /\ after' = "loop" /\ UNCHANGED <<snapshot, cursor, docs, using, sessions, crashes>>
        /\ exec # Nothing /\ cur # Nothing /\ to \in State
    BY <1>7, FirstPermitted DEF Advance, Persist, TypeOK, MovedTo
  <2>2. WellStepped(cur')
    BY <2>1, <1>a, StateEntered
  <2>3. exec' \in Executions
    BY <2>1, <1>c, EnterFacts
  <2>. QED
    BY <2>1, <2>2, <2>3, SentinelAssumption DEF TypeOK, WellStepped
<1>8. CASE Conclude
  <2>1. PICK status \in {"completed", "blocked"} :
          /\ cur' = [cur EXCEPT !.status = status] /\ pc' = "write_snapshot"
          /\ after' = "stop" /\ UNCHANGED <<snapshot, cursor, exec, docs, using, sessions, crashes>>
          /\ exec # Nothing /\ cur # Nothing
    BY <1>8 DEF Conclude, Finish, Persist, TypeOK
  <2>2. WellStepped(cur')
    BY <2>1, <1>a, StatusChange DEF Status
  <2>. QED
    BY <2>1, <2>2, SentinelAssumption DEF TypeOK, WellStepped
<1>9. CASE RefuseOperator
  <2>1. End /\ UNCHANGED <<snapshot, cursor, docs, sessions, crashes>>
    BY <1>9 DEF RefuseOperator
  <2>. QED
    BY <2>1, MemoryEnds
<1>10. CASE BeginStep
  <2>1. cur' = [cur EXCEPT !.attempts[<<cur.state, cur.step>>] = @ + 1] /\ pc' = "executing"
        /\ UNCHANGED <<snapshot, cursor, exec, docs, using, after, sessions, crashes>>
        /\ exec # Nothing /\ cur # Nothing /\ cur.step <= Len(Steps[cur.state])
    BY <1>10 DEF BeginStep, TypeOK, Key, StepsLeft
  <2>2. WellStepped(cur')
    BY <2>1, <1>a, AttemptCounted
  <2>3. StepsLeft'
    BY <2>1, <1>a DEF StepsLeft, WellStepped, Cursors
  <2>. QED
    BY <2>1, <2>2, <2>3, SentinelAssumption DEF TypeOK, WellStepped
<1>11. CASE Observed
  <2>1. PICK v \in Verdict : exec' = Submit(exec, Step.kind, v)
    BY <1>11 DEF Observed
  <2>2. /\ cur' = [cur EXCEPT !.step = @ + 1] /\ pc' = "write_snapshot" /\ after' = "loop"
        /\ UNCHANGED <<snapshot, cursor, docs, using, sessions, crashes>>
        /\ exec # Nothing /\ cur # Nothing /\ StepsLeft /\ Step.type = "command"
    BY <1>11 DEF Observed, Persist, TypeOK
  <2>3. WellStepped(cur')
    BY <2>2, <1>a, StepPassed DEF StepsLeft
  <2>4. exec' \in Executions
    BY <2>1, <2>2, <1>c, SubmitFacts, CurrentStep
  <2>. QED
    BY <2>2, <2>3, <2>4, SentinelAssumption DEF TypeOK, WellStepped
<1>12. CASE Rejected
  <2>1. End /\ UNCHANGED <<snapshot, cursor, docs, sessions, crashes>>
    BY <1>12 DEF Rejected
  <2>. QED
    BY <2>1, MemoryEnds
<1>13. CASE Succeeded
  <2>1. /\ cur' = [cur EXCEPT !.step = @ + 1] /\ pc' = "write_snapshot" /\ after' = "loop"
        /\ UNCHANGED <<snapshot, cursor, exec, docs, using, sessions, crashes>>
        /\ exec # Nothing /\ cur # Nothing /\ StepsLeft
    BY <1>13 DEF Succeeded, Persist, TypeOK
  <2>2. WellStepped(cur')
    BY <2>1, <1>a, StepPassed DEF StepsLeft
  <2>. QED
    BY <2>1, <2>2, SentinelAssumption DEF TypeOK, WellStepped
<1>14. CASE NoVerdict
  <2>1. /\ pc' = "write_snapshot" /\ after' \in {"loop", "stop"}
        /\ UNCHANGED <<snapshot, cursor, exec, docs, using, sessions, crashes>>
        /\ exec # Nothing /\ cur # Nothing
        /\ cur' = cur \/ cur' = [cur EXCEPT !.status = "budget-exhausted"]
    BY <1>14 DEF NoVerdict, Finish, Persist, TypeOK
  <2>2. WellStepped(cur')
    BY <2>1, <1>a, StatusChange DEF Status
  <2>. QED
    BY <2>1, <2>2, SentinelAssumption DEF TypeOK, WellStepped
<1>15. CASE Paused
  <2>1. PICK c : /\ c = [cur EXCEPT !.step = @ + 1]
                 /\ cur' = [c EXCEPT !.status = "awaiting-operator"]
    BY <1>15 DEF Paused, Finish
  <2>2. /\ pc' = "write_snapshot" /\ after' = "stop"
        /\ UNCHANGED <<snapshot, cursor, exec, docs, using, sessions, crashes>>
        /\ exec # Nothing /\ cur # Nothing /\ StepsLeft
    BY <1>15 DEF Paused, Finish, Persist, TypeOK
  <2>3. WellStepped(c)
    BY <2>1, <2>2, <1>a, StepPassed DEF StepsLeft
  <2>4. WellStepped(cur')
    BY <2>1, <2>3, StatusChange DEF Status
  <2>. QED
    BY <2>2, <2>4, SentinelAssumption DEF TypeOK, WellStepped
<1>16. CASE WriteSnapshot
  <2>1. /\ snapshot' = [execution |-> exec, under |-> using] /\ pc' = "write_cursor"
        /\ exec # Nothing /\ cur # Nothing
        /\ UNCHANGED <<cursor, exec, cur, docs, using, after, sessions, crashes>>
    BY <1>16 DEF WriteSnapshot, TypeOK
  <2>2. snapshot' \in Snapshots
    BY <2>1, <1>c DEF Snapshots
  <2>. QED
    BY <2>1, <2>2, SentinelAssumption DEF TypeOK
<1>17. CASE WriteCursor
  <2>1. /\ cursor' = cur /\ cur # Nothing
        /\ UNCHANGED <<snapshot, docs, sessions, crashes>>
        /\ \/ End
           \/ pc' = "loop" /\ UNCHANGED <<exec, cur, using, after>>
    BY <1>17 DEF WriteCursor, TypeOK
  <2>. QED
    BY <2>1, <1>a DEF TypeOK, WellStepped, End
<1>18. CASE Crash
  <2>1. End /\ UNCHANGED <<snapshot, cursor, docs, sessions>> /\ crashes' = crashes + 1
    BY <1>18 DEF Crash
  <2>. QED
    BY <2>1, MemoryEnds
<1>19. CASE EditStore
  BY <1>19 DEF EditStore, TypeOK, StepsLeft
<1>20. CASE EditDocument
  <2>1. docs' \in [Document -> 1 .. 2]
    BY <1>20, DocumentAssumption DEF EditDocument
  <2>. QED
    BY <1>20, <2>1 DEF EditDocument, TypeOK, StepsLeft
<1>. QED
  BY <1>1, <1>2, <1>3, <1>4, <1>5, <1>6, <1>7, <1>8, <1>9, <1>10, <1>11, <1>12,
     <1>13, <1>14, <1>15, <1>16, <1>17, <1>18, <1>19, <1>20
  DEF Next, SessionStep

(* Every behaviour of the loop, with any plan, number of sessions, crashes *)
(* and edits, keeps its records and memory in their types, and loads both  *)
(* records before it evaluates, executes or writes.                        *)
THEOREM TypeCorrect == Spec => []TypeOK
<1>. QED
  BY TypeInit, TypeNext, PTL DEF Spec, TypeInv

---------------------------------------------------------------------------
(* The kinds of steps the actions are, in terms of what the invariants     *)
(* below speak of                                                          *)

Untouched == UNCHANGED <<snapshot, cursor>>

Starts(e, c) ==
  /\ pc = "idle" /\ pc' = "loop" /\ exec' = e /\ cur' = c /\ using' = docs
  /\ Untouched /\ UNCHANGED <<crashes, history>>

(* The session ends with nothing written: a refusal, an error or a crash.  *)
Returns ==
  /\ pc # "idle" /\ pc' = "idle" /\ exec' = Nothing /\ cur' = Nothing
  /\ Untouched /\ UNCHANGED <<using, history>>
  /\ \/ crashes' = crashes + 1
     \/ /\ crashes' = crashes /\ pc \in {"loop", "route", "executing"}
        /\ pc = "executing" => Step.type # "operator"

(* The session is about to stop, with a status of its own.                 *)
Finishes ==
  /\ pc \in {"loop", "route"} /\ pc' = "write_snapshot"
  /\ exec \in Executions /\ cur \in Cursors
  /\ exec' = exec /\ CursorKept(cur, cur') /\ cur'.attempts = cur.attempts
  /\ cur'.status = "completed" =>
       pc = "route" /\ ~StepsLeft /\ IsComplete(exec, graph)
  /\ Untouched /\ UNCHANGED <<using, crashes, history>>

Loads ==
  /\ pc = "loop" /\ pc' = "route"
  /\ exec' = IF exec = Nothing THEN NewExecution ELSE exec
  /\ LET c == IF cur = Nothing THEN FreshCursor ELSE cur
     IN /\ CursorKept(c, cur') /\ cur'.status = c.status /\ c.state = exec'.state
        /\ cur'.attempts = c.attempts
  /\ Untouched /\ UNCHANGED <<using, crashes, history>>

Advances(i) ==
  /\ pc = "route" /\ pc' = "write_snapshot" /\ ~StepsLeft
  /\ exec \in Executions /\ cur \in Cursors
  /\ Transitions[i].from = exec.state /\ Holds(Transitions[i].guard, exec, graph)
  /\ exec' = Enter(exec, Transitions[i].to)
  /\ cur'.state = Transitions[i].to /\ cur'.step = 1
  /\ \A s \in State :
       cur'.visits[s] = cur.visits[s] + (IF s = Transitions[i].to THEN 1 ELSE 0)
  /\ cur'.status = cur.status /\ cur'.pins = cur.pins /\ cur'.attempts = cur.attempts
  /\ asked' = {}
  /\ Untouched /\ UNCHANGED <<using, crashes, ran>>

Begins ==
  /\ pc = "route" /\ pc' = "executing" /\ StepsLeft /\ ~VisitsSpent
  /\ exec \in Executions /\ cur \in Cursors
  /\ exec' = exec /\ CursorKept(cur, cur') /\ cur'.status = cur.status
  /\ cur'.attempts = [cur.attempts EXCEPT ![Key] = @ + 1]
  /\ asked' = IF Step.type = "operator" THEN asked \cup {Key} ELSE asked
  /\ \A k \in StepKey \ {Key} : ran'[k] = ran[k]
  /\ Untouched /\ UNCHANGED <<using, crashes>>

(* A step's outcome is taken in; the engine hears of it or does not.       *)
Concludes ==
  /\ pc = "executing" /\ pc' = "write_snapshot" /\ StepsLeft
  /\ exec \in Executions /\ cur \in Cursors
  /\ cur'.state = cur.state /\ cur'.visits = cur.visits /\ cur'.pins = cur.pins
  /\ cur'.step = cur.step + 1 \/ (cur'.step = cur.step /\ Step.type # "operator")
  /\ cur'.status \in {cur.status, "awaiting-operator", "budget-exhausted"}
  /\ cur'.attempts = cur.attempts
  /\ \/ exec' = exec
     \/ /\ Step.type = "command" /\ Step.kind \in Kind
        /\ \E v \in Verdict : exec' = Submit(exec, Step.kind, v)
  /\ Untouched /\ UNCHANGED <<using, crashes, history>>

SnapshotWritten ==
  /\ pc = "write_snapshot" /\ pc' = "write_cursor"
  /\ exec \in Executions /\ cur \in Cursors
  /\ snapshot' = [execution |-> exec, under |-> using] /\ cursor' = cursor
  /\ UNCHANGED <<exec, cur, using, crashes, history>>

CursorWritten ==
  /\ pc = "write_cursor" /\ cursor' = cur /\ snapshot' = snapshot
  /\ exec \in Executions /\ cur \in Cursors
  /\ \/ pc' = "idle" /\ exec' = Nothing /\ cur' = Nothing
     \/ pc' = "loop" /\ exec' = exec /\ cur' = cur
  /\ UNCHANGED <<using, crashes, history>>

Elsewhere ==
  Untouched /\ UNCHANGED <<pc, exec, cur, using, crashes, history>>

StepKinds ==
  \/ cursor = Nothing /\ snapshot = Nothing /\ Starts(Nothing, Nothing)
  \/ /\ cursor # Nothing /\ snapshot # Nothing /\ ~ResumeRefused
     /\ Starts(snapshot.execution, cursor)
  \/ Returns \/ Finishes \/ Loads
  \/ \E i \in DOMAIN Transitions : Advances(i)
  \/ Begins \/ Concludes \/ SnapshotWritten \/ CursorWritten \/ Elsewhere

RanType == ran \in [StepKey -> Nat]

LEMMA RanTypeInit == Init => RanType
  BY DEF Init, RanType

LEMMA RanTypeNext == RanType /\ [Next]_vars => RanType'
<1>. SUFFICES ASSUME RanType, [Next]_vars, ran' # ran PROVE RanType'
  BY DEF RanType
<1>1. BeginStep
  BY DEF Next, SessionStep, vars, history, Drive, Resume, Begin, BrokenStore, Load,
     BudgetExhausted, Advance, Conclude, RefuseOperator, Observed, Rejected, Succeeded,
     NoVerdict, Paused, WriteSnapshot, WriteCursor, Crash, EditStore, EditDocument
<1>2. ran' = [ran EXCEPT ![Key] = IF @ < RanCap THEN @ + 1 ELSE @]
  BY <1>1 DEF BeginStep
<1>. QED
  BY <1>2 DEF RanType

LEMMA Kinds == TypeInv /\ RanType /\ [Next]_vars => StepKinds
<1>. SUFFICES ASSUME TypeInv, RanType, [Next]_vars PROVE StepKinds
  OBVIOUS
<1>. USE DEF disk, world, memory, counters, history, Untouched
<1>a. cur # Nothing => WellStepped(cur)
  BY DEF TypeInv, TypeOK, WellStepped
<1>b. exec # Nothing => exec \in Executions
  BY DEF TypeInv, TypeOK
<1>c. pc \in {"route", "executing", "write_snapshot", "write_cursor"}
        => exec \in Executions /\ WellStepped(cur) /\ cur \in Cursors
  BY <1>a, <1>b DEF TypeInv, TypeOK, WellStepped
<1>1. CASE UNCHANGED vars
  BY <1>1 DEF vars, StepKinds, Elsewhere
<1>2. CASE Drive
  BY <1>2 DEF Drive, Begin, StepKinds, Starts
<1>3. CASE Resume
  BY <1>3 DEF Resume, Begin, StepKinds, Starts
<1>4. CASE BrokenStore
  <2>1. CASE exec = Nothing \/ cur = Nothing
    BY <1>4, <2>1 DEF BrokenStore, End, StepKinds, Returns
  <2>2. CASE ~(exec = Nothing \/ cur = Nothing)
    <3>1. cur' = [cur EXCEPT !.status = "store-broken"] /\ pc' = "write_snapshot"
          /\ pc = "loop" /\ UNCHANGED <<snapshot, cursor, exec, using, crashes, ran, asked>>
      BY <1>4, <2>2 DEF BrokenStore, Finish, Persist
    <3>2. CursorKept(cur, cur') /\ cur'.status = "store-broken" /\ cur'.attempts = cur.attempts
      BY <3>1, <2>2, <1>a, StatusChange DEF Status
    <3>3. exec \in Executions /\ cur \in Cursors
      BY <2>2, <1>a, <1>b DEF WellStepped
    <3>. QED
      BY <3>1, <3>2, <3>3 DEF StepKinds, Finishes
  <2>. QED
    BY <2>1, <2>2
<1>5. CASE Load
  <2>. DEFINE e == IF exec = Nothing THEN NewExecution ELSE exec
              c == IF cur = Nothing THEN FreshCursor ELSE cur
  <2>1. WellStepped(c)
    BY <1>a, FreshCursorFacts DEF WellStepped, TypeInv
  <2>2. CASE c.state # e.state
    BY <1>5, <2>2 DEF Load, End, StepKinds, Returns
  <2>3. CASE c.state = e.state
    <3>1. exec' = e /\ cur' = [c EXCEPT !.iterations = @ + 1] /\ pc' = "route"
          /\ pc = "loop" /\ UNCHANGED <<snapshot, cursor, using, crashes, ran, asked>>
      BY <1>5, <2>3 DEF Load
    <3>2. CursorKept(c, cur') /\ cur'.status = c.status /\ cur'.attempts = c.attempts
      BY <3>1, <2>1, IterationCounted
    <3>. QED
      BY <3>1, <3>2, <2>3 DEF StepKinds, Loads
  <2>. QED
    BY <2>2, <2>3
<1>6. CASE BudgetExhausted
  <2>1. cur' = [cur EXCEPT !.status = "budget-exhausted"] /\ pc' = "write_snapshot"
        /\ pc = "route" /\ UNCHANGED <<snapshot, cursor, exec, using, crashes, ran, asked>>
    BY <1>6 DEF BudgetExhausted, Finish, Persist
  <2>2. CursorKept(cur, cur') /\ cur'.status = "budget-exhausted" /\ cur'.attempts = cur.attempts
    BY <2>1, <1>c, StatusChange DEF Status
  <2>. QED
    BY <2>1, <2>2, <1>c DEF StepKinds, Finishes
<1>7. CASE Advance
  <2>. DEFINE i == Min(Permitted(exec, graph))
  <2>1. /\ exec' = Enter(exec, Transitions[i].to) /\ pc = "route" /\ pc' = "write_snapshot"
        /\ cur' = MovedTo(cur, Transitions[i].to)
        /\ ~StepsLeft /\ asked' = {} /\ UNCHANGED <<snapshot, cursor, using, crashes, ran>>
        /\ Permitted(exec, graph) # {}
    BY <1>7 DEF Advance, Persist, MovedTo
  <2>2. /\ i \in DOMAIN Transitions /\ Transitions[i].to \in State
        /\ Transitions[i].from = exec.state /\ Holds(Transitions[i].guard, exec, graph)
    BY <2>1, FirstPermitted
  <2>3. /\ cur'.state = Transitions[i].to /\ cur'.step = 1
        /\ \A s \in State :
             cur'.visits[s] = cur.visits[s] + (IF s = Transitions[i].to THEN 1 ELSE 0)
        /\ cur'.pins = cur.pins /\ cur'.status = cur.status /\ cur'.attempts = cur.attempts
    <3>1. PICK to \in State : to = Transitions[i].to
      BY <2>2
    <3>2. cur' = MovedTo(cur, to)
      BY <2>1, <3>1
    <3>3. WellStepped(cur)
      BY <2>1, <1>c
    <3>4. /\ cur'.state = to /\ cur'.step = 1
          /\ \A s \in State :
               cur'.visits[s] = cur.visits[s] + (IF s = to THEN 1 ELSE 0)
          /\ cur'.pins = cur.pins /\ cur'.status = cur.status /\ cur'.attempts = cur.attempts
      BY <3>2, <3>3, StateEntered
    <3>. QED
      BY <3>1, <3>4
  <2>4. Advances(i)
    BY <2>1, <2>2, <2>3, <1>c DEF Advances
  <2>. QED
    BY <2>2, <2>4 DEF StepKinds
<1>8. CASE Conclude
  <2>1. PICK status \in {"completed", "blocked"} :
          /\ cur' = [cur EXCEPT !.status = status] /\ pc' = "write_snapshot"
          /\ status = "completed" => IsComplete(exec, graph)
    BY <1>8 DEF Conclude, Finish, Persist
  <2>2. pc = "route" /\ ~StepsLeft /\ UNCHANGED <<snapshot, cursor, exec, using, crashes, ran, asked>>
    BY <1>8 DEF Conclude
  <2>3. CursorKept(cur, cur') /\ cur'.status = status /\ cur'.attempts = cur.attempts
    BY <2>1, <2>2, <1>c, StatusChange DEF Status
  <2>. QED
    BY <2>1, <2>2, <2>3, <1>c DEF StepKinds, Finishes
<1>9. CASE RefuseOperator
  BY <1>9 DEF RefuseOperator, End, StepKinds, Returns
<1>10. CASE BeginStep
  <2>1. cur' = [cur EXCEPT !.attempts[<<cur.state, cur.step>>] = @ + 1] /\ pc = "route"
        /\ pc' = "executing" /\ StepsLeft /\ ~VisitsSpent
        /\ UNCHANGED <<snapshot, cursor, exec, using, crashes>>
        /\ asked' = IF Step.type = "operator" THEN asked \cup {Key} ELSE asked
    BY <1>10 DEF BeginStep, Key
  <2>2. CursorKept(cur, cur') /\ cur'.status = cur.status
        /\ cur'.attempts = [cur.attempts EXCEPT ![Key] = @ + 1]
    BY <2>1, <1>c, AttemptCounted DEF StepsLeft, Key
  <2>3. ran' = [ran EXCEPT ![Key] = IF @ < RanCap THEN @ + 1 ELSE @]
    BY <1>10 DEF BeginStep
  <2>4. ran \in [StepKey -> Nat]
    BY DEF RanType
  <2>5. \A k \in StepKey \ {Key} : ran'[k] = ran[k]
    BY <2>3, <2>4
  <2>. QED
    BY <2>1, <2>2, <2>5, <1>c DEF StepKinds, Begins
<1>11. CASE Observed
  <2>1. PICK v \in Verdict : exec' = Submit(exec, Step.kind, v)
    BY <1>11 DEF Observed
  <2>2. /\ cur' = [cur EXCEPT !.step = @ + 1] /\ pc' = "write_snapshot" /\ pc = "executing"
        /\ Step.type = "command" /\ UNCHANGED <<snapshot, cursor, using, crashes, ran, asked>>
    BY <1>11 DEF Observed, Persist
  <2>3. StepsLeft /\ cur # Nothing
    BY <2>2 DEF TypeInv, TypeOK
  <2>4. /\ cur'.state = cur.state /\ cur'.visits = cur.visits /\ cur'.pins = cur.pins
        /\ cur'.step = cur.step + 1 /\ cur'.status = cur.status /\ cur'.attempts = cur.attempts
    BY <2>2, <2>3, <1>c, StepPassed DEF StepsLeft
  <2>5. Step.kind \in Kind
    BY <2>2, <2>3, CurrentStep
  <2>. QED
    BY <2>1, <2>2, <2>3, <2>4, <2>5, <1>c DEF StepKinds, Concludes
<1>12. CASE Rejected
  BY <1>12 DEF Rejected, End, StepKinds, Returns
<1>13. CASE Succeeded
  <2>2. /\ cur' = [cur EXCEPT !.step = @ + 1] /\ pc' = "write_snapshot" /\ pc = "executing"
        /\ UNCHANGED <<snapshot, cursor, exec, using, crashes, ran, asked>>
    BY <1>13 DEF Succeeded, Persist
  <2>3. StepsLeft
    BY <2>2 DEF TypeInv
  <2>4. /\ cur'.state = cur.state /\ cur'.visits = cur.visits /\ cur'.pins = cur.pins
        /\ cur'.step = cur.step + 1 /\ cur'.status = cur.status /\ cur'.attempts = cur.attempts
    BY <2>2, <2>3, <1>c, StepPassed DEF StepsLeft
  <2>. QED
    BY <2>2, <2>3, <2>4, <1>c DEF StepKinds, Concludes
<1>14. CASE NoVerdict
  <2>1. /\ pc = "executing" /\ pc' = "write_snapshot" /\ Step.type # "operator"
        /\ UNCHANGED <<snapshot, cursor, exec, using, crashes, ran, asked>>
        /\ cur' = cur \/ cur' = [cur EXCEPT !.status = "budget-exhausted"]
    BY <1>14 DEF NoVerdict, Finish, Persist
  <2>2. StepsLeft
    BY <2>1 DEF TypeInv
  <2>3. /\ CursorKept(cur, cur') /\ cur'.status \in {cur.status, "budget-exhausted"}
        /\ cur'.attempts = cur.attempts
    BY <2>1, <1>c, StatusChange DEF Status, CursorKept
  <2>. QED
    BY <2>1, <2>2, <2>3, <1>c DEF StepKinds, Concludes, CursorKept
<1>15. CASE Paused
  <2>1. PICK c : /\ c = [cur EXCEPT !.step = @ + 1]
                 /\ cur' = [c EXCEPT !.status = "awaiting-operator"]
    BY <1>15 DEF Paused, Finish
  <2>2. /\ pc = "executing" /\ pc' = "write_snapshot"
        /\ UNCHANGED <<snapshot, cursor, exec, using, crashes, ran, asked>>
    BY <1>15 DEF Paused, Finish, Persist
  <2>3. StepsLeft
    BY <2>2 DEF TypeInv
  <2>4. /\ WellStepped(c) /\ c.step = cur.step + 1
        /\ c.state = cur.state /\ c.visits = cur.visits /\ c.pins = cur.pins
        /\ c.attempts = cur.attempts
    BY <2>1, <2>2, <2>3, <1>c, StepPassed DEF StepsLeft
  <2>5. CursorKept(c, cur') /\ cur'.status = "awaiting-operator" /\ cur'.attempts = c.attempts
    <3>1. PICK status \in Status : status = "awaiting-operator"
      BY DEF Status
    <3>2. cur' = [c EXCEPT !.status = status] /\ WellStepped(c)
      BY <2>1, <2>4, <3>1
    <3>3. CursorKept(c, cur') /\ cur'.status = status /\ cur'.attempts = c.attempts
      BY <3>2, StatusChange
    <3>. QED
      BY <3>1, <3>3
  <2>. QED
    BY <2>2, <2>3, <2>4, <2>5, <1>c DEF StepKinds, Concludes, CursorKept
<1>16. CASE WriteSnapshot
  BY <1>16, <1>c DEF WriteSnapshot, StepKinds, SnapshotWritten
<1>17. CASE WriteCursor
  BY <1>17, <1>c DEF WriteCursor, End, StepKinds, CursorWritten
<1>18. CASE Crash
  BY <1>18 DEF Crash, End, StepKinds, Returns
<1>19. CASE EditStore
  BY <1>19 DEF EditStore, StepKinds, Elsewhere
<1>20. CASE EditDocument
  BY <1>20 DEF EditDocument, StepKinds, Elsewhere
<1>. QED
  BY <1>1, <1>2, <1>3, <1>4, <1>5, <1>6, <1>7, <1>8, <1>9, <1>10, <1>11, <1>12,
     <1>13, <1>14, <1>15, <1>16, <1>17, <1>18, <1>19, <1>20
  DEF Next, SessionStep

---------------------------------------------------------------------------
(* What the records on disk and the session's memory say of each other     *)

Recorded == IF snapshot = Nothing THEN NewExecution ELSE snapshot.execution

(* The part of a guard that evidence answers.                              *)
EvidencedBy(e, guard) ==
  \A fact \in guard : fact[1] \in Kind => e.verdict[fact[1]] = fact[2]

(* What one iteration does to the engine before it persists.               *)
Accepted == \E k \in Kind, v \in Verdict : exec = Submit(Recorded, k, v)

Moved ==
  \E i \in DOMAIN Transitions :
    /\ Transitions[i].from = Recorded.state
    /\ EvidencedBy(Recorded, Transitions[i].guard)
    /\ exec = Enter(Recorded, Transitions[i].to)

Working == {"route", "executing"}
Writing == {"write_snapshot", "write_cursor"}

(* The cursor in memory is the one on disk, but for what is counted.       *)
SameStep(c, d) ==
  c.state = d.state /\ c.step = d.step /\ c.visits = d.visits /\ c.status = d.status

(* A cursor is never written without the snapshot it goes with; between    *)
(* iterations the memory is what is on disk; within one it is what was     *)
(* loaded, until the outcome is taken in; and that is one record of        *)
(* evidence, one permitted transition, or nothing.                         *)
RecordsAgree ==
  /\ cursor # Nothing => snapshot # Nothing
  /\ pc = "idle" => exec = Nothing /\ cur = Nothing
  /\ pc = "loop" =>
       IF exec = Nothing
       THEN cur = Nothing /\ snapshot = Nothing /\ cursor = Nothing
       ELSE /\ cursor # Nothing /\ snapshot # Nothing
            /\ exec = snapshot.execution /\ cur = cursor
  /\ pc \in Working =>
       /\ exec = Recorded /\ cur.state = exec.state
       /\ IF cursor = Nothing
          THEN snapshot = Nothing /\ cur.status = "running"
          ELSE SameStep(cur, cursor)
  /\ pc = "write_snapshot" => exec = Recorded \/ Accepted \/ Moved
  /\ pc = "write_cursor" => snapshot # Nothing /\ exec = snapshot.execution

(* The pins a cursor carries are the documents its snapshots were made     *)
(* under, and a session goes on under the same.                            *)
SamePins(under, pins) == \A d \in Pinned : under[d] = pins[d]

PinsHold ==
  /\ cursor # Nothing => SamePins(snapshot.under, cursor.pins)
  /\ cur # Nothing => SamePins(using, cur.pins)
  /\ pc # "idle" /\ snapshot # Nothing => SamePins(snapshot.under, using)

(* A completed run has the evidence, and stands past the last step of a    *)
(* terminal state, where nothing is left to accept or to pass.             *)
Earned(e, c) ==
  c.status = "completed" =>
    /\ e.state \in Terminal /\ EvidencedBy(e, Completion)
    /\ c.state = e.state /\ c.step > Len(Steps[c.state])

CompletionEarned ==
  /\ cursor # Nothing => Earned(snapshot.execution, cursor)
  /\ cur # Nothing => Earned(exec, cur)
  /\ pc = "write_snapshot" /\ cursor # Nothing /\ cursor.status = "completed"
       => exec = snapshot.execution

RecordsInv == TypeInv /\ RecordsAgree /\ PinsHold /\ CompletionEarned

(* A crash between the two writes leaves the cursor one entry behind, and  *)
(* the two records in one state only if the transition taken re-enters it. *)
SelfLoops == \E i \in DOMAIN Transitions : Transitions[i].from = Transitions[i].to

Slack == IF SelfLoops THEN crashes ELSE 0
Unwritten == IF SelfLoops THEN 1 ELSE 0
SlackOnDisk == IF pc = "write_cursor" THEN Slack + Unwritten ELSE Slack

Within(e, c, slack) == \A s \in State : e.entered[s] <= c.visits[s] + slack

VisitsCounted ==
  /\ pc \in Working \cup Writing /\ exec.state = cur.state => Within(exec, cur, Slack)
  /\ cursor # Nothing /\ snapshot.execution.state = cursor.state =>
       Within(snapshot.execution, cursor, SlackOnDisk)
  /\ pc = "write_snapshot" /\ cursor # Nothing /\ exec.state = cursor.state =>
       Within(exec, cursor, Slack + Unwritten)
  /\ pc = "executing" => ~VisitsSpent

(* Every operator step presented since the state was entered is behind the *)
(* cursor, but for one under way.                                          *)
Behind(k, c) == k[1] = c.state /\ k[2] \in 1 .. c.step - 1

Settled == IF pc = "executing" /\ Step.type = "operator" THEN asked \ {Key} ELSE asked

AskedBehind ==
  crashes = 0 =>
    IF pc \in Writing
    THEN \A k \in asked : Behind(k, cur)
    ELSE IF cursor = Nothing THEN Settled = {} ELSE \A k \in Settled : Behind(k, cursor)
---------------------------------------------------------------------------
LEMMA NotNothing ==
  /\ \A e \in Executions : e # Nothing
  /\ \A c \in Cursors : c # Nothing
  /\ \A s \in Snapshots : s # Nothing
  BY SentinelAssumption

LEMMA RecordedIsExecution == TypeInv => Recorded \in Executions
  BY NewExecutionFacts DEF TypeInv, TypeOK, Recorded, Snapshots

LEMMA SnapshotOf ==
  ASSUME TypeInv, SnapshotWritten
  PROVE  snapshot' # Nothing /\ snapshot'.execution = exec /\ snapshot'.under = using
<1>1. snapshot' \in Snapshots
  BY DEF SnapshotWritten, Snapshots, TypeInv
<1>. QED
  BY <1>1, NotNothing DEF SnapshotWritten

LEMMA RecordsAgreeInit == Init => RecordsAgree
  BY DEF Init, RecordsAgree, Working

LEMMA HeldEvidence ==
  ASSUME NEW guard, NEW e, NEW g, Holds(guard, e, g)
  PROVE  EvidencedBy(e, guard)
  BY PlanAssumption DEF Holds, EvidencedBy

LEMMA RecordsAgreeNext ==
  ASSUME TypeInv, RecordsAgree, StepKinds
  PROVE  RecordsAgree'
<1>. USE DEF Working
<1>1. ASSUME cursor = Nothing, snapshot = Nothing, Starts(Nothing, Nothing)
      PROVE  RecordsAgree'
  BY <1>1 DEF Starts, RecordsAgree, Untouched
<1>2. ASSUME cursor # Nothing, snapshot # Nothing, Starts(snapshot.execution, cursor)
      PROVE  RecordsAgree'
  <2>1. snapshot.execution # Nothing
    BY <1>2, NotNothing DEF TypeInv, TypeOK, Snapshots
  <2>. QED
    BY <1>2, <2>1 DEF Starts, RecordsAgree, Untouched
<1>3. CASE Returns
  BY <1>3 DEF Returns, RecordsAgree, Untouched
<1>4. CASE Finishes
  <2>1. exec # Nothing
    BY <1>4, NotNothing DEF Finishes
  <2>2. exec = Recorded
    BY <1>4, <2>1 DEF Finishes, RecordsAgree, Recorded
  <2>. QED
    BY <1>4, <2>2 DEF Finishes, RecordsAgree, Untouched, Recorded
<1>5. CASE Loads
  <2>1. pc = "loop" /\ pc' = "route" /\ snapshot' = snapshot /\ cursor' = cursor
    BY <1>5 DEF Loads, Untouched
  <2>2. CASE exec = Nothing
    <3>1. cur = Nothing /\ snapshot = Nothing /\ cursor = Nothing
      BY <2>1, <2>2 DEF RecordsAgree
    <3>2. exec' = NewExecution /\ cur'.state = exec'.state /\ cur'.status = "running"
      BY <1>5, <2>2, <3>1 DEF Loads, CursorKept, FreshCursor
    <3>. QED
      BY <2>1, <3>1, <3>2 DEF RecordsAgree, Recorded
  <2>3. CASE exec # Nothing
    <3>1. cursor # Nothing /\ snapshot # Nothing /\ exec = snapshot.execution /\ cur = cursor
      BY <2>1, <2>3 DEF RecordsAgree
    <3>2. exec' = exec /\ cur'.state = exec'.state /\ SameStep(cur', cursor)
      BY <1>5, <2>3, <3>1 DEF Loads, CursorKept, SameStep
    <3>. QED
      BY <2>1, <3>1, <3>2 DEF RecordsAgree, Recorded, SameStep
  <2>. QED
    BY <2>2, <2>3
<1>6. ASSUME NEW i \in DOMAIN Transitions, Advances(i) PROVE RecordsAgree'
  <2>1. exec = Recorded /\ EvidencedBy(Recorded, Transitions[i].guard)
    BY <1>6, HeldEvidence DEF Advances, RecordsAgree
  <2>2. Recorded' = Recorded
    BY <1>6 DEF Advances, Untouched, Recorded
  <2>3. Moved'
    BY <1>6, <2>1, <2>2 DEF Advances, Moved, EvidencedBy
  <2>. QED
    BY <1>6, <2>3 DEF Advances, RecordsAgree, Untouched
<1>7. CASE Begins
  BY <1>7 DEF Begins, RecordsAgree, Untouched, Recorded, CursorKept, SameStep
<1>8. CASE Concludes
  <2>1. exec = Recorded /\ Recorded' = Recorded
    BY <1>8 DEF Concludes, RecordsAgree, Untouched, Recorded
  <2>2. exec' = Recorded' \/ Accepted'
    BY <1>8, <2>1 DEF Concludes, Accepted
  <2>. QED
    BY <1>8, <2>2 DEF Concludes, RecordsAgree, Untouched
<1>9. CASE SnapshotWritten
  BY <1>9, SnapshotOf DEF SnapshotWritten, RecordsAgree
<1>10. CASE CursorWritten
  BY <1>10, NotNothing DEF CursorWritten, RecordsAgree
<1>11. CASE Elsewhere
  BY <1>11 DEF Elsewhere, RecordsAgree, Untouched, Recorded, Accepted, Moved, EvidencedBy, SameStep
<1>. QED
  BY <1>1, <1>2, <1>3, <1>4, <1>5, <1>6, <1>7, <1>8, <1>9, <1>10, <1>11 DEF StepKinds

LEMMA PinsHoldNext ==
  ASSUME TypeInv, RecordsAgree, PinsHold, StepKinds
  PROVE  PinsHold'
<1>. USE DEF SamePins
<1>1. ASSUME cursor = Nothing, snapshot = Nothing, Starts(Nothing, Nothing)
      PROVE  PinsHold'
  BY <1>1 DEF Starts, PinsHold, Untouched
<1>2. ASSUME cursor # Nothing, snapshot # Nothing, ~ResumeRefused,
             Starts(snapshot.execution, cursor)
      PROVE  PinsHold'
  BY <1>2 DEF Starts, PinsHold, Untouched, ResumeRefused
<1>3. CASE Returns
  BY <1>3 DEF Returns, PinsHold, Untouched
<1>4. CASE Finishes
  BY <1>4, NotNothing DEF Finishes, PinsHold, Untouched, CursorKept
<1>5. CASE Loads
  BY <1>5 DEF Loads, PinsHold, Untouched, CursorKept, FreshCursor
<1>6. ASSUME NEW i \in DOMAIN Transitions, Advances(i) PROVE PinsHold'
  BY <1>6, NotNothing DEF Advances, PinsHold, Untouched
<1>7. CASE Begins
  BY <1>7, NotNothing DEF Begins, PinsHold, Untouched, CursorKept
<1>8. CASE Concludes
  BY <1>8, NotNothing DEF Concludes, PinsHold, Untouched
<1>9. CASE SnapshotWritten
  BY <1>9, SnapshotOf, NotNothing DEF SnapshotWritten, PinsHold, RecordsAgree
<1>10. CASE CursorWritten
  BY <1>10, NotNothing DEF CursorWritten, PinsHold, RecordsAgree
<1>11. CASE Elsewhere
  BY <1>11 DEF Elsewhere, PinsHold, Untouched
<1>. QED
  BY <1>1, <1>2, <1>3, <1>4, <1>5, <1>6, <1>7, <1>8, <1>9, <1>10, <1>11 DEF StepKinds

LEMMA CompletionEarnedNext ==
  ASSUME TypeInv, RecordsAgree, CompletionEarned, StepKinds
  PROVE  CompletionEarned'
<1>. USE DEF Working, Earned
<1>1. ASSUME cursor = Nothing, snapshot = Nothing, Starts(Nothing, Nothing)
      PROVE  CompletionEarned'
  BY <1>1 DEF Starts, CompletionEarned, Untouched
<1>2. ASSUME cursor # Nothing, snapshot # Nothing, Starts(snapshot.execution, cursor)
      PROVE  CompletionEarned'
  BY <1>2 DEF Starts, CompletionEarned, Untouched
<1>3. CASE Returns
  BY <1>3 DEF Returns, CompletionEarned, Untouched
<1>4. CASE Finishes
  <2>1. exec # Nothing /\ cur # Nothing
    BY <1>4, NotNothing DEF Finishes
  <2>2. ASSUME cur'.status = "completed" PROVE Earned(exec', cur')
    <3>1. pc = "route" /\ ~StepsLeft /\ IsComplete(exec, graph)
      BY <1>4, <2>2 DEF Finishes
    <3>2. exec.state \in Terminal /\ EvidencedBy(exec, Completion) /\ cur.state = exec.state
      BY <3>1, HeldEvidence DEF IsComplete, RecordsAgree
    <3>3. cur.step > Len(Steps[cur.state])
      BY <3>1, <1>4, CursorFields, StepFacts DEF StepsLeft, Finishes
    <3>. QED
      BY <1>4, <3>2, <3>3 DEF Finishes, CursorKept
  <2>3. cursor' # Nothing /\ cursor'.status = "completed" => exec' = snapshot'.execution
    BY <1>4, <2>1 DEF Finishes, RecordsAgree, Untouched, Recorded
  <2>. QED
    BY <1>4, <2>2, <2>3 DEF Finishes, CompletionEarned, Untouched
<1>5. CASE Loads
  <2>1. pc = "loop" /\ pc' = "route" /\ snapshot' = snapshot /\ cursor' = cursor
    BY <1>5 DEF Loads, Untouched
  <2>2. Earned(exec', cur')
    <3>1. CASE exec = Nothing
      <4>1. cur = Nothing
        BY <2>1, <3>1 DEF RecordsAgree
      <4>. QED
        BY <1>5, <4>1 DEF Loads, FreshCursor
    <3>2. CASE exec # Nothing
      <4>1. cur # Nothing
        BY <2>1, <3>2 DEF RecordsAgree
      <4>2. Earned(exec, cur)
        BY <4>1 DEF CompletionEarned
      <4>3. exec' = exec /\ CursorKept(cur, cur') /\ cur'.status = cur.status
        BY <1>5, <3>2, <4>1 DEF Loads
      <4>. QED
        BY <4>2, <4>3 DEF CursorKept
    <3>. QED
      BY <3>1, <3>2
  <2>. QED
    BY <2>1, <2>2 DEF CompletionEarned
<1>6. ASSUME NEW i \in DOMAIN Transitions, Advances(i) PROVE CompletionEarned'
  <2>1. exec.state \notin Terminal
    BY <1>6, TransitionFacts DEF Advances
  <2>2. cur.status # "completed"
    BY <1>6, <2>1, NotNothing DEF Advances, CompletionEarned
  <2>3. cursor # Nothing => cursor.status # "completed"
    BY <1>6, <2>2 DEF Advances, RecordsAgree, SameStep
  <2>. QED
    BY <1>6, <2>2, <2>3 DEF Advances, CompletionEarned, Untouched
<1>7. CASE Begins
  BY <1>7, NotNothing DEF Begins, CompletionEarned, Untouched, CursorKept
<1>8. CASE Concludes
  <2>1. cur.status # "completed"
    <3>1. Earned(exec, cur)
      BY <1>8, NotNothing DEF Concludes, CompletionEarned
    <3>2. cur.step \in Nat /\ Len(Steps[cur.state]) \in Nat /\ cur.step <= Len(Steps[cur.state])
      BY <1>8, CursorFields, StepFacts DEF Concludes, StepsLeft
    <3>. QED
      BY <3>1, <3>2
  <2>2. cursor # Nothing => cursor.status # "completed"
    BY <1>8, <2>1 DEF Concludes, RecordsAgree, SameStep
  <2>. QED
    BY <1>8, <2>1, <2>2 DEF Concludes, CompletionEarned, Untouched
<1>9. CASE SnapshotWritten
  <2>1. cursor # Nothing /\ cursor.status = "completed" => exec = snapshot.execution
    BY <1>9 DEF SnapshotWritten, CompletionEarned
  <2>. QED
    BY <1>9, <2>1, SnapshotOf DEF SnapshotWritten, CompletionEarned
<1>10. CASE CursorWritten
  BY <1>10, NotNothing DEF CursorWritten, CompletionEarned, RecordsAgree
<1>11. CASE Elsewhere
  BY <1>11 DEF Elsewhere, CompletionEarned, Untouched
<1>. QED
  BY <1>1, <1>2, <1>3, <1>4, <1>5, <1>6, <1>7, <1>8, <1>9, <1>10, <1>11 DEF StepKinds

LEMMA RecordsInvariant == Spec => [](RecordsInv /\ RanType)
<1>1. Init => RecordsInv /\ RanType
  BY TypeInit, RanTypeInit, RecordsAgreeInit
  DEF Init, RecordsInv, PinsHold, CompletionEarned
<1>2. RecordsInv /\ RanType /\ [Next]_vars => (RecordsInv /\ RanType)'
  BY TypeNext, RanTypeNext, Kinds, RecordsAgreeNext, PinsHoldNext, CompletionEarnedNext
  DEF RecordsInv
<1>. QED
  BY <1>1, <1>2, PTL DEF Spec

---------------------------------------------------------------------------
(* The records on disk are the history of one task                         *)

LEMMA TaskInit == Init => Task!Init
  BY DEF Init, Task!Init, NewExecution

(* Writing the snapshot is the step that accepts, moves or keeps; writing  *)
(* the cursor is the one that reports; everything else changes no record.  *)
LEMMA TaskNext == RecordsInv /\ StepKinds => [Task!Next]_(Task!vars)
<1>. SUFFICES ASSUME RecordsInv, StepKinds PROVE [Task!Next]_(Task!vars)
  OBVIOUS
<1>. USE DEF RecordsInv
<1>1. ASSUME Untouched PROVE [Task!Next]_(Task!vars)
  BY <1>1 DEF Untouched, Task!vars
<1>2. CASE SnapshotWritten
  <2>1. /\ snapshot' # Nothing /\ snapshot'.execution = exec /\ snapshot'.under = using
        /\ cursor' = cursor
    BY <1>2, SnapshotOf DEF SnapshotWritten
  <2>2. Task!Bound
    BY <1>2, <2>1 DEF Task!Bound, SnapshotWritten, PinsHold, SamePins
  <2>3. CASE exec = Recorded
    BY <2>1, <2>2, <2>3 DEF Task!Next, Task!Keep, Recorded
  <2>4. CASE Accepted
    <3>1. PICK k \in Kind, v \in Verdict : exec = Submit(Recorded, k, v)
      BY <2>4 DEF Accepted
    <3>2. Task!Accept(k, v)
      BY <2>1, <3>1 DEF Task!Accept, Submit, Recorded
    <3>. QED
      BY <2>2, <3>2 DEF Task!Next, Verdict
  <2>5. CASE Moved
    <3>1. PICK j \in DOMAIN Transitions :
            /\ Transitions[j].from = Recorded.state
            /\ EvidencedBy(Recorded, Transitions[j].guard)
            /\ exec = Enter(Recorded, Transitions[j].to)
      BY <2>5 DEF Moved
    <3>2. Task!Move(j)
      BY <2>1, <3>1 DEF Task!Move, Task!Evidenced, EvidencedBy, Enter, Recorded
    <3>. QED
      BY <2>2, <3>2 DEF Task!Next
  <2>. QED
    BY <1>2, <2>3, <2>4, <2>5 DEF SnapshotWritten, RecordsAgree
<1>3. CASE CursorWritten
  <2>1. /\ snapshot' = snapshot /\ snapshot # Nothing /\ exec = snapshot.execution
        /\ cursor' = cur /\ cur # Nothing /\ cur \in Cursors
    BY <1>3, NotNothing DEF CursorWritten, RecordsAgree
  <2>2. Earned(exec, cur) /\ cur.status \in Task!Outcome
    BY <2>1, CursorFields DEF CompletionEarned, Task!Outcome, Status
  <2>3. Task!Report(cur.status)
    BY <2>1, <2>2 DEF Task!Report, Task!Evidenced, EvidencedBy, Earned
  <2>4. Task!Bound
    BY <2>1 DEF Task!Bound
  <2>. QED
    BY <2>2, <2>3, <2>4 DEF Task!Next
<1>. QED
  BY <1>1, <1>2, <1>3
  DEF StepKinds, Starts, Returns, Finishes, Loads, Advances, Begins, Concludes, Elsewhere

(* For every plan, and any number of sessions, crashes, retries and edits: *)
(* the records on disk implement a single task, which goes on under the    *)
(* rules it started with, takes one record of evidence or one permitted    *)
(* transition at a time, and is reported complete only when it was earned. *)
THEOREM RunImplementsTask == Spec => ImplementsTask
<1>1. RecordsInv /\ RanType /\ [Next]_vars => [Task!Next]_(Task!vars)
  BY Kinds, TaskNext DEF RecordsInv
<1>. QED
  BY <1>1, TaskInit, RecordsInvariant, PTL DEF Spec, ImplementsTask, Task!Spec

---------------------------------------------------------------------------
(* An operator is asked once                                               *)

LEMMA AskedBehindInit == Init => AskedBehind
  BY DEF Init, AskedBehind, Writing, Settled

LEMMA AskedBehindNext ==
  ASSUME TypeInv, RecordsAgree, AskedBehind, StepKinds
  PROVE  AskedBehind'
<1>. SUFFICES ASSUME crashes' = 0 PROVE AskedBehind'
  BY DEF AskedBehind
<1>. USE DEF Working, Writing, history, Untouched
<1>0. crashes = 0
  BY DEF TypeInv, StepKinds, Starts, Returns, Finishes, Loads, Advances, Begins, Concludes,
     SnapshotWritten, CursorWritten, Elsewhere
<1>1. ASSUME NEW e, NEW c, Starts(e, c) PROVE AskedBehind'
  BY <1>0, <1>1 DEF Starts, AskedBehind, Settled
<1>2. CASE Returns
  <2>1. pc \in {"loop", "route", "executing"} /\ Settled = asked
    BY <1>2, <1>0 DEF Returns, Settled
  <2>. QED
    BY <1>0, <1>2, <2>1 DEF Returns, AskedBehind, Settled
<1>3. CASE Finishes
  <2>1. /\ IF cursor = Nothing THEN asked = {} ELSE \A k \in asked : Behind(k, cursor)
        /\ cursor # Nothing => cur.state = cursor.state /\ cur.step = cursor.step
    BY <1>0, <1>3, NotNothing DEF Finishes, AskedBehind, Settled, RecordsAgree, SameStep
  <2>. QED
    BY <1>3, <2>1 DEF Finishes, AskedBehind, CursorKept, Behind
<1>4. CASE Loads
  BY <1>0, <1>4 DEF Loads, AskedBehind, Settled
<1>5. ASSUME NEW i \in DOMAIN Transitions, Advances(i) PROVE AskedBehind'
  BY <1>5 DEF Advances, AskedBehind
<1>6. CASE Begins
  <2>1. IF cursor = Nothing THEN asked = {} ELSE \A k \in asked : Behind(k, cursor)
    BY <1>0, <1>6 DEF Begins, AskedBehind, Settled
  <2>2. Key' = Key /\ Step' = Step
    BY <1>6 DEF Begins, CursorKept, Key, Step
  <2>3. Settled' \subseteq asked
    BY <1>6, <2>2 DEF Begins, Settled
  <2>. QED
    BY <1>6, <2>1, <2>3 DEF Begins, AskedBehind, Behind
<1>7. CASE Concludes
  <2>1. /\ IF cursor = Nothing THEN Settled = {} ELSE \A k \in Settled : Behind(k, cursor)
        /\ cursor # Nothing => cur.state = cursor.state /\ cur.step = cursor.step
    BY <1>0, <1>7 DEF Concludes, AskedBehind, RecordsAgree, SameStep
  <2>2. \A k \in Settled : Behind(k, cur)
    BY <2>1 DEF Behind
  <2>3. cur.step \in Nat /\ cur.step >= 1 /\ cur'.state = cur.state
    BY <1>7, CursorFields, NotNothing DEF Concludes, TypeInv, TypeOK
  <2>4. ASSUME NEW k \in asked PROVE Behind(k, cur')
    <3>1. CASE k \in Settled
      <4>1. k[1] = cur.state /\ k[2] \in 1 .. cur.step - 1
        BY <2>2, <3>1 DEF Behind
      <4>. QED
        BY <1>7, <2>3, <4>1 DEF Concludes, Behind
    <3>2. CASE k \notin Settled
      <4>1. k = <<cur.state, cur.step>> /\ Step.type = "operator"
        BY <3>2 DEF Settled, Key
      <4>. QED
        BY <1>7, <2>3, <4>1 DEF Concludes, Behind
    <3>. QED
      BY <3>1, <3>2
  <2>. QED
    BY <1>7, <2>4 DEF Concludes, AskedBehind
<1>8. CASE SnapshotWritten
  BY <1>0, <1>8 DEF SnapshotWritten, AskedBehind
<1>9. CASE CursorWritten
  BY <1>0, <1>9, NotNothing DEF CursorWritten, AskedBehind, Settled
<1>10. CASE Elsewhere
  BY <1>0, <1>10 DEF Elsewhere, AskedBehind, Settled, Key, Step
<1>. QED
  BY <1>1, <1>2, <1>3, <1>4, <1>5, <1>6, <1>7, <1>8, <1>9, <1>10 DEF StepKinds

LEMMA OperatorNotAskedBefore ==
  ASSUME TypeInv, RecordsAgree, AskedBehind, Begins, crashes = 0
  PROVE  Key \notin asked
<1>1. Settled = asked
  BY DEF Begins, Settled
<1>2. cursor # Nothing => cur.state = cursor.state /\ cur.step = cursor.step /\ cur.step \in Nat
  BY CursorFields DEF Begins, RecordsAgree, Working, SameStep
<1>. QED
  BY <1>1, <1>2 DEF Begins, AskedBehind, Writing, Behind, Key

AskedInv == asked \subseteq StepKey /\ AskedBehind

LEMMA AskedInvNext ==
  ASSUME TypeInv, RecordsAgree, AskedInv, StepKinds
  PROVE  AskedInv'
<1>1. asked' \subseteq StepKey
  <2>1. CASE Begins
    <3>1. Key \in StepKey
      BY <2>1, NotNothing, CurrentStep DEF Begins
    <3>. QED
      BY <2>1, <3>1 DEF Begins, AskedInv
  <2>2. CASE ~Begins
    BY <2>2 DEF AskedInv, StepKinds, history, Starts, Returns, Finishes, Loads, Advances,
       Concludes, SnapshotWritten, CursorWritten, Elsewhere
  <2>. QED
    BY <2>1, <2>2
<1>. QED
  BY <1>1, AskedBehindNext DEF AskedInv

(* For every plan: as long as nothing crashes, no operator step is         *)
(* executed again after a person was asked, until its state is entered     *)
(* again, over any number of sessions.                                     *)
THEOREM OperatorAskedOnce == Spec => AskedOnce
<1>1. Init => AskedInv
  BY AskedBehindInit DEF Init, AskedInv
<1>2. /\ RecordsInv /\ RanType /\ [Next]_vars => StepKinds
      /\ RecordsInv /\ AskedInv /\ StepKinds => AskedInv'
  BY Kinds, AskedInvNext DEF RecordsInv
<1>3. ASSUME RecordsInv, AskedInv, StepKinds
      PROVE  crashes = 0 => \A k \in asked : ran'[k] # ran[k] => asked' = {}
  <2>1. CASE Begins /\ crashes = 0
    <3>1. Key \notin asked
      BY <1>3, <2>1, OperatorNotAskedBefore DEF RecordsInv, AskedInv
    <3>. QED
      BY <1>3, <2>1, <3>1 DEF Begins, AskedInv
  <2>2. CASE ~Begins
    BY <1>3, <2>2 DEF StepKinds, history, Starts, Returns, Finishes, Loads, Advances,
       Concludes, SnapshotWritten, CursorWritten, Elsewhere
  <2>. QED
    BY <2>1, <2>2
<1>. QED
  BY <1>1, <1>2, <1>3, RecordsInvariant, PTL DEF Spec, AskedOnce

---------------------------------------------------------------------------
(* Visits and budgets                                                      *)

LEMMA SlackType == crashes \in Nat => Slack \in Nat /\ Unwritten \in Nat
  BY DEF Slack, Unwritten

LEMMA WithinMore ==
  ASSUME NEW e \in Executions, NEW c \in Cursors, NEW m \in Nat, NEW n \in Nat,
         m <= n, Within(e, c, m)
  PROVE  Within(e, c, n)
<1>. SUFFICES ASSUME NEW s \in State PROVE e.entered[s] <= c.visits[s] + n
  BY DEF Within
<1>1. e.entered[s] \in Nat /\ c.visits[s] \in Nat /\ e.entered[s] <= c.visits[s] + m
  BY CursorFields DEF Within, Executions
<1>. QED
  BY <1>1

(* The engine's entries and the cursor's visits are counted up together.   *)
LEMMA EnteredTogether ==
  ASSUME TypeInv, TypeInv', NEW i \in DOMAIN Transitions, Advances(i), NEW n \in Nat,
         Within(exec, cur, n)
  PROVE  Within(exec', cur', n)
<1>. DEFINE to == Transitions[i].to
<1>. SUFFICES ASSUME NEW s \in State PROVE exec'.entered[s] <= cur'.visits[s] + n
  BY DEF Within
<1>1. /\ exec.entered \in [State -> Nat] /\ cur.visits[s] \in Nat
      /\ exec.entered[s] <= cur.visits[s] + n
  BY CursorFields DEF Within, Executions, Advances
<1>2. exec'.entered = [exec.entered EXCEPT ![to] = @ + 1]
  BY TransitionFacts, EnterFacts DEF Advances
<1>3. exec'.entered[s] = exec.entered[s] + (IF s = to THEN 1 ELSE 0)
  BY <1>1, <1>2, TransitionFacts
<1>4. cur'.visits[s] = cur.visits[s] + (IF s = to THEN 1 ELSE 0)
  BY DEF Advances
<1>. QED
  BY <1>1, <1>3, <1>4

LEMMA VisitsCountedInit == Init => VisitsCounted
  BY DEF Init, VisitsCounted, Working, Writing

LEMMA VisitsCountedNext ==
  ASSUME TypeInv, TypeInv', RecordsAgree, VisitsCounted, StepKinds
  PROVE  VisitsCounted'
<1>. USE DEF Working, Writing, history, Untouched
<1>0. Slack \in Nat /\ Unwritten \in Nat /\ Slack' \in Nat /\ Unwritten' = Unwritten
  BY SlackType DEF TypeInv, Slack, Unwritten, SelfLoops
<1>s. crashes' = crashes => Slack' = Slack
  BY DEF Slack, SelfLoops
<1>d. /\ pc # "write_cursor" => SlackOnDisk = Slack
      /\ pc' # "write_cursor" => SlackOnDisk' = Slack'
      /\ pc' = "write_cursor" => SlackOnDisk' = Slack' + Unwritten
  BY <1>0 DEF SlackOnDisk
<1>c. /\ snapshot # Nothing => snapshot.execution \in Executions
      /\ cursor # Nothing => cursor \in Cursors
  BY DEF TypeInv, TypeOK, Snapshots
<1>1. ASSUME NEW e, NEW c, Starts(e, c) PROVE VisitsCounted'
  BY <1>1, <1>s, <1>d DEF Starts, VisitsCounted
<1>2. CASE Returns
  <2>1. CASE crashes' = crashes
    <3>1. crashes \in Nat
      BY DEF TypeInv
    <3>2. pc \in {"loop", "route", "executing"}
      BY <1>2, <2>1, <3>1 DEF Returns
    <3>. QED
      BY <1>2, <1>s, <1>d, <2>1, <3>2 DEF Returns, VisitsCounted
  <2>2. CASE crashes' = crashes + 1
    <3>1. Slack' = Slack + Unwritten /\ SlackOnDisk \in Nat /\ SlackOnDisk <= Slack'
      BY <2>2, <1>0 DEF Slack, Unwritten, SelfLoops, TypeInv, SlackOnDisk
    <3>2. ASSUME cursor # Nothing, snapshot.execution.state = cursor.state
          PROVE  Within(snapshot.execution, cursor, Slack')
      BY <1>0, <1>c, <3>1, <3>2, WithinMore DEF RecordsAgree, VisitsCounted
    <3>. QED
      BY <1>2, <1>d, <3>2 DEF Returns, VisitsCounted
  <2>. QED
    BY <1>2, <2>1, <2>2 DEF Returns
<1>3. CASE Finishes
  <2>1. exec \in Executions /\ cur \in Cursors /\ exec # Nothing /\ cur # Nothing
    BY <1>3, NotNothing DEF Finishes
  <2>2. exec.state = cur.state => Within(exec, cur, Slack)
    BY <1>3, <2>1, <1>d DEF Finishes, VisitsCounted, RecordsAgree
  <2>3. Within(exec', cur', Slack') = Within(exec, cur, Slack)
    BY <1>3, <1>s DEF Finishes, CursorKept, Within
  <2>4. ASSUME cursor # Nothing, exec.state = cursor.state
        PROVE  Within(exec, cursor, Slack + Unwritten)
    <3>1. Within(exec, cursor, Slack)
      BY <1>3, <2>1, <2>4, <1>d DEF Finishes, VisitsCounted, RecordsAgree, Recorded
    <3>. QED
      BY <1>0, <1>c, <2>1, <2>4, <3>1, WithinMore
  <2>. QED
    BY <1>3, <1>s, <1>d, <1>0, <2>2, <2>3, <2>4 DEF Finishes, VisitsCounted, CursorKept
<1>4. CASE Loads
  <2>1. /\ pc = "loop" /\ pc' = "route" /\ snapshot' = snapshot /\ cursor' = cursor
        /\ crashes' = crashes
    BY <1>4 DEF Loads
  <2>2. ASSUME exec'.state = cur'.state PROVE Within(exec', cur', Slack')
    <3>1. CASE exec = Nothing
      <4>1. exec' = NewExecution /\ CursorKept(FreshCursor, cur')
        BY <1>4, <2>1, <3>1 DEF Loads, RecordsAgree
      <4>2. NewExecution.entered = FreshCursor.visits
        BY DEF NewExecution, FreshCursor
      <4>3. NewExecution.entered \in [State -> Nat]
        BY NewExecutionFacts DEF Executions
      <4>. QED
        BY <1>0, <4>1, <4>2, <4>3 DEF Within, CursorKept
    <3>2. CASE exec # Nothing
      <4>1. /\ cursor # Nothing /\ exec = snapshot.execution /\ cur = cursor
            /\ exec' = exec /\ CursorKept(cur, cur')
        BY <1>4, <2>1, <3>2 DEF Loads, RecordsAgree
      <4>2. Within(exec, cur, Slack)
        BY <2>1, <2>2, <4>1, <1>d DEF CursorKept, VisitsCounted
      <4>. QED
        BY <2>1, <1>s, <4>1, <4>2 DEF Within, CursorKept
    <3>. QED
      BY <3>1, <3>2
  <2>. QED
    BY <2>1, <2>2, <1>s, <1>d DEF VisitsCounted
<1>5. ASSUME NEW i \in DOMAIN Transitions, Advances(i) PROVE VisitsCounted'
  <2>1. /\ pc = "route" /\ pc' = "write_snapshot" /\ snapshot' = snapshot /\ cursor' = cursor
        /\ crashes' = crashes /\ exec \in Executions /\ cur \in Cursors
        /\ exec = Recorded /\ exec.state = cur.state
    BY <1>5 DEF Advances, RecordsAgree
  <2>2. Within(exec', cur', Slack)
    BY <1>5, <2>1, <1>0, EnteredTogether DEF VisitsCounted
  <2>3. ASSUME cursor # Nothing, exec'.state = cursor.state
        PROVE  Within(exec', cursor, Slack + Unwritten)
    <3>1. /\ cursor.state = exec.state /\ exec = snapshot.execution
          /\ exec'.state = Transitions[i].to /\ Transitions[i].from = exec.state
      BY <1>5, <2>1, <2>3, TransitionFacts, EnterFacts
      DEF RecordsAgree, SameStep, Recorded, Advances
    <3>2. Unwritten = 1
      BY <2>3, <3>1 DEF Unwritten, SelfLoops
    <3>3. Within(exec, cursor, Slack)
      BY <2>1, <2>3, <3>1, <1>d DEF VisitsCounted
    <3>4. exec'.entered = [exec.entered EXCEPT ![Transitions[i].to] = @ + 1]
      BY <1>5, <2>1, TransitionFacts, EnterFacts DEF Advances
    <3>5. cursor.visits \in [State -> Nat] /\ exec.entered \in [State -> Nat]
      BY <1>c, <2>1, <2>3, CursorFields DEF Executions
    <3>6. ASSUME NEW s \in State PROVE exec'.entered[s] <= cursor.visits[s] + (Slack + 1)
      <4>1. exec.entered[s] <= cursor.visits[s] + Slack
        BY <3>3 DEF Within
      <4>2. exec'.entered[s] \in {exec.entered[s], exec.entered[s] + 1}
        BY <3>4, <3>5
      <4>3. exec.entered[s] \in Nat /\ cursor.visits[s] \in Nat
        BY <3>5
      <4>. QED
        BY <1>0, <4>1, <4>2, <4>3
    <3>. QED
      BY <3>2, <3>6 DEF Within
  <2>. QED
    BY <2>1, <2>2, <2>3, <1>0, <1>s, <1>d DEF VisitsCounted
<1>6. CASE Begins
  <2>1. VisitsSpent' = VisitsSpent
    BY <1>6 DEF Begins, VisitsSpent, CursorKept
  <2>2. Within(exec', cur', Slack') = Within(exec, cur, Slack)
    BY <1>6, <1>s DEF Begins, CursorKept, Within
  <2>. QED
    BY <1>6, <1>s, <1>d, <2>1, <2>2 DEF Begins, VisitsCounted, CursorKept
<1>7. CASE Concludes
  <2>1. /\ exec'.entered = exec.entered /\ exec'.state = exec.state
        /\ cur'.visits = cur.visits /\ cur'.state = cur.state
    <3>1. exec \in Executions
      BY <1>7 DEF Concludes
    <3>2. \A k \in Kind, v \in Verdict :
            /\ Submit(exec, k, v).entered = exec.entered
            /\ Submit(exec, k, v).state = exec.state
      BY <3>1 DEF Submit, Executions
    <3>. QED
      BY <1>7, <3>2 DEF Concludes
  <2>2. /\ pc = "executing" /\ pc' = "write_snapshot" /\ crashes' = crashes
        /\ snapshot' = snapshot /\ cursor' = cursor
        /\ exec \in Executions /\ cur \in Cursors /\ exec = Recorded
    BY <1>7 DEF Concludes, RecordsAgree
  <2>3. exec.state = cur.state /\ Within(exec, cur, Slack)
    BY <2>2 DEF RecordsAgree, VisitsCounted
  <2>4. Within(exec', cur', Slack)
    BY <2>1, <2>3 DEF Within
  <2>5. ASSUME cursor # Nothing, exec.state = cursor.state
        PROVE  Within(exec', cursor, Slack + Unwritten)
    <3>1. Within(exec, cursor, Slack)
      BY <2>2, <2>5, <1>d DEF VisitsCounted, RecordsAgree, Recorded
    <3>2. Within(exec, cursor, Slack + Unwritten)
      BY <1>0, <1>c, <2>2, <2>5, <3>1, WithinMore
    <3>. QED
      BY <2>1, <3>2 DEF Within
  <2>. QED
    BY <2>1, <2>2, <2>4, <2>5, <1>0, <1>s, <1>d DEF VisitsCounted
<1>8. CASE SnapshotWritten
  <2>1. /\ snapshot' # Nothing /\ snapshot'.execution = exec /\ cursor' = cursor
        /\ pc = "write_snapshot" /\ pc' = "write_cursor" /\ exec' = exec /\ cur' = cur
        /\ crashes' = crashes
    BY <1>8, SnapshotOf DEF SnapshotWritten
  <2>. QED
    BY <2>1, <1>0, <1>s, <1>d DEF VisitsCounted
<1>9. CASE CursorWritten
  <2>1. /\ cursor' = cur /\ snapshot' = snapshot /\ exec = snapshot.execution
        /\ pc = "write_cursor" /\ pc' \in {"idle", "loop"} /\ crashes' = crashes
    BY <1>9 DEF CursorWritten, RecordsAgree
  <2>. QED
    BY <2>1, <1>s, <1>d DEF VisitsCounted
<1>10. CASE Elsewhere
  <2>1. SlackOnDisk' = SlackOnDisk /\ (VisitsSpent' <=> VisitsSpent)
    BY <1>10, <1>s, <1>0 DEF Elsewhere, SlackOnDisk, VisitsSpent
  <2>. QED
    BY <1>10, <2>1, <1>0, <1>s DEF Elsewhere, VisitsCounted
<1>. QED
  BY <1>1, <1>2, <1>3, <1>4, <1>5, <1>6, <1>7, <1>8, <1>9, <1>10 DEF StepKinds

VisitsInv == RecordsInv /\ RanType /\ VisitsCounted

LEMMA VisitsInvariant == Spec => []VisitsInv
<1>1. Init => VisitsInv
  BY TypeInit, RanTypeInit, RecordsAgreeInit, VisitsCountedInit
  DEF Init, VisitsInv, RecordsInv, PinsHold, CompletionEarned
<1>2. VisitsInv /\ [Next]_vars => VisitsInv'
  BY TypeNext, RanTypeNext, Kinds, RecordsAgreeNext, PinsHoldNext, CompletionEarnedNext,
     VisitsCountedNext
  DEF VisitsInv, RecordsInv
<1>. QED
  BY <1>1, <1>2, PTL DEF Spec

LEMMA BudgetAndSlack ==
  ASSUME VisitsInv, pc = "executing"
  PROVE  exec.entered[cur.state] <= VisitBudget[cur.state] + Slack
<1>1. exec \in Executions /\ cur \in Cursors /\ exec.state = cur.state
  BY Loaded DEF VisitsInv, RecordsInv, RecordsAgree, Working
<1>2. exec.entered[cur.state] <= cur.visits[cur.state] + Slack
  BY <1>1, CursorFields DEF VisitsInv, VisitsCounted, Within, Working
<1>3. cur.visits[cur.state] <= VisitBudget[cur.state]
  BY <1>1, CursorFields, PlanAssumption DEF VisitsInv, VisitsCounted, VisitsSpent
<1>4. /\ exec.entered[cur.state] \in Nat /\ cur.visits[cur.state] \in Nat
      /\ VisitBudget[cur.state] \in Nat /\ Slack \in Nat
  BY <1>1, CursorFields, PlanAssumption, SlackType
  DEF Executions, VisitsInv, RecordsInv, TypeInv
<1>. QED
  BY <1>2, <1>3, <1>4

(* For every plan none of whose transitions re-enters the state it leaves: *)
(* no step runs in an entry past its state's visit budget, over every      *)
(* session, crash and resume.                                              *)
THEOREM VisitBudgetKept ==
  ASSUME \A i \in DOMAIN Transitions : Transitions[i].from # Transitions[i].to
  PROVE  Spec => []StepsWithinVisitBudget
<1>1. VisitsInv => StepsWithinVisitBudget
  <2>1. Slack = 0
    BY DEF Slack, SelfLoops
  <2>2. ASSUME VisitsInv, pc = "executing"
        PROVE  exec.entered[cur.state] <= VisitBudget[cur.state]
    <3>1. VisitBudget[cur.state] \in Nat
      BY <2>2, Loaded, CursorFields, PlanAssumption DEF VisitsInv, RecordsInv
    <3>. QED
      BY <2>1, <2>2, <3>1, BudgetAndSlack
  <2>. QED
    BY <2>2 DEF StepsWithinVisitBudget
<1>. QED
  BY <1>1, VisitsInvariant, PTL

(* For every plan: each crash lets at most one entry past the budget.      *)
THEOREM CrashesBoundEntries ==
  Spec => [](pc = "executing" =>
               exec.entered[cur.state] <= VisitBudget[cur.state] + crashes)
<1>1. ASSUME VisitsInv, pc = "executing"
      PROVE  exec.entered[cur.state] <= VisitBudget[cur.state] + crashes
  <2>1. /\ exec.entered[cur.state] \in Nat /\ VisitBudget[cur.state] \in Nat
        /\ crashes \in Nat /\ Slack \in Nat /\ Slack <= crashes
    BY <1>1, Loaded, CursorFields, PlanAssumption
    DEF VisitsInv, RecordsInv, TypeInv, Executions, Slack
  <2>. QED
    BY <1>1, <2>1, BudgetAndSlack
<1>. QED
  BY <1>1, VisitsInvariant, PTL

---------------------------------------------------------------------------
(* What the cursor's attempts say of the evidence submitted                *)

LEMMA CommandKeysFacts ==
  ASSUME NEW k
  PROVE  CommandKeys(k) \subseteq StepKey /\ IsFiniteSet(CommandKeys(k))
<1>. DEFINE Of(s) == {s} \X DOMAIN Steps[s]
            Blocks == {Of(s) : s \in State}
            of == [s \in State |-> Of(s)]
<1>1. CommandKeys(k) \subseteq StepKey
  BY DEF CommandKeys
<1>2. ASSUME NEW s \in State PROVE IsFiniteSet(Of(s))
  <2>1. IsFiniteSet({s}) /\ IsFiniteSet(1 .. Len(Steps[s]))
    <3>1. 1 \in Int /\ Len(Steps[s]) \in Int
      BY StepFacts
    <3>. QED
      BY <3>1, FS_Singleton, FS_Interval
  <2>. QED
    BY <2>1, StepFacts, FS_Product
<1>3. IsFiniteSet(Blocks)
  <2>1. of \in Surjection(State, Blocks)
    BY DEF Surjection
  <2>2. IsFiniteSet(State)
    BY PlanAssumption
  <2>. HIDE DEF of, Blocks
  <2>. QED
    BY <2>1, <2>2, FS_Surjection
<1>4. \A B \in Blocks : IsFiniteSet(B)
  BY <1>2
<1>5. IsFiniteSet(UNION Blocks)
  <2>. HIDE DEF Blocks
  <2>. QED
    BY <1>3, <1>4, FS_UNION
<1>6. StepKey = UNION Blocks
  BY DEF StepKey
<1>. QED
  BY <1>1, <1>5, <1>6, FS_Subset

LEMMA AttemptsTotal ==
  ASSUME NEW c, NEW k
  PROVE  Attempts(c, k) = Total(c.attempts, CommandKeys(k))
  BY DEF Attempts, Total

LEMMA AttemptsKept ==
  ASSUME NEW c, NEW d, d.attempts = c.attempts, NEW k
  PROVE  Attempts(d, k) = Attempts(c, k)
  BY AttemptsTotal

LEMMA AttemptsType ==
  ASSUME NEW c \in Cursors, NEW k
  PROVE  Attempts(c, k) \in Nat
<1>1. c.attempts \in [StepKey -> Nat]
  BY CursorFields
<1>. QED
  BY <1>1, CommandKeysFacts, AttemptsTotal, TotalFacts

LEMMA AttemptCounts ==
  ASSUME NEW c \in Cursors, NEW key \in StepKey, NEW k,
         NEW d, d.attempts = [c.attempts EXCEPT ![key] = @ + 1]
  PROVE  Attempts(d, k) = Attempts(c, k) + (IF key \in CommandKeys(k) THEN 1 ELSE 0)
<1>1. PICK a \in [StepKey -> Nat] : a = c.attempts
  BY CursorFields
<1>2. Total([a EXCEPT ![key] = @ + 1], CommandKeys(k))
        = Total(a, CommandKeys(k)) + (IF key \in CommandKeys(k) THEN 1 ELSE 0)
  BY CommandKeysFacts, TotalFacts
<1>3. /\ Attempts(d, k) = Total([a EXCEPT ![key] = @ + 1], CommandKeys(k))
      /\ Attempts(c, k) = Total(a, CommandKeys(k))
  BY <1>1, AttemptsTotal
<1>. QED
  BY <1>2, <1>3

(* A command step under way has been counted and has not been submitted;   *)
(* between the two writes the cursor on disk may be one attempt behind.    *)
UnderWay(k) == IF pc = "executing" /\ Key \in CommandKeys(k) THEN 1 ELSE 0
Ahead == IF pc = "write_cursor" THEN 1 ELSE 0

CountedInMemory(k) ==
  pc \in Working \cup Writing =>
    exec.submitted[k] + UnderWay(k) <= Attempts(cur, k) + crashes

CountedOnDisk(k) ==
  cursor # Nothing =>
    snapshot.execution.submitted[k] <= Attempts(cursor, k) + crashes + Ahead

AttemptsCounted == \A k \in Kind : CountedInMemory(k) /\ CountedOnDisk(k)

LEMMA AttemptsCountedInit == Init => AttemptsCounted
  BY DEF Init, AttemptsCounted, CountedInMemory, CountedOnDisk, Working, Writing

LEMMA SubmittedType ==
  ASSUME NEW e \in Executions, NEW k \in Kind
  PROVE  e.submitted[k] \in Nat
<1>1. e.submitted \in [Kind -> Nat]
  BY DEF Executions
<1>. QED
  BY <1>1

LEMMA SubmitCounts ==
  ASSUME NEW e \in Executions, NEW kind \in Kind, NEW v \in Verdict, NEW k \in Kind
  PROVE  Submit(e, kind, v).submitted[k] = e.submitted[k] + (IF k = kind THEN 1 ELSE 0)
<1>1. e.submitted \in [Kind -> Nat]
  BY DEF Executions
<1>2. Submit(e, kind, v).submitted[k] = [e.submitted EXCEPT ![kind] = @ + 1][k]
  BY DEF Submit, Executions
<1>. QED
  BY <1>1, <1>2

LEMMA AttemptsCountedNext ==
  ASSUME TypeInv, TypeInv', RecordsAgree, AttemptsCounted, StepKinds
  PROVE  AttemptsCounted'
<1>. SUFFICES ASSUME NEW k \in Kind PROVE CountedInMemory(k)' /\ CountedOnDisk(k)'
  BY DEF AttemptsCounted
<1>. USE DEF Working, Writing, history, Untouched
<1>a. CountedInMemory(k) /\ CountedOnDisk(k)
  BY DEF AttemptsCounted
<1>b. crashes \in Nat
  BY DEF TypeInv
<1>c. cursor # Nothing =>
        snapshot.execution.submitted[k] \in Nat /\ Attempts(cursor, k) \in Nat
  <2>1. cursor # Nothing => snapshot.execution \in Executions /\ cursor \in Cursors
    BY DEF TypeInv, TypeOK, Snapshots, RecordsAgree
  <2>. QED
    BY <2>1, AttemptsType, SubmittedType
<1>d. exec # Nothing => exec.submitted[k] \in Nat
  BY SubmittedType DEF TypeInv, TypeOK
<1>e. cur # Nothing => cur \in Cursors /\ Attempts(cur, k) \in Nat
  BY AttemptsType DEF TypeInv, TypeOK
<1>f. /\ pc # "write_cursor" => Ahead = 0
      /\ pc' # "write_cursor" => Ahead' = 0
      /\ pc' = "write_cursor" => Ahead' = 1
      /\ Ahead \in {0, 1}
  BY DEF Ahead
<1>g. /\ pc # "executing" => UnderWay(k) = 0
      /\ pc' # "executing" => UnderWay(k)' = 0
      /\ UnderWay(k) \in {0, 1}
  BY DEF UnderWay
<1>h. ASSUME pc # "write_cursor", pc' # "write_cursor", snapshot' = snapshot, cursor' = cursor,
             crashes' = crashes
      PROVE  CountedOnDisk(k)'
  BY <1>a, <1>f, <1>h DEF CountedOnDisk
<1>1. ASSUME NEW e, NEW c, Starts(e, c) PROVE CountedInMemory(k)' /\ CountedOnDisk(k)'
  BY <1>1, <1>h DEF Starts, CountedInMemory
<1>2. CASE Returns
  <2>1. CASE crashes' = crashes
    <3>1. pc \in {"loop", "route", "executing"}
      BY <1>2, <1>b, <2>1 DEF Returns
    <3>. QED
      BY <1>2, <1>h, <2>1, <3>1 DEF Returns, CountedInMemory
  <2>2. CASE crashes' = crashes + 1
    <3>1. pc' = "idle" /\ snapshot' = snapshot /\ cursor' = cursor
      BY <1>2 DEF Returns
    <3>2. CASE cursor = Nothing
      BY <3>1, <3>2 DEF CountedInMemory, CountedOnDisk
    <3>3. CASE cursor # Nothing
      <4>1. snapshot.execution.submitted[k] <= Attempts(cursor, k) + crashes + Ahead
        BY <1>a, <3>3 DEF CountedOnDisk
      <4>2. snapshot.execution.submitted[k] <= Attempts(cursor, k) + (crashes + 1) + 0
        BY <1>b, <1>c, <1>f, <3>3, <4>1
      <4>. QED
        BY <1>f, <2>2, <3>1, <4>2 DEF CountedInMemory, CountedOnDisk
    <3>. QED
      BY <3>2, <3>3
  <2>. QED
    BY <1>2, <2>1, <2>2 DEF Returns
<1>3. CASE Finishes
  <2>1. /\ pc \in {"loop", "route"} /\ pc' = "write_snapshot" /\ exec' = exec
        /\ cur'.attempts = cur.attempts /\ snapshot' = snapshot /\ cursor' = cursor
        /\ crashes' = crashes /\ exec # Nothing /\ cur # Nothing
    BY <1>3, NotNothing DEF Finishes
  <2>2. exec.submitted[k] <= Attempts(cur, k) + crashes
    <3>1. CASE pc = "loop"
      <4>1. cursor # Nothing /\ exec = snapshot.execution /\ cur = cursor
        BY <2>1, <3>1 DEF RecordsAgree
      <4>. QED
        BY <1>a, <1>b, <1>c, <1>f, <3>1, <4>1 DEF CountedOnDisk
    <3>2. CASE pc = "route"
      BY <1>a, <1>d, <1>g, <2>1, <3>2 DEF CountedInMemory
    <3>. QED
      BY <2>1, <3>1, <3>2
  <2>3. Attempts(cur', k) = Attempts(cur, k)
    BY <2>1, AttemptsKept
  <2>4. CountedInMemory(k)'
    BY <1>d, <1>g, <2>1, <2>2, <2>3 DEF CountedInMemory
  <2>. QED
    BY <1>h, <2>1, <2>4
<1>4. CASE Loads
  <2>1. /\ pc = "loop" /\ pc' = "route" /\ snapshot' = snapshot /\ cursor' = cursor
        /\ crashes' = crashes
    BY <1>4 DEF Loads
  <2>2. exec'.submitted[k] <= Attempts(cur', k) + crashes /\ exec'.submitted[k] \in Nat
    <3>1. CASE exec = Nothing
      <4>1. exec' = NewExecution
        BY <1>4, <3>1 DEF Loads
      <4>2. exec'.submitted[k] = 0
        BY <4>1 DEF NewExecution
      <4>3. cur' # Nothing
        BY <2>1 DEF TypeInv, TypeOK
      <4>4. Attempts(cur', k) \in Nat
        BY <4>3, AttemptsType DEF TypeInv, TypeOK
      <4>. QED
        BY <1>b, <4>2, <4>4
    <3>2. CASE exec # Nothing
      <4>1. cursor # Nothing /\ exec = snapshot.execution /\ cur = cursor
        BY <2>1, <3>2 DEF RecordsAgree
      <4>2. exec' = exec /\ cur'.attempts = cur.attempts
        BY <1>4, <3>2, <4>1 DEF Loads
      <4>3. Attempts(cur', k) = Attempts(cur, k)
        BY <4>2, AttemptsKept
      <4>4. exec.submitted[k] <= Attempts(cur, k) + crashes
        BY <1>a, <1>b, <1>c, <1>f, <2>1, <4>1 DEF CountedOnDisk
      <4>. QED
        BY <1>d, <3>2, <4>2, <4>3, <4>4
    <3>. QED
      BY <3>1, <3>2
  <2>3. CountedInMemory(k)'
    BY <1>g, <2>1, <2>2 DEF CountedInMemory
  <2>. QED
    BY <1>h, <2>1, <2>3
<1>5. ASSUME NEW i \in DOMAIN Transitions, Advances(i)
      PROVE  CountedInMemory(k)' /\ CountedOnDisk(k)'
  <2>1. /\ pc = "route" /\ pc' = "write_snapshot" /\ snapshot' = snapshot /\ cursor' = cursor
        /\ crashes' = crashes /\ exec \in Executions /\ cur \in Cursors
        /\ exec' = Enter(exec, Transitions[i].to) /\ cur'.attempts = cur.attempts
    BY <1>5 DEF Advances
  <2>2. exec'.submitted = exec.submitted
    BY <2>1, EnterFacts, TransitionFacts
  <2>3. Attempts(cur', k) = Attempts(cur, k)
    BY <2>1, AttemptsKept
  <2>4. exec.submitted[k] <= Attempts(cur, k) + crashes /\ exec.submitted[k] \in Nat
    BY <1>a, <1>g, <2>1, SubmittedType DEF CountedInMemory
  <2>5. CountedInMemory(k)'
    BY <1>g, <2>1, <2>2, <2>3, <2>4 DEF CountedInMemory
  <2>. QED
    BY <1>h, <2>1, <2>5
<1>6. CASE Begins
  <2>1. /\ pc = "route" /\ pc' = "executing" /\ snapshot' = snapshot /\ cursor' = cursor
        /\ crashes' = crashes /\ exec \in Executions /\ cur \in Cursors /\ StepsLeft
        /\ exec' = exec /\ cur'.attempts = [cur.attempts EXCEPT ![Key] = @ + 1]
        /\ cur'.state = cur.state /\ cur'.step = cur.step
    BY <1>6 DEF Begins, CursorKept
  <2>2. Key \in StepKey /\ Key' = Key
    BY <2>1, NotNothing, CurrentStep DEF Key
  <2>3. UnderWay(k)' = IF Key \in CommandKeys(k) THEN 1 ELSE 0
    BY <2>1, <2>2 DEF UnderWay
  <2>4. Attempts(cur', k) = Attempts(cur, k) + UnderWay(k)'
    BY <2>1, <2>2, <2>3, AttemptCounts
  <2>5. exec.submitted[k] <= Attempts(cur, k) + crashes /\ exec.submitted[k] \in Nat
    BY <1>a, <1>g, <2>1, SubmittedType DEF CountedInMemory
  <2>6. exec.submitted[k] + UnderWay(k)' <= (Attempts(cur, k) + UnderWay(k)') + crashes
    <3>1. UnderWay(k)' \in Nat /\ Attempts(cur, k) \in Nat
      BY <2>1, <2>3, AttemptsType
    <3>. QED
      BY <1>b, <2>5, <3>1
  <2>7. CountedInMemory(k)'
    BY <2>1, <2>4, <2>6 DEF CountedInMemory
  <2>. QED
    BY <1>h, <2>1, <2>7
<1>7. CASE Concludes
  <2>1. /\ pc = "executing" /\ pc' = "write_snapshot" /\ snapshot' = snapshot /\ cursor' = cursor
        /\ crashes' = crashes /\ exec \in Executions /\ cur \in Cursors /\ StepsLeft
        /\ cur'.attempts = cur.attempts
    BY <1>7 DEF Concludes
  <2>2. Attempts(cur', k) = Attempts(cur, k)
    BY <2>1, AttemptsKept
  <2>3. exec.submitted[k] + UnderWay(k) <= Attempts(cur, k) + crashes
    BY <1>a, <2>1 DEF CountedInMemory
  <2>4. exec'.submitted[k] <= exec.submitted[k] + UnderWay(k) /\ exec'.submitted[k] \in Nat
    <3>0. exec.submitted \in [Kind -> Nat]
      BY <2>1 DEF Executions
    <3>1. CASE exec' = exec
      BY <1>g, <3>0, <3>1
    <3>2. ASSUME Step.type = "command", Step.kind \in Kind,
                 NEW v \in Verdict, exec' = Submit(exec, Step.kind, v)
          PROVE  exec'.submitted[k] <= exec.submitted[k] + UnderWay(k) /\ exec'.submitted[k] \in Nat
      <4>1. PICK kind \in Kind : kind = Step.kind
        BY <3>2
      <4>2. exec' = Submit(exec, kind, v)
        BY <3>2, <4>1
      <4>3. exec'.submitted[k] = exec.submitted[k] + (IF k = kind THEN 1 ELSE 0)
        BY <2>1, <4>2, SubmitCounts
      <4>4. k = kind => UnderWay(k) = 1
        <5>1. Key \in StepKey /\ Step = Steps[Key[1]][Key[2]]
          BY <2>1, NotNothing, CurrentStep DEF Key, Step
        <5>2. k = kind => Key \in CommandKeys(k)
          BY <3>2, <4>1, <5>1 DEF CommandKeys
        <5>. QED
          BY <2>1, <5>2 DEF UnderWay
      <4>. QED
        BY <1>g, <3>0, <4>3, <4>4
    <3>. QED
      BY <1>7, <3>1, <3>2 DEF Concludes
  <2>5. exec'.submitted[k] + 0 <= Attempts(cur, k) + crashes
    <3>1. exec.submitted[k] \in Nat /\ Attempts(cur, k) \in Nat
      BY <2>1, AttemptsType, SubmittedType
    <3>. QED
      BY <1>b, <1>g, <2>3, <2>4, <3>1
  <2>6. CountedInMemory(k)'
    BY <1>g, <2>1, <2>2, <2>5 DEF CountedInMemory
  <2>. QED
    BY <1>h, <2>1, <2>6
<1>8. CASE SnapshotWritten
  <2>1. /\ snapshot' # Nothing /\ snapshot'.execution = exec /\ cursor' = cursor
        /\ pc = "write_snapshot" /\ pc' = "write_cursor" /\ exec' = exec /\ cur' = cur
        /\ crashes' = crashes /\ exec \in Executions
    BY <1>8, SnapshotOf DEF SnapshotWritten
  <2>2. CountedInMemory(k)'
    BY <1>a, <1>g, <2>1 DEF CountedInMemory
  <2>3. ASSUME cursor # Nothing
        PROVE  exec.submitted[k] <= snapshot.execution.submitted[k] + 1
    <3>1. Recorded = snapshot.execution /\ Recorded \in Executions
      BY <2>3, RecordedIsExecution DEF RecordsAgree, Recorded
    <3>2. Recorded.submitted \in [Kind -> Nat]
      BY <3>1 DEF Executions
    <3>3. CASE exec = Recorded
      BY <3>1, <3>2, <3>3
    <3>4. ASSUME NEW kind \in Kind, NEW v \in Verdict, exec = Submit(Recorded, kind, v)
          PROVE  exec.submitted[k] <= snapshot.execution.submitted[k] + 1
      <4>1. exec.submitted[k] = Recorded.submitted[k] + (IF k = kind THEN 1 ELSE 0)
        BY <3>1, <3>4, SubmitCounts
      <4>. QED
        BY <3>1, <3>2, <4>1
    <3>5. ASSUME NEW i \in DOMAIN Transitions, exec = Enter(Recorded, Transitions[i].to)
          PROVE  exec.submitted[k] <= snapshot.execution.submitted[k] + 1
      <4>1. exec.submitted = Recorded.submitted
        BY <3>1, <3>5, EnterFacts, TransitionFacts
      <4>. QED
        BY <3>1, <3>2, <4>1
    <3>. QED
      BY <2>1, <3>3, <3>4, <3>5 DEF RecordsAgree, Accepted, Moved
  <2>4. ASSUME cursor # Nothing
        PROVE  exec.submitted[k] <= Attempts(cursor, k) + crashes + 1
    <3>1. snapshot.execution.submitted[k] <= Attempts(cursor, k) + crashes
      BY <1>a, <1>b, <1>c, <1>f, <2>1, <2>4 DEF CountedOnDisk
    <3>2. exec.submitted[k] \in Nat
      BY <2>1, SubmittedType
    <3>. QED
      BY <1>b, <1>c, <2>3, <2>4, <3>1, <3>2
  <2>. QED
    BY <1>f, <2>1, <2>2, <2>4 DEF CountedOnDisk
<1>9. CASE CursorWritten
  <2>1. /\ cursor' = cur /\ snapshot' = snapshot /\ exec = snapshot.execution
        /\ pc = "write_cursor" /\ pc' \in {"idle", "loop"} /\ crashes' = crashes
        /\ exec \in Executions /\ cur \in Cursors
    BY <1>9 DEF CursorWritten, RecordsAgree
  <2>2. exec.submitted[k] <= Attempts(cur, k) + crashes
    BY <1>a, <1>g, <2>1, SubmittedType DEF CountedInMemory
  <2>3. exec.submitted[k] <= Attempts(cur, k) + crashes + 0
    <3>1. exec.submitted[k] \in Nat /\ Attempts(cur, k) \in Nat
      BY <2>1, AttemptsType, SubmittedType
    <3>. QED
      BY <1>b, <2>2, <3>1
  <2>. QED
    BY <1>f, <2>1, <2>3 DEF CountedInMemory, CountedOnDisk
<1>10. CASE Elsewhere
  <2>1. /\ UNCHANGED <<pc, exec, cur, snapshot, cursor, crashes>>
        /\ UnderWay(k)' = UnderWay(k) /\ Ahead' = Ahead
    BY <1>10 DEF Elsewhere, UnderWay, Ahead, Key
  <2>. QED
    BY <1>a, <2>1 DEF CountedInMemory, CountedOnDisk
<1>. QED
  BY <1>1, <1>2, <1>3, <1>4, <1>5, <1>6, <1>7, <1>8, <1>9, <1>10 DEF StepKinds

AttemptsInv == RecordsInv /\ RanType /\ AttemptsCounted

(* For every plan, number of sessions, crashes and edits: over a run, the  *)
(* evidence on record of a kind is at most what the attempts of its        *)
(* command steps account for and one record more for each crash.           *)
THEOREM DuplicatesBounded == Spec => []DuplicatesBoundedByCrashes
<1>1. Init => AttemptsInv
  BY TypeInit, RanTypeInit, RecordsAgreeInit, AttemptsCountedInit
  DEF Init, AttemptsInv, RecordsInv, PinsHold, CompletionEarned
<1>2. AttemptsInv /\ [Next]_vars => AttemptsInv'
  BY TypeNext, RanTypeNext, Kinds, RecordsAgreeNext, PinsHoldNext, CompletionEarnedNext,
     AttemptsCountedNext
  DEF AttemptsInv, RecordsInv
<1>3. AttemptsInv => DuplicatesBoundedByCrashes
  <2>1. ASSUME AttemptsInv, pc = "idle", cursor # Nothing, NEW k \in Kind
        PROVE  snapshot.execution.submitted[k] <= Attempts(cursor, k) + crashes
    <3>1. snapshot.execution.submitted[k] <= Attempts(cursor, k) + crashes + 0
      BY <2>1 DEF AttemptsInv, AttemptsCounted, CountedOnDisk, Ahead
    <3>2. Attempts(cursor, k) \in Nat /\ crashes \in Nat
      BY <2>1, AttemptsType DEF AttemptsInv, RecordsInv, TypeInv, TypeOK
    <3>. QED
      BY <3>1, <3>2
  <2>. QED
    BY <2>1 DEF DuplicatesBoundedByCrashes
<1>. QED
  BY <1>1, <1>2, <1>3, PTL DEF Spec

=============================================================================
