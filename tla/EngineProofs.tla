---------------------------- MODULE EngineProofs ----------------------------
(* Proofs about Engine, Preflight and FactStore, for every plan, log and   *)
(* clock: what the engine answers after reading the clock it answers from  *)
(* evidence that stands, what is decided before a run holds of the run,    *)
(* and what its predicates say of the facts it reads.                      *)
EXTENDS Preflight, FactStore, FiniteSetTheorems, WellFoundedInduction, TLAPS

---------------------------------------------------------------------------
(* Induction.  The provers take no predicate as a parameter; the least     *)
(* element of a set of naturals and the minimal one under a relation serve.*)

Less == {pair \in Nat \X Nat : pair[1] < pair[2]}

LEMMA LessIsWellFounded == IsWellFoundedOn(Less, Nat)
  BY NatLessThanWellFounded DEF OpToRel, Less

LEMMA LeastOf ==
  ASSUME NEW T, T \subseteq Nat, T # {}
  PROVE  \E n \in T : \A m \in T : n <= m
<1>1. PICK n \in T : \A m \in T : ~ (<<m, n>> \in Less)
  BY LessIsWellFounded, WFMin
<1>2. ASSUME NEW m \in T, m < n PROVE FALSE
  <2>1. <<m, n>> \in Nat \X Nat /\ <<m, n>>[1] < <<m, n>>[2]
    BY <1>2
  <2>2. <<m, n>> \in Less
    BY <2>1, Zenon DEF Less
  <2>. QED
    BY <1>1, <2>2
<1>3. n \in Nat /\ \A m \in T : m \in Nat
  OBVIOUS
<1>. QED
  BY <1>2, <1>3

LEMMA MinIsLeast ==
  ASSUME NEW T, T \subseteq Nat, T # {}
  PROVE  Min(T) \in T /\ \A m \in T : Min(T) <= m
  BY LeastOf DEF Min

(* A definition that reads only what lies below the point it defines has a *)
(* solution.  Step[x][g] is the value at x, given the values of g.         *)
ReadsBelow(Step, R, S, V) ==
  \A x \in S : \A g, h \in [S -> V] :
    (\A y \in S : <<y, x>> \in R => g[y] = h[y]) => Step[x][g] = Step[x][h]

IsSolution(f, Step, S) == \A x \in S : f[x] = Step[x][f]

LEMMA RecursionHasASolution ==
  ASSUME NEW S, NEW R, IsWellFoundedOn(R, S), IsTransitivelyClosedOn(R, S),
         NEW V, V # {}, NEW Step, Step \in [S -> [[S -> V] -> V]], ReadsBelow(Step, R, S, V)
  PROVE  \E f \in [S -> V] : IsSolution(f, Step, S)
<1>. DEFINE F == [S -> V]
            Down(x) == {y \in S : y = x \/ <<y, x>> \in R}
            Solves(g, x) == \A y \in Down(x) : g[y] = Step[y][g]
            Good == {x \in S : \E g \in F : Solves(g, x)}
<1>. HIDE DEF F
<1>. USE DEF ReadsBelow
<1>1. ASSUME NEW x \in S, NEW y \in Down(x) PROVE Down(y) \subseteq Down(x)
  BY DEF IsTransitivelyClosedOn
(* Two solutions agree wherever both solve.                                *)
<1>2. ASSUME NEW x \in S, NEW g \in F, NEW h \in F, Solves(g, x), Solves(h, x)
      PROVE  \A y \in Down(x) : g[y] = h[y]
  <2>. DEFINE Differ == {y \in Down(x) : g[y] # h[y]}
  <2>. SUFFICES ASSUME Differ # {} PROVE FALSE
    OBVIOUS
  <2>1. Differ \subseteq S
    OBVIOUS
  <2>. HIDE DEF Differ
  <2>2. PICK y \in Differ : \A z \in Differ : ~ (<<z, y>> \in R)
    BY <2>1, WFMin
  <2>3. y \in Down(x) /\ y \in S /\ g[y] # h[y]
    BY DEF Differ
  <2>4. \A z \in S : <<z, y>> \in R => g[z] = h[z]
    BY <2>2, <2>3, <1>1 DEF Differ
  <2>5. Step[y][g] = Step[y][h]
    BY <2>3, <2>4 DEF F
  <2>. QED
    BY <2>3, <2>5, <1>2
<1>3. Good = S
  <2>. SUFFICES ASSUME S \ Good # {} PROVE FALSE
    OBVIOUS
  <2>1. PICK x \in S \ Good : \A y \in S \ Good : ~ (<<y, x>> \in R)
    BY WFMin
  <2>. DEFINE h == [y \in S |-> CHOOSE g \in F : Solves(g, y)]
  <2>2. ASSUME NEW y \in S, <<y, x>> \in R PROVE h[y] \in F /\ Solves(h[y], y)
    BY <2>1, <2>2
  <2>3. PICK v : v \in V
    OBVIOUS
  <2>. HIDE DEF h
  <2>. DEFINE low == [y \in S |-> IF <<y, x>> \in R THEN h[y][y] ELSE v]
  <2>4. low \in F
    <3>1. ASSUME NEW y \in S, <<y, x>> \in R PROVE h[y][y] \in V
      BY <2>2, <3>1 DEF F
    <3>. QED
      BY <2>3, <3>1 DEF F
  <2>. DEFINE full == [y \in S |-> IF y = x THEN Step[x][low] ELSE low[y]]
  <2>5. full \in F
    <3>1. Step[x][low] \in V /\ \A y \in S : low[y] \in V
      <4>. HIDE DEF low
      <4>. QED
        BY <2>4 DEF F
    <3>. QED
      BY <3>1 DEF F
  <2>6. <<x, x>> \notin R
    BY WellFoundedIsIrreflexive
  <2>7. ASSUME NEW y \in S, <<y, x>> \in R PROVE full[y] = Step[y][full]
    <3>1. full[y] = h[y][y] /\ h[y][y] = Step[y][h[y]]
      BY <2>2, <2>6, <2>7
    <3>2. ASSUME NEW z \in S, <<z, y>> \in R PROVE full[z] = h[y][z]
      <4>1. <<z, x>> \in R
        BY <2>7, <3>2 DEF IsTransitivelyClosedOn
      <4>2. full[z] = h[z][z]
        BY <2>6, <4>1
      <4>3. z \in Down(y) /\ z \in Down(z)
        BY <3>2
      <4>4. Solves(h[y], z) /\ Solves(h[z], z) /\ h[y] \in F /\ h[z] \in F
        BY <1>1, <2>2, <2>7, <4>1, <4>3
      <4>. HIDE DEF Solves, Down, full, low
      <4>. QED
        BY <1>2, <4>2, <4>3, <4>4
    <3>3. h[y] \in F /\ \A z \in S : <<z, y>> \in R => full[z] = h[y][z]
      BY <2>2, <2>7, <3>2
    <3>. HIDE DEF full, low
    <3>4. Step[y][full] = Step[y][h[y]]
      BY <2>5, <3>3 DEF F
    <3>. QED
      BY <3>1, <3>4
  <2>8. full[x] = Step[x][full]
    <3>1. \A y \in S : <<y, x>> \in R => full[y] = low[y]
      BY <2>6
    <3>2. full[x] = Step[x][low]
      OBVIOUS
    <3>. HIDE DEF full, low
    <3>3. Step[x][full] = Step[x][low]
      BY <2>4, <2>5, <3>1 DEF F
    <3>. QED
      BY <3>2, <3>3
  <2>9. Solves(full, x)
    BY <2>7, <2>8
  <2>. QED
    BY <2>1, <2>5, <2>9
<1>. DEFINE one == [x \in S |-> CHOOSE g \in F : Solves(g, x)]
            f == [x \in S |-> one[x][x]]
<1>4. ASSUME NEW x \in S PROVE one[x] \in F /\ Solves(one[x], x)
  BY <1>3
<1>. HIDE DEF one
<1>5. f \in F
  <2>1. ASSUME NEW x \in S PROVE one[x][x] \in V
    BY <1>4 DEF F
  <2>. QED
    BY <2>1 DEF F
<1>6. ASSUME NEW x \in S PROVE f[x] = Step[x][f]
  <2>1. f[x] = one[x][x] /\ one[x][x] = Step[x][one[x]]
    BY <1>4
  <2>2. ASSUME NEW y \in S, <<y, x>> \in R PROVE f[y] = one[x][y]
    <3>1. f[y] = one[y][y] /\ y \in Down(y) /\ y \in Down(x)
      BY <2>2
    <3>2. Solves(one[x], y) /\ Solves(one[y], y)
      BY <1>1, <1>4, <3>1
    <3>. HIDE DEF Solves, Down, f, one
    <3>. QED
      BY <1>2, <1>4, <3>1, <3>2
  <2>. HIDE DEF f
  <2>3. one[x] \in F /\ \A y \in S : <<y, x>> \in R => f[y] = one[x][y]
    BY <1>4, <2>2
  <2>4. Step[x][f] = Step[x][one[x]]
    BY <1>5, <2>3 DEF F
  <2>. QED
    BY <2>1, <2>4
<1>. QED
  BY <1>5, <1>6 DEF F, IsSolution

---------------------------------------------------------------------------
(* What the definitions of the model compute.                              *)

LEMMA SetsAreOrdered == IsWellFoundedOn(Less, SetId) /\ IsTransitivelyClosedOn(Less, SetId)
<1>1. SetId \subseteq Nat
  BY SetAssumption
<1>2. IsWellFoundedOn(Less, SetId)
  BY <1>1, LessIsWellFounded, IsWellFoundedOnSubset
<1>3. IsTransitivelyClosedOn(Less, SetId)
  BY <1>1 DEF IsTransitivelyClosedOn, Less
<1>. QED
  BY <1>2, <1>3

LEMMA AndIs ==
  ASSUME NEW truths
  PROVE  /\ And(truths) \in Truth
         /\ And(truths) = "true" => "false" \notin truths /\ "unknown" \notin truths
  BY DEF And, Truth

(* RequirementSet::evaluate, as an equation: the sets a condition leads to *)
(* have lower numbers, so the definition has its solution.                 *)
WithoutConditions(s, x) ==
  LET truth == TruthIn(Facts(x))
  IN {truth[p] : p \in Sets[s].predicates}
       \cup {EvidenceTruth(r, x) : r \in Sets[s].evidence}
       \cup {ApprovalTruth(r, x) : r \in Sets[s].approvals}
       \cup {IF a \in x.graph.met THEN "true" ELSE "unknown" : a \in Sets[s].artifacts}

UnderCondition(c, x, t) ==
  CASE TruthIn(Facts(x))[c.when] = "false" -> "true"
    [] TruthIn(Facts(x))[c.when] = "unknown" -> "unknown"
    [] OTHER -> t[c.require]

LEMMA SetTruthsAre ==
  ASSUME NEW x, NEW s \in SetId
  PROVE  SetTruths(x)[s] =
           And(WithoutConditions(s, x)
                 \cup {UnderCondition(c, x, SetTruths(x)) : c \in Sets[s].conditional})
<1>. DEFINE Eq(t, n) == And(WithoutConditions(n, x)
                              \cup {UnderCondition(c, x, t) : c \in Sets[n].conditional})
            Step == [n \in SetId |-> [g \in [SetId -> Truth] |-> Eq(g, n)]]
<1>1. Step \in [SetId -> [[SetId -> Truth] -> Truth]]
  BY AndIs
<1>2. ASSUME NEW n \in SetId, NEW g \in [SetId -> Truth], NEW h \in [SetId -> Truth],
             \A m \in SetId : <<m, n>> \in Less => g[m] = h[m]
      PROVE  Step[n][g] = Step[n][h]
  <2>1. ASSUME NEW c \in Sets[n].conditional PROVE g[c.require] = h[c.require]
    <3>1. c.require \in SetId /\ c.require \in Nat /\ n \in Nat /\ c.require < n
      BY SetAssumption
    <3>2. <<c.require, n>> \in Less
      BY <3>1 DEF Less
    <3>. QED
      BY <1>2, <3>1, <3>2
  <2>2. \A c \in Sets[n].conditional : UnderCondition(c, x, g) = UnderCondition(c, x, h)
    BY <2>1 DEF UnderCondition
  <2>3. {UnderCondition(c, x, g) : c \in Sets[n].conditional}
          = {UnderCondition(c, x, h) : c \in Sets[n].conditional}
    BY <2>2
  <2>. QED
    BY <2>3
<1>3. Truth # {}
  BY DEF Truth
<1>. HIDE DEF Step
<1>4. ReadsBelow(Step, Less, SetId, Truth)
  BY <1>2 DEF ReadsBelow
<1>10. PICK f \in [SetId -> Truth] : IsSolution(f, Step, SetId)
  BY <1>1, <1>3, <1>4, SetsAreOrdered, RecursionHasASolution
<1>5. \A n \in SetId : f[n] = Eq(f, n)
  BY <1>10 DEF Step, IsSolution
<1>. HIDE DEF Eq
<1>6. f = [n \in SetId |-> Eq(f, n)]
  BY <1>5
<1>7. SetTruths(x) = CHOOSE t : t = [n \in SetId |-> Eq(t, n)]
  BY DEF SetTruths, Eq, WithoutConditions, UnderCondition
<1>8. SetTruths(x) = [n \in SetId |-> Eq(SetTruths(x), n)]
  BY <1>6, <1>7
<1>9. SetTruths(x)[s] = Eq(SetTruths(x), s)
  BY <1>8
<1>. QED
  BY <1>9 DEF Eq

(* A set that is true has every requirement of its own met, and leads to   *)
(* true sets wherever its conditions are not refuted.                      *)
LEMMA TrueSets ==
  ASSUME NEW x, NEW s \in SetId, SetTruths(x)[s] = "true"
  PROVE  /\ \A p \in Sets[s].predicates : TruthIn(Facts(x))[p] \notin {"false", "unknown"}
         /\ \A r \in Sets[s].evidence : EvidenceTruth(r, x) = "true"
         /\ \A c \in Sets[s].conditional :
              TruthIn(Facts(x))[c.when] = "false" \/ SetTruths(x)[c.require] = "true"
<1>. DEFINE truths == WithoutConditions(s, x)
                        \cup {UnderCondition(c, x, SetTruths(x)) : c \in Sets[s].conditional}
<1>1. "false" \notin truths /\ "unknown" \notin truths
  BY SetTruthsAre, AndIs
<1>2. \A p \in Sets[s].predicates : TruthIn(Facts(x))[p] \in truths
  BY DEF WithoutConditions
<1>3. \A r \in Sets[s].evidence : EvidenceTruth(r, x) \in truths
  BY DEF WithoutConditions
<1>4. \A r \in Sets[s].evidence : EvidenceTruth(r, x) \in {"true", "false", "unknown"}
  BY DEF EvidenceTruth
<1>5. ASSUME NEW c \in Sets[s].conditional, TruthIn(Facts(x))[c.when] # "false"
      PROVE  SetTruths(x)[c.require] = "true"
  <2>1. UnderCondition(c, x, SetTruths(x)) \in truths
    OBVIOUS
  <2>2. TruthIn(Facts(x))[c.when] # "unknown"
    BY <1>1, <1>5, <2>1 DEF UnderCondition
  <2>3. SetTruths(x)[c.require] \in truths
    BY <1>5, <2>1, <2>2 DEF UnderCondition
  <2>4. SetTruths(x)[c.require] \in Truth
    <3>1. c.require \in SetId
      BY SetAssumption
    <3>2. SetTruths(x)[c.require] =
            And(WithoutConditions(c.require, x)
              \cup {UnderCondition(d, x, SetTruths(x)) : d \in Sets[c.require].conditional})
      BY <3>1, SetTruthsAre
    <3>. QED
      BY <3>2, AndIs
  <2>. QED
    BY <1>1, <2>3, <2>4 DEF Truth
<1>. HIDE DEF truths
<1>. QED
  BY <1>1, <1>2, <1>3, <1>4, <1>5

---------------------------------------------------------------------------
(* Types.  The log is a sequence of submissions with their two instants;   *)
(* the states entered end where the execution stands.                      *)
LogRecord ==
  {r \in {EvidenceRecord(s, o, p) : s \in Submissions, o \in Instant, p \in Instant} :
     r.observed <= r.produced}

History(x) ==
  /\ x.state \in State /\ x.entered \in Seq(State) /\ x.entered # <<>>
  /\ x.state = x.entered[Len(x.entered)] /\ x.entered[1] = Initial
  /\ x.evidence \in Seq(LogRecord) /\ Len(x.evidence) <= MaxEvidence

TypeInv ==
  /\ clock \in Instant /\ exec.at \in 0 .. clock /\ exec.graph \in Graphs
  /\ exec = [state |-> exec.state, entered |-> exec.entered, evidence |-> exec.evidence,
             graph |-> exec.graph, at |-> exec.at]
  /\ History(exec) /\ (saved # None => History(saved))

LEMMA RecordIs ==
  ASSUME NEW s \in Submissions, NEW o, NEW p
  PROVE  LET r == EvidenceRecord(s, o, p)
         IN /\ r.observed = o /\ r.produced = p
            /\ \A field \in DOMAIN s : r[field] = s[field]
<1>1. "observed" \notin DOMAIN s /\ "produced" \notin DOMAIN s
  BY SubmissionAssumption
<1>. QED
  BY <1>1 DEF EvidenceRecord

LEMMA RecordsAreRecords == ASSUME NEW r \in LogRecord PROVE Record(r)
<1>1. PICK s \in Submissions, o \in Instant, p \in Instant :
        r = EvidenceRecord(s, o, p)
  BY DEF LogRecord
<1>2. r.observed = o /\ r.produced = p /\ \A field \in DOMAIN s : r[field] = s[field]
  BY <1>1, RecordIs
<1>3. r.observed <= r.produced
  BY DEF LogRecord
<1>. QED
  BY <1>2, <1>3 DEF Record

LEMMA TypeInvIsType == TypeInv => TypeOK
<1>1. ASSUME NEW x, History(x) PROVE Log(x)
  <2>1. \A r \in Range(x.evidence) : r \in LogRecord
    BY <1>1 DEF History, Range
  <2>. QED
    BY <1>1, <2>1, RecordsAreRecords DEF History, Log
<1>. QED
  BY <1>1 DEF TypeInv, TypeOK

LEMMA TypeInit == Init => TypeInv
<1>. SUFFICES ASSUME Init PROVE TypeInv
  OBVIOUS
<1>1. PICK g \in Graphs :
        exec = [state |-> Initial, entered |-> <<Initial>>, evidence |-> <<>>, graph |-> g, at |-> 0]
  BY DEF Init
<1>2. clock \in Instant /\ clock = 0 /\ saved = None
  BY EngineBounds DEF Init, Instant
<1>3. /\ exec.state = Initial /\ exec.entered = <<Initial>> /\ exec.evidence = <<>>
      /\ exec.graph = g /\ exec.at = 0
  BY <1>1
<1>4. History(exec)
  BY <1>3, PlanAssumption, EngineBounds DEF History
<1>. QED
  BY <1>1, <1>2, <1>3, <1>4 DEF TypeInv

(* What a call that reads the clock decides on, and what it may lead to.   *)
Now == [exec EXCEPT !.at = clock]

LEMMA NowIs ==
  ASSUME TypeInv
  PROVE  Now = [state |-> exec.state, entered |-> exec.entered, evidence |-> exec.evidence,
                graph |-> exec.graph, at |-> clock]
  BY DEF TypeInv, Now

Moved(now, i) ==
  [now EXCEPT !.state = Transitions[i].to, !.entered = Append(@, Transitions[i].to)]

LEMMA ProceedsTo ==
  ASSUME NEW now, Proceed(now)
  PROVE  \/ outcome' = [is |-> "blocked", via |-> 0] /\ exec' = now
         \/ outcome' = [is |-> "completed", via |-> 0] /\ exec' = now /\ IsComplete(now)
         \/ \E i \in Permitted(now) :
              /\ outcome' = [is |-> "moved", via |-> i]
              /\ exec' = Moved(now, i)
<1>. DEFINE open == IF IsComplete(now) THEN {0} ELSE Permitted(now)
<1>1. Permitted(now) \subseteq DOMAIN Transitions /\ 0 \notin Permitted(now)
  BY PlanAssumption DEF Permitted
<1>2. CASE open = {} /\ exec' = now /\ Answer("blocked")
  BY <1>2 DEF Answer
<1>3. CASE open = {0} /\ exec' = now /\ Answer("completed")
  BY <1>1, <1>3 DEF Answer
<1>4. CASE /\ open \notin {{}, {0}}
           /\ exec' = Moved(now, Min(open))
           /\ outcome' = [is |-> "moved", via |-> Min(open)]
  <2>1. open = Permitted(now) /\ open # {} /\ open \subseteq Nat
    BY <1>1, <1>4, PlanAssumption
  <2>2. Min(open) \in Permitted(now)
    BY <2>1, MinIsLeast
  <2>. QED
    BY <1>4, <2>2
<1>. QED
  BY <1>2, <1>3, <1>4 DEF Proceed, Moved

LEMMA MovedIs ==
  ASSUME TypeInv, NEW i
  PROVE  Moved(Now, i) = [state |-> Transitions[i].to,
                          entered |-> Append(exec.entered, Transitions[i].to),
                          evidence |-> exec.evidence, graph |-> exec.graph, at |-> clock]
<1>1. PICK now : now = Now
  OBVIOUS
<1>2. Moved(now, i) = [now EXCEPT !.state = Transitions[i].to,
                                  !.entered = Append(now.entered, Transitions[i].to)]
  BY DEF Moved
<1>3. now = [state |-> exec.state, entered |-> exec.entered, evidence |-> exec.evidence,
             graph |-> exec.graph, at |-> clock]
  BY <1>1, NowIs
<1>4. now.entered = exec.entered
  BY <1>3
<1>5. Moved(now, i) = [now EXCEPT !.state = Transitions[i].to,
                                  !.entered = Append(exec.entered, Transitions[i].to)]
  BY <1>2, <1>4
<1>6. Moved(now, i) = [state |-> Transitions[i].to,
                       entered |-> Append(exec.entered, Transitions[i].to),
                       evidence |-> exec.evidence, graph |-> exec.graph, at |-> clock]
  BY ONLY <1>3, <1>5
<1>. QED
  BY <1>1, <1>6

LEMMA TypeNext == TypeInv /\ [Next]_vars => TypeInv'
<1>. SUFFICES ASSUME TypeInv, [Next]_vars PROVE TypeInv'
  OBVIOUS
<1>0. clock \in Nat /\ MaxClock \in Nat /\ exec.at \in Nat
  BY EngineBounds DEF TypeInv, Instant
<1>1. CASE UNCHANGED vars
  BY <1>1 DEF TypeInv, History, vars
<1>2. CASE Tick
  BY <1>0, <1>2 DEF Tick, TypeInv, History, Instant
<1>3. CASE SetArtifacts
  <2>1. PICK g \in Graphs : exec' = [exec EXCEPT !.graph = g]
    BY <1>3 DEF SetArtifacts
  <2>2. exec' = [state |-> exec.state, entered |-> exec.entered, evidence |-> exec.evidence,
                 graph |-> g, at |-> exec.at]
    BY <2>1 DEF TypeInv
  <2>. QED
    BY <1>3, <2>2 DEF SetArtifacts, TypeInv, History
<1>4. ASSUME NEW s \in Submissions, NEW t \in 0 .. MaxClock, Submit(s, t) PROVE TypeInv'
  <2>. DEFINE record == EvidenceRecord(s, t, clock)
  <2>1. record \in LogRecord
    <3>1. t \in Instant /\ clock \in Instant /\ t <= clock
      BY <1>4 DEF Submit, Instant, TypeInv
    <3>2. record.observed = t /\ record.produced = clock
      BY RecordIs
    <3>. QED
      BY <3>1, <3>2 DEF LogRecord
  <2>. HIDE DEF record
  <2>2. exec' = [exec EXCEPT !.at = clock, !.evidence = Append(@, record)]
    BY <1>4 DEF Submit, record
  <2>3. exec' = [state |-> exec.state, entered |-> exec.entered,
                 evidence |-> Append(exec.evidence, record), graph |-> exec.graph, at |-> clock]
    BY <2>2 DEF TypeInv
  <2>4. exec.evidence \in Seq(LogRecord) /\ Len(exec.evidence) < MaxEvidence /\ MaxEvidence \in Nat
    BY <1>4, EngineBounds DEF Submit, TypeInv, History
  <2>5. /\ Append(exec.evidence, record) \in Seq(LogRecord)
        /\ Len(Append(exec.evidence, record)) <= MaxEvidence
    BY <2>1, <2>4
  <2>6. History(exec)'
    BY <2>3, <2>5 DEF History, TypeInv
  <2>7. UNCHANGED <<clock, saved>>
    BY <1>4 DEF Submit
  <2>. QED
    BY <1>0, <2>3, <2>6, <2>7 DEF TypeInv, History
<1>5. CASE Transition
  <2>1. Proceed(Now) /\ UNCHANGED <<clock, saved>>
    BY <1>5 DEF Transition, Now
  <2>2. CASE exec' = Now
    BY <1>0, <2>1, <2>2, NowIs DEF TypeInv, History
  <2>3. ASSUME NEW i \in Permitted(Now), exec' = Moved(Now, i) PROVE TypeInv'
    <3>1. Transitions[i].to \in State
      BY PlanAssumption DEF Permitted
    <3>2. exec' = [state |-> Transitions[i].to, entered |-> Append(exec.entered, Transitions[i].to),
                   evidence |-> exec.evidence, graph |-> exec.graph, at |-> clock]
      BY <2>3, MovedIs
    <3>3. exec.entered \in Seq(State) /\ exec.entered # <<>> /\ exec.entered[1] = Initial
      BY DEF TypeInv, History
    <3>4. LET e == Append(exec.entered, Transitions[i].to)
          IN e \in Seq(State) /\ e # <<>> /\ e[Len(e)] = Transitions[i].to /\ e[1] = Initial
      BY <3>1, <3>3
    <3>5. History(exec)'
      BY <3>1, <3>2, <3>4 DEF History, TypeInv
    <3>. QED
      BY <1>0, <2>1, <3>2, <3>5 DEF TypeInv, History
  <2>. QED
    BY <2>1, <2>2, <2>3, ProceedsTo
<1>6. CASE Save
  <2>1. saved' = [state |-> exec.state, entered |-> exec.entered, evidence |-> exec.evidence]
    BY <1>6 DEF Save
  <2>2. History(saved)'
    BY <2>1 DEF History, TypeInv
  <2>. QED
    BY <1>6, <2>2 DEF Save, TypeInv, History
<1>7. CASE Restore
  <2>1. PICK g \in Graphs :
          exec' = [state |-> saved.state, entered |-> saved.entered, evidence |-> saved.evidence,
                   graph |-> g, at |-> clock]
    BY <1>7 DEF Restore
  <2>2. History(exec)'
    BY <1>7, <2>1 DEF Restore, TypeInv, History
  <2>. QED
    BY <1>0, <1>7, <2>1, <2>2 DEF Restore, TypeInv, History
<1>. QED
  BY <1>1, <1>2, <1>3, <1>4, <1>5, <1>6, <1>7 DEF Next, SubmitEvidence

(* For every plan: the execution stands in the last state it entered, and  *)
(* no record of its log, restored or not, was observed after it was        *)
(* submitted (execution.rs 150-225).                                       *)
THEOREM TypeCorrect == Spec => []TypeOK
  BY TypeInit, TypeNext, TypeInvIsType, PTL DEF Spec

---------------------------------------------------------------------------
(* Evidence that counts.                                                   *)

Requirement == PrincipleEvidence \cup UNION {Sets[s].evidence : s \in SetId}

LEMMA EvidenceOfIs == ASSUME NEW s \in SetId PROVE EvidenceOf(s) \subseteq Requirement
<1>1. Sets[s].evidence \subseteq Requirement
  BY DEF Requirement
<1>2. ASSUME NEW c \in Sets[s].conditional PROVE Sets[c.require].evidence \subseteq Requirement
  <2>1. c.require \in SetId
    BY SetAssumption
  <2>. QED
    BY <2>1 DEF Requirement
<1>. QED
  BY <1>1, <1>2 DEF EvidenceOf

LEMMA PlanSetsAre == PlanSets \subseteq SetId
  BY PlanAssumption DEF PlanSets, Range

LEMMA PlanRequirementsAre == PlanRequirements \subseteq Requirement
  BY PlanSetsAre, EvidenceOfIs DEF PlanRequirements, Requirement

LEMMA HorizonsAre == ASSUME NEW kind PROVE Horizons(kind) \subseteq Nat
<1>1. \A r \in PlanRequirements : r.horizon \in Nat
  BY PlanRequirementsAre, HorizonAssumption DEF Requirement
<1>. QED
  BY <1>1 DEF Horizons

LEMMA SubsetsCountLess ==
  ASSUME NEW n \in Nat, NEW S \in SUBSET (1 .. n), NEW T \in SUBSET S
  PROVE  /\ Cardinality(T) \in Nat /\ Cardinality(S) \in Nat
         /\ Cardinality(T) <= Cardinality(S)
<1>1. IsFiniteSet(1 .. n)
  BY FS_Interval
<1>2. IsFiniteSet(S)
  BY <1>1, FS_Subset
<1>3. IsFiniteSet(T) /\ Cardinality(T) <= Cardinality(S)
  BY <1>2, FS_Subset
<1>. QED
  BY <1>2, <1>3, FS_CardinalityType

LEMMA TruthIsACount ==
  ASSUME NEW req, NEW x
  PROVE  EvidenceTruth(req, x) = "true" <=> Cardinality(Counted(req, x)) >= req.atLeast
  BY DEF EvidenceTruth

(* A log of the engine, and what each of its records is.                   *)
LEMMA LogIs ==
  ASSUME NEW x, History(x)
  PROVE  /\ Len(x.evidence) \in Nat /\ DOMAIN x.evidence = 1 .. Len(x.evidence)
         /\ \A i \in DOMAIN x.evidence :
              x.evidence[i] \in LogRecord /\ x.evidence[i].observed \in Nat
<1>1. x.evidence \in Seq(LogRecord)
  BY DEF History
<1>2. \A r \in LogRecord : r.observed \in Nat
  BY RecordsAreRecords, EngineBounds DEF Record, Instant
<1>. QED
  BY <1>1, <1>2

(* What counts at the instant an execution was read at stands then.        *)
StandsIn(req, x, now) ==
  Cardinality({i \in Matching(req, x) :
                 /\ ~Unbound(x.evidence[i], x.graph)
                 /\ req.horizon = NoHorizon
                      \/ now - x.evidence[i].observed <= req.horizon}) >= req.atLeast

LEMMA CountedStands ==
  ASSUME NEW x, History(x), x.at \in Nat, NEW req \in Requirement, EvidenceTruth(req, x) = "true"
  PROVE  StandsIn(req, x, x.at)
<1>. DEFINE today == {i \in Matching(req, x) :
                        /\ ~Unbound(x.evidence[i], x.graph)
                        /\ req.horizon = NoHorizon
                             \/ x.at - x.evidence[i].observed <= req.horizon}
<1>1. req.horizon \in Nat /\ req.atLeast \in Nat
  BY HorizonAssumption DEF Requirement
<1>2. Counted(req, x) \subseteq today
  BY <1>1, LogIs DEF Counted, Matching, Stands, Covers
<1>3. today \subseteq 1 .. Len(x.evidence) /\ Len(x.evidence) \in Nat
  BY LogIs DEF Matching
<1>. HIDE DEF today
<1>4. /\ Cardinality(Counted(req, x)) \in Nat /\ Cardinality(today) \in Nat
      /\ Cardinality(Counted(req, x)) <= Cardinality(today)
  BY <1>2, <1>3, SubsetsCountLess
<1>5. Cardinality(Counted(req, x)) >= req.atLeast
  BY TruthIsACount
<1>6. Cardinality(today) >= req.atLeast
  BY <1>1, <1>4, <1>5
<1>. QED
  BY <1>6 DEF today, StandsIn

LEMMA ReadingsAreInstants == TypeInv => exec.at \in Nat /\ clock \in Nat /\ History(exec)
  BY EngineBounds DEF TypeInv, Instant

---------------------------------------------------------------------------
(* The clock is read by every call that answers.                           *)
ClockRead == outcome.is # "none" => exec.at = clock

LEMMA ClockReadInit == Init => ClockRead
  BY DEF Init, ClockRead

LEMMA ClockReadNext == TypeInv /\ ClockRead /\ [Next]_vars => ClockRead'
<1>. SUFFICES ASSUME TypeInv, ClockRead, [Next]_vars PROVE ClockRead'
  OBVIOUS
<1>1. CASE UNCHANGED vars
  BY <1>1 DEF ClockRead, vars
<1>2. CASE Tick \/ SetArtifacts \/ Save
  BY <1>2 DEF Tick, SetArtifacts, Save, Answer, ClockRead
<1>3. ASSUME NEW s \in Submissions, NEW t \in 0 .. MaxClock, Submit(s, t) PROVE ClockRead'
  <2>1. exec' = [exec EXCEPT !.at = clock, !.evidence = Append(@, EvidenceRecord(s, t, clock))]
        /\ clock' = clock
    BY <1>3 DEF Submit
  <2>2. exec'.at = clock
    BY <2>1 DEF TypeInv
  <2>. QED
    BY <2>1, <2>2 DEF ClockRead
<1>4. CASE Transition
  <2>1. Proceed(Now) /\ clock' = clock
    BY <1>4 DEF Transition, Now
  <2>2. exec' = Now \/ \E i \in Permitted(Now) : exec' = Moved(Now, i)
    BY <2>1, ProceedsTo
  <2>3. exec'.at = clock
    BY <2>2, NowIs, MovedIs
  <2>. QED
    BY <2>1, <2>3 DEF ClockRead
<1>5. CASE Restore
  BY <1>5 DEF Restore, ClockRead
<1>. QED
  BY <1>1, <1>2, <1>3, <1>4, <1>5 DEF Next, SubmitEvidence

(* After every call that answers, what the engine reports as met is met by *)
(* observations that stand at the instant of the call, on any log: an old  *)
(* one restored, or one appended to after its records lapsed               *)
(* (execution.rs 304-327).                                                 *)
THEOREM AnswersReadTheClock == Spec => []EntryPointsReadTheClock
<1>1. TypeInv /\ ClockRead => EntryPointsReadTheClock
  BY CountedStands, PlanRequirementsAre, ReadingsAreInstants
  DEF EntryPointsReadTheClock, ClockRead, StandsToday, StandsIn
<1>. QED
  BY <1>1, TypeInit, TypeNext, ClockReadInit, ClockReadNext, PTL DEF Spec

---------------------------------------------------------------------------
(* A record submitted long after it was observed counts for nothing that   *)
(* did not count without it: only a new observation restores what lapsed   *)
(* (evidence-horizons-design-v0.1.md 5.6, execution.rs 204-211).           *)
THEOREM OldNewsIsNoNews == Spec => ResubmissionRestoresNothing
<1>1. ASSUME TypeInv, NEW s \in Submissions, NEW t \in 0 .. MaxClock, Submit(s, t),
             NEW r \in PlanRequirements, r.horizon # NoHorizon,
             clock - exec'.evidence[Len(exec'.evidence)].observed > r.horizon,
             EvidenceTruth(r, exec') = "true"
      PROVE  EvidenceTruth(r, [exec EXCEPT !.at = clock]) = "true"
  <2>1. PICK after : after = exec'
    OBVIOUS
  <2>2. PICK record : record = EvidenceRecord(s, t, clock)
    OBVIOUS
  <2>3. after = [exec EXCEPT !.at = clock, !.evidence = Append(@, record)]
    BY <1>1, <2>1, <2>2 DEF Submit
  <2>4. after = [state |-> exec.state, entered |-> exec.entered,
                 evidence |-> Append(exec.evidence, record), graph |-> exec.graph, at |-> clock]
    BY <1>1, <2>3 DEF TypeInv
  <2>5. PICK now : now = Now
    OBVIOUS
  <2>6. now = [state |-> exec.state, entered |-> exec.entered, evidence |-> exec.evidence,
               graph |-> exec.graph, at |-> clock]
    BY <1>1, <2>5, NowIs
  <2>7. PICK n \in Nat : n = Len(exec.evidence)
    BY <1>1, LogIs DEF TypeInv
  <2>8. /\ DOMAIN exec.evidence = 1 .. n /\ DOMAIN after.evidence = 1 .. n + 1
        /\ after.evidence[n + 1] = record /\ Len(after.evidence) = n + 1
        /\ \A i \in 1 .. n : after.evidence[i] = exec.evidence[i]
    <3>1. exec.evidence \in Seq(LogRecord)
      BY <1>1 DEF TypeInv, History
    <3>2. exec.evidence \in Seq(LogRecord \cup {record})
      BY <3>1
    <3>. QED
      BY <2>4, <2>7, <3>2
  <2>9. record.observed = t /\ t \in Nat /\ clock \in Nat
    BY <1>1, <2>2, RecordIs, EngineBounds DEF TypeInv, Instant
  <2>10. r.horizon \in Nat /\ r.atLeast \in Nat
    BY PlanRequirementsAre, HorizonAssumption DEF Requirement
  <2>11. ~Stands(r, record, clock)
    BY <1>1, <2>1, <2>8, <2>9, <2>10 DEF Stands, Covers
  <2>12. Counted(r, after) \subseteq Counted(r, now)
    BY <2>4, <2>6, <2>8, <2>11 DEF Counted, Matching
  <2>13. Counted(r, now) \subseteq 1 .. n
    BY <2>6, <2>8 DEF Counted, Matching
  <2>14. /\ Cardinality(Counted(r, after)) \in Nat /\ Cardinality(Counted(r, now)) \in Nat
         /\ Cardinality(Counted(r, after)) <= Cardinality(Counted(r, now))
    BY <2>12, <2>13, SubsetsCountLess
  <2>15. EvidenceTruth(r, after) = "true"
    BY <1>1, <2>1
  <2>16. Cardinality(Counted(r, now)) >= r.atLeast
    BY <2>10, <2>14, <2>15, TruthIsACount
  <2>. QED
    BY <2>5, <2>16, TruthIsACount DEF Now
<1>2. TypeInv /\ [Next]_vars =>
        [outcome'.is = "submitted" =>
           \A r \in PlanRequirements :
             /\ r.horizon # NoHorizon
             /\ clock - exec'.evidence[Len(exec'.evidence)].observed > r.horizon
             /\ EvidenceTruth(r, exec') = "true"
             => EvidenceTruth(r, [exec EXCEPT !.at = clock]) = "true"]_vars
  <2>. SUFFICES ASSUME TypeInv, Next, outcome'.is = "submitted"
                PROVE  \E s \in Submissions : \E t \in 0 .. MaxClock : Submit(s, t)
    BY <1>1
  <2>1. CASE Transition
    <3>1. Proceed(Now)
      BY <2>1 DEF Transition, Now
    <3>. QED
      BY <3>1, ProceedsTo
  <2>. QED
    BY <2>1 DEF Next, SubmitEvidence, Tick, SetArtifacts, Save, Restore, Answer
<1>. QED
  BY <1>2, TypeInit, TypeNext, PTL DEF Spec, ResubmissionRestoresNothing

---------------------------------------------------------------------------
(* What is required of a gate is read at the instant it is passed.         *)

LEMMA SetsOfAreSets == ASSUME NEW i \in DOMAIN Transitions PROVE SetsOf(i) \subseteq SetId
  BY PlanAssumption DEF SetsOf, OwedToEnter, OwedNow

(* The state an execution stands in is nothing its evidence is read by.    *)
LEMMA EvidenceIgnoresState ==
  ASSUME NEW x, NEW y, x.evidence = y.evidence, x.graph = y.graph, x.at = y.at, NEW req
  PROVE  EvidenceTruth(req, x) = EvidenceTruth(req, y)
<1>1. Matching(req, x) = Matching(req, y)
  BY DEF Matching
<1>2. Counted(req, x) = Counted(req, y)
  BY <1>1 DEF Counted
<1>. QED
  BY <1>1, <1>2 DEF EvidenceTruth

LEMMA RequirementsStoodInit == Init => RequirementsStood
  BY DEF Init, RequirementsStood

LEMMA RequirementsStoodNext == TypeInv /\ RequirementsStood /\ [Next]_vars => RequirementsStood'
<1>. SUFFICES ASSUME TypeInv, RequirementsStood, [Next]_vars PROVE RequirementsStood'
  OBVIOUS
<1>0. TypeInv'
  BY TypeNext
<1>1. CASE UNCHANGED vars
  BY <1>1 DEF RequirementsStood, StandsToday, Matching, vars
<1>2. CASE Tick \/ SetArtifacts \/ SubmitEvidence \/ Save \/ Restore
  <2>1. outcome'.is \in {"none", "submitted", "restored"}
    <3>1. CASE Tick \/ SetArtifacts \/ Save
      BY <3>1 DEF Tick, SetArtifacts, Save, Answer
    <3>2. CASE SubmitEvidence
      BY <3>2 DEF SubmitEvidence, Submit, Answer
    <3>3. CASE Restore
      BY <3>3 DEF Restore, Answer
    <3>. QED
      BY <1>2, <3>1, <3>2, <3>3
  <2>. QED
    BY <2>1 DEF RequirementsStood
<1>3. CASE Transition
  <2>1. Proceed(Now) /\ clock' = clock
    BY <1>3 DEF Transition, Now
  <2>2. CASE outcome' = [is |-> "blocked", via |-> 0]
    BY <2>2 DEF RequirementsStood
  <2>3. CASE outcome' = [is |-> "completed", via |-> 0] /\ exec' = Now /\ IsComplete(Now)
    <3>1. exec'.at = clock'
      BY <2>1, <2>3, NowIs
    <3>2. SetTruths(Now)[Completion] = "true"
      BY <2>3 DEF IsComplete
    <3>3. \A r \in Sets[Completion].evidence \cup PrincipleEvidence : EvidenceTruth(r, Now) = "true"
      BY <2>3, <3>2, TrueSets, PlanAssumption DEF IsComplete
    <3>4. \A r \in Sets[Completion].evidence \cup PrincipleEvidence :
             r \in Requirement /\ EvidenceTruth(r, exec)' = "true"
      BY <2>3, <3>3, PlanAssumption DEF Requirement
    <3>5. \A r \in Sets[Completion].evidence \cup PrincipleEvidence : StandsToday(r)'
      <4>1. PICK after : after = exec'
        OBVIOUS
      <4>2. History(after) /\ after.at \in Nat /\ after.at = clock'
        BY <1>0, <3>1, <4>1, EngineBounds DEF TypeInv, Instant, History
      <4>3. \A r \in Sets[Completion].evidence \cup PrincipleEvidence : StandsIn(r, after, clock')
        BY <3>4, <4>1, <4>2, CountedStands
      <4>. QED
        BY <4>1, <4>3 DEF StandsToday, StandsIn
    <3>6. ASSUME NEW v \in PrincipleVerification
          PROVE  \E r \in Range(exec'.evidence) :
                    r.by = v /\ \A h \in Horizons(r.kind) : clock' - r.observed <= h
      <4>1. VerificationTruth(v, Now) = "true"
        BY <2>3 DEF IsComplete
      <4>2. PICK r \in Range(exec'.evidence) : r.by = v /\ ~HasLapsed(r, exec'.at)
        BY <2>3, <4>1 DEF VerificationTruth
      <4>3. r.observed \in Nat
        BY <1>0, <4>2, LogIs DEF TypeInv, Range
      <4>4. \A h \in Horizons(r.kind) : Covers(h, r.observed, clock')
        BY <3>1, <4>2 DEF HasLapsed
      <4>5. clock' \in Nat
        BY <1>0, EngineBounds DEF TypeInv, Instant
      <4>6. \A h \in Horizons(r.kind) : clock' - r.observed <= h
        BY <4>3, <4>4, <4>5, HorizonsAre DEF Covers
      <4>. QED
        BY <4>2, <4>6
    <3>. QED
      BY <2>3, <3>5, <3>6 DEF RequirementsStood
  <2>4. ASSUME NEW i \in Permitted(Now), outcome' = [is |-> "moved", via |-> i],
               exec' = Moved(Now, i)
        PROVE  RequirementsStood'
    <3>1. exec'.at = clock'
      BY <2>1, <2>4, MovedIs
    <3>2. /\ exec'.evidence = Now.evidence /\ exec'.graph = Now.graph /\ exec'.at = Now.at
      BY <2>4, MovedIs, NowIs
    <3>3. i \in DOMAIN Transitions /\ \A s \in SetsOf(i) : SetTruths(Now)[s] = "true"
      BY DEF Permitted
    <3>4. ASSUME NEW s \in SetsOf(i), NEW r \in Sets[s].evidence PROVE StandsToday(r)'
      <4>1. s \in SetId /\ r \in Requirement
        BY <3>3, SetsOfAreSets DEF Requirement
      <4>2. EvidenceTruth(r, Now) = "true"
        BY <3>3, <4>1, TrueSets
      <4>3. EvidenceTruth(r, exec)' = "true"
        BY <3>2, <4>2, EvidenceIgnoresState
      <4>. QED
        <5>1. PICK after : after = exec'
          OBVIOUS
        <5>2. History(after) /\ after.at \in Nat /\ after.at = clock'
          BY <1>0, <3>1, <5>1, EngineBounds DEF TypeInv, Instant, History
        <5>3. StandsIn(r, after, clock')
          BY <4>1, <4>3, <5>1, <5>2, CountedStands
        <5>. QED
          BY <5>1, <5>3 DEF StandsToday, StandsIn
    <3>5. outcome'.is = "moved" /\ outcome'.via = i /\ SetsOf(i)' = SetsOf(i)
      BY <2>4 DEF SetsOf, OwedToEnter, OwedNow, Targets
    <3>. QED
      BY <3>4, <3>5 DEF RequirementsStood
  <2>. QED
    BY <2>1, <2>2, <2>3, <2>4, ProceedsTo
<1>. QED
  BY <1>1, <1>2, <1>3 DEF Next

---------------------------------------------------------------------------
(* What the facts of an execution are bound by.                            *)

LEMMA MaxIsIn ==
  ASSUME NEW n \in Nat, NEW S, S \subseteq 1 .. n, S # {}
  PROVE  Max(S) \in S /\ \A m \in S : m <= Max(S)
<1>. DEFINE T == {n - i : i \in S}
<1>1. T \subseteq Nat /\ T # {}
  <2>1. \A i \in S : n - i \in Nat
    OBVIOUS
  <2>. QED
    BY <2>1
<1>. HIDE DEF T
<1>2. PICK t \in T : \A m \in T : t <= m
  BY <1>1, LeastOf
<1>3. PICK i \in S : t = n - i
  BY DEF T
<1>4. \A j \in S : n - i <= n - j
  BY <1>2, <1>3 DEF T
<1>5. \A j \in S : j <= i
  BY <1>4
<1>6. \A j \in S : i >= j
  BY <1>5
<1>. QED
  BY <1>6 DEF Max

LEMMA SubsetsAreOrdered ==
  ASSUME NEW S, IsFiniteSet(S)
  PROVE  /\ IsWellFoundedOn(StrictSubsetOrdering(S), SUBSET S)
         /\ IsTransitivelyClosedOn(StrictSubsetOrdering(S), SUBSET S)
<1>1. IsWellFoundedOn(StrictSubsetOrdering(S), SUBSET S)
  BY FS_StrictSubsetOrderingWellFounded, FS_FiniteSubsetsOfFinite
<1>2. IsTransitivelyClosedOn(StrictSubsetOrdering(S), SUBSET S)
  BY DEF IsTransitivelyClosedOn, StrictSubsetOrdering
<1>. QED
  BY <1>1, <1>2

(* The facts once the records of a set have spoken, the last one last.     *)
Layer(x, below, set) ==
  IF set = {} THEN Extended(PlanFacts, x.graph.facts)
  ELSE IF HasLapsed(x.evidence[Max(set)], x.at) THEN below[set \ {Max(set)}]
  ELSE Extended(below[set \ {Max(set)}], x.evidence[Max(set)].facts)

Layers(x) ==
  CHOOSE layers : layers = [set \in SUBSET DOMAIN x.evidence |-> Layer(x, layers, set)]

LEMMA ObservedIsLayered == ASSUME NEW x PROVE Observed(x) = Layers(x)[DOMAIN x.evidence]
  BY DEF Observed, FoldLeft, MapThenFoldSet, Layers, Layer

LEMMA LayersAre ==
  ASSUME NEW x, NEW n \in Nat, DOMAIN x.evidence = 1 .. n, NEW set \in SUBSET (1 .. n)
  PROVE  Layers(x)[set] = Layer(x, Layers(x), set)
<1>. DEFINE S == SUBSET (1 .. n)
            base == Extended(PlanFacts, x.graph.facts)
            P == DOMAIN base \cup UNION {DOMAIN x.evidence[i].facts : i \in 1 .. n}
            W == {base[p] : p \in DOMAIN base}
                   \cup UNION {{x.evidence[i].facts[p] : p \in DOMAIN x.evidence[i].facts} : i \in 1 .. n}
            V == UNION {[D -> W] : D \in SUBSET P}
            Step == [T \in S |-> [g \in [S -> V] |-> Layer(x, g, T)]]
<1>1. ASSUME NEW T \in S, T # {}
      PROVE  /\ Max(T) \in T /\ T \ {Max(T)} \in S
             /\ <<T \ {Max(T)}, T>> \in StrictSubsetOrdering(1 .. n)
  BY <1>1, MaxIsIn DEF StrictSubsetOrdering
<1>2. base \in V
  <2>1. base \in [DOMAIN base -> W]
    BY DEF Extended
  <2>. QED
    BY <2>1
<1>3. ASSUME NEW f \in V, NEW i \in 1 .. n PROVE Extended(f, x.evidence[i].facts) \in V
  <2>1. PICK D \in SUBSET P : f \in [D -> W]
    OBVIOUS
  <2>. DEFINE E == DOMAIN x.evidence[i].facts
  <2>2. E \subseteq P /\ \A p \in E : x.evidence[i].facts[p] \in W
    OBVIOUS
  <2>. HIDE DEF P, W, E
  <2>3. Extended(f, x.evidence[i].facts) \in [D \cup E -> W]
    BY <2>1, <2>2 DEF Extended, E
  <2>4. D \cup E \in SUBSET P
    BY <2>2
  <2>. QED
    BY <2>3, <2>4
<1>. HIDE DEF V, base
<1>4. ASSUME NEW T \in S, NEW g \in [S -> V] PROVE Layer(x, g, T) \in V
  <2>1. CASE T = {}
    BY <1>2, <2>1 DEF Layer, base
  <2>2. CASE T # {}
    <3>1. g[T \ {Max(T)}] \in V /\ Max(T) \in 1 .. n
      BY <1>1, <2>2
    <3>. QED
      BY <1>3, <2>2, <3>1 DEF Layer
  <2>. QED
    BY <2>1, <2>2
<1>5. Step \in [S -> [[S -> V] -> V]]
  BY <1>4
<1>6. ReadsBelow(Step, StrictSubsetOrdering(1 .. n), S, V)
  <2>. SUFFICES ASSUME NEW T \in S, NEW g \in [S -> V], NEW h \in [S -> V],
                       \A U \in S : <<U, T>> \in StrictSubsetOrdering(1 .. n) => g[U] = h[U]
                PROVE  Step[T][g] = Step[T][h]
    BY DEF ReadsBelow
  <2>1. T # {} => g[T \ {Max(T)}] = h[T \ {Max(T)}]
    BY <1>1
  <2>2. Layer(x, g, T) = Layer(x, h, T)
    BY <2>1 DEF Layer
  <2>. QED
    BY <2>2
<1>7. IsFiniteSet(1 .. n) /\ V # {}
  BY <1>2, FS_Interval
<1>. HIDE DEF S, Step
<1>8. /\ IsWellFoundedOn(StrictSubsetOrdering(1 .. n), S)
      /\ IsTransitivelyClosedOn(StrictSubsetOrdering(1 .. n), S)
  BY <1>7, SubsetsAreOrdered DEF S
<1>9. PICK f \in [S -> V] : IsSolution(f, Step, S)
  BY <1>5, <1>6, <1>7, <1>8, RecursionHasASolution
<1>10. \A T \in S : f[T] = Layer(x, f, T)
  BY <1>9 DEF Step, IsSolution
<1>11. f = [T \in S |-> Layer(x, f, T)]
  BY <1>10
<1>12. Layers(x) = CHOOSE layers : layers = [T \in S |-> Layer(x, layers, T)]
  BY DEF Layers, S
<1>13. Layers(x) = [T \in S |-> Layer(x, Layers(x), T)]
  BY <1>11, <1>12
<1>. QED
  BY <1>13 DEF S

(* Nothing binds a fact but the plan, the graph and a record that has not  *)
(* lapsed.                                                                 *)
LEMMA ObservedBinds ==
  ASSUME NEW x, NEW n \in Nat, DOMAIN x.evidence = 1 .. n, NEW path \in DOMAIN Observed(x)
  PROVE  \/ path \in DOMAIN PlanFacts \/ path \in DOMAIN x.graph.facts
         \/ \E i \in 1 .. n :
              path \in DOMAIN x.evidence[i].facts /\ ~HasLapsed(x.evidence[i], x.at)
<1>. DEFINE S == SUBSET (1 .. n)
            Bad == {T \in S : path \in DOMAIN Layers(x)[T]}
<1>. SUFFICES ASSUME path \notin DOMAIN PlanFacts, path \notin DOMAIN x.graph.facts,
                     \A i \in 1 .. n : path \in DOMAIN x.evidence[i].facts
                                       => HasLapsed(x.evidence[i], x.at)
              PROVE  FALSE
  OBVIOUS
<1>1. 1 .. n \in Bad
  BY ObservedIsLayered
<1>2. IsFiniteSet(1 .. n)
  BY FS_Interval
<1>3. Bad \subseteq S /\ Bad # {}
  BY <1>1
<1>4. IsWellFoundedOn(StrictSubsetOrdering(1 .. n), S)
  BY <1>2, SubsetsAreOrdered
<1>. HIDE DEF S, Bad
<1>5. PICK T \in Bad : \A U \in Bad : ~ (<<U, T>> \in StrictSubsetOrdering(1 .. n))
  BY <1>3, <1>4, WFMin
<1>6. T \in S /\ path \in DOMAIN Layers(x)[T] /\ T \in SUBSET (1 .. n)
  BY <1>5 DEF Bad, S
<1>7. path \in DOMAIN Layer(x, Layers(x), T)
  BY <1>6, LayersAre
<1>8. T # {}
  BY <1>7 DEF Layer, Extended
<1>9. Max(T) \in T /\ Max(T) \in 1 .. n
  BY <1>6, <1>8, MaxIsIn
<1>10. path \in DOMAIN Layers(x)[T \ {Max(T)}]
  BY <1>7, <1>8, <1>9 DEF Layer, Extended
<1>11. T \ {Max(T)} \in Bad /\ <<T \ {Max(T)}, T>> \in StrictSubsetOrdering(1 .. n)
  BY <1>6, <1>9, <1>10 DEF Bad, S, StrictSubsetOrdering
<1>. QED
  BY <1>5, <1>11

---------------------------------------------------------------------------
(* What makes a condition true.                                            *)

LEMMA NodesAreOrdered == IsWellFoundedOn(Less, Node) /\ IsTransitivelyClosedOn(Less, Node)
<1>1. Node \subseteq Nat
  BY TableAssumption
<1>2. IsWellFoundedOn(Less, Node)
  BY <1>1, LessIsWellFounded, IsWellFoundedOnSubset
<1>3. IsTransitivelyClosedOn(Less, Node)
  BY <1>1 DEF IsTransitivelyClosedOn, Less
<1>. QED
  BY <1>2, <1>3

LEMMA ChildrenAreLess ==
  ASSUME NEW n \in Node, NEW c \in Children(n)
  PROVE  c \in Node /\ <<c, n>> \in Less
<1>1. c \in Node /\ c \in Nat /\ n \in Nat /\ c < n
  BY TableAssumption
<1>. QED
  BY <1>1 DEF Less

(* Predicate::evaluate, as an equation.                                    *)
LEMMA EvaluateIs ==
  ASSUME NEW leaf, NEW n \in Node
  PROVE  Evaluate(leaf)[n] = Verdict(leaf, Evaluate(leaf), n)
<1>. DEFINE V == Truth \cup {leaf[m] : m \in Node}
            Step == [m \in Node |-> [g \in [Node -> V] |-> Verdict(leaf, g, m)]]
<1>1. ASSUME NEW truths PROVE And(truths) \in Truth /\ Or(truths) \in Truth /\ Not(truths) \in Truth
  BY DEF And, Or, Not, Truth
<1>2. Step \in [Node -> [[Node -> V] -> V]]
  BY <1>1 DEF Verdict, Truth
<1>3. ReadsBelow(Step, Less, Node, V)
  <2>. SUFFICES ASSUME NEW m \in Node, NEW g \in [Node -> V], NEW h \in [Node -> V],
                       \A k \in Node : <<k, m>> \in Less => g[k] = h[k]
                PROVE  Step[m][g] = Step[m][h]
    BY DEF ReadsBelow
  <2>1. \A c \in Children(m) : g[c] = h[c]
    BY ChildrenAreLess
  <2>2. {g[c] : c \in Children(m)} = {h[c] : c \in Children(m)}
    BY <2>1
  <2>3. Body[m].op = "not" => g[Body[m].of] = h[Body[m].of]
    BY <2>1 DEF Children
  <2>4. Verdict(leaf, g, m) = Verdict(leaf, h, m)
    BY <2>2, <2>3 DEF Verdict
  <2>. QED
    BY <2>4
<1>4. V # {}
  BY DEF Truth
<1>. HIDE DEF Step, V
<1>5. PICK f \in [Node -> V] : IsSolution(f, Step, Node)
  BY <1>2, <1>3, <1>4, NodesAreOrdered, RecursionHasASolution
<1>6. \A m \in Node : f[m] = Verdict(leaf, f, m)
  BY <1>5 DEF Step, IsSolution
<1>7. f = [m \in Node |-> Verdict(leaf, f, m)]
  BY <1>6
<1>8. Evaluate(leaf) = CHOOSE t : t = [m \in Node |-> Verdict(leaf, t, m)]
  BY DEF Evaluate
<1>9. Evaluate(leaf) = [m \in Node |-> Verdict(leaf, Evaluate(leaf), m)]
  BY <1>7, <1>8
<1>. QED
  BY <1>9

(* Predicate::fact_paths, as an equation.                                  *)
PathsOf(paths, n) == IF n \in Leaf THEN LeafPaths(n) ELSE UNION {paths[c] : c \in Children(n)}

LEMMA PathsAre == ASSUME NEW n \in Node PROVE Paths[n] = PathsOf(Paths, n)
<1>. DEFINE V == SUBSET UNION {LeafPaths(m) : m \in Leaf}
            Step == [m \in Node |-> [g \in [Node -> V] |-> PathsOf(g, m)]]
<1>1. Step \in [Node -> [[Node -> V] -> V]]
  <2>. SUFFICES ASSUME NEW m \in Node, NEW g \in [Node -> V] PROVE PathsOf(g, m) \in V
    OBVIOUS
  <2>1. CASE m \in Leaf
    BY <2>1 DEF PathsOf
  <2>2. CASE m \notin Leaf
    <3>1. \A c \in Children(m) : g[c] \in V
      BY ChildrenAreLess
    <3>2. UNION {g[c] : c \in Children(m)} \in V
      BY <3>1
    <3>. QED
      BY <2>2, <3>2 DEF PathsOf
  <2>. QED
    BY <2>1, <2>2
<1>2. ReadsBelow(Step, Less, Node, V)
  <2>. SUFFICES ASSUME NEW m \in Node, NEW g \in [Node -> V], NEW h \in [Node -> V],
                       \A k \in Node : <<k, m>> \in Less => g[k] = h[k]
                PROVE  Step[m][g] = Step[m][h]
    BY DEF ReadsBelow
  <2>1. \A c \in Children(m) : g[c] = h[c]
    BY ChildrenAreLess
  <2>2. {g[c] : c \in Children(m)} = {h[c] : c \in Children(m)}
    BY <2>1
  <2>3. PathsOf(g, m) = PathsOf(h, m)
    BY <2>2 DEF PathsOf
  <2>. QED
    BY <2>3
<1>3. V # {}
  OBVIOUS
<1>. HIDE DEF Step, V
<1>4. PICK f \in [Node -> V] : IsSolution(f, Step, Node)
  BY <1>1, <1>2, <1>3, NodesAreOrdered, RecursionHasASolution
<1>5. \A m \in Node : f[m] = PathsOf(f, m)
  BY <1>4 DEF Step, IsSolution
<1>6. f = [m \in Node |-> PathsOf(f, m)]
  BY <1>5
<1>7. Paths = CHOOSE paths : paths = [m \in Node |-> PathsOf(paths, m)]
  BY DEF Paths, PathsOf
<1>8. Paths = [m \in Node |-> PathsOf(Paths, m)]
  BY <1>6, <1>7
<1>. QED
  BY <1>8

LEMMA LeafTruthsAreTruths == ASSUME NEW n \in Leaf, NEW known PROVE LeafTruth(known, n) \in Truth
<1>1. Body[n].op \in {"compare", "truthy", "defined", "any_of", "none_of"}
  BY TableAssumption DEF Leaf
<1>2. \A b : FromBool(b) \in Truth
  BY DEF FromBool, Truth
<1>3. ASSUME NEW left, NEW cmp, NEW right PROVE Compare(known, left, cmp, right) \in Truth
  <2>. DEFINE answers == {CompareValues(l, cmp, r) : l \in Resolve(known, left),
                                                     r \in Resolve(known, right)}
  <2>1. \A l, r : CompareValues(l, cmp, r) \in Truth
    BY <1>2 DEF CompareValues, Truth
  <2>2. answers \subseteq Truth
    BY <2>1
  <2>3. Compare(known, left, cmp, right) =
          IF answers = {} THEN "unknown" ELSE CHOOSE t \in answers : TRUE
    BY DEF Compare
  <2>. HIDE DEF answers
  <2>. QED
    BY <2>2, <2>3 DEF Truth
<1>4. \A path : Truthy(known, path) \in Truth
  BY <1>2 DEF Truthy, Truth
<1>5. \A path : Defined(known, path) \in Truth
  BY <1>2 DEF Defined
<1>6. \A path, values : Member(known, path, values) \in Truth
  BY <1>2 DEF Member, Truth
<1>7. \A t : Not(t) \in Truth
  BY DEF Not, Truth
<1>. QED
  BY <1>1, <1>3, <1>4, <1>5, <1>6, <1>7 DEF LeafTruth

LEMMA TruthsAreTruths == ASSUME NEW known, NEW n \in Node PROVE TruthIn(known)[n] \in Truth
<1>1. TruthIn(known)[n] = Verdict(Leaves(known), TruthIn(known), n)
  BY EvaluateIs DEF TruthIn
<1>2. \A truths : And(truths) \in Truth /\ Or(truths) \in Truth /\ Not(truths) \in Truth
  BY DEF And, Or, Not, Truth
<1>3. CASE n \in Leaf
  BY <1>1, <1>3, LeafTruthsAreTruths DEF Verdict, Leaf, Composite, Leaves
<1>4. CASE n \notin Leaf
  <2>1. Body[n].op \in Composite \cup {"always", "never"}
    BY <1>4 DEF Leaf
  <2>. QED
    BY <1>1, <1>2, <2>1 DEF Verdict, Composite, Truth
<1>. QED
  BY <1>3, <1>4

(* A leaf is true only of facts that are bound: an absent fact is unknown, *)
(* whatever is asked of it (predicate.rs, Truthy to NoneOf).               *)
LEMMA TrueLeavesAreBound ==
  ASSUME NEW n \in Leaf, NEW known, LeafTruth(known, n) = "true"
  PROVE  LeafPaths(n) \subseteq DOMAIN known
<1>1. Body[n].op \in {"compare", "truthy", "defined", "any_of", "none_of"}
  BY TableAssumption DEF Leaf
<1>2. CASE Body[n].op = "compare"
  <2>1. Compare(known, Body[n].left, Body[n].cmp, Body[n].right) = "true"
    BY <1>2 DEF LeafTruth
  <2>2. Resolve(known, Body[n].left) # {} /\ Resolve(known, Body[n].right) # {}
    BY <2>1 DEF Compare
  <2>3. \A o : Resolve(known, o) # {} /\ o.is = "fact" => o.path \in DOMAIN known
    BY DEF Resolve
  <2>. QED
    BY <1>2, <2>2, <2>3 DEF LeafPaths
<1>3. CASE Body[n].op # "compare"
  <2>1. LeafPaths(n) = {Body[n].path}
    BY <1>3 DEF LeafPaths
  <2>2. Body[n].path \in DOMAIN known
    BY <1>1, <1>3 DEF LeafTruth, Truthy, Defined, Member, Not, FromBool
  <2>. QED
    BY <2>1, <2>2
<1>. QED
  BY <1>2, <1>3

LEMMA TrueConjunctionsAreBound ==
  ASSUME NEW set, Conjoins(set), NEW known, NEW n \in set, TruthIn(known)[n] = "true"
  PROVE  Paths[n] \subseteq DOMAIN known
<1>. DEFINE Bad == {m \in set : TruthIn(known)[m] = "true" /\ ~ (Paths[m] \subseteq DOMAIN known)}
<1>. SUFFICES ASSUME Bad # {} PROVE FALSE
  OBVIOUS
<1>1. Bad \subseteq Node
  BY DEF Conjoins
<1>. HIDE DEF Bad
<1>2. PICK m \in Bad : \A k \in Bad : ~ (<<k, m>> \in Less)
  BY <1>1, NodesAreOrdered, WFMin
<1>3. m \in set /\ m \in Node /\ TruthIn(known)[m] = "true" /\ ~ (Paths[m] \subseteq DOMAIN known)
  BY <1>2 DEF Bad, Conjoins
<1>4. TruthIn(known)[m] = Verdict(Leaves(known), TruthIn(known), m)
  BY <1>3, EvaluateIs DEF TruthIn
<1>5. Paths[m] = PathsOf(Paths, m)
  BY <1>3, PathsAre
<1>6. CASE m \in Leaf
  <2>1. LeafTruth(known, m) = "true"
    BY <1>3, <1>4, <1>6 DEF Verdict, Leaf, Composite, Leaves
  <2>. QED
    BY <1>3, <1>5, <1>6, <2>1, TrueLeavesAreBound DEF PathsOf
<1>7. CASE m \notin Leaf
  <2>1. Body[m].op \in {"all", "always", "never"}
    BY <1>3, <1>7 DEF Conjoins, Leaf, Composite
  <2>2. CASE Body[m].op = "all"
    <3>1. "false" \notin {TruthIn(known)[c] : c \in Children(m)}
          /\ "unknown" \notin {TruthIn(known)[c] : c \in Children(m)}
      BY <1>3, <1>4, <2>2, AndIs DEF Verdict
    <3>2. ASSUME NEW c \in Children(m) PROVE Paths[c] \subseteq DOMAIN known
      <4>1. c \in set /\ c \in Node /\ <<c, m>> \in Less
        BY <1>3, ChildrenAreLess DEF Conjoins
      <4>2. TruthIn(known)[c] = "true" => Paths[c] \subseteq DOMAIN known
        BY <1>2, <4>1 DEF Bad
      <4>3. TruthIn(known)[c] \in Truth
        BY <4>1, TruthsAreTruths
      <4>. QED
        BY <3>1, <4>2, <4>3 DEF Truth
    <3>. QED
      BY <1>3, <1>5, <1>7, <3>2 DEF PathsOf
  <2>3. CASE Body[m].op # "all"
    <3>1. Children(m) = {}
      BY <2>1, <2>3 DEF Children
    <3>. QED
      BY <1>3, <1>5, <1>7, <3>1 DEF PathsOf
  <2>. QED
    BY <2>2, <2>3
<1>. QED
  BY <1>6, <1>7


---------------------------------------------------------------------------
(* Gates                                                                   *)

LEMMA DerivedBinds == ASSUME NEW x PROVE DOMAIN Derived(x) \subseteq EnginePaths
  BY DEF Derived, EnginePaths

(* A path of evidence that the facts bind, a record binds that stands.     *)
LEMMA FactsOfEvidence ==
  ASSUME OnlyEvidenceBinds, NEW x, NEW n \in Nat, DOMAIN x.evidence = 1 .. n, x.graph \in Graphs,
         NEW p \in EvidencePaths, p \in DOMAIN Facts(x)
  PROVE  \E i \in 1 .. n : p \in DOMAIN x.evidence[i].facts /\ ~HasLapsed(x.evidence[i], x.at)
<1>1. p \in DOMAIN Observed(x) \cup DOMAIN Derived(x)
  BY DEF Facts, Extended
<1>2. p \in DOMAIN Observed(x)
  BY <1>1, DerivedBinds DEF OnlyEvidenceBinds
<1>. QED
  BY <1>2, ObservedBinds DEF OnlyEvidenceBinds

LEMMA VerdictsStoodInit == Init => VerdictsStood
  BY DEF Init, VerdictsStood

LEMMA VerdictsStoodNext ==
  ASSUME GuardsConjoin, OnlyEvidenceBinds
  PROVE  TypeInv /\ VerdictsStood /\ [Next]_vars => VerdictsStood'
<1>. SUFFICES ASSUME TypeInv, VerdictsStood, [Next]_vars PROVE VerdictsStood'
  OBVIOUS
<1>0. TypeInv'
  BY TypeNext
<1>1. CASE UNCHANGED vars
  BY <1>1 DEF VerdictsStood, Bound, vars
<1>2. CASE Tick \/ SetArtifacts \/ SubmitEvidence \/ Save \/ Restore
  <2>1. outcome'.is \in {"none", "submitted", "restored"}
    <3>1. CASE Tick \/ SetArtifacts \/ Save
      BY <3>1 DEF Tick, SetArtifacts, Save, Answer
    <3>2. CASE SubmitEvidence
      BY <3>2 DEF SubmitEvidence, Submit, Answer
    <3>3. CASE Restore
      BY <3>3 DEF Restore, Answer
    <3>. QED
      BY <1>2, <3>1, <3>2, <3>3
  <2>. QED
    BY <2>1 DEF VerdictsStood
<1>3. CASE Transition
  <2>1. Proceed(Now) /\ clock' = clock
    BY <1>3 DEF Transition, Now
  <2>2. CASE outcome'.is # "moved"
    BY <2>2 DEF VerdictsStood
  <2>3. ASSUME NEW i \in Permitted(Now), outcome' = [is |-> "moved", via |-> i],
               exec' = Moved(Now, i)
        PROVE  VerdictsStood'
    <3>. SUFFICES ASSUME NEW p \in Paths[Transitions[i].when], p \in EvidencePaths
                  PROVE  Bound(p)' # {}
      BY <2>3 DEF VerdictsStood, EvidencePaths
    <3>1. i \in DOMAIN Transitions /\ TruthIn(Facts(Now))[Transitions[i].when] = "true"
      BY DEF Permitted
    <3>2. p \in DOMAIN Facts(Now)
      BY <3>1, TrueConjunctionsAreBound DEF GuardsConjoin, Guards
    <3>3. exec'.evidence = exec.evidence /\ clock' = clock
      BY <2>1, <2>3, MovedIs
    <3>4. Now.evidence = exec.evidence /\ Now.graph \in Graphs /\ Now.at = clock
      BY NowIs DEF TypeInv
    <3>5. PICK n \in Nat : DOMAIN exec.evidence = 1 .. n
      BY LogIs DEF TypeInv
    <3>6. PICK j \in 1 .. n : p \in DOMAIN exec.evidence[j].facts /\ ~HasLapsed(exec.evidence[j], clock)
      BY <3>2, <3>4, <3>5, FactsOfEvidence
    <3>7. exec.evidence[j].observed \in Nat /\ clock \in Nat
      BY <3>5, LogIs, EngineBounds DEF TypeInv, Instant
    <3>8. \A h \in Horizons(exec.evidence[j].kind) : clock - exec.evidence[j].observed <= h
      BY <3>6, <3>7, HorizonsAre DEF HasLapsed, Covers
    <3>9. j \in Bound(p)'
      BY <3>3, <3>5, <3>6, <3>8 DEF Bound, Horizons
    <3>. QED
      BY <3>9
  <2>. QED
    BY <2>1, <2>2, <2>3, ProceedsTo
<1>. QED
  BY <1>1, <1>2, <1>3 DEF Next

(* Whatever the plan is, no record a move or a completion required has     *)
(* lapsed at the instant the gate is passed.                               *)
THEOREM RequirementsStandAtGates == Spec => []RequirementsStood
  BY TypeInit, TypeNext, RequirementsStoodInit, RequirementsStoodNext, PTL DEF Spec

(* Where guards conjoin and evidence binds its own facts, no gate is       *)
(* passed on a lapsed observation, the guard's own reading included        *)
(* (execution.rs 304-327, evaluate.rs 390-402).  A disjunction may be true *)
(* of a path no record binds any more, so the hypothesis is needed.        *)
THEOREM GatesNeedLiveEvidence ==
  ASSUME GuardsConjoin, OnlyEvidenceBinds
  PROVE  Spec => []GatesStandOnLiveEvidence
<1>1. TypeInv /\ RequirementsStood /\ VerdictsStood => GatesStandOnLiveEvidence
  BY DEF GatesStandOnLiveEvidence
<1>. QED
  BY <1>1, TypeInit, TypeNext, RequirementsStoodInit, RequirementsStoodNext, VerdictsStoodInit,
     VerdictsStoodNext, PTL DEF Spec


---------------------------------------------------------------------------
(* The scan before the run                                                 *)

(* What a set asks of a person, under conditions read one way.             *)
Found == [what : UNION {OfAPerson(s) : s \in SetId}, under : Seq(Node)]

Direct(s) == {[what |-> w, under |-> <<>>] : w \in OfAPerson(s)}

Below(s, truth, f) ==
  UNION {Nested(c, f[c.require]) : c \in {c \in Sets[s].conditional : truth[c.when] # "false"}}

ScannedIn(truth) == [s \in SetId |-> Scanned(s, truth)]

LEMMA UnderIs ==
  ASSUME NEW A, NEW B, NEW f \in [what : A, under : B], NEW v
  PROVE  [f EXCEPT !.under = v] = [what |-> f.what, under |-> v]
  OBVIOUS

LEMMA NestedIs ==
  ASSUME NEW found \in SUBSET Found, NEW c, c.when \in Node
  PROVE  /\ Nested(c, found) \subseteq Found
         /\ Nested(c, found) =
              {[what |-> f.what, under |-> <<c.when>> \o f.under] : f \in found}
<1>1. ASSUME NEW f \in Found
      PROVE  [f EXCEPT !.under = <<c.when>> \o @]
               = [what |-> f.what, under |-> <<c.when>> \o f.under]
  BY UnderIs DEF Found
<1>2. ASSUME NEW f \in Found
      PROVE  [what |-> f.what, under |-> <<c.when>> \o f.under] \in Found
  <2>1. f.under \in Seq(Node) /\ f.what \in UNION {OfAPerson(s) : s \in SetId}
    BY DEF Found
  <2>2. <<c.when>> \in Seq(Node)
    OBVIOUS
  <2>3. <<c.when>> \o f.under \in Seq(Node)
    BY <2>1, <2>2
  <2>. QED
    BY <2>1, <2>3 DEF Found
<1>3. Nested(c, found) = {[f EXCEPT !.under = <<c.when>> \o @] : f \in found}
  BY DEF Nested
<1>4. Nested(c, found) = {[what |-> f.what, under |-> <<c.when>> \o f.under] : f \in found}
  BY <1>1, <1>3
<1>. QED
  BY <1>2, <1>4

LEMMA ScannedAre ==
  ASSUME NEW truth
  PROVE  /\ ScannedIn(truth) \in [SetId -> SUBSET Found]
         /\ \A s \in SetId :
              ScannedIn(truth)[s] = Direct(s) \cup Below(s, truth, ScannedIn(truth))
<1>. DEFINE V == SUBSET Found
            Eq(f, n) == Direct(n) \cup Below(n, truth, f)
            Step == [n \in SetId |-> [g \in [SetId -> V] |-> Eq(g, n)]]
<1>1. ASSUME NEW n \in SetId, NEW g, \A c \in Sets[n].conditional : g[c.require] \in V
      PROVE  Eq(g, n) \in V
  <2>1. Direct(n) \subseteq Found
    <3>1. <<>> \in Seq(Node)
      OBVIOUS
    <3>2. \A w \in OfAPerson(n) : w \in UNION {OfAPerson(m) : m \in SetId}
      OBVIOUS
    <3>3. \A w \in OfAPerson(n) : [what |-> w, under |-> <<>>] \in Found
      BY <3>1, <3>2 DEF Found
    <3>. QED
      BY <3>3 DEF Direct
  <2>2. ASSUME NEW c \in Sets[n].conditional PROVE Nested(c, g[c.require]) \subseteq Found
    <3>1. g[c.require] \in SUBSET Found /\ c.when \in Node
      BY <1>1, SetAssumption
    <3>. QED
      BY <3>1, NestedIs
  <2>. QED
    BY <2>1, <2>2 DEF Below
<1>2. Step \in [SetId -> [[SetId -> V] -> V]]
  BY <1>1, SetAssumption
<1>3. ASSUME NEW n \in SetId, NEW g \in [SetId -> V], NEW h \in [SetId -> V],
             \A m \in SetId : <<m, n>> \in Less => g[m] = h[m]
      PROVE  Step[n][g] = Step[n][h]
  <2>1. ASSUME NEW c \in Sets[n].conditional PROVE Nested(c, g[c.require]) = Nested(c, h[c.require])
    <3>1. c.require \in SetId /\ <<c.require, n>> \in Less
      BY SetAssumption DEF Less
    <3>. QED
      BY <1>3, <3>1
  <2>2. Below(n, truth, g) = Below(n, truth, h)
    BY <2>1 DEF Below
  <2>. QED
    BY <2>2
<1>4. V # {}
  OBVIOUS
<1>. HIDE DEF Step, V
<1>5. ReadsBelow(Step, Less, SetId, V)
  BY <1>3 DEF ReadsBelow
<1>6. PICK f \in [SetId -> V] : IsSolution(f, Step, SetId)
  BY <1>2, <1>4, <1>5, SetsAreOrdered, RecursionHasASolution
<1>7. \A n \in SetId : f[n] = Eq(f, n)
  BY <1>6 DEF Step, IsSolution
<1>. HIDE DEF Eq
<1>8. f = [n \in SetId |-> Eq(f, n)]
  BY <1>7
<1>. DEFINE F == CHOOSE g : g = [n \in SetId |-> Eq(g, n)]
<1>9. F = [n \in SetId |-> Eq(F, n)]
  BY <1>8
<1>10. \A s \in SetId : Scanned(s, truth) = F[s]
  BY DEF Scanned, Eq, Direct, Below
<1>11. ScannedIn(truth) = F
  BY <1>9, <1>10 DEF ScannedIn
<1>. DEFINE Bad == {n \in SetId : F[n] \notin V}
<1>12. Bad = {}
  <2>. SUFFICES ASSUME Bad # {} PROVE FALSE
    OBVIOUS
  <2>. HIDE DEF F
  <2>1. PICK n \in Bad : \A m \in Bad : ~ (<<m, n>> \in Less)
    BY SetsAreOrdered, WFMin, Bad \subseteq SetId
  <2>2. \A c \in Sets[n].conditional : c.require \in SetId /\ <<c.require, n>> \in Less
    BY <2>1, SetAssumption DEF Less
  <2>3. \A c \in Sets[n].conditional : F[c.require] \in V
    BY <2>1, <2>2
  <2>4. F[n] = Eq(F, n)
    BY <1>9, <2>1
  <2>. QED
    BY <1>1, <2>1, <2>3, <2>4
<1>. QED
  BY <1>9, <1>11, <1>12 DEF Eq, V

(* What one reading of the conditions finds, another finds too, unless it  *)
(* refutes a condition on the way.                                         *)
LEMMA WhatIsFoundIsFound ==
  ASSUME NEW truth, NEW known, NEW s \in SetId, NEW p \in Scanned(s, truth),
         ~Refuted(known, p.under)
  PROVE  p \in Scanned(s, known)
<1>. DEFINE T == ScannedIn(truth)
            K == ScannedIn(known)
            Bad == {n \in SetId : \E q \in T[n] : ~Refuted(known, q.under) /\ q \notin K[n]}
<1>1. /\ T \in [SetId -> SUBSET Found] /\ K \in [SetId -> SUBSET Found]
      /\ \A n \in SetId : /\ T[n] = Direct(n) \cup Below(n, truth, T)
                          /\ K[n] = Direct(n) \cup Below(n, known, K)
                          /\ T[n] = Scanned(n, truth) /\ K[n] = Scanned(n, known)
  BY ScannedAre DEF ScannedIn
<1>. HIDE DEF T, K
<1>2. SUFFICES ASSUME Bad # {} PROVE FALSE
  BY <1>1
<1>3. PICK n \in Bad : \A m \in Bad : ~ (<<m, n>> \in Less)
  <2>1. Bad \subseteq SetId
    OBVIOUS
  <2>. HIDE DEF Bad
  <2>. QED
    BY <1>2, <2>1, SetsAreOrdered, WFMin
<1>4. PICK q \in T[n] : ~Refuted(known, q.under) /\ q \notin K[n]
  BY <1>3
<1>5. q \in Below(n, truth, T)
  BY <1>1, <1>3, <1>4
<1>6. PICK c \in Sets[n].conditional : q \in Nested(c, T[c.require])
  BY <1>5 DEF Below
<1>7. c.require \in SetId /\ <<c.require, n>> \in Less /\ c.when \in Node
  BY <1>3, <1>6, SetAssumption DEF Less
<1>8. T[c.require] \in SUBSET Found /\ K[c.require] \in SUBSET Found
  BY <1>1, <1>7
<1>9. PICK f \in T[c.require] : q = [what |-> f.what, under |-> <<c.when>> \o f.under]
  <2>1. Nested(c, T[c.require])
          = {[what |-> g.what, under |-> <<c.when>> \o g.under] : g \in T[c.require]}
    BY <1>7, <1>8, NestedIs
  <2>. QED
    BY <1>6, <2>1
<1>10. f.under \in Seq(Node) /\ <<c.when>> \in Seq(Node) /\ Len(<<c.when>>) = 1
  BY <1>7, <1>8 DEF Found
<1>11. /\ Len(q.under) = 1 + Len(f.under) /\ DOMAIN q.under = 1 .. (1 + Len(f.under))
       /\ q.under[1] = c.when
       /\ \A i \in DOMAIN f.under : q.under[i + 1] = f.under[i] /\ i + 1 \in DOMAIN q.under
  BY <1>9, <1>10
<1>12. known[c.when] # "false"
  BY <1>4, <1>10, <1>11 DEF Refuted
<1>13. ~Refuted(known, f.under)
  BY <1>4, <1>11 DEF Refuted
<1>14. f \in K[c.require]
  BY <1>3, <1>7, <1>9, <1>13
<1>15. q \in Nested(c, K[c.require])
  <2>1. Nested(c, K[c.require])
          = {[what |-> g.what, under |-> <<c.when>> \o g.under] : g \in K[c.require]}
    BY <1>7, <1>8, NestedIs
  <2>. QED
    BY <1>9, <1>14, <2>1
<1>16. q \in Below(n, known, K)
  BY <1>6, <1>12, <1>15 DEF Below
<1>. QED
  BY <1>1, <1>3, <1>4, <1>16

LEMMA SetsHereAreThePlans == TypeInv => SetsHere \subseteq PlanSets
<1>. SUFFICES ASSUME TypeInv PROVE SetsHere \subseteq PlanSets
  OBVIOUS
<1>1. OwedToComplete \subseteq Obligations
  BY DEF OwedToComplete
<1>2. ASSUME NEW i \in DOMAIN Transitions PROVE SetsOf(i) \subseteq PlanSets
  <2>1. StateRequires[Transitions[i].to] \in Range(StateRequires)
    BY PlanAssumption DEF Range
  <2>2. OwedToEnter(Transitions[i].to) \cup OwedNow(Transitions[i].from) \subseteq Obligations
    BY DEF OwedToEnter, OwedNow
  <2>. QED
    BY <2>1, <2>2 DEF SetsOf, PlanSets
<1>. QED
  BY <1>1, <1>2 DEF SetsHere, PlanSets, Leaving

(* For every plan and every map, at every step: what a person is asked for *)
(* where the run stands was on the list printed before it, unless the      *)
(* facts known then refute a condition it is under (approval.rs 9-30).     *)
THEOREM TheScanIsComplete == LaunchedSpec => []ScanIsComplete
<1>. DEFINE Printed == report.approvals = ReachableApprovals
<1>1. Init /\ Launch => TypeInv /\ Printed
  BY TypeInit DEF Launch
<1>2. TypeInv /\ Printed /\ [LaunchedNext]_<<vars, report>> => (TypeInv /\ Printed)'
  <2>1. TypeInv /\ [LaunchedNext]_<<vars, report>> => TypeInv'
    BY TypeNext DEF LaunchedNext, vars
  <2>2. Printed /\ [LaunchedNext]_<<vars, report>> => Printed'
    BY DEF LaunchedNext, ReachableApprovals, Scan
  <2>. QED
    BY <2>1, <2>2
<1>3. TypeInv /\ Printed => ScanIsComplete
  <2>. SUFFICES ASSUME TypeInv, Printed, NEW p \in AskedHere, ~Refuted(BeforeTheRun, p.under)
                PROVE  p \in ReachableApprovals
    BY DEF ScanIsComplete
  <2>1. PICK s \in SetsHere : p \in Scanned(s, TruthIn(Facts(exec)))
    BY DEF AskedHere
  <2>2. s \in PlanSets /\ s \in SetId
    BY SetsHereAreThePlans, PlanSetsAre
  <2>3. p \in Scan(s)
    BY <2>1, <2>2, WhatIsFoundIsFound DEF Scan
  <2>. QED
    BY <2>2, <2>3 DEF ReachableApprovals
<1>. QED
  BY <1>1, <1>2, <1>3, PTL DEF LaunchedSpec

---------------------------------------------------------------------------
(* A count of nothing is nothing of each: the sums of the missing evidence *)
(* read backwards.                                                         *)
SumBelow(f, sums, T) ==
  IF T = {} THEN 0
  ELSE f[CHOOSE x \in T : TRUE] + sums[T \ {CHOOSE x \in T : TRUE}]

Sums(f, S) == CHOOSE sums : sums = [T \in SUBSET S |-> SumBelow(f, sums, T)]

LEMMA SumIsOfSums == ASSUME NEW f, NEW S PROVE SumFunctionOnSet(f, S) = Sums(f, S)[S]
  BY DEF SumFunctionOnSet, FoldFunctionOnSet, MapThenFoldSet, Sums, SumBelow

LEMMA SumsAre ==
  ASSUME NEW S, IsFiniteSet(S), NEW f \in [S -> Nat]
  PROVE  \A T \in SUBSET S : Sums(f, S)[T] = SumBelow(f, Sums(f, S), T)
<1>. DEFINE D == SUBSET S
            Step == [T \in D |-> [g \in [D -> Nat] |-> SumBelow(f, g, T)]]
<1>1. ASSUME NEW T \in D, T # {}
      PROVE  LET x == CHOOSE x \in T : TRUE
             IN x \in S /\ T \ {x} \in D /\ <<T \ {x}, T>> \in StrictSubsetOrdering(S)
  BY <1>1 DEF StrictSubsetOrdering
<1>2. Step \in [D -> [[D -> Nat] -> Nat]]
  BY <1>1 DEF SumBelow
<1>3. ReadsBelow(Step, StrictSubsetOrdering(S), D, Nat)
  <2>. SUFFICES ASSUME NEW T \in D, NEW g \in [D -> Nat], NEW h \in [D -> Nat],
                       \A U \in D : <<U, T>> \in StrictSubsetOrdering(S) => g[U] = h[U]
                PROVE  Step[T][g] = Step[T][h]
    BY DEF ReadsBelow
  <2>1. ASSUME T # {}
        PROVE  g[T \ {CHOOSE x \in T : TRUE}] = h[T \ {CHOOSE x \in T : TRUE}]
    BY <1>1, <2>1
  <2>2. SumBelow(f, g, T) = SumBelow(f, h, T)
    BY <2>1 DEF SumBelow
  <2>. QED
    BY <2>2
<1>. HIDE DEF D, Step
<1>4. /\ IsWellFoundedOn(StrictSubsetOrdering(S), D)
      /\ IsTransitivelyClosedOn(StrictSubsetOrdering(S), D)
  BY SubsetsAreOrdered DEF D
<1>5. Nat # {}
  OBVIOUS
<1>6. PICK g \in [D -> Nat] : IsSolution(g, Step, D)
  BY <1>2, <1>3, <1>4, <1>5, RecursionHasASolution
<1>7. \A T \in D : g[T] = SumBelow(f, g, T)
  BY <1>6 DEF Step, IsSolution
<1>8. g = [T \in D |-> SumBelow(f, g, T)]
  BY <1>7
<1>9. Sums(f, S) = CHOOSE sums : sums = [T \in D |-> SumBelow(f, sums, T)]
  BY DEF Sums, D
<1>10. Sums(f, S) = [T \in D |-> SumBelow(f, Sums(f, S), T)]
  BY <1>8, <1>9
<1>. QED
  BY <1>10 DEF D

LEMMA SumsOfNothing ==
  ASSUME NEW S, IsFiniteSet(S), NEW f \in [S -> Nat]
  PROVE  /\ SumFunctionOnSet(f, S) \in Nat
         /\ SumFunctionOnSet(f, S) = 0 <=> \A x \in S : f[x] = 0
<1>. DEFINE D == SUBSET S
            sums == Sums(f, S)
            Holds(T) == sums[T] \in Nat /\ (sums[T] = 0 <=> \A x \in T : f[x] = 0)
            Bad == {T \in D : ~Holds(T)}
<1>1. \A T \in D : sums[T] = SumBelow(f, sums, T)
  BY SumsAre
<1>2. IsWellFoundedOn(StrictSubsetOrdering(S), D)
  BY SubsetsAreOrdered
<1>. HIDE DEF sums
<1>3. ASSUME Bad # {} PROVE FALSE
  <2>1. Bad \subseteq D
    OBVIOUS
  <2>. HIDE DEF Bad
  <2>2. PICK T \in Bad : \A U \in Bad : ~ (<<U, T>> \in StrictSubsetOrdering(S))
    BY <1>2, <1>3, <2>1, WFMin
  <2>. USE DEF Bad
  <2>3. CASE T = {}
    BY <1>1, <2>2, <2>3 DEF SumBelow
  <2>4. CASE T # {}
    <3>1. PICK x \in T : x = CHOOSE y \in T : TRUE
      BY <2>4
    <3>2. sums[T] = f[x] + sums[T \ {x}]
      BY <1>1, <2>2, <2>4, <3>1 DEF SumBelow
    <3>3. Holds(T \ {x})
      <4>1. T \ {x} \in D /\ T \in D /\ T \ {x} # T
        BY <2>2, <3>1
      <4>2. <<T \ {x}, T>> \in StrictSubsetOrdering(S)
        BY <4>1 DEF StrictSubsetOrdering
      <4>3. T \ {x} \notin Bad
        BY <2>2, <4>2
      <4>. QED
        BY <4>1, <4>3
    <3>4. f[x] \in Nat
      BY <2>2, <3>1
    <3>5. (\A y \in T : f[y] = 0) <=> f[x] = 0 /\ \A y \in T \ {x} : f[y] = 0
      BY <3>1
    <3>6. Holds(T)
      BY <3>2, <3>3, <3>4, <3>5
    <3>. QED
      BY <2>2, <3>6
  <2>. QED
    BY <2>3, <2>4
<1>. QED
  BY <1>3, SumIsOfSums DEF sums

---------------------------------------------------------------------------
(* What a condition reads, and nothing else, makes its truth.              *)
Agree(f, g, paths) ==
  \A p \in paths : /\ p \in DOMAIN f <=> p \in DOMAIN g
                   /\ p \in DOMAIN f => f[p] = g[p]

LEMMA LeavesReadTheirPaths ==
  ASSUME NEW n \in Leaf, NEW f, NEW g, Agree(f, g, LeafPaths(n))
  PROVE  LeafTruth(f, n) = LeafTruth(g, n)
<1>1. Body[n].op \in {"compare", "truthy", "defined", "any_of", "none_of"}
  BY TableAssumption DEF Leaf
<1>2. CASE Body[n].op = "compare"
  <2>1. ASSUME NEW o \in {Body[n].left, Body[n].right} PROVE Resolve(f, o) = Resolve(g, o)
    <3>1. CASE o.is = "fact"
      <4>1. o.path \in LeafPaths(n)
        BY <1>2, <3>1 DEF LeafPaths
      <4>. QED
        BY <4>1 DEF Resolve, Agree
    <3>2. CASE o.is # "fact"
      <4>1. n \in Node
        BY DEF Leaf
      <4>2. o.is = "literal"
        BY <1>2, <3>2, <4>1, TableAssumption
      <4>. QED
        BY <4>2 DEF Resolve
    <3>. QED
      BY <3>1, <3>2
  <2>2. Compare(f, Body[n].left, Body[n].cmp, Body[n].right)
          = Compare(g, Body[n].left, Body[n].cmp, Body[n].right)
    <3>1. Resolve(f, Body[n].left) = Resolve(g, Body[n].left)
      BY <2>1
    <3>2. Resolve(f, Body[n].right) = Resolve(g, Body[n].right)
      BY <2>1
    <3>. QED
      BY <3>1, <3>2 DEF Compare
  <2>. QED
    BY <1>2, <2>2 DEF LeafTruth
<1>3. CASE Body[n].op # "compare"
  <2>1. Body[n].path \in LeafPaths(n)
    BY <1>3 DEF LeafPaths
  <2>2. /\ Body[n].path \in DOMAIN f <=> Body[n].path \in DOMAIN g
        /\ Body[n].path \in DOMAIN f => f[Body[n].path] = g[Body[n].path]
    BY <2>1 DEF Agree
  <2>3. /\ Truthy(f, Body[n].path) = Truthy(g, Body[n].path)
        /\ Defined(f, Body[n].path) = Defined(g, Body[n].path)
        /\ Member(f, Body[n].path, Body[n].values) = Member(g, Body[n].path, Body[n].values)
    <3>1. Truthy(f, Body[n].path) = Truthy(g, Body[n].path)
      BY <2>2 DEF Truthy
    <3>2. Defined(f, Body[n].path) = Defined(g, Body[n].path)
      BY <2>2 DEF Defined, FromBool
    <3>3. Member(f, Body[n].path, Body[n].values) = Member(g, Body[n].path, Body[n].values)
      BY <2>2 DEF Member
    <3>. QED
      BY <3>1, <3>2, <3>3
  <2>. QED
    BY <1>1, <1>3, <2>3 DEF LeafTruth
<1>. QED
  BY <1>2, <1>3

LEMMA TruthsReadTheirPaths ==
  ASSUME NEW n \in Node, NEW f, NEW g, Agree(f, g, Paths[n])
  PROVE  TruthIn(f)[n] = TruthIn(g)[n]
<1>. DEFINE Bad == {m \in Node : Agree(f, g, Paths[m]) /\ TruthIn(f)[m] # TruthIn(g)[m]}
<1>. SUFFICES ASSUME Bad # {} PROVE FALSE
  OBVIOUS
<1>1. Bad \subseteq Node
  OBVIOUS
<1>. HIDE DEF Bad
<1>2. PICK m \in Bad : \A k \in Bad : ~ (<<k, m>> \in Less)
  BY <1>1, NodesAreOrdered, WFMin
<1>3. m \in Node /\ Agree(f, g, Paths[m]) /\ TruthIn(f)[m] # TruthIn(g)[m]
  BY <1>2 DEF Bad
<1>4. /\ TruthIn(f)[m] = Verdict(Leaves(f), TruthIn(f), m)
      /\ TruthIn(g)[m] = Verdict(Leaves(g), TruthIn(g), m)
  BY <1>3, EvaluateIs DEF TruthIn
<1>5. Paths[m] = PathsOf(Paths, m)
  BY <1>3, PathsAre
<1>6. CASE m \in Leaf
  <2>1. LeafTruth(f, m) = LeafTruth(g, m)
    BY <1>3, <1>5, <1>6, LeavesReadTheirPaths DEF PathsOf
  <2>. QED
    BY <1>3, <1>4, <1>6, <2>1 DEF Verdict, Leaf, Composite, Leaves
<1>7. CASE m \notin Leaf
  <2>1. ASSUME NEW c \in Children(m) PROVE TruthIn(f)[c] = TruthIn(g)[c]
    <3>1. c \in Node /\ <<c, m>> \in Less
      BY <1>3, ChildrenAreLess
    <3>2. Agree(f, g, Paths[c])
      BY <1>3, <1>5, <1>7 DEF PathsOf, Agree
    <3>. QED
      BY <1>2, <3>1, <3>2 DEF Bad
  <2>2. {TruthIn(f)[c] : c \in Children(m)} = {TruthIn(g)[c] : c \in Children(m)}
    BY <2>1
  <2>3. Body[m].op = "not" => TruthIn(f)[Body[m].of] = TruthIn(g)[Body[m].of]
    BY <2>1 DEF Children
  <2>4. Body[m].op \in Composite \cup {"always", "never"}
    BY <1>3, <1>7 DEF Leaf
  <2>. QED
    BY <1>3, <1>4, <2>2, <2>3, <2>4 DEF Verdict, Composite
<1>. QED
  BY <1>6, <1>7

Condition == UNION {{c.when : c \in Sets[s].conditional} : s \in SetId}

LEMMA ConditionsAreOfTheObserved ==
  ASSUME ConditionsReadObservations, NEW x, NEW n \in Condition
  PROVE  TruthIn(Facts(x))[n] = TruthIn(Observed(x))[n]
<1>1. n \in Node /\ Paths[n] \cap EnginePaths = {}
  BY SetAssumption DEF ConditionsReadObservations, Condition
<1>2. Agree(Facts(x), Observed(x), Paths[n])
  <2>. SUFFICES ASSUME NEW p \in Paths[n]
                PROVE  /\ p \in DOMAIN Facts(x) <=> p \in DOMAIN Observed(x)
                       /\ p \in DOMAIN Facts(x) => Facts(x)[p] = Observed(x)[p]
    BY DEF Agree
  <2>1. p \notin DOMAIN Derived(x)
    BY <1>1, DerivedBinds
  <2>. QED
    BY <2>1 DEF Facts, Extended
<1>. QED
  BY <1>1, <1>2, TruthsReadTheirPaths

(* A conjunction that asks the count to be nothing is true of nothing else.*)
LEMMA TrueConjunctionsAsk ==
  ASSUME NEW set, Conjoins(set), NEW p, NEW known, NEW n \in set,
         TruthIn(known)[n] = "true", p \in Paths[n]
  PROVE  \E m \in set \cap Leaf : p \in LeafPaths(m) /\ LeafTruth(known, m) = "true"
<1>. DEFINE Good == {m \in set \cap Leaf : p \in LeafPaths(m) /\ LeafTruth(known, m) = "true"}
            Bad == {m \in set : TruthIn(known)[m] = "true" /\ p \in Paths[m]}
<1>. SUFFICES ASSUME Good = {} PROVE FALSE
  OBVIOUS
<1>1. Bad \subseteq Node /\ n \in Bad
  BY DEF Conjoins
<1>. HIDE DEF Bad
<1>2. PICK m \in Bad : \A k \in Bad : ~ (<<k, m>> \in Less)
  BY <1>1, NodesAreOrdered, WFMin
<1>3. m \in set /\ m \in Node /\ TruthIn(known)[m] = "true" /\ p \in Paths[m]
  BY <1>2 DEF Bad, Conjoins
<1>4. TruthIn(known)[m] = Verdict(Leaves(known), TruthIn(known), m)
  BY <1>3, EvaluateIs DEF TruthIn
<1>5. Paths[m] = PathsOf(Paths, m)
  BY <1>3, PathsAre
<1>6. CASE m \in Leaf
  <2>1. LeafTruth(known, m) = "true"
    BY <1>3, <1>4, <1>6 DEF Verdict, Leaf, Composite, Leaves
  <2>2. m \in Good
    BY <1>3, <1>5, <1>6, <2>1 DEF PathsOf
  <2>. QED
    BY <2>2
<1>7. CASE m \notin Leaf
  <2>1. PICK c \in Children(m) : p \in Paths[c]
    BY <1>3, <1>5, <1>7 DEF PathsOf
  <2>2. Body[m].op = "all"
    BY <1>3, <1>7, <2>1 DEF Conjoins, Leaf, Composite, Children
  <2>3. "false" \notin {TruthIn(known)[d] : d \in Children(m)}
        /\ "unknown" \notin {TruthIn(known)[d] : d \in Children(m)}
    BY <1>3, <1>4, <2>2, AndIs DEF Verdict
  <2>4. c \in set /\ c \in Node /\ <<c, m>> \in Less /\ TruthIn(known)[c] \in Truth
    BY <1>3, ChildrenAreLess, TruthsAreTruths DEF Conjoins
  <2>5. TruthIn(known)[c] = "true"
    BY <2>3, <2>4 DEF Truth
  <2>6. c \in Bad
    BY <2>1, <2>4, <2>5 DEF Bad
  <2>. QED
    BY <1>2, <2>4, <2>6
<1>. QED
  BY <1>6, <1>7

LEMMA DerivedCount ==
  ASSUME NEW x
  PROVE  /\ "evidence.missing" \in DOMAIN Facts(x)
         /\ Facts(x)["evidence.missing"] = Number(MissingCount(x))
<1>1. /\ "evidence.missing" \in DOMAIN Derived(x)
      /\ Derived(x)["evidence.missing"] = Number(MissingCount(x))
  BY DEF Derived
<1>. QED
  BY <1>1 DEF Facts, Extended

LEMMA AskingTheCount ==
  ASSUME CountIsAskedToBeNothing, NEW x, NEW n \in Guards \cup Sets[Completion].predicates,
         ReadsMissingCount(n), TruthIn(Facts(x))[n] = "true"
  PROVE  MissingCount(x) = 0
<1>1. PICK set \in SUBSET Node :
        /\ Conjoins(set) /\ n \in set
        /\ \A m \in set \cap Leaf : "evidence.missing" \in LeafPaths(m) => AsksForNothingMissing(m)
  BY DEF CountIsAskedToBeNothing, ReadsMissingCount
<1>2. PICK m \in set \cap Leaf :
        "evidence.missing" \in LeafPaths(m) /\ LeafTruth(Facts(x), m) = "true"
  BY <1>1, TrueConjunctionsAsk DEF ReadsMissingCount
<1>3. AsksForNothingMissing(m)
  BY <1>1, <1>2
<1>. DEFINE l == Facts(x)["evidence.missing"]
<1>4. Compare(Facts(x), Body[m].left, "eq", Body[m].right) = "true"
  BY <1>2, <1>3 DEF LeafTruth, AsksForNothingMissing
<1>5. Resolve(Facts(x), Body[m].left) = {l} /\ Resolve(Facts(x), Body[m].right) = {Number(0)}
  BY <1>3, DerivedCount DEF Resolve, AsksForNothingMissing
<1>6. CompareValues(l, "eq", Number(0)) = "true"
  BY <1>4, <1>5 DEF Compare
<1>7. l.type = "number" /\ l.value = MissingCount(x) /\ Number(0).type = "number" /\ Number(0).value = 0
  <2>1. l = Number(MissingCount(x))
    BY DerivedCount
  <2>. QED
    BY <2>1 DEF Number
<1>8. Accepts("eq", Order(MissingCount(x), 0))
  BY <1>6, <1>7 DEF CompareValues, FromBool
<1>9. Order(MissingCount(x), 0) = "equal"
  BY <1>8 DEF Accepts
<1>. QED
  BY <1>9 DEF Order

---------------------------------------------------------------------------
(* What is demanded                                                        *)

Demandable == [req : Requirement, under : Seq(Condition)]

DirectDemands(s) == {[req |-> r, under |-> <<>>] : r \in Sets[s].evidence}

DemandsBelow(s, d) ==
  UNION {Nested(c, d[c.require]) : c \in {c \in Sets[s].conditional : BeforeTheRun[c.when] # "false"}}

LEMMA DemandUnderIs ==
  ASSUME NEW A, NEW B, NEW f \in [req : A, under : B], NEW v
  PROVE  [f EXCEPT !.under = v] = [req |-> f.req, under |-> v]
  OBVIOUS

LEMMA NestedDemandsAre ==
  ASSUME NEW found \in SUBSET Demandable, NEW c, c.when \in Condition
  PROVE  /\ Nested(c, found) \subseteq Demandable
         /\ Nested(c, found) =
              {[req |-> f.req, under |-> <<c.when>> \o f.under] : f \in found}
<1>1. ASSUME NEW f \in Demandable
      PROVE  [f EXCEPT !.under = <<c.when>> \o @] = [req |-> f.req, under |-> <<c.when>> \o f.under]
  <2>1. f \in [req : Requirement, under : Seq(Condition)]
    BY DEF Demandable
  <2>2. PICK v : v = <<c.when>> \o f.under
    OBVIOUS
  <2>3. [f EXCEPT !.under = v] = [req |-> f.req, under |-> v]
    BY <2>1, DemandUnderIs
  <2>. QED
    BY <2>2, <2>3
<1>2. ASSUME NEW f \in Demandable
      PROVE  [req |-> f.req, under |-> <<c.when>> \o f.under] \in Demandable
  <2>1. f.under \in Seq(Condition) /\ f.req \in Requirement
    BY DEF Demandable
  <2>2. <<c.when>> \in Seq(Condition)
    OBVIOUS
  <2>3. <<c.when>> \o f.under \in Seq(Condition)
    BY <2>1, <2>2
  <2>. QED
    BY <2>1, <2>3 DEF Demandable
<1>3. Nested(c, found) = {[f EXCEPT !.under = <<c.when>> \o @] : f \in found}
  BY DEF Nested
<1>4. Nested(c, found) = {[req |-> f.req, under |-> <<c.when>> \o f.under] : f \in found}
  <2>1. \A f \in found : [f EXCEPT !.under = <<c.when>> \o @]
                            = [req |-> f.req, under |-> <<c.when>> \o f.under]
    BY <1>1
  <2>2. ASSUME NEW q \in Nested(c, found)
        PROVE  \E f \in found : q = [req |-> f.req, under |-> <<c.when>> \o f.under]
    <3>1. PICK f \in found : q = [f EXCEPT !.under = <<c.when>> \o @]
      BY <1>3
    <3>. QED
      BY <2>1, <3>1, Zenon
  <2>3. ASSUME NEW f \in found
        PROVE  [req |-> f.req, under |-> <<c.when>> \o f.under] \in Nested(c, found)
    <3>1. [f EXCEPT !.under = <<c.when>> \o @] \in Nested(c, found)
      BY <1>3
    <3>. QED
      BY <2>1, <3>1, Zenon
  <2>. QED
    BY <2>2, <2>3
<1>. QED
  BY <1>2, <1>4

(* collect_demands, as an equation.                                        *)
LEMMA DemandsAre ==
  /\ Demands \in [SetId -> SUBSET Demandable]
  /\ \A s \in SetId : Demands[s] = DirectDemands(s) \cup DemandsBelow(s, Demands)
<1>. DEFINE V == SUBSET Demandable
            Eq(f, n) == DirectDemands(n) \cup DemandsBelow(n, f)
            Step == [n \in SetId |-> [g \in [SetId -> V] |-> Eq(g, n)]]
<1>1. ASSUME NEW n \in SetId, NEW g, \A c \in Sets[n].conditional : g[c.require] \in V
      PROVE  Eq(g, n) \in V
  <2>1. DirectDemands(n) \subseteq Demandable
    <3>1. <<>> \in Seq(Condition)
      OBVIOUS
    <3>2. \A r \in Sets[n].evidence : r \in Requirement
      BY DEF Requirement
    <3>3. \A r \in Sets[n].evidence : [req |-> r, under |-> <<>>] \in Demandable
      BY <3>1, <3>2 DEF Demandable
    <3>. QED
      BY <3>3 DEF DirectDemands
  <2>2. ASSUME NEW c \in Sets[n].conditional PROVE Nested(c, g[c.require]) \subseteq Demandable
    <3>1. g[c.require] \in SUBSET Demandable /\ c.when \in Condition
      BY <1>1 DEF Condition
    <3>. QED
      BY <3>1, NestedDemandsAre
  <2>. QED
    BY <2>1, <2>2 DEF DemandsBelow
<1>2. Step \in [SetId -> [[SetId -> V] -> V]]
  BY <1>1, SetAssumption
<1>3. ASSUME NEW n \in SetId, NEW g \in [SetId -> V], NEW h \in [SetId -> V],
             \A m \in SetId : <<m, n>> \in Less => g[m] = h[m]
      PROVE  Step[n][g] = Step[n][h]
  <2>1. ASSUME NEW c \in Sets[n].conditional PROVE Nested(c, g[c.require]) = Nested(c, h[c.require])
    <3>1. c.require \in SetId /\ <<c.require, n>> \in Less
      BY SetAssumption DEF Less
    <3>. QED
      BY <1>3, <3>1
  <2>2. DemandsBelow(n, g) = DemandsBelow(n, h)
    BY <2>1 DEF DemandsBelow
  <2>. QED
    BY <2>2
<1>4. V # {}
  OBVIOUS
<1>. HIDE DEF Step, V
<1>5. ReadsBelow(Step, Less, SetId, V)
  BY <1>3 DEF ReadsBelow
<1>6. PICK f \in [SetId -> V] : IsSolution(f, Step, SetId)
  BY <1>2, <1>4, <1>5, SetsAreOrdered, RecursionHasASolution
<1>7. \A n \in SetId : f[n] = Eq(f, n)
  BY <1>6 DEF Step, IsSolution
<1>. HIDE DEF Eq
<1>8. f = [n \in SetId |-> Eq(f, n)]
  BY <1>7
<1>9. Demands = CHOOSE g : g = [n \in SetId |-> Eq(g, n)]
  BY DEF Demands, Eq, DirectDemands, DemandsBelow
<1>10. Demands = [n \in SetId |-> Eq(Demands, n)]
  BY <1>8, <1>9
<1>. DEFINE Bad == {n \in SetId : Demands[n] \notin V}
<1>11. Bad = {}
  <2>. SUFFICES ASSUME Bad # {} PROVE FALSE
    OBVIOUS
  <2>0. Bad \subseteq SetId
    OBVIOUS
  <2>. HIDE DEF Bad
  <2>1. PICK n \in Bad : \A m \in Bad : ~ (<<m, n>> \in Less)
    BY <2>0, SetsAreOrdered, WFMin
  <2>. USE DEF Bad
  <2>2. \A c \in Sets[n].conditional : c.require \in SetId /\ <<c.require, n>> \in Less
    BY <2>1, SetAssumption DEF Less
  <2>3. \A c \in Sets[n].conditional : Demands[c.require] \in V
    BY <2>1, <2>2
  <2>4. Demands[n] = Eq(Demands, n)
    BY <1>10, <2>1
  <2>. QED
    BY <1>1, <2>1, <2>3, <2>4
<1>. QED
  BY <1>10, <1>11 DEF Eq, V

(* A demand of a set is the set's own, or a demand of what a condition of  *)
(* it leads to, one condition deeper.                                      *)
OneDeeper(q, f, c, s) ==
  /\ c.require \in SetId /\ <<c.require, s>> \in Less
  /\ q.req = f.req /\ Len(q.under) = 1 + Len(f.under) /\ Len(f.under) \in Nat
  /\ \A truth : ~Refuted(truth, q.under) => truth[c.when] # "false" /\ ~Refuted(truth, f.under)

LEMMA DemandIs ==
  ASSUME NEW s \in SetId, NEW q \in Demands[s]
  PROVE  \/ q.req \in Sets[s].evidence /\ q.under = <<>>
         \/ \E c \in Sets[s].conditional : \E f \in Demands[c.require] : OneDeeper(q, f, c, s)
<1>1. CASE q \in DirectDemands(s)
  BY <1>1 DEF DirectDemands
<1>2. CASE q \notin DirectDemands(s)
  <2>1. q \in DemandsBelow(s, Demands)
    BY <1>2, DemandsAre
  <2>2. PICK c \in Sets[s].conditional : q \in Nested(c, Demands[c.require])
    BY <2>1 DEF DemandsBelow
  <2>3. c.require \in SetId /\ <<c.require, s>> \in Less /\ c.when \in Condition
    <3>1. c.require \in SetId /\ <<c.require, s>> \in Less
      BY SetAssumption DEF Less
    <3>. QED
      BY <3>1 DEF Condition
  <2>4. Demands[c.require] \in SUBSET Demandable
    BY <2>3, DemandsAre
  <2>5. Nested(c, Demands[c.require])
          = {[req |-> g.req, under |-> <<c.when>> \o g.under] : g \in Demands[c.require]}
    BY <2>3, <2>4, NestedDemandsAre
  <2>6. PICK f \in Demands[c.require] : q = [req |-> f.req, under |-> <<c.when>> \o f.under]
    BY <2>2, <2>5
  <2>7. f.under \in Seq(Condition) /\ <<c.when>> \in Seq(Condition) /\ Len(<<c.when>>) = 1
    BY <2>3, <2>4 DEF Demandable
  <2>8. /\ Len(q.under) = 1 + Len(f.under) /\ DOMAIN q.under = 1 .. (1 + Len(f.under))
        /\ Len(f.under) \in Nat /\ q.under[1] = c.when
        /\ \A i \in DOMAIN f.under : q.under[i + 1] = f.under[i] /\ i + 1 \in DOMAIN q.under
    BY <2>6, <2>7
  <2>9. ASSUME NEW truth, ~Refuted(truth, q.under)
        PROVE  truth[c.when] # "false" /\ ~Refuted(truth, f.under)
    <3>1. 1 \in DOMAIN q.under
      BY <2>8
    <3>. QED
      BY <2>8, <2>9, <3>1 DEF Refuted
  <2>. QED
    BY <2>3, <2>6, <2>8, <2>9 DEF OneDeeper
<1>. QED
  BY <1>1, <1>2

(* A set that is true meets its demands, at any depth, but those a         *)
(* condition of theirs excuses.                                            *)
LEMMA TrueSetsMeetDemands ==
  ASSUME NEW x, NEW s \in SetId, SetTruths(x)[s] = "true", NEW q \in Demands[s],
         ~Refuted(TruthIn(Facts(x)), q.under)
  PROVE  EvidenceTruth(q.req, x) = "true"
<1>. DEFINE K == TruthIn(Facts(x))
            Bad == {n \in SetId : /\ SetTruths(x)[n] = "true"
                                  /\ \E d \in Demands[n] : /\ ~Refuted(K, d.under)
                                                           /\ EvidenceTruth(d.req, x) # "true"}
<1>. SUFFICES ASSUME Bad # {} PROVE FALSE
  OBVIOUS
<1>1. Bad \subseteq SetId
  OBVIOUS
<1>. HIDE DEF Bad
<1>2. PICK n \in Bad : \A m \in Bad : ~ (<<m, n>> \in Less)
  BY <1>1, SetsAreOrdered, WFMin
<1>3. n \in SetId /\ SetTruths(x)[n] = "true"
  BY <1>2 DEF Bad
<1>4. PICK d \in Demands[n] : ~Refuted(K, d.under) /\ EvidenceTruth(d.req, x) # "true"
  BY <1>2 DEF Bad
<1>5. d.req \notin Sets[n].evidence
  BY <1>3, <1>4, TrueSets
<1>9. PICK c \in Sets[n].conditional : \E f \in Demands[c.require] : OneDeeper(d, f, c, n)
  BY <1>3, <1>4, <1>5, DemandIs
<1>10. PICK f \in Demands[c.require] : OneDeeper(d, f, c, n)
  BY <1>9
<1>6. /\ c.require \in SetId /\ <<c.require, n>> \in Less
      /\ d.req = f.req /\ K[c.when] # "false" /\ ~Refuted(K, f.under)
  BY <1>4, <1>10 DEF OneDeeper
<1>7. SetTruths(x)[c.require] = "true"
  BY <1>3, <1>6, TrueSets
<1>8. c.require \in Bad
  BY <1>4, <1>6, <1>7 DEF Bad
<1>. QED
  BY <1>2, <1>6, <1>8

---------------------------------------------------------------------------
(* What a count of nothing leaves                                          *)

LEMMA UnmetIsACount ==
  ASSUME NEW reqs, IsFiniteSet(reqs), NEW x
  PROVE  /\ Unmet(reqs, x) \in Nat
         /\ Unmet(reqs, x) = 0 <=> \A r \in reqs : SatisfiesEvidence(r, x)
<1>. DEFINE unmet == {r \in reqs : ~SatisfiesEvidence(r, x)}
<1>1. IsFiniteSet(unmet)
  BY FS_Subset
<1>2. Cardinality(unmet) \in Nat /\ (Cardinality(unmet) = 0 <=> unmet = {})
  BY <1>1, FS_CardinalityType, FS_EmptySet
<1>. QED
  BY <1>2 DEF Unmet

InForce(s, x) == {c \in Sets[s].conditional : TruthIn(Observed(x))[c.when] # "false"}

LEMMA UnmetInIsACount ==
  ASSUME NEW s \in SetId, NEW x
  PROVE  /\ UnmetIn(s, x) \in Nat
         /\ UnmetIn(s, x) = 0 <=>
              /\ \A r \in Sets[s].evidence : SatisfiesEvidence(r, x)
              /\ \A c \in InForce(s, x) : \A r \in Sets[c.require].evidence : SatisfiesEvidence(r, x)
<1>. DEFINE S == InForce(s, x)
            f == [c \in S |-> Unmet(Sets[c.require].evidence, x)]
<1>1. IsFiniteSet(S)
  BY SetAssumption, FS_Subset DEF InForce
<1>2. ASSUME NEW c \in S
      PROVE  c.require \in SetId /\ IsFiniteSet(Sets[c.require].evidence)
  BY SetAssumption DEF InForce
<1>3. f \in [S -> Nat]
  BY <1>2, UnmetIsACount
<1>4. UnmetIn(s, x) = Unmet(Sets[s].evidence, x) + SumFunctionOnSet(f, S)
  BY DEF UnmetIn, InForce
<1>5. /\ Unmet(Sets[s].evidence, x) \in Nat
      /\ Unmet(Sets[s].evidence, x) = 0 <=> \A r \in Sets[s].evidence : SatisfiesEvidence(r, x)
  BY SetAssumption, UnmetIsACount
<1>6. ASSUME NEW c \in S
      PROVE  Unmet(Sets[c.require].evidence, x) = 0
               <=> \A r \in Sets[c.require].evidence : SatisfiesEvidence(r, x)
  BY <1>2, UnmetIsACount
<1>7. \A c \in S : f[c] = Unmet(Sets[c.require].evidence, x)
  OBVIOUS
<1>. HIDE DEF S, f
<1>8. /\ SumFunctionOnSet(f, S) \in Nat
      /\ SumFunctionOnSet(f, S) = 0 <=> \A c \in S : f[c] = 0
  BY <1>1, <1>3, SumsOfNothing
<1>. QED
  BY <1>4, <1>5, <1>6, <1>7, <1>8 DEF S

CountedSets == {Completion} \cup {o.requires : o \in Obligations}

LEMMA CountOfNothing ==
  ASSUME NEW x
  PROVE  /\ CountedSets \subseteq SetId
         /\ MissingCount(x) = 0 <=>
              /\ \A r \in PrincipleEvidence : SatisfiesEvidence(r, x)
              /\ \A s \in CountedSets : UnmetIn(s, x) = 0
<1>. DEFINE f == [o \in Obligations |-> UnmetIn(o.requires, x)]
<1>1. UnmetIn(Completion, x) \in Nat
  BY PlanAssumption, UnmetInIsACount
<1>2. /\ Unmet(PrincipleEvidence, x) \in Nat
      /\ Unmet(PrincipleEvidence, x) = 0 <=> \A r \in PrincipleEvidence : SatisfiesEvidence(r, x)
  BY PlanAssumption, UnmetIsACount
<1>3. f \in [Obligations -> Nat]
  BY PlanAssumption, UnmetInIsACount
<1>4. \A o \in Obligations : f[o] = UnmetIn(o.requires, x)
  OBVIOUS
<1>5. MissingCount(x) = UnmetIn(Completion, x) + Unmet(PrincipleEvidence, x)
                          + SumFunctionOnSet(f, Obligations)
  BY DEF MissingCount
<1>6. IsFiniteSet(Obligations)
  BY PlanAssumption
<1>. HIDE DEF f
<1>7. /\ SumFunctionOnSet(f, Obligations) \in Nat
      /\ SumFunctionOnSet(f, Obligations) = 0 <=> \A o \in Obligations : f[o] = 0
  BY <1>3, <1>6, SumsOfNothing
<1>8. MissingCount(x) = 0 <=>
        /\ UnmetIn(Completion, x) = 0 /\ Unmet(PrincipleEvidence, x) = 0
        /\ SumFunctionOnSet(f, Obligations) = 0
  BY <1>1, <1>2, <1>5, <1>7
<1>9. CountedSets \subseteq SetId
  BY PlanAssumption DEF CountedSets
<1>10. (\A s \in CountedSets : UnmetIn(s, x) = 0)
         <=> UnmetIn(Completion, x) = 0 /\ \A o \in Obligations : UnmetIn(o.requires, x) = 0
  BY DEF CountedSets
<1>. QED
  BY <1>2, <1>4, <1>7, <1>8, <1>9, <1>10

(* Where the count is nothing, what a counted set demands one condition    *)
(* deep is met, or its condition is refuted.                               *)
LEMMA CountedDemandsAreMet ==
  ASSUME ConditionsReadObservations, NEW x, MissingCount(x) = 0, NEW s \in CountedSets,
         NEW q \in Demands[s], CountedInMissing(q.under), ~Refuted(TruthIn(Facts(x)), q.under)
  PROVE  SatisfiesEvidence(q.req, x)
<1>1. s \in SetId /\ UnmetIn(s, x) = 0
  BY CountOfNothing
<1>2. CASE q.req \in Sets[s].evidence
  BY <1>1, <1>2, UnmetInIsACount
<1>3. CASE q.req \notin Sets[s].evidence
  <2>. DEFINE K == TruthIn(Facts(x))
  <2>0. PICK c \in Sets[s].conditional : \E f \in Demands[c.require] : OneDeeper(q, f, c, s)
    BY <1>1, <1>3, DemandIs
  <2>6. PICK f \in Demands[c.require] : OneDeeper(q, f, c, s)
    BY <2>0
  <2>1. /\ c.require \in SetId /\ K[c.when] # "false"
        /\ q.req = f.req /\ Len(q.under) = 1 + Len(f.under) /\ Len(f.under) \in Nat
    BY <2>6 DEF OneDeeper
  <2>2. Len(f.under) = 0
    BY <2>1 DEF CountedInMissing
  <2>3. f.req \in Sets[c.require].evidence
    <3>1. SUFFICES ASSUME f.req \notin Sets[c.require].evidence PROVE FALSE
      OBVIOUS
    <3>2. PICK e \in Sets[c.require].conditional : \E g \in Demands[e.require] : OneDeeper(f, g, e, c.require)
      BY <2>1, <3>1, DemandIs
    <3>3. PICK g \in Demands[e.require] : OneDeeper(f, g, e, c.require)
      BY <3>2
    <3>. QED
      BY <2>2, <3>3 DEF OneDeeper
  <2>4. c \in InForce(s, x)
    <3>1. c.when \in Condition
      BY <1>1 DEF Condition
    <3>. QED
      BY <2>1, <3>1, ConditionsAreOfTheObserved DEF InForce
  <2>. QED
    BY <1>1, <2>1, <2>3, <2>4, UnmetInIsACount
<1>. QED
  BY <1>2, <1>3

---------------------------------------------------------------------------
(* What a demand blocks stays shut                                         *)

(* A gate is completion, 0, or a transition.                               *)
Opens(x, via) == (via = 0 /\ IsComplete(x)) \/ via \in Permitted(x)

LEMMA GatesAre ==
  ASSUME NEW x, NEW via, Opens(x, via)
  PROVE  /\ via = 0 => IsComplete(x)
         /\ via # 0 => /\ via \in DOMAIN Transitions
                       /\ TruthIn(Facts(x))[Transitions[via].when] = "true"
                       /\ \A s \in SetsOf(via) : SetTruths(x)[s] = "true"
<1>1. Permitted(x) \subseteq DOMAIN Transitions /\ 0 \notin Permitted(x)
  BY PlanAssumption DEF Permitted
<1>. QED
  BY <1>1 DEF Opens, Permitted

LEMMA TheCountIsNothing ==
  ASSUME CountIsAskedToBeNothing, NEW x, NEW via \in BlockedByTheCount, Opens(x, via)
  PROVE  MissingCount(x) = 0
<1>1. CASE via = 0
  <2>1. 0 \notin DOMAIN Transitions
    BY PlanAssumption
  <2>2. PICK p \in Sets[Completion].predicates : ReadsMissingCount(p)
    BY <1>1, <2>1 DEF BlockedByTheCount
  <2>3. SetTruths(x)[Completion] = "true" /\ Completion \in SetId
    BY <1>1, GatesAre, PlanAssumption DEF IsComplete
  <2>4. TruthIn(Facts(x))[p] \notin {"false", "unknown"}
    BY <2>3, TrueSets
  <2>5. TruthIn(Facts(x))[p] \in Truth
    BY <2>3, SetAssumption, TruthsAreTruths
  <2>. QED
    BY <2>2, <2>4, <2>5, AskingTheCount DEF Truth
<1>2. CASE via # 0
  <2>1. /\ via \in DOMAIN Transitions /\ ReadsMissingCount(Transitions[via].when)
        /\ TruthIn(Facts(x))[Transitions[via].when] = "true"
    BY <1>2, GatesAre DEF BlockedByTheCount
  <2>. QED
    BY <2>1, AskingTheCount DEF Guards
<1>. QED
  BY <1>1, <1>2

(* The demands of one document: what it owns it blocks, and what is        *)
(* counted the count blocks.                                               *)
LEMMA DocumentsMeetDemands ==
  ASSUME ConditionsReadObservations, CountIsAskedToBeNothing,
         NEW x, NEW via, Opens(x, via),
         NEW set \in SetId, NEW folds, NEW owned, NEW d \in Demanded(set, folds, owned),
         via \in d.blocks, via \in owned => SetTruths(x)[set] = "true",
         folds => set \in CountedSets, ~Refuted(TruthIn(Facts(x)), d.under),
         SatisfiesEvidence(d.req, x) => EvidenceTruth(d.req, x) = "true"
  PROVE  EvidenceTruth(d.req, x) = "true"
<1>1. PICK q \in Demands[set] :
        d = [req |-> q.req, under |-> q.under,
             blocks |-> owned \cup IF folds /\ CountedInMissing(q.under) THEN BlockedByTheCount ELSE {}]
  BY DEF Demanded
<1>2. CASE via \in owned
  BY <1>1, <1>2, TrueSetsMeetDemands
<1>3. CASE via \notin owned
  <2>1. folds /\ CountedInMissing(q.under) /\ via \in BlockedByTheCount
    BY <1>1, <1>3
  <2>2. MissingCount(x) = 0
    BY <2>1, TheCountIsNothing
  <2>3. SatisfiesEvidence(q.req, x)
    BY <1>1, <2>1, <2>2, CountedDemandsAreMet
  <2>. QED
    BY <1>1, <2>3
<1>. QED
  BY <1>2, <1>3

LEMMA GatesMeetDemands ==
  ASSUME ConditionsReadObservations, CountIsAskedToBeNothing,
         NEW x, NEW via, Opens(x, via), NEW d \in DemandedEvidence, via \in d.blocks,
         ~Refuted(TruthIn(Facts(x)), d.under),
         SatisfiesEvidence(d.req, x) => EvidenceTruth(d.req, x) = "true"
  PROVE  EvidenceTruth(d.req, x) = "true"
<1>0. /\ via = 0 => IsComplete(x)
      /\ via # 0 => /\ via \in DOMAIN Transitions
                    /\ \A s \in SetsOf(via) : SetTruths(x)[s] = "true"
      /\ 0 \notin DOMAIN Transitions
  BY GatesAre, PlanAssumption
<1>1. CASE d \in Demanded(Completion, TRUE, {0})
  <2>1. via \in {0} => SetTruths(x)[Completion] = "true"
    BY <1>0 DEF IsComplete
  <2>2. Completion \in SetId /\ Completion \in CountedSets
    BY PlanAssumption DEF CountedSets
  <2>. QED
    BY <1>1, <2>1, <2>2, DocumentsMeetDemands
<1>2. ASSUME NEW o \in Obligations, d \in Demanded(o.requires, TRUE, BlockedByTiming(o))
      PROVE  EvidenceTruth(d.req, x) = "true"
  <2>1. o.requires \in SetId /\ o.requires \in CountedSets /\ o.timing \in {"always", "before", "during"}
    BY PlanAssumption DEF CountedSets
  <2>2. ASSUME via \in BlockedByTiming(o) PROVE SetTruths(x)[o.requires] = "true"
    <3>1. via \in DOMAIN Transitions /\ via # 0
      BY <1>0, <2>2 DEF BlockedByTiming
    <3>2. o \in OwedToEnter(Transitions[via].to) \cup OwedNow(Transitions[via].from)
      BY <2>1, <2>2 DEF BlockedByTiming, OwedToEnter, OwedNow
    <3>3. o.requires \in SetsOf(via)
      BY <3>2 DEF SetsOf
    <3>. QED
      BY <1>0, <3>1, <3>3
  <2>. QED
    BY <1>2, <2>1, <2>2, DocumentsMeetDemands
<1>3. ASSUME NEW r \in PrincipleEvidence,
             d = [req |-> r, under |-> <<>>, blocks |-> {0} \cup BlockedByTheCount]
      PROVE  EvidenceTruth(d.req, x) = "true"
  <2>1. CASE via = 0
    BY <1>0, <1>3, <2>1 DEF IsComplete
  <2>2. CASE via # 0
    <3>1. MissingCount(x) = 0
      BY <1>3, <2>2, TheCountIsNothing
    <3>2. SatisfiesEvidence(r, x)
      BY <3>1, CountOfNothing
    <3>. QED
      BY <1>3, <3>2
  <2>. QED
    BY <2>1, <2>2
<1>4. ASSUME NEW s \in Reachable,
             d \in Demanded(StateRequires[s], FALSE, {i \in DOMAIN Transitions : Transitions[i].to = s})
      PROVE  EvidenceTruth(d.req, x) = "true"
  <2>. DEFINE owned == {i \in DOMAIN Transitions : Transitions[i].to = s}
  <2>1. PICK q \in Demands[StateRequires[s]] :
          d = [req |-> q.req, under |-> q.under,
               blocks |-> owned \cup IF FALSE /\ CountedInMissing(q.under) THEN BlockedByTheCount ELSE {}]
    BY <1>4 DEF Demanded
  <2>2. via \in owned
    BY <2>1
  <2>3. via \in DOMAIN Transitions /\ Transitions[via].to = s /\ via # 0
    BY <1>0, <2>2
  <2>4. StateRequires[s] \in SetsOf(via) /\ StateRequires[s] \in SetId
    BY <2>3, PlanAssumption DEF SetsOf
  <2>. QED
    BY <1>0, <2>1, <2>3, <2>4, TrueSetsMeetDemands
<1>5. ASSUME NEW i \in DOMAIN Transitions, d \in Demanded(Transitions[i].requires, FALSE, {i})
      PROVE  EvidenceTruth(d.req, x) = "true"
  <2>1. Transitions[i].requires \in SetId /\ Transitions[i].requires \in SetsOf(i) /\ i # 0
    BY PlanAssumption DEF SetsOf
  <2>2. via \in {i} => SetTruths(x)[Transitions[i].requires] = "true"
    BY <1>0, <2>1
  <2>. QED
    BY <1>5, <2>1, <2>2, DocumentsMeetDemands
<1>. QED
  BY <1>1, <1>2, <1>3, <1>4, <1>5 DEF DemandedEvidence

LEMMA DemandedUnderConditions ==
  ASSUME NEW d \in DemandedEvidence, NEW via \in d.blocks
  PROVE  d.req \in Requirement /\ d.under \in Seq(Condition)
<1>1. ASSUME NEW set \in SetId, NEW folds, NEW owned, d \in Demanded(set, folds, owned)
      PROVE  d.req \in Requirement /\ d.under \in Seq(Condition)
  <2>1. PICK q \in Demands[set] : d.req = q.req /\ d.under = q.under
    BY <1>1 DEF Demanded
  <2>. QED
    BY <2>1, DemandsAre DEF Demandable
<1>2. ASSUME NEW r \in PrincipleEvidence,
             d = [req |-> r, under |-> <<>>, blocks |-> {0} \cup BlockedByTheCount]
      PROVE  d.req \in Requirement /\ d.under \in Seq(Condition)
  BY <1>2 DEF Requirement
<1>3. ASSUME NEW s, d \in Demanded(StateRequires[s], FALSE, {i \in DOMAIN Transitions : Transitions[i].to = s})
      PROVE  StateRequires[s] \in SetId
  <2>1. via \in {i \in DOMAIN Transitions : Transitions[i].to = s}
    BY <1>3 DEF Demanded
  <2>. QED
    BY <2>1, PlanAssumption
<1>4. CASE d \in Demanded(Completion, TRUE, {0})
  BY <1>1, <1>4, PlanAssumption
<1>5. ASSUME NEW o \in Obligations, d \in Demanded(o.requires, TRUE, BlockedByTiming(o))
      PROVE  d.req \in Requirement /\ d.under \in Seq(Condition)
  BY <1>1, <1>5, PlanAssumption
<1>6. ASSUME NEW s \in Reachable,
             d \in Demanded(StateRequires[s], FALSE, {i \in DOMAIN Transitions : Transitions[i].to = s})
      PROVE  d.req \in Requirement /\ d.under \in Seq(Condition)
  BY <1>1, <1>3, <1>6
<1>7. ASSUME NEW i \in DOMAIN Transitions, d \in Demanded(Transitions[i].requires, FALSE, {i})
      PROVE  d.req \in Requirement /\ d.under \in Seq(Condition)
  BY <1>1, <1>7, PlanAssumption
<1>. QED
  BY <1>2, <1>4, <1>5, <1>6, <1>7 DEF DemandedEvidence

(* What was observed is read of the log, the graph and the instant.        *)
SameReading(x, y) == x.evidence = y.evidence /\ x.graph = y.graph /\ x.at = y.at

LEMMA ObservedIgnoresState ==
  ASSUME NEW x, NEW y, SameReading(x, y), NEW n \in Nat, DOMAIN x.evidence = 1 .. n
  PROVE  Observed(x) = Observed(y)
<1>. DEFINE S == SUBSET (1 .. n)
            Bad == {T \in S : Layers(x)[T] # Layers(y)[T]}
<1>1. DOMAIN y.evidence = 1 .. n
  BY DEF SameReading
<1>2. ASSUME Bad # {} PROVE FALSE
  <2>1. Bad \subseteq S
    OBVIOUS
  <2>2. IsWellFoundedOn(StrictSubsetOrdering(1 .. n), S)
    <3>1. IsFiniteSet(1 .. n)
      BY FS_Interval
    <3>. QED
      BY <3>1, SubsetsAreOrdered
  <2>. HIDE DEF Bad, S
  <2>3. PICK T \in Bad : \A U \in Bad : ~ (<<U, T>> \in StrictSubsetOrdering(1 .. n))
    BY <1>2, <2>1, <2>2, WFMin
  <2>4. T \in SUBSET (1 .. n) /\ Layers(x)[T] # Layers(y)[T]
    BY <2>3 DEF Bad, S
  <2>5. Layers(x)[T] = Layer(x, Layers(x), T) /\ Layers(y)[T] = Layer(y, Layers(y), T)
    BY <1>1, <2>4, LayersAre
  <2>6. T # {}
    BY <2>4, <2>5 DEF Layer, SameReading
  <2>7. Max(T) \in T
    BY <2>4, <2>6, MaxIsIn
  <2>8. T \ {Max(T)} \in S /\ <<T \ {Max(T)}, T>> \in StrictSubsetOrdering(1 .. n)
    BY <2>4, <2>7 DEF S, StrictSubsetOrdering
  <2>9. Layers(x)[T \ {Max(T)}] = Layers(y)[T \ {Max(T)}]
    BY <2>3, <2>8 DEF Bad
  <2>. QED
    BY <2>4, <2>5, <2>6, <2>9 DEF Layer, SameReading
<1>3. 1 .. n \in S
  OBVIOUS
<1>. QED
  BY <1>1, <1>2, <1>3, ObservedIsLayered

LEMMA RefutationIgnoresState ==
  ASSUME ConditionsReadObservations, NEW x, NEW y, SameReading(x, y),
         NEW n \in Nat, DOMAIN x.evidence = 1 .. n, NEW under \in Seq(Condition),
         Refuted(TruthIn(Facts(x)), under)
  PROVE  Refuted(TruthIn(Facts(y)), under)
<1>1. \A c \in Condition : TruthIn(Facts(x))[c] = TruthIn(Facts(y))[c]
  BY ObservedIgnoresState, ConditionsAreOfTheObserved
<1>2. \A i \in DOMAIN under : under[i] \in Condition
  OBVIOUS
<1>. QED
  BY <1>1, <1>2 DEF Refuted

(* The step that passes a gate reads it of the execution as of now, and    *)
(* leaves one that reads alike.                                            *)
LEMMA GateStep ==
  ASSUME TypeInv, [Next]_vars, ~UNCHANGED vars, outcome'.is \in {"moved", "completed"}
  PROVE  /\ Opens(Now, outcome'.via) /\ SameReading(exec', Now)
         /\ outcome'.is = "completed" => outcome'.via = 0
<1>1. CASE Tick \/ SetArtifacts \/ SubmitEvidence \/ Save \/ Restore
  <2>1. outcome'.is \in {"none", "submitted", "restored"}
    <3>1. CASE Tick \/ SetArtifacts \/ Save
      BY <3>1 DEF Tick, SetArtifacts, Save, Answer
    <3>2. CASE SubmitEvidence
      BY <3>2 DEF SubmitEvidence, Submit, Answer
    <3>3. CASE Restore
      BY <3>3 DEF Restore, Answer
    <3>. QED
      BY <1>1, <3>1, <3>2, <3>3
  <2>. QED
    BY <2>1
<1>2. CASE Transition
  <2>1. Proceed(Now)
    BY <1>2 DEF Transition, Now
  <2>2. CASE outcome' = [is |-> "completed", via |-> 0] /\ exec' = Now /\ IsComplete(Now)
    BY <2>2 DEF Opens, SameReading
  <2>3. ASSUME NEW i \in Permitted(Now), outcome' = [is |-> "moved", via |-> i],
               exec' = Moved(Now, i)
        PROVE  Opens(Now, outcome'.via) /\ SameReading(exec', Now) /\ outcome'.is # "completed"
    BY <2>3, MovedIs, NowIs DEF Opens, SameReading
  <2>. QED
    BY <2>1, <2>2, <2>3, ProceedsTo
<1>. QED
  BY <1>1, <1>2 DEF Next

LEMMA DemandsHoldAtGates ==
  ASSUME ConditionsReadObservations, CountIsAskedToBeNothing,
         NEW x, NEW y, SameReading(y, x), NEW n \in Nat, DOMAIN x.evidence = 1 .. n,
         NEW via, Opens(x, via), NEW d \in DemandedEvidence, via \in d.blocks,
         EvidenceTruth(d.req, y) # "true",
         SatisfiesEvidence(d.req, x) => EvidenceTruth(d.req, x) = "true"
  PROVE  Refuted(TruthIn(Facts(y)), d.under)
<1>1. EvidenceTruth(d.req, x) # "true"
  BY EvidenceIgnoresState DEF SameReading
<1>2. Refuted(TruthIn(Facts(x)), d.under)
  BY <1>1, GatesMeetDemands
<1>3. d.under \in Seq(Condition)
  BY DemandedUnderConditions
<1>4. SameReading(x, y)
  BY DEF SameReading
<1>. QED
  BY <1>2, <1>3, <1>4, RefutationIgnoresState

LEMMA BoundRecordsCount ==
  ASSUME NothingIsUnbound, NEW x, History(x), x.graph \in Graphs, NEW req,
         SatisfiesEvidence(req, x)
  PROVE  EvidenceTruth(req, x) = "true"
<1>1. ASSUME NEW i \in DOMAIN x.evidence PROVE ~Unbound(x.evidence[i], x.graph)
  <2>1. PICK s \in Submissions, o \in Instant, p \in Instant : x.evidence[i] = EvidenceRecord(s, o, p)
    BY LogIs DEF LogRecord
  <2>2. x.evidence[i].digest = s.digest
    BY <2>1, RecordIs, SubmissionAssumption
  <2>. QED
    BY <2>2 DEF NothingIsUnbound, Unbound
<1>2. Counted(req, x) = {i \in Matching(req, x) : Stands(req, x.evidence[i], x.at)}
  BY <1>1 DEF Counted, Matching
<1>. QED
  BY <1>2 DEF SatisfiesEvidence, EvidenceTruth

ReportKept == report.demands = DemandedEvidence /\ report.missing = MissingProducers

LEMMA ReportInit == Init /\ Launch => TypeInv /\ ReportKept
  BY TypeInit DEF Launch, ReportKept

LEMMA ReportNext ==
  TypeInv /\ ReportKept /\ [LaunchedNext]_<<vars, report>> => (TypeInv /\ ReportKept)'
<1>1. TypeInv /\ [LaunchedNext]_<<vars, report>> => TypeInv'
  BY TypeNext DEF LaunchedNext, vars
<1>2. ReportKept /\ [LaunchedNext]_<<vars, report>> => ReportKept'
  <2>1. [LaunchedNext]_<<vars, report>> => report' = report
    BY DEF LaunchedNext
  <2>2. DemandedEvidence' = DemandedEvidence /\ MissingProducers' = MissingProducers
    OBVIOUS
  <2>. QED
    BY <2>1, <2>2 DEF ReportKept
<1>. QED
  BY <1>1, <1>2

LEMMA TheLogIsFinite == ASSUME TypeInv PROVE \E n \in Nat : DOMAIN Now.evidence = 1 .. n
  BY LogIs, NowIs DEF TypeInv

(* For every plan whose conditions read observations and whose guards ask  *)
(* the count to be nothing: what the launch report says an unmet demand    *)
(* blocks is shut while it is unmet, at any depth of conditions, on every  *)
(* path, but by facts that refute a condition it is under (evaluate.rs,    *)
(* DemandedEvidence::blocks).  Attested revisions are the exception the    *)
(* last hypothesis leaves out: the count does not read them.               *)
THEOREM DemandsAlwaysBlock ==
  ASSUME ConditionsReadObservations, CountIsAskedToBeNothing, NothingIsUnbound
  PROVE  LaunchedSpec => []DemandsBlock
<1>1. Init /\ Launch => DemandsBlock
  BY DEF Init, DemandsBlock
<1>2. TypeInv /\ ReportKept /\ DemandsBlock /\ [LaunchedNext]_<<vars, report>> => DemandsBlock'
  <2>. SUFFICES ASSUME TypeInv, ReportKept, DemandsBlock, [LaunchedNext]_<<vars, report>>
                PROVE  DemandsBlock'
    OBVIOUS
  <2>1. ReportKept' /\ report' = report
    BY ReportNext DEF LaunchedNext
  <2>2. CASE UNCHANGED vars
    <3>1. outcome' = outcome /\ exec' = exec
      BY <2>2 DEF vars
    <3>. QED
      BY <2>1, <3>1 DEF DemandsBlock, Passed
  <2>3. CASE ~UNCHANGED vars
    <3>. SUFFICES ASSUME outcome'.is \in {"moved", "completed"}, NEW d \in DemandedEvidence,
                         Passed(d.blocks)', EvidenceTruth(d.req, exec') # "true"
                  PROVE  Refuted(TruthIn(Facts(exec')), d.under)
      BY <2>1 DEF DemandsBlock, ReportKept
    <3>1. [Next]_vars
      BY DEF LaunchedNext, vars
    <3>2. /\ Opens(Now, outcome'.via) /\ SameReading(exec', Now)
          /\ outcome'.is = "completed" => outcome'.via = 0
      BY <2>3, <3>1, GateStep
    <3>3. outcome'.via \in d.blocks
      BY <3>2 DEF Passed
    <3>4. PICK n \in Nat : DOMAIN Now.evidence = 1 .. n
      BY TheLogIsFinite
    <3>5. History(Now) /\ Now.graph \in Graphs
      BY NowIs DEF TypeInv, History
    <3>6. SatisfiesEvidence(d.req, Now) => EvidenceTruth(d.req, Now) = "true"
      BY <3>5, BoundRecordsCount
    <3>7. PICK y : y = exec'
      OBVIOUS
    <3>. QED
      BY <3>2, <3>3, <3>4, <3>6, <3>7, DemandsHoldAtGates
  <2>. QED
    BY <2>2, <2>3
<1>. QED
  BY <1>1, <1>2, ReportInit, ReportNext, PTL DEF LaunchedSpec

(* No record of a run is of a kind neither a step nor a person produces.   *)
LEMMA NobodyProduces ==
  ASSUME NEW x, History(x), NEW d \in MissingProducers, d.req.atLeast \in Nat
  PROVE  ~SatisfiesEvidence(d.req, x) /\ EvidenceTruth(d.req, x) # "true"
<1>1. d.req.atLeast > 0 /\ d.req.kind \notin StepKinds /\ d.req.kind \notin PersonKinds
  BY DEF MissingProducers, IsPersonShaped
<1>2. ASSUME NEW i \in DOMAIN x.evidence PROVE x.evidence[i].kind # d.req.kind
  <2>1. PICK s \in Submissions, o \in Instant, p \in Instant : x.evidence[i] = EvidenceRecord(s, o, p)
    BY LogIs DEF LogRecord
  <2>2. x.evidence[i].kind = s.kind
    BY <2>1, RecordIs, SubmissionAssumption
  <2>. QED
    BY <1>1, <2>2, MapAssumption
<1>3. Matching(d.req, x) = {}
  BY <1>2 DEF Matching, Matches
<1>4. Counted(d.req, x) = {} /\ {i \in Matching(d.req, x) : Stands(d.req, x.evidence[i], x.at)} = {}
  BY <1>3 DEF Counted
<1>5. Cardinality({}) = 0
  BY FS_EmptySet
<1>6. ~ (0 >= d.req.atLeast)
  BY <1>1
<1>7. ~SatisfiesEvidence(d.req, x)
  BY <1>4, <1>5, <1>6 DEF SatisfiesEvidence
<1>8. EvidenceTruth(d.req, x) # "true"
  BY <1>4, <1>5, <1>6, TruthIsACount
<1>. QED
  BY <1>7, <1>8

(* A launch is never refused for nothing: in a run of the map, what is     *)
(* demanded of it and nothing of it produces does hold shut what the       *)
(* report says it blocks, revisions attested or not, but by facts that     *)
(* refute a condition the demand is under (coverage.rs).                   *)
THEOREM RefusalsAreAlwaysReal ==
  ASSUME ConditionsReadObservations, CountIsAskedToBeNothing
  PROVE  LaunchedSpec => []RefusalsAreReal
<1>1. Init /\ Launch => RefusalsAreReal
  BY DEF Init, RefusalsAreReal
<1>2. TypeInv /\ ReportKept /\ RefusalsAreReal /\ [LaunchedNext]_<<vars, report>> => RefusalsAreReal'
  <2>. SUFFICES ASSUME TypeInv, ReportKept, RefusalsAreReal, [LaunchedNext]_<<vars, report>>
                PROVE  RefusalsAreReal'
    OBVIOUS
  <2>0. TypeInv'
    BY ReportNext
  <2>1. ReportKept' /\ report' = report
    BY ReportNext DEF LaunchedNext
  <2>2. CASE UNCHANGED vars
    <3>1. outcome' = outcome /\ exec' = exec
      BY <2>2 DEF vars
    <3>. QED
      BY <2>1, <3>1 DEF RefusalsAreReal, Passed
  <2>3. CASE ~UNCHANGED vars
    <3>. SUFFICES ASSUME outcome'.is \in {"moved", "completed"}, NEW d \in MissingProducers,
                         Passed(d.blocks)'
                  PROVE  Refuted(TruthIn(Facts(exec')), d.under)
      BY <2>1 DEF RefusalsAreReal, ReportKept
    <3>1. [Next]_vars /\ d \in DemandedEvidence
      BY DEF LaunchedNext, vars, MissingProducers
    <3>2. /\ Opens(Now, outcome'.via) /\ SameReading(exec', Now)
          /\ outcome'.is = "completed" => outcome'.via = 0
      BY <2>3, <3>1, GateStep
    <3>3. outcome'.via \in d.blocks
      BY <3>2 DEF Passed
    <3>4. PICK n \in Nat : DOMAIN Now.evidence = 1 .. n
      BY TheLogIsFinite
    <3>5. PICK y : y = exec'
      OBVIOUS
    <3>6. History(Now) /\ History(y)
      BY <2>0, <3>5, NowIs DEF TypeInv, History
    <3>7. d.req.atLeast \in Nat
      BY <3>1, <3>3, DemandedUnderConditions, HorizonAssumption DEF Requirement
    <3>8. ~SatisfiesEvidence(d.req, Now) /\ EvidenceTruth(d.req, y) # "true"
      BY <3>6, <3>7, NobodyProduces
    <3>. QED
      BY <3>1, <3>2, <3>3, <3>4, <3>5, <3>8, DemandsHoldAtGates
  <2>. QED
    BY <2>2, <2>3
<1>. QED
  BY <1>1, <1>2, ReportInit, ReportNext, PTL DEF LaunchedSpec

(* Where `evidence.missing` is nothing, the report names no unmet          *)
(* requirement the count is about, on any log, at any instant              *)
(* (execution.rs 590-604): the two readings of a record agree but on the   *)
(* revision it attests.                                                    *)
THEOREM TheCountAgreesWithTheReport ==
  ASSUME ConditionsReadObservations, NothingIsUnbound
  PROVE  Spec => []MissingAgreesWithTheReport
<1>1. ASSUME TypeInv, MissingCount(exec) = 0 PROVE MissingAgreesWithTheReport
  <2>1. ASSUME NEW r, SatisfiesEvidence(r, exec) PROVE EvidenceTruth(r, exec) = "true"
    BY <1>1, <2>1, BoundRecordsCount DEF TypeInv
  <2>2. \A r \in PrincipleEvidence : EvidenceTruth(r, exec) = "true"
    BY <1>1, <2>1, CountOfNothing
  <2>3. ASSUME NEW s \in CountedSets, NEW r \in Reported(s) PROVE EvidenceTruth(r, exec) = "true"
    <3>1. s \in SetId /\ UnmetIn(s, exec) = 0
      BY <1>1, CountOfNothing
    <3>2. CASE r \in Sets[s].evidence
      BY <2>1, <3>1, <3>2, UnmetInIsACount
    <3>3. CASE r \notin Sets[s].evidence
      <4>1. PICK c \in Sets[s].conditional :
              TruthIn(Facts(exec))[c.when] = "true" /\ r \in Sets[c.require].evidence
        BY <3>3 DEF Reported
      <4>2. c.when \in Condition
        BY <3>1 DEF Condition
      <4>3. c \in InForce(s, exec)
        BY <4>1, <4>2, ConditionsAreOfTheObserved DEF InForce
      <4>. QED
        BY <2>1, <3>1, <4>1, <4>3, UnmetInIsACount
    <3>. QED
      BY <3>2, <3>3
  <2>. QED
    BY <2>2, <2>3 DEF MissingAgreesWithTheReport, CountedSets
<1>2. TypeInv => MissingAgreesWithTheReport
  BY <1>1 DEF MissingAgreesWithTheReport
<1>. QED
  BY <1>2, TypeInit, TypeNext, PTL DEF Spec
---------------------------------------------------------------------------
(* Time opens nothing                                                      *)

(* One log read twice: x later than y, and what it holds was observed in   *)
(* the order it was submitted.                                             *)
Aged(x, y) ==
  /\ x.state = y.state /\ x.evidence = y.evidence /\ x.graph = y.graph /\ x.graph \in Graphs
  /\ History(x) /\ x.at \in Nat /\ y.at \in Nat /\ y.at <= x.at

ObservedInOrder(x) ==
  \A i, j \in DOMAIN x.evidence : i <= j => x.evidence[i].observed <= x.evidence[j].observed

LEMMA LapsedStaysLapsed ==
  ASSUME NEW k, NEW m, k.kind = m.kind, k.observed \in Nat, m.observed \in Nat,
         NEW at \in Nat, NEW then \in Nat, k.observed <= m.observed, at <= then
  PROVE  HasLapsed(m, at) => HasLapsed(k, then)
<1>. SUFFICES ASSUME HasLapsed(m, at) PROVE HasLapsed(k, then)
  OBVIOUS
<1>1. at # None
  BY SentinelAssumption
<1>2. PICK h \in Horizons(m.kind) : ~ (at <= m.observed + h)
  BY <1>1 DEF HasLapsed, Covers
<1>3. h \in Nat
  BY HorizonsAre
<1>4. ~ (then <= k.observed + h)
  BY <1>2, <1>3
<1>. QED
  BY <1>2, <1>4 DEF HasLapsed, Covers

LEMMA StandsFades ==
  ASSUME NEW x, NEW y, Aged(x, y), NEW r, r.horizon \in Nat, NEW i \in DOMAIN x.evidence,
         Stands(r, x.evidence[i], x.at)
  PROVE  Stands(r, y.evidence[i], y.at)
<1>1. x.evidence[i].observed \in Nat
  BY LogIs DEF Aged
<1>2. y.at # None
  BY SentinelAssumption DEF Aged
<1>. QED
  BY <1>1, <1>2 DEF Aged, Stands, Covers

LEMMA EvidenceFades ==
  ASSUME NEW x, NEW y, Aged(x, y), NEW r, r.horizon \in Nat, r.atLeast \in Nat
  PROVE  /\ EvidenceTruth(r, x) = "true" => EvidenceTruth(r, y) = "true"
         /\ SatisfiesEvidence(r, x) => SatisfiesEvidence(r, y)
<1>. DEFINE n == Len(x.evidence)
            Sx == {i \in Matching(r, x) : Stands(r, x.evidence[i], x.at)}
            Sy == {i \in Matching(r, y) : Stands(r, y.evidence[i], y.at)}
<1>1. n \in Nat /\ DOMAIN x.evidence = 1 .. n
  BY LogIs DEF Aged
<1>2. Matching(r, x) = Matching(r, y) /\ Matching(r, x) \subseteq DOMAIN x.evidence
  BY DEF Aged, Matching
<1>3. \A i \in Matching(r, x) : Stands(r, x.evidence[i], x.at) => Stands(r, y.evidence[i], y.at)
  BY <1>2, StandsFades
<1>4. Counted(r, x) \subseteq Counted(r, y) /\ Counted(r, y) \in SUBSET (1 .. n)
  BY <1>1, <1>2, <1>3 DEF Counted, Aged
<1>5. Sx \subseteq Sy /\ Sy \in SUBSET (1 .. n)
  BY <1>1, <1>2, <1>3
<1>. HIDE DEF Sx, Sy, n
<1>6. /\ Cardinality(Counted(r, x)) \in Nat /\ Cardinality(Counted(r, y)) \in Nat
      /\ Cardinality(Counted(r, x)) <= Cardinality(Counted(r, y))
  BY <1>1, <1>4, SubsetsCountLess
<1>7. /\ Cardinality(Sx) \in Nat /\ Cardinality(Sy) \in Nat
      /\ Cardinality(Sx) <= Cardinality(Sy)
  BY <1>1, <1>5, SubsetsCountLess
<1>8. EvidenceTruth(r, x) = "true" => EvidenceTruth(r, y) = "true"
  BY <1>6, TruthIsACount
<1>9. SatisfiesEvidence(r, x) => SatisfiesEvidence(r, y)
  BY <1>7 DEF SatisfiesEvidence, Sx, Sy
<1>. QED
  BY <1>8, <1>9

---------------------------------------------------------------------------
(* What the observed facts are: of the last record that stands and binds a *)
(* path, or of the plan and the graph.                                     *)
Binders(x, p, set) == {i \in set : p \in DOMAIN x.evidence[i].facts /\ ~HasLapsed(x.evidence[i], x.at)}

Given(x) == Extended(PlanFacts, x.graph.facts)

BoundBy(known, x, p, set) ==
  IF Binders(x, p, set) # {}
  THEN p \in DOMAIN known /\ known[p] = x.evidence[Max(Binders(x, p, set))].facts[p]
  ELSE /\ p \in DOMAIN known <=> p \in DOMAIN Given(x)
       /\ p \in DOMAIN known => known[p] = Given(x)[p]

LEMMA LastIsMax ==
  ASSUME NEW n \in Nat, NEW S, S \subseteq 1 .. n, NEW m \in S, \A k \in S : k <= m
  PROVE  Max(S) = m
<1>. PICK k : k = Max(S)
  OBVIOUS
<1>1. k \in S /\ m <= k
  BY MaxIsIn
<1>2. k <= m /\ k \in Nat /\ m \in Nat
  BY <1>1
<1>. QED
  BY <1>1, <1>2

LEMMA LayersBind ==
  ASSUME NEW x, NEW n \in Nat, DOMAIN x.evidence = 1 .. n, NEW p
  PROVE  BoundBy(Observed(x), x, p, 1 .. n)
<1>. DEFINE S == SUBSET (1 .. n)
            Bad == {T \in S : ~BoundBy(Layers(x)[T], x, p, T)}
<1>. SUFFICES ASSUME 1 .. n \in Bad PROVE FALSE
  BY ObservedIsLayered
<1>2. IsFiniteSet(1 .. n)
  BY FS_Interval
<1>3. Bad \subseteq S /\ Bad # {}
  OBVIOUS
<1>4. IsWellFoundedOn(StrictSubsetOrdering(1 .. n), S)
  BY <1>2, SubsetsAreOrdered
<1>. HIDE DEF S, Bad
<1>5. PICK T \in Bad : \A U \in Bad : ~ (<<U, T>> \in StrictSubsetOrdering(1 .. n))
  BY <1>3, <1>4, WFMin
<1>6. T \in SUBSET (1 .. n) /\ ~BoundBy(Layers(x)[T], x, p, T)
  BY <1>5 DEF Bad, S
<1>7. Layers(x)[T] = Layer(x, Layers(x), T)
  BY <1>6, LayersAre
<1>8. CASE T = {}
  <2>1. Layers(x)[T] = Given(x)
    BY <1>7, <1>8 DEF Layer, Given
  <2>2. Binders(x, p, T) = {}
    BY <1>8 DEF Binders
  <2>. QED
    BY <1>6, <2>1, <2>2 DEF BoundBy
<1>9. CASE T # {}
  <2>. DEFINE m == Max(T)
              U == T \ {m}
              below == Layers(x)[U]
  <2>1. m \in T /\ m \in 1 .. n /\ \A k \in T : k <= m
    BY <1>6, <1>9, MaxIsIn
  <2>2. BoundBy(below, x, p, U)
    <3>1. U \in S /\ <<U, T>> \in StrictSubsetOrdering(1 .. n)
      BY <1>6, <2>1 DEF S, StrictSubsetOrdering
    <3>. QED
      BY <1>5, <3>1 DEF Bad
  <2>3. Layers(x)[T] = IF HasLapsed(x.evidence[m], x.at) THEN below
                       ELSE Extended(below, x.evidence[m].facts)
    BY <1>7, <1>9 DEF Layer
  <2>. HIDE DEF m
  <2>4. CASE m \in Binders(x, p, T)
    <3>1. ~HasLapsed(x.evidence[m], x.at) /\ p \in DOMAIN x.evidence[m].facts
      BY <2>4 DEF Binders
    <3>2. p \in DOMAIN Layers(x)[T] /\ Layers(x)[T][p] = x.evidence[m].facts[p]
      BY <2>3, <3>1 DEF Extended
    <3>3. Max(Binders(x, p, T)) = m
      BY <1>6, <2>1, <2>4, LastIsMax DEF Binders
    <3>. QED
      BY <1>6, <2>4, <3>2, <3>3 DEF BoundBy
  <2>5. CASE m \notin Binders(x, p, T)
    <3>1. Binders(x, p, T) = Binders(x, p, U)
      BY <2>5 DEF Binders
    <3>2. /\ p \in DOMAIN Layers(x)[T] <=> p \in DOMAIN below
          /\ p \in DOMAIN below => Layers(x)[T][p] = below[p]
      <4>1. HasLapsed(x.evidence[m], x.at) \/ p \notin DOMAIN x.evidence[m].facts
        BY <2>1, <2>5 DEF Binders
      <4>. QED
        BY <2>3, <4>1 DEF Extended
    <3>. HIDE DEF below, U
    <3>. QED
      BY <1>6, <2>2, <3>1, <3>2 DEF BoundBy
  <2>. QED
    BY <2>4, <2>5
<1>. QED
  BY <1>8, <1>9

(* Later, a fact that lapses at all is the one that was read before, or    *)
(* absent; what cannot lapse is as it was.                                 *)
Fades(f, g, but) ==
  \A p : p \notin but =>
    /\ p \in DOMAIN f => p \in DOMAIN g /\ f[p] = g[p]
    /\ p \notin DecayingPaths => (p \in DOMAIN g => p \in DOMAIN f)

LEMMA ObservationsFade ==
  ASSUME OnlyEvidenceBinds, OneKindBinds, NEW x, NEW y, Aged(x, y), ObservedInOrder(x)
  PROVE  Fades(Observed(x), Observed(y), {})
<1>. SUFFICES ASSUME NEW p
              PROVE  /\ p \in DOMAIN Observed(x) =>
                          p \in DOMAIN Observed(y) /\ Observed(x)[p] = Observed(y)[p]
                     /\ p \notin DecayingPaths => (p \in DOMAIN Observed(y) => p \in DOMAIN Observed(x))
  BY DEF Fades
<1>. DEFINE n == Len(x.evidence)
            Bx == Binders(x, p, 1 .. n)
            By == Binders(y, p, 1 .. n)
<1>1. n \in Nat /\ DOMAIN x.evidence = 1 .. n /\ DOMAIN y.evidence = 1 .. n
  BY LogIs DEF Aged
<1>2. BoundBy(Observed(x), x, p, 1 .. n) /\ BoundBy(Observed(y), y, p, 1 .. n)
  BY <1>1, LayersBind
<1>3. Given(x) = Given(y)
  BY DEF Given, Aged
<1>4. ASSUME NEW at \in {x.at, y.at}, NEW i \in 1 .. n, NEW j \in 1 .. n, i <= j,
             x.evidence[i].kind = x.evidence[j].kind, HasLapsed(x.evidence[j], at)
      PROVE  HasLapsed(x.evidence[i], x.at)
  <2>1. /\ x.evidence[i].observed \in Nat /\ x.evidence[j].observed \in Nat
        /\ x.evidence[i].observed <= x.evidence[j].observed
    BY <1>1, <1>4, LogIs DEF Aged, ObservedInOrder
  <2>2. at \in Nat /\ at <= x.at
    BY DEF Aged
  <2>. QED
    BY <1>4, <2>1, <2>2, LapsedStaysLapsed DEF Aged
<1>5. Bx \subseteq By
  <2>1. \A i \in 1 .. n : HasLapsed(x.evidence[i], y.at) => HasLapsed(x.evidence[i], x.at)
    BY <1>4
  <2>. QED
    BY <2>1 DEF Binders, Aged
<1>6. ASSUME NEW i \in 1 .. n, p \in DOMAIN x.evidence[i].facts
      PROVE  /\ p \in EvidencePaths
             /\ \E s \in Submissions : s.kind = x.evidence[i].kind /\ p \in DOMAIN s.facts
  <2>1. x.evidence[i] \in LogRecord
    BY <1>1, LogIs DEF Aged
  <2>2. PICK s \in Submissions : \A field \in DOMAIN s : x.evidence[i][field] = s[field]
    BY <2>1, RecordsAreRecords DEF Record
  <2>3. s.kind = x.evidence[i].kind /\ s.facts = x.evidence[i].facts
    BY <2>2, SubmissionAssumption
  <2>. QED
    BY <1>6, <2>3 DEF EvidencePaths
<1>7. ASSUME NEW i \in 1 .. n, NEW j \in 1 .. n,
             p \in DOMAIN x.evidence[i].facts, p \in DOMAIN x.evidence[j].facts
      PROVE  x.evidence[i].kind = x.evidence[j].kind
  BY <1>6, <1>7 DEF OneKindBinds
<1>8. CASE Bx # {}
  <2>1. By # {} /\ Bx \subseteq 1 .. n /\ By \subseteq 1 .. n
    BY <1>5, <1>8 DEF Binders
  <2>2. Max(By) \in By /\ (\A m \in By : m <= Max(By)) /\ Max(Bx) \in Bx
    BY <1>1, <1>8, <2>1, MaxIsIn
  <2>3. Max(By) \in Bx
    <3>1. Max(Bx) <= Max(By) /\ Max(Bx) \in 1 .. n /\ Max(By) \in 1 .. n
      BY <1>5, <2>1, <2>2
    <3>2. /\ p \in DOMAIN x.evidence[Max(Bx)].facts /\ ~HasLapsed(x.evidence[Max(Bx)], x.at)
          /\ p \in DOMAIN x.evidence[Max(By)].facts
      BY <2>2 DEF Binders, Aged
    <3>3. ~HasLapsed(x.evidence[Max(By)], x.at)
      BY <1>4, <1>7, <3>1, <3>2
    <3>. QED
      BY <3>1, <3>2, <3>3 DEF Binders
  <2>4. Max(Bx) = Max(By)
    BY <1>1, <1>5, <2>1, <2>2, <2>3, LastIsMax
  <2>5. p \in EvidencePaths
    BY <1>6, <2>2 DEF Binders
  <2>. QED
    BY <1>2, <1>8, <2>1, <2>4, <2>5 DEF BoundBy, Aged
<1>9. CASE Bx = {}
  <2>1. p \in DOMAIN Given(x) => p \notin EvidencePaths
    BY DEF Given, Extended, OnlyEvidenceBinds, Aged
  <2>2. p \notin EvidencePaths => By = {}
    <3>1. \A i \in By : i \in 1 .. n /\ p \in DOMAIN x.evidence[i].facts
      BY DEF Binders, Aged
    <3>. QED
      BY <1>6, <3>1
  <2>3. p \notin DecayingPaths => By = {}
    <3>. SUFFICES ASSUME p \notin DecayingPaths, NEW i \in By PROVE FALSE
      OBVIOUS
    <3>1. i \in 1 .. n /\ p \in DOMAIN x.evidence[i].facts
      BY DEF Binders, Aged
    <3>2. Horizons(x.evidence[i].kind) = {}
      BY <1>6, <3>1 DEF DecayingPaths
    <3>3. i \in Bx
      BY <3>1, <3>2 DEF HasLapsed, Binders
    <3>. QED
      BY <1>9, <3>3
  <2>4. p \in DOMAIN Observed(x) <=> p \in DOMAIN Given(x)
    BY <1>2, <1>9 DEF BoundBy
  <2>5. p \in DOMAIN Observed(x) => Observed(x)[p] = Given(x)[p]
    BY <1>2, <1>9 DEF BoundBy
  <2>6. p \notin EvidencePaths =>
          /\ p \in DOMAIN Observed(y) <=> p \in DOMAIN Given(x)
          /\ p \in DOMAIN Observed(y) => Observed(y)[p] = Given(x)[p]
    BY <1>2, <1>3, <2>2 DEF BoundBy
  <2>7. p \notin DecayingPaths => (p \in DOMAIN Observed(y) <=> p \in DOMAIN Given(x))
    BY <1>2, <1>3, <2>3 DEF BoundBy
  <2>. HIDE DEF n, Bx, By
  <2>. QED
    BY <2>1, <2>4, <2>5, <2>6, <2>7
<1>. QED
  BY <1>8, <1>9

LEMMA DerivedStays ==
  ASSUME NEW x, NEW y, Aged(x, y)
  PROVE  /\ DOMAIN Derived(x) = DOMAIN Derived(y)
         /\ \A p \in DOMAIN Derived(x) \ Lapses : Derived(x)[p] = Derived(y)[p]
<1>1. DOMAIN Derived(x) = DOMAIN Derived(y)
  BY DEF Derived, Aged
<1>2. ASSUME NEW p \in DOMAIN Derived(x), p \notin Lapses
      PROVE  Derived(x)[p] = Derived(y)[p]
  <2>. PICK e, q : e = x.evidence /\ q = x.state
    OBVIOUS
  <2>1. e = y.evidence /\ q = y.state /\ p \in DOMAIN Derived(y)
    BY <1>1, <1>2 DEF Aged
  <2>2. p \notin {"evidence.missing", "evidence.lapsed"}
    BY <1>2 DEF Lapses
  <2>3. CASE p = "approvals.granted"
    BY <2>1, <2>3 DEF Derived
  <2>4. CASE p = "workflow.terminal"
    BY <2>1, <2>4 DEF Derived
  <2>5. CASE p = "state.current"
    BY <2>1, <2>5 DEF Derived
  <2>6. CASE p \notin {"approvals.granted", "workflow.terminal", "state.current"}
    <3>. DEFINE At(z, k) == {i \in DOMAIN z.evidence : z.evidence[i].kind = k}
                Seen(z) == {k \in Kind : At(z, k) # {}}
                Count(z) == Number(Cardinality(At(z, CHOOSE k \in Seen(z) : p = "evidence.count." \o k)))
    <3>1. ASSUME NEW z, p \in DOMAIN Derived(z) PROVE Derived(z)[p] = Count(z)
      BY <2>2, <2>6, <3>1 DEF Derived
    <3>2. Count(x) = Count(y)
      BY DEF Aged
    <3>. HIDE DEF Count
    <3>. QED
      BY <1>2, <2>1, <3>1, <3>2
  <2>. QED
    BY <2>3, <2>4, <2>5, <2>6
<1>. QED
  BY <1>1, <1>2

LEMMA FactsFade ==
  ASSUME OnlyEvidenceBinds, OneKindBinds, NEW x, NEW y, Aged(x, y), ObservedInOrder(x)
  PROVE  Fades(Facts(x), Facts(y), Lapses)
<1>. SUFFICES ASSUME NEW p, p \notin Lapses
              PROVE  /\ p \in DOMAIN Facts(x) => p \in DOMAIN Facts(y) /\ Facts(x)[p] = Facts(y)[p]
                     /\ p \notin DecayingPaths => (p \in DOMAIN Facts(y) => p \in DOMAIN Facts(x))
  BY DEF Fades
<1>1. /\ p \in DOMAIN Observed(x) =>
           p \in DOMAIN Observed(y) /\ Observed(x)[p] = Observed(y)[p]
      /\ p \notin DecayingPaths => (p \in DOMAIN Observed(y) => p \in DOMAIN Observed(x))
  BY ObservationsFade DEF Fades
<1>2. /\ p \in DOMAIN Derived(x) <=> p \in DOMAIN Derived(y)
      /\ p \in DOMAIN Derived(x) => Derived(x)[p] = Derived(y)[p]
  BY DerivedStays
<1>. QED
  BY <1>1, <1>2 DEF Facts, Extended

---------------------------------------------------------------------------
(* What is asked of facts that fade.                                       *)

(* A leaf of facts that go absent goes unknown: all but `defined`, which   *)
(* reads absence itself.                                                   *)
SeenFrom(f, g, n) ==
  /\ \A p \in LeafPaths(n) : p \in DOMAIN f => p \in DOMAIN g /\ f[p] = g[p]
  /\ Body[n].op = "defined" => (Body[n].path \in DOMAIN f <=> Body[n].path \in DOMAIN g)

LEMMA LeavesUnsettle ==
  ASSUME NEW n \in Leaf, NEW f, NEW g, SeenFrom(f, g, n)
  PROVE  LeafTruth(f, n) \in {"unknown", LeafTruth(g, n)}
<1>1. Body[n].op \in {"compare", "truthy", "defined", "any_of", "none_of"}
  BY TableAssumption DEF Leaf
<1>2. \A p \in LeafPaths(n) : p \in DOMAIN f => p \in DOMAIN g /\ f[p] = g[p]
  BY DEF SeenFrom
<1>3. CASE Body[n].op = "compare"
  <2>. DEFINE l == Body[n].left
              r == Body[n].right
  <2>1. ASSUME NEW o \in {l, r} PROVE Resolve(f, o) \in {{}, Resolve(g, o)}
    <3>1. CASE o.is = "fact"
      <4>1. o.path \in LeafPaths(n)
        BY <1>3, <3>1 DEF LeafPaths
      <4>. QED
        BY <1>2, <3>1, <4>1 DEF Resolve
    <3>2. CASE o.is # "fact"
      <4>1. o.is = "literal"
        BY <1>3, <3>2, TableAssumption DEF Leaf
      <4>. QED
        BY <4>1 DEF Resolve
    <3>. QED
      BY <3>1, <3>2
  <2>2. Compare(f, l, Body[n].cmp, r) \in {"unknown", Compare(g, l, Body[n].cmp, r)}
    <3>1. CASE Resolve(f, l) = {} \/ Resolve(f, r) = {}
      BY <3>1 DEF Compare
    <3>2. CASE Resolve(f, l) = Resolve(g, l) /\ Resolve(f, r) = Resolve(g, r)
      BY <3>2 DEF Compare
    <3>. QED
      BY <2>1, <3>1, <3>2
  <2>. QED
    BY <1>3, <2>2 DEF LeafTruth
<1>4. CASE Body[n].op # "compare"
  <2>. DEFINE p == Body[n].path
  <2>1. p \in LeafPaths(n)
    BY <1>4 DEF LeafPaths
  <2>2. /\ Truthy(f, p) \in {"unknown", Truthy(g, p)}
        /\ Member(f, p, Body[n].values) \in {"unknown", Member(g, p, Body[n].values)}
    <3>1. CASE p \in DOMAIN f
      BY <1>2, <2>1, <3>1 DEF Truthy, Member
    <3>2. CASE p \notin DOMAIN f
      BY <3>2 DEF Truthy, Member
    <3>. QED
      BY <3>1, <3>2
  <2>3. Body[n].op = "defined" => Defined(f, p) = Defined(g, p)
    <3>1. Body[n].op = "defined" => (p \in DOMAIN f <=> p \in DOMAIN g)
      BY DEF SeenFrom
    <3>. QED
      BY <3>1 DEF Defined, FromBool
  <2>4. Not(Member(f, p, Body[n].values)) \in {"unknown", Not(Member(g, p, Body[n].values))}
    BY <2>2 DEF Not
  <2>. QED
    BY <1>1, <1>4, <2>2, <2>3, <2>4 DEF LeafTruth
<1>. QED
  BY <1>3, <1>4

LEMMA LeavesFade ==
  ASSUME NEW n \in Leaf, OnlyUnsettled(n), NEW f, NEW g, Fades(f, g, Lapses)
  PROVE  LeafTruth(f, n) \in {"unknown", LeafTruth(g, n)}
<1>1. \A p \in LeafPaths(n) :
        /\ p \in DOMAIN f => p \in DOMAIN g /\ f[p] = g[p]
        /\ p \notin DecayingPaths => (p \in DOMAIN g => p \in DOMAIN f)
  BY DEF Fades, OnlyUnsettled
<1>2. Body[n].op = "defined" => Body[n].path \in LeafPaths(n) \ DecayingPaths
  BY DEF LeafPaths, OnlyUnsettled
<1>. QED
  BY <1>1, <1>2, LeavesUnsettle DEF SeenFrom

(* Kleene's connectives only lose what their arguments lose.               *)
LEMMA ConnectivesFade ==
  ASSUME NEW C, NEW s, NEW t, \A c \in C : s[c] \in {"unknown", t[c]}
  PROVE  /\ And({s[c] : c \in C}) \in {"unknown", And({t[c] : c \in C})}
         /\ Or({s[c] : c \in C}) \in {"unknown", Or({t[c] : c \in C})}
         /\ \A c \in C : Not(s[c]) \in {"unknown", Not(t[c])}
<1>. DEFINE S == {s[c] : c \in C}
            T == {t[c] : c \in C}
<1>1. \A v \in S : v = "unknown" \/ v \in T
  OBVIOUS
<1>2. "unknown" \notin S => S = T
  <2>. SUFFICES ASSUME "unknown" \notin S PROVE S = T
    OBVIOUS
  <2>1. \A c \in C : s[c] = t[c]
    OBVIOUS
  <2>. QED
    BY <2>1
<1>3. \A c \in C : Not(s[c]) \in {"unknown", Not(t[c])}
  BY DEF Not
<1>. HIDE DEF S, T
<1>4. And(S) \in {"unknown", And(T)}
  BY <1>1, <1>2 DEF And
<1>5. Or(S) \in {"unknown", Or(T)}
  BY <1>1, <1>2 DEF Or
<1>. QED
  BY <1>3, <1>4, <1>5 DEF S, T

Steady(set) ==
  set \subseteq Node /\ \A n \in set : Children(n) \subseteq set /\ (n \in Leaf => OnlyUnsettled(n))

LEMMA TruthsUnsettle ==
  ASSUME NEW steady, steady \subseteq Node, \A m \in steady : Children(m) \subseteq steady,
         NEW f, NEW g, NEW n \in steady,
         \A m \in steady \cap Leaf : LeafTruth(f, m) \in {"unknown", LeafTruth(g, m)}
  PROVE  TruthIn(f)[n] \in {"unknown", TruthIn(g)[n]}
<1>. DEFINE Bad == {m \in steady : TruthIn(f)[m] \notin {"unknown", TruthIn(g)[m]}}
<1>. SUFFICES ASSUME Bad # {} PROVE FALSE
  OBVIOUS
<1>1. Bad \subseteq Node
  OBVIOUS
<1>. HIDE DEF Bad
<1>2. PICK m \in Bad : \A k \in Bad : ~ (<<k, m>> \in Less)
  BY <1>1, NodesAreOrdered, WFMin
<1>3. m \in steady /\ m \in Node /\ TruthIn(f)[m] \notin {"unknown", TruthIn(g)[m]}
  BY <1>1, <1>2 DEF Bad
<1>4. /\ TruthIn(f)[m] = Verdict(Leaves(f), TruthIn(f), m)
      /\ TruthIn(g)[m] = Verdict(Leaves(g), TruthIn(g), m)
  BY <1>3, EvaluateIs DEF TruthIn
<1>5. CASE m \in Leaf
  <2>1. TruthIn(f)[m] = LeafTruth(f, m) /\ TruthIn(g)[m] = LeafTruth(g, m)
    BY <1>4, <1>5 DEF Verdict, Leaf, Composite, Leaves
  <2>. QED
    BY <1>3, <1>5, <2>1
<1>6. CASE m \notin Leaf
  <2>. DEFINE s == TruthIn(f)
              t == TruthIn(g)
  <2>1. ASSUME NEW c \in Children(m) PROVE s[c] \in {"unknown", t[c]}
    <3>1. c \in steady /\ <<c, m>> \in Less
      BY <1>3, ChildrenAreLess
    <3>. QED
      BY <1>2, <3>1 DEF Bad
  <2>2. Body[m].op \in Composite \cup {"always", "never"}
    BY <1>3, <1>6 DEF Leaf
  <2>. HIDE DEF s, t
  <2>3. /\ And({s[c] : c \in Children(m)}) \in {"unknown", And({t[c] : c \in Children(m)})}
        /\ Or({s[c] : c \in Children(m)}) \in {"unknown", Or({t[c] : c \in Children(m)})}
        /\ \A c \in Children(m) : Not(s[c]) \in {"unknown", Not(t[c])}
    <3>. PICK C : C = Children(m)
      OBVIOUS
    <3>1. \A c \in C : s[c] \in {"unknown", t[c]}
      BY <2>1
    <3>2. /\ And({s[c] : c \in C}) \in {"unknown", And({t[c] : c \in C})}
          /\ Or({s[c] : c \in C}) \in {"unknown", Or({t[c] : c \in C})}
          /\ \A c \in C : Not(s[c]) \in {"unknown", Not(t[c])}
      BY ONLY <3>1, ConnectivesFade
    <3>. QED
      BY <3>2
  <2>4. Body[m].op = "not" => Body[m].of \in Children(m)
    BY DEF Children
  <2>5. s[m] = Verdict(Leaves(f), s, m) /\ t[m] = Verdict(Leaves(g), t, m)
    BY <1>4 DEF s, t
  <2>6. s[m] \in {"unknown", t[m]}
    BY <2>2, <2>3, <2>4, <2>5 DEF Verdict, Composite
  <2>. QED
    BY <1>3, <2>6 DEF s, t
<1>. QED
  BY <1>5, <1>6

LEMMA TruthsFade ==
  ASSUME NEW steady, Steady(steady), NEW n \in steady, NEW f, NEW g, Fades(f, g, Lapses)
  PROVE  TruthIn(f)[n] \in {"unknown", TruthIn(g)[n]}
<1>1. steady \subseteq Node /\ \A m \in steady : Children(m) \subseteq steady
  BY DEF Steady
<1>2. \A m \in steady \cap Leaf : LeafTruth(f, m) \in {"unknown", LeafTruth(g, m)}
  BY LeavesFade DEF Steady
<1>. QED
  BY <1>1, <1>2, TruthsUnsettle

---------------------------------------------------------------------------
(* What gates ask for, later and before.                                   *)

(* A leaf that asks for nothing missing is true when nothing is.           *)
LEMMA NothingMissingIsAsked ==
  ASSUME NEW x, NEW n \in Node, AsksForNothingMissing(n)
  PROVE  TruthIn(Facts(x))[n] = "true" <=> MissingCount(x) = 0
<1>. DEFINE l == Facts(x)["evidence.missing"]
<1>1. n \in Leaf
  BY DEF AsksForNothingMissing, Leaf, Composite
<1>2. TruthIn(Facts(x))[n] = LeafTruth(Facts(x), n)
  BY <1>1, EvaluateIs DEF TruthIn, Verdict, Leaf, Composite, Leaves
<1>3. LeafTruth(Facts(x), n) = Compare(Facts(x), Body[n].left, "eq", Body[n].right)
  BY DEF LeafTruth, AsksForNothingMissing
<1>4. Resolve(Facts(x), Body[n].left) = {l} /\ Resolve(Facts(x), Body[n].right) = {Number(0)}
  BY DerivedCount DEF Resolve, AsksForNothingMissing
<1>5. Compare(Facts(x), Body[n].left, "eq", Body[n].right) = CompareValues(l, "eq", Number(0))
  BY <1>4 DEF Compare
<1>6. l.type = "number" /\ l.value = MissingCount(x) /\ Number(0).type = "number" /\ Number(0).value = 0
  <2>1. l = Number(MissingCount(x))
    BY DerivedCount
  <2>. QED
    BY <2>1 DEF Number
<1>7. CompareValues(l, "eq", Number(0)) = FromBool(Accepts("eq", Order(MissingCount(x), 0)))
  BY <1>6 DEF CompareValues
<1>8. FromBool(Accepts("eq", Order(MissingCount(x), 0))) = "true"
        <=> Accepts("eq", Order(MissingCount(x), 0))
  BY DEF FromBool
<1>9. Accepts("eq", Order(MissingCount(x), 0)) <=> MissingCount(x) = 0
  BY DEF Accepts, Order
<1>. QED
  BY <1>2, <1>3, <1>5, <1>7, <1>8, <1>9

(* A condition refuted later was refuted before.                           *)
LEMMA ConditionsFade ==
  ASSUME OnlyEvidenceBinds, OneKindBinds, NEW x, NEW y, Aged(x, y), ObservedInOrder(x),
         NEW steady, Steady(steady), NEW n \in steady
  PROVE  /\ TruthIn(Facts(x))[n] \in {"unknown", TruthIn(Facts(y))[n]}
         /\ TruthIn(Observed(x))[n] \in {"unknown", TruthIn(Observed(y))[n]}
<1>1. Fades(Observed(x), Observed(y), Lapses)
  BY ObservationsFade DEF Fades
<1>2. Fades(Facts(x), Facts(y), Lapses)
  BY FactsFade
<1>. QED
  BY <1>1, <1>2, TruthsFade

(* What is missing later and nothing before has lapsed; nothing comes back.*)
LEMMA MissingFades ==
  ASSUME OnlyEvidenceBinds, OneKindBinds, NEW x, NEW y, Aged(x, y), ObservedInOrder(x),
         NEW steady, Steady(steady),
         \A s \in SetId : \A c \in Sets[s].conditional : c.when \in steady,
         MissingCount(x) = 0
  PROVE  MissingCount(y) = 0
<1>1. ASSUME NEW r \in Requirement, SatisfiesEvidence(r, x) PROVE SatisfiesEvidence(r, y)
  <2>1. r.horizon \in Nat /\ r.atLeast \in Nat
    BY HorizonAssumption DEF Requirement
  <2>. QED
    BY <1>1, <2>1, EvidenceFades
<1>2. \A r \in PrincipleEvidence : SatisfiesEvidence(r, y)
  <2>1. \A r \in PrincipleEvidence : r \in Requirement /\ SatisfiesEvidence(r, x)
    BY CountOfNothing DEF Requirement
  <2>. QED
    BY <1>1, <2>1
<1>3. ASSUME NEW s \in CountedSets PROVE UnmetIn(s, y) = 0
  <2>1. s \in SetId /\ UnmetIn(s, x) = 0
    BY CountOfNothing
  <2>2. InForce(s, y) \subseteq InForce(s, x)
    <3>1. ASSUME NEW c \in Sets[s].conditional, TruthIn(Observed(x))[c.when] = "false"
          PROVE  TruthIn(Observed(y))[c.when] = "false"
      <4>1. c.when \in steady
        BY <2>1
      <4>2. TruthIn(Observed(x))[c.when] \in {"unknown", TruthIn(Observed(y))[c.when]}
        BY <4>1, ConditionsFade
      <4>. QED
        BY <3>1, <4>2
    <3>. QED
      BY <3>1 DEF InForce
  <2>3. \A r \in Sets[s].evidence : r \in Requirement /\ SatisfiesEvidence(r, x)
    BY <2>1, UnmetInIsACount DEF Requirement
  <2>4. ASSUME NEW c \in InForce(s, y), NEW r \in Sets[c.require].evidence
        PROVE  SatisfiesEvidence(r, y)
    <3>1. c \in InForce(s, x) /\ c.require \in SetId
      BY <2>1, <2>2, SetAssumption DEF InForce
    <3>2. SatisfiesEvidence(r, x)
      BY <2>1, <3>1, UnmetInIsACount
    <3>. QED
      BY <1>1, <3>1, <3>2 DEF Requirement
  <2>5. \A r \in Sets[s].evidence : SatisfiesEvidence(r, y)
    BY <1>1, <2>3
  <2>. QED
    BY <2>1, <2>4, <2>5, UnmetInIsACount
<1>. QED
  BY <1>2, <1>3, CountOfNothing

(* What a gate asks of facts under no negation, later and before.          *)
Asks(set, steady) ==
  set \subseteq Node /\ \A n \in set : \/ n \in steady
                                       \/ AsksForNothingMissing(n)
                                       \/ Body[n].op \in {"all", "any"} /\ Children(n) \subseteq set

LEMMA AskedBefore ==
  ASSUME OnlyEvidenceBinds, OneKindBinds, NEW x, NEW y, Aged(x, y), ObservedInOrder(x),
         NEW steady, Steady(steady), NEW set, Asks(set, steady),
         \A s \in SetId : \A c \in Sets[s].conditional : c.when \in steady,
         NEW n \in set, TruthIn(Facts(x))[n] = "true"
  PROVE  TruthIn(Facts(y))[n] = "true"
<1>. DEFINE s == TruthIn(Facts(x))
            t == TruthIn(Facts(y))
            Bad == {m \in set : s[m] = "true" /\ t[m] # "true"}
<1>. SUFFICES ASSUME Bad # {} PROVE FALSE
  OBVIOUS
<1>1. Bad \subseteq Node
  BY DEF Asks
<1>. HIDE DEF Bad
<1>2. PICK m \in Bad : \A k \in Bad : ~ (<<k, m>> \in Less)
  BY <1>1, NodesAreOrdered, WFMin
<1>3. m \in set /\ m \in Node /\ s[m] = "true" /\ t[m] # "true"
  BY <1>2 DEF Bad, Asks
<1>4. CASE m \in steady
  BY <1>3, <1>4, ConditionsFade
<1>5. CASE AsksForNothingMissing(m)
  <2>1. MissingCount(x) = 0
    BY <1>3, <1>5, NothingMissingIsAsked
  <2>2. MissingCount(y) = 0
    BY <2>1, MissingFades
  <2>. QED
    BY <1>3, <1>5, <2>2, NothingMissingIsAsked
<1>6. CASE Body[m].op \in {"all", "any"} /\ Children(m) \subseteq set
  <2>1. ASSUME NEW c \in Children(m), s[c] = "true" PROVE t[c] = "true"
    <3>1. c \in set /\ <<c, m>> \in Less
      BY <1>3, <1>6, ChildrenAreLess
    <3>. QED
      BY <1>2, <2>1, <3>1 DEF Bad
  <2>2. \A c \in Children(m) : c \in Node /\ s[c] \in Truth /\ t[c] \in Truth
    BY <1>3, ChildrenAreLess, TruthsAreTruths
  <2>3. /\ s[m] = Verdict(Leaves(Facts(x)), s, m)
        /\ t[m] = Verdict(Leaves(Facts(y)), t, m)
    BY <1>3, EvaluateIs DEF TruthIn
  <2>. HIDE DEF s, t
  <2>4. CASE Body[m].op = "all"
    <3>. DEFINE S == {s[c] : c \in Children(m)}
                T == {t[c] : c \in Children(m)}
    <3>1. And(S) = "true"
      BY <1>3, <2>3, <2>4 DEF Verdict
    <3>2. "false" \notin S /\ "unknown" \notin S
      BY <3>1, AndIs
    <3>3. \A c \in Children(m) : s[c] = "true"
      BY <2>2, <3>2 DEF Truth
    <3>4. \A v \in T : v = "true"
      BY <2>1, <3>3
    <3>. HIDE DEF S, T
    <3>5. And(T) = "true"
      BY <3>4 DEF And
    <3>. QED
      BY <1>3, <2>3, <2>4, <3>5 DEF Verdict, T
  <2>5. CASE Body[m].op = "any"
    <3>. DEFINE S == {s[c] : c \in Children(m)}
                T == {t[c] : c \in Children(m)}
    <3>1. Or(S) = "true"
      BY <1>3, <2>3, <2>5 DEF Verdict
    <3>2. "true" \in S
      BY <3>1 DEF Or
    <3>3. "true" \in T
      BY <2>1, <3>2
    <3>. HIDE DEF S, T
    <3>4. Or(T) = "true"
      BY <3>3 DEF Or
    <3>. QED
      BY <1>3, <2>3, <2>5, <3>4 DEF Verdict, T
  <2>. QED
    BY <1>6, <2>4, <2>5
<1>. QED
  BY <1>3, <1>4, <1>5, <1>6 DEF Asks

(* A set every part of which is true is true.                              *)
LEMMA SetsOfTruths ==
  ASSUME NEW x, NEW s \in SetId,
         \A v \in WithoutConditions(s, x) : v = "true",
         \A c \in Sets[s].conditional : UnderCondition(c, x, SetTruths(x)) = "true"
  PROVE  SetTruths(x)[s] = "true"
<1>. DEFINE truths == WithoutConditions(s, x)
                        \cup {UnderCondition(c, x, SetTruths(x)) : c \in Sets[s].conditional}
<1>1. \A v \in truths : v = "true"
  OBVIOUS
<1>2. SetTruths(x)[s] = And(truths)
  BY SetTruthsAre
<1>. HIDE DEF truths
<1>3. And(truths) = "true"
  BY <1>1 DEF And
<1>. QED
  BY <1>2, <1>3

LEMMA TruePartsOfSets ==
  ASSUME NEW x, NEW s \in SetId, SetTruths(x)[s] = "true"
  PROVE  \A v \in WithoutConditions(s, x) : v # "false" /\ v # "unknown"
<1>. DEFINE truths == WithoutConditions(s, x)
                        \cup {UnderCondition(c, x, SetTruths(x)) : c \in Sets[s].conditional}
<1>1. "false" \notin truths /\ "unknown" \notin truths
  BY SetTruthsAre, AndIs
<1>. QED
  BY <1>1

(* What a requirement set answers of its own, later and before.            *)
LEMMA PartsBefore ==
  ASSUME OnlyEvidenceBinds, OneKindBinds, NEW x, NEW y, Aged(x, y), ObservedInOrder(x),
         NEW steady, Steady(steady), NEW set, Asks(set, steady),
         \A q \in SetId : \A c \in Sets[q].conditional : c.when \in steady,
         NEW s \in SetId, Sets[s].predicates \subseteq set, SetTruths(x)[s] = "true"
  PROVE  \A v \in WithoutConditions(s, y) : v = "true"
<1>1. \A v \in WithoutConditions(s, x) : v # "false" /\ v # "unknown"
  BY TruePartsOfSets
<1>2. ASSUME NEW p \in Sets[s].predicates PROVE TruthIn(Facts(y))[p] = "true"
  <2>1. p \in set /\ p \in Node
    BY <1>2 DEF Asks
  <2>2. TruthIn(Facts(x))[p] \in WithoutConditions(s, x)
    BY DEF WithoutConditions
  <2>3. TruthIn(Facts(x))[p] = "true"
    BY <1>1, <2>1, <2>2, TruthsAreTruths DEF Truth
  <2>. QED
    BY <2>1, <2>3, AskedBefore
<1>3. ASSUME NEW r \in Sets[s].evidence PROVE EvidenceTruth(r, y) = "true"
  <2>1. r.horizon \in Nat /\ r.atLeast \in Nat
    BY HorizonAssumption
  <2>2. EvidenceTruth(r, x) = "true"
    BY TrueSets
  <2>. QED
    BY <2>1, <2>2, EvidenceFades
<1>4. ASSUME NEW r \in Sets[s].approvals PROVE ApprovalTruth(r, y) = "true"
  <2>1. ApprovalTruth(r, x) \in WithoutConditions(s, x)
    BY DEF WithoutConditions
  <2>2. ApprovalTruth(r, x) = ApprovalTruth(r, y)
    BY DEF ApprovalTruth, Aged
  <2>3. ApprovalTruth(r, x) \in {"true", "false", "unknown"}
    BY DEF ApprovalTruth
  <2>. QED
    BY <1>1, <2>1, <2>2, <2>3
<1>5. ASSUME NEW a \in Sets[s].artifacts PROVE a \in y.graph.met
  <2>1. (IF a \in x.graph.met THEN "true" ELSE "unknown") \in WithoutConditions(s, x)
    BY DEF WithoutConditions
  <2>. QED
    BY <1>1, <2>1 DEF Aged
<1>. QED
  BY <1>2, <1>3, <1>4, <1>5 DEF WithoutConditions

LEMMA SetsBefore ==
  ASSUME OnlyEvidenceBinds, OneKindBinds, NEW x, NEW y, Aged(x, y), ObservedInOrder(x),
         NEW steady, Steady(steady), NEW set, Asks(set, steady),
         \A q \in SetId : /\ Sets[q].predicates \subseteq set
                          /\ \A c \in Sets[q].conditional : c.when \in steady,
         NEW s \in SetId, SetTruths(x)[s] = "true"
  PROVE  SetTruths(y)[s] = "true"
<1>. DEFINE Bad == {q \in SetId : SetTruths(x)[q] = "true" /\ SetTruths(y)[q] # "true"}
<1>. SUFFICES ASSUME Bad # {} PROVE FALSE
  OBVIOUS
<1>1. Bad \subseteq SetId
  OBVIOUS
<1>. HIDE DEF Bad
<1>2. PICK q \in Bad : \A k \in Bad : ~ (<<k, q>> \in Less)
  BY <1>1, SetsAreOrdered, WFMin
<1>3. q \in SetId /\ SetTruths(x)[q] = "true" /\ SetTruths(y)[q] # "true"
  BY <1>2 DEF Bad
<1>4. \A v \in WithoutConditions(q, y) : v = "true"
  BY <1>3, PartsBefore
<1>5. ASSUME NEW c \in Sets[q].conditional PROVE UnderCondition(c, y, SetTruths(y)) = "true"
  <2>1. c.when \in steady /\ c.when \in Node /\ c.require \in SetId /\ <<c.require, q>> \in Less
    BY <1>3, SetAssumption DEF Less
  <2>2. TruthIn(Facts(x))[c.when] \in {"unknown", TruthIn(Facts(y))[c.when]}
    BY <2>1, ConditionsFade
  <2>3. TruthIn(Facts(x))[c.when] = "false" \/ SetTruths(x)[c.require] = "true"
    BY <1>3, TrueSets
  <2>4. TruthIn(Facts(x))[c.when] # "unknown"
    <3>. DEFINE truths == WithoutConditions(q, x)
                            \cup {UnderCondition(d, x, SetTruths(x)) : d \in Sets[q].conditional}
    <3>1. "unknown" \notin truths
      BY <1>3, SetTruthsAre, AndIs
    <3>2. UnderCondition(c, x, SetTruths(x)) \in truths
      OBVIOUS
    <3>. HIDE DEF truths
    <3>. QED
      BY <3>1, <3>2 DEF UnderCondition
  <2>5. TruthIn(Facts(y))[c.when] # "unknown"
    BY <2>2, <2>4
  <2>6. TruthIn(Facts(y))[c.when] = "false" \/ SetTruths(y)[c.require] = "true"
    <3>1. SetTruths(x)[c.require] = "true" => SetTruths(y)[c.require] = "true"
      BY <1>2, <2>1 DEF Bad
    <3>. QED
      BY <2>2, <2>3, <2>4, <3>1
  <2>. QED
    BY <2>5, <2>6 DEF UnderCondition
<1>. QED
  BY <1>3, <1>4, <1>5, SetsOfTruths

LEMMA VerifiersBefore ==
  ASSUME NEW x, NEW y, Aged(x, y), NEW v, VerificationTruth(v, x) = "true"
  PROVE  VerificationTruth(v, y) = "true"
<1>1. PICK r \in Range(x.evidence) : ~HasLapsed(r, x.at) /\ r.by = v
  BY DEF VerificationTruth
<1>2. r.observed \in Nat
  BY LogIs DEF Aged, Range
<1>3. HasLapsed(r, y.at) => HasLapsed(r, x.at)
  BY <1>2, LapsedStaysLapsed DEF Aged
<1>4. r \in Range(y.evidence) /\ ~HasLapsed(r, y.at)
  BY <1>1, <1>3 DEF Aged
<1>. QED
  BY <1>1, <1>4 DEF VerificationTruth

LEMMA GatesBefore ==
  ASSUME OnlyEvidenceBinds, OneKindBinds, LapsesOnlyUnsettle,
         NEW x, NEW y, Aged(x, y), ObservedInOrder(x)
  PROVE  /\ Permitted(x) \subseteq Permitted(y)
         /\ IsComplete(x) => IsComplete(y)
<1>1. PICK steady \in SUBSET Node, set \in SUBSET Node :
        /\ Steady(steady) /\ Asks(set, steady)
        /\ \A s \in SetId : \A c \in Sets[s].conditional : c.when \in steady
        /\ Guards \subseteq set /\ \A s \in SetId : Sets[s].predicates \subseteq set
  BY DEF LapsesOnlyUnsettle, Steady, Asks
<1>2. ASSUME NEW s \in SetId, SetTruths(x)[s] = "true" PROVE SetTruths(y)[s] = "true"
  BY <1>1, <1>2, SetsBefore
<1>3. ASSUME NEW i \in Permitted(x) PROVE i \in Permitted(y)
  <2>1. /\ i \in DOMAIN Transitions /\ Transitions[i].from = x.state
        /\ TruthIn(Facts(x))[Transitions[i].when] = "true"
        /\ \A s \in SetsOf(i) : SetTruths(x)[s] = "true"
    BY <1>3 DEF Permitted
  <2>2. Transitions[i].when \in set
    BY <1>1, <2>1 DEF Guards
  <2>3. TruthIn(Facts(y))[Transitions[i].when] = "true"
    BY <1>1, <2>1, <2>2, AskedBefore
  <2>4. \A s \in SetsOf(i) : SetTruths(y)[s] = "true"
    BY <1>2, <2>1, SetsOfAreSets
  <2>5. Transitions[i].from = y.state
    BY <2>1 DEF Aged
  <2>. QED
    BY <2>1, <2>3, <2>4, <2>5 DEF Permitted
<1>4. ASSUME IsComplete(x) PROVE IsComplete(y)
  <2>1. y.state \in Terminal
    BY <1>4 DEF IsComplete, Aged
  <2>2. SetTruths(y)[Completion] = "true"
    BY <1>2, <1>4, PlanAssumption DEF IsComplete
  <2>3. \A o \in OwedToComplete : SetTruths(y)[o.requires] = "true"
    <3>1. \A o \in OwedToComplete : o.requires \in SetId
      BY PlanAssumption DEF OwedToComplete
    <3>. QED
      BY <1>2, <1>4, <3>1 DEF IsComplete
  <2>4. \A r \in PrincipleEvidence : EvidenceTruth(r, y) = "true"
    <3>1. \A r \in PrincipleEvidence : r.horizon \in Nat /\ r.atLeast \in Nat
      BY HorizonAssumption
    <3>. QED
      BY <1>4, <3>1, EvidenceFades DEF IsComplete
  <2>5. \A v \in PrincipleVerification : VerificationTruth(v, y) = "true"
    BY <1>4, VerifiersBefore DEF IsComplete
  <2>. QED
    BY <2>1, <2>2, <2>3, <2>4, <2>5 DEF IsComplete
<1>. QED
  BY <1>3, <1>4

LEMMA ReadAt ==
  ASSUME TypeInv, NEW at
  PROVE  LET x == [exec EXCEPT !.at = at]
         IN /\ x.state = exec.state /\ x.entered = exec.entered /\ x.evidence = exec.evidence
            /\ x.graph = exec.graph /\ x.at = at
<1>1. [exec EXCEPT !.at = at] =
        [state |-> exec.state, entered |-> exec.entered, evidence |-> exec.evidence,
         graph |-> exec.graph, at |-> at]
  BY DEF TypeInv
<1>. QED
  BY <1>1

LEMMA OnlyTicksPassTime ==
  ASSUME [Next]_vars, clock' # clock
  PROVE  clock' = clock + 1
  BY DEF Next, vars, Tick, SetArtifacts, SubmitEvidence, Submit, Transition, Save, Restore

(* Waiting opens no gate: on a log whose records came in the order they    *)
(* were observed, what is permitted later was permitted before, and a task *)
(* that waiting completes was complete (execution.rs 338-365).             *)
THEOREM WaitingOpensNothing ==
  ASSUME OnlyEvidenceBinds, OneKindBinds, LapsesOnlyUnsettle
  PROVE  Spec => TimeOpensNothing
<1>1. ASSUME TypeInv, [Next]_vars, clock' # clock, InOrder
      PROVE  LET before == [exec EXCEPT !.at = clock]
                 later == [exec EXCEPT !.at = clock']
             IN /\ Permitted(later) \subseteq Permitted(before)
                /\ IsComplete(later) => IsComplete(before)
  <2>. PICK x, y : x = [exec EXCEPT !.at = clock'] /\ y = [exec EXCEPT !.at = clock]
    OBVIOUS
  <2>1. clock' = clock + 1 /\ clock \in Nat /\ exec.graph \in Graphs
    BY <1>1, OnlyTicksPassTime, ReadingsAreInstants DEF TypeInv
  <2>2. /\ x.state = exec.state /\ x.entered = exec.entered /\ x.evidence = exec.evidence
        /\ x.graph = exec.graph /\ x.at = clock'
    BY <1>1, ReadAt
  <2>3. /\ y.state = exec.state /\ y.evidence = exec.evidence
        /\ y.graph = exec.graph /\ y.at = clock
    BY <1>1, ReadAt
  <2>4. History(x)
    BY <1>1, <2>2 DEF TypeInv, History
  <2>5. Aged(x, y)
    BY <2>1, <2>2, <2>3, <2>4 DEF Aged
  <2>6. ObservedInOrder(x)
    BY <1>1, <2>2 DEF InOrder, ObservedInOrder
  <2>7. Permitted(x) \subseteq Permitted(y) /\ (IsComplete(x) => IsComplete(y))
    BY <2>5, <2>6, GatesBefore
  <2>. QED
    BY <2>7
<1>2. TypeInv /\ [Next]_vars =>
        [clock' # clock /\ InOrder =>
           LET before == [exec EXCEPT !.at = clock]
               later == [exec EXCEPT !.at = clock']
           IN /\ Permitted(later) \subseteq Permitted(before)
              /\ IsComplete(later) => IsComplete(before)]_vars
  BY <1>1
<1>. QED
  BY <1>2, TypeInit, TypeNext, PTL DEF Spec, TimeOpensNothing

---------------------------------------------------------------------------
(* What a store of facts shows.                                            *)

(* ReadsValues, as an equation.                                            *)
ValuesOnly(f, n) == Body[n].op # "defined" /\ \A c \in Children(n) : f[c]

LEMMA ReadsValuesIs ==
  ASSUME NEW n \in Node, ReadsValues[n]
  PROVE  Body[n].op # "defined" /\ \A c \in Children(n) : ReadsValues[c]
<1>. DEFINE V == BOOLEAN
            Step == [m \in Node |-> [g \in [Node -> V] |-> ValuesOnly(g, m)]]
<1>1. Step \in [Node -> [[Node -> V] -> V]]
  BY DEF ValuesOnly
<1>2. ReadsBelow(Step, Less, Node, V)
  <2>. SUFFICES ASSUME NEW m \in Node, NEW g \in [Node -> V], NEW h \in [Node -> V],
                       \A k \in Node : <<k, m>> \in Less => g[k] = h[k]
                PROVE  Step[m][g] = Step[m][h]
    BY DEF ReadsBelow
  <2>1. \A c \in Children(m) : g[c] = h[c]
    BY ChildrenAreLess
  <2>2. ValuesOnly(g, m) = ValuesOnly(h, m)
    BY <2>1 DEF ValuesOnly
  <2>. QED
    BY <2>2
<1>3. V # {}
  OBVIOUS
<1>. HIDE DEF Step, V
<1>4. PICK f \in [Node -> V] : IsSolution(f, Step, Node)
  BY <1>1, <1>2, <1>3, NodesAreOrdered, RecursionHasASolution
<1>5. \A m \in Node : f[m] = ValuesOnly(f, m)
  BY <1>4 DEF Step, IsSolution
<1>6. f = [m \in Node |-> ValuesOnly(f, m)]
  BY <1>5
<1>7. ReadsValues = CHOOSE g : g = [m \in Node |-> ValuesOnly(g, m)]
  BY DEF ReadsValues, ValuesOnly
<1>8. ReadsValues = [m \in Node |-> ValuesOnly(ReadsValues, m)]
  BY <1>6, <1>7, Zenon
<1>9. ValuesOnly(ReadsValues, n)
  BY <1>8
<1>. QED
  BY <1>9 DEF ValuesOnly

(* What is bound stays bound, with its value.                              *)
Extends(f, g) == \A p \in DOMAIN f : p \in DOMAIN g /\ f[p] = g[p]

LEMMA StepsExtend ==
  ASSUME [FactsNext]_facts
  PROVE  /\ Looked => Extends(facts, facts')
         /\ Withheld => Extends(facts', facts)
<1>1. ASSUME NEW p \in Path, NEW v \in Observable[p], Observe(p, v)
      PROVE  Looked => Extends(facts, facts')
  <2>1. DOMAIN facts' = DOMAIN facts \cup {p}
    BY <1>1 DEF Observe
  <2>2. \A q \in DOMAIN facts : q # p => facts'[q] = facts[q]
    BY <1>1 DEF Observe
  <2>3. Looked => p \notin DOMAIN facts
    BY <2>1 DEF Looked
  <2>. QED
    BY <2>1, <2>2, <2>3 DEF Extends
<1>2. ASSUME NEW p \in Path, NEW v \in Observable[p], Observe(p, v)
      PROVE  ~ Withheld
  BY <1>2 DEF Observe, Withheld
<1>3. ASSUME NEW p \in Path, Withhold(p)
      PROVE  ~ Looked /\ Extends(facts', facts)
  BY <1>3 DEF Withhold, Looked, Extends
<1>4. CASE UNCHANGED facts
  BY <1>4 DEF Looked, Withheld
<1>. QED
  BY <1>1, <1>2, <1>3, <1>4 DEF FactsNext

(* A predicate that reads values only is known less where less is bound.   *)
LEMMA ValuesUnsettle ==
  ASSUME NEW f, NEW g, Extends(f, g), NEW n \in Node, ReadsValues[n]
  PROVE  TruthIn(f)[n] \in {"unknown", TruthIn(g)[n]}
<1>. DEFINE steady == {m \in Node : ReadsValues[m]}
<1>1. \A m \in steady : Children(m) \subseteq steady
  BY ReadsValuesIs, ChildrenAreLess
<1>2. \A m \in steady \cap Leaf : LeafTruth(f, m) \in {"unknown", LeafTruth(g, m)}
  <2>. TAKE m \in steady \cap Leaf
  <2>1. Body[m].op # "defined"
    BY ReadsValuesIs
  <2>2. SeenFrom(f, g, m)
    BY <2>1 DEF SeenFrom, Extends
  <2>. QED
    BY <2>2, LeavesUnsettle
<1>3. n \in steady /\ steady \subseteq Node
  OBVIOUS
<1>. HIDE DEF steady
<1>. QED
  BY <1>1, <1>2, <1>3, TruthsUnsettle

(* Observing a path for the first time settles predicates and withholding  *)
(* one unsettles them: for every table of predicates, whatever is observed *)
(* in whatever order, neither looking nor not looking reverses a truth     *)
(* (predicate.rs, evaluate; facts.rs, set; execution.rs, refresh_facts).   *)
THEOREM InformationIsMonotone == FactsSpec => InformationNeverReverses
<1>1. ASSUME [FactsNext]_facts, NEW n \in Node, ReadsValues[n]
      PROVE  /\ Looked =>
                  TruthIn(facts)[n] \in {"unknown", TruthIn(facts')[n]}
             /\ Withheld =>
                  TruthIn(facts')[n] \in {"unknown", TruthIn(facts)[n]}
  <2>. PICK f, g : f = facts /\ g = facts'
    OBVIOUS
  <2>1. Looked => Extends(f, g)
    BY <1>1, StepsExtend
  <2>2. Withheld => Extends(g, f)
    BY <1>1, StepsExtend
  <2>3. Extends(f, g) => TruthIn(f)[n] \in {"unknown", TruthIn(g)[n]}
    BY <1>1, ValuesUnsettle
  <2>4. Extends(g, f) => TruthIn(g)[n] \in {"unknown", TruthIn(f)[n]}
    BY <1>1, ValuesUnsettle
  <2>. QED
    BY <2>1, <2>2, <2>3, <2>4
<1>2. [FactsNext]_facts =>
        [\A n \in Node : ReadsValues[n] =>
           /\ Looked =>
                TruthIn(facts)[n] \in {"unknown", TruthIn(facts')[n]}
           /\ Withheld =>
                TruthIn(facts')[n] \in {"unknown", TruthIn(facts)[n]}]_facts
  BY <1>1
<1>. QED
  BY <1>2, PTL DEF FactsSpec, InformationNeverReverses


(* collect_causes, as an equation.                                         *)
CausesOf(causes, truth, n, negated) ==
  CASE Body[n].op \in {"all", "any"} ->
         IF Satisfied(truth[n], negated) THEN {}
         ELSE UNION {causes[c][negated] :
                       c \in {c \in Children(n) :
                                (Body[n].op = "all") # negated
                                  => ~Satisfied(truth[c], negated)}}
    [] Body[n].op = "not" -> causes[Body[n].of][~negated]
    [] Body[n].op = "always" -> {}
    [] Body[n].op = "never" -> IF Satisfied("false", negated) THEN {} ELSE {<<n, negated>>}
    [] OTHER -> IF Satisfied(truth[n], negated) THEN {} ELSE {<<n, negated>>}

LEMMA CausesAre ==
  ASSUME NEW leaf, NEW n \in Node, NEW negated \in BOOLEAN
  PROVE  Causes(leaf)[n][negated] = CausesOf(Causes(leaf), Evaluate(leaf), n, negated)
<1>. DEFINE V == [BOOLEAN -> SUBSET (Node \X BOOLEAN)]
            T == Evaluate(leaf)
            Step == [m \in Node |-> [g \in [Node -> V] |-> [b \in BOOLEAN |-> CausesOf(g, T, m, b)]]]
<1>. HIDE DEF T
<1>1. Step \in [Node -> [[Node -> V] -> V]]
  <2>. SUFFICES ASSUME NEW m \in Node, NEW g \in [Node -> V], NEW b \in BOOLEAN
                PROVE  CausesOf(g, T, m, b) \in SUBSET (Node \X BOOLEAN)
    OBVIOUS
  <2>1. \A c \in Children(m) : g[c][b] \subseteq Node \X BOOLEAN /\ g[c][~b] \subseteq Node \X BOOLEAN
    <3>1. (~b) \in BOOLEAN
      OBVIOUS
    <3>2. \A c \in Children(m) : g[c] \in [BOOLEAN -> SUBSET (Node \X BOOLEAN)]
      BY ChildrenAreLess
    <3>3. \A h \in [BOOLEAN -> SUBSET (Node \X BOOLEAN)], d \in BOOLEAN : h[d] \subseteq Node \X BOOLEAN
      OBVIOUS
    <3>. QED
      BY <3>1, <3>2, <3>3, Zenon
  <2>2. \A S \in SUBSET Children(m) : UNION {g[c][b] : c \in S} \subseteq Node \X BOOLEAN
    BY <2>1
  <2>3. Body[m].op = "not" => g[Body[m].of][~b] \subseteq Node \X BOOLEAN
    BY <2>1 DEF Children
  <2>4. {<<m, b>>} \subseteq Node \X BOOLEAN
    OBVIOUS
  <2>5. {c \in Children(m) : (Body[m].op = "all") # b => ~Satisfied(T[c], b)} \in SUBSET Children(m)
    OBVIOUS
  <2>. QED
    BY <2>2, <2>3, <2>4, <2>5, Zenon DEF CausesOf
<1>2. ReadsBelow(Step, Less, Node, V)
  <2>. SUFFICES ASSUME NEW m \in Node, NEW g \in [Node -> V], NEW h \in [Node -> V],
                       \A k \in Node : <<k, m>> \in Less => g[k] = h[k]
                PROVE  Step[m][g] = Step[m][h]
    BY DEF ReadsBelow
  <2>1. \A c \in Children(m) : g[c] = h[c]
    BY ChildrenAreLess
  <2>2. ASSUME NEW b \in BOOLEAN PROVE CausesOf(g, T, m, b) = CausesOf(h, T, m, b)
    <3>. DEFINE S == {c \in Children(m) : (Body[m].op = "all") # b => ~Satisfied(T[c], b)}
    <3>1. {g[c][b] : c \in S} = {h[c][b] : c \in S}
      BY <2>1
    <3>2. Body[m].op = "not" => g[Body[m].of] = h[Body[m].of]
      BY <2>1 DEF Children
    <3>. QED
      BY <3>1, <3>2, Zenon DEF CausesOf
  <2>. QED
    BY <2>2
<1>3. V # {}
  <2>1. [b \in BOOLEAN |-> {}] \in V
    OBVIOUS
  <2>. QED
    BY <2>1
<1>. HIDE DEF Step, V
<1>4. PICK f \in [Node -> V] : IsSolution(f, Step, Node)
  BY <1>1, <1>2, <1>3, NodesAreOrdered, RecursionHasASolution
<1>5. \A m \in Node : f[m] = [b \in BOOLEAN |-> CausesOf(f, T, m, b)]
  BY <1>4 DEF Step, IsSolution
<1>6. f = [m \in Node |-> [b \in BOOLEAN |-> CausesOf(f, T, m, b)]]
  BY <1>5
<1>7. Causes(leaf) = CHOOSE g : g = [m \in Node |-> [b \in BOOLEAN |-> CausesOf(g, T, m, b)]]
  BY DEF Causes, CausesOf, T
<1>8. Causes(leaf) = [m \in Node |-> [b \in BOOLEAN |-> CausesOf(Causes(leaf), T, m, b)]]
  BY <1>6, <1>7, Zenon
<1>9. Causes(leaf)[n] = [b \in BOOLEAN |-> CausesOf(Causes(leaf), T, n, b)]
  BY <1>8
<1>10. Causes(leaf)[n][negated] = CausesOf(Causes(leaf), T, n, negated)
  BY <1>9
<1>. QED
  BY <1>10 DEF T

LeavesOf(below, n) == IF n \in Leaf THEN {n} ELSE UNION {below[c] : c \in Children(n)}

LEMMA LeavesBelowAre ==
  ASSUME NEW n \in Node
  PROVE  LeavesBelow[n] = LeavesOf(LeavesBelow, n)
<1>. DEFINE V == SUBSET Leaf
            Step == [m \in Node |-> [g \in [Node -> V] |-> LeavesOf(g, m)]]
<1>1. Step \in [Node -> [[Node -> V] -> V]]
  <2>. SUFFICES ASSUME NEW m \in Node, NEW g \in [Node -> V] PROVE LeavesOf(g, m) \in V
    OBVIOUS
  <2>1. \A c \in Children(m) : g[c] \subseteq Leaf
    BY ChildrenAreLess
  <2>. QED
    BY <2>1 DEF LeavesOf
<1>2. ReadsBelow(Step, Less, Node, V)
  <2>. SUFFICES ASSUME NEW m \in Node, NEW g \in [Node -> V], NEW h \in [Node -> V],
                       \A k \in Node : <<k, m>> \in Less => g[k] = h[k]
                PROVE  Step[m][g] = Step[m][h]
    BY DEF ReadsBelow
  <2>1. \A c \in Children(m) : g[c] = h[c]
    BY ChildrenAreLess
  <2>2. {g[c] : c \in Children(m)} = {h[c] : c \in Children(m)}
    BY <2>1
  <2>. QED
    BY <2>2 DEF LeavesOf
<1>3. V # {}
  OBVIOUS
<1>. HIDE DEF Step, V
<1>4. PICK f \in [Node -> V] : IsSolution(f, Step, Node)
  BY <1>1, <1>2, <1>3, NodesAreOrdered, RecursionHasASolution
<1>5. \A m \in Node : f[m] = LeavesOf(f, m)
  BY <1>4 DEF Step, IsSolution
<1>6. f = [m \in Node |-> LeavesOf(f, m)]
  BY <1>5
<1>7. LeavesBelow = CHOOSE g : g = [m \in Node |-> LeavesOf(g, m)]
  BY DEF LeavesBelow, LeavesOf
<1>8. LeavesBelow = [m \in Node |-> LeavesOf(LeavesBelow, m)]
  BY <1>6, <1>7, Zenon
<1>. QED
  BY <1>8

(* Repairable, unfolded: its parts are repairable, and share no leaf.      *)
RepairableBy(repairable, n) ==
  \/ n \in Leaf
  \/ /\ Body[n].op \in Composite /\ Children(n) # {}
     /\ \A c \in Children(n) : repairable[c]
     /\ \A c, d \in Children(n) : c # d => LeavesBelow[c] \cap LeavesBelow[d] = {}

LEMMA RepairableIs ==
  ASSUME NEW n \in Node, Repairable[n], n \notin Leaf
  PROVE  /\ Body[n].op \in Composite /\ Children(n) # {}
         /\ \A c \in Children(n) : Repairable[c]
         /\ \A c, d \in Children(n) :
              c # d => LeavesBelow[c] \cap LeavesBelow[d] = {}
<1>. DEFINE V == BOOLEAN
            Step == [m \in Node |-> [g \in [Node -> V] |-> RepairableBy(g, m)]]
<1>1. Step \in [Node -> [[Node -> V] -> V]]
  BY DEF RepairableBy
<1>2. ReadsBelow(Step, Less, Node, V)
  <2>. SUFFICES ASSUME NEW m \in Node, NEW g \in [Node -> V], NEW h \in [Node -> V],
                       \A k \in Node : <<k, m>> \in Less => g[k] = h[k]
                PROVE  Step[m][g] = Step[m][h]
    BY DEF ReadsBelow
  <2>1. \A c \in Children(m) : g[c] = h[c]
    BY ChildrenAreLess
  <2>2. RepairableBy(g, m) = RepairableBy(h, m)
    BY <2>1 DEF RepairableBy
  <2>. QED
    BY <2>2
<1>3. V # {}
  OBVIOUS
<1>. HIDE DEF Step, V
<1>4. PICK f \in [Node -> V] : IsSolution(f, Step, Node)
  BY <1>1, <1>2, <1>3, NodesAreOrdered, RecursionHasASolution
<1>5. \A m \in Node : f[m] = RepairableBy(f, m)
  BY <1>4 DEF Step, IsSolution
<1>6. f = [m \in Node |-> RepairableBy(f, m)]
  BY <1>5
<1>7. Repairable = CHOOSE g : g = [m \in Node |-> RepairableBy(g, m)]
  BY DEF Repairable, RepairableBy
<1>8. Repairable = [m \in Node |-> RepairableBy(Repairable, m)]
  BY <1>6, <1>7, Zenon
<1>9. RepairableBy(Repairable, n)
  BY <1>8
<1>. QED
  BY <1>9 DEF RepairableBy

LEMMA LeavesBelowAreLeaves ==
  ASSUME NEW n \in Node
  PROVE  LeavesBelow[n] \subseteq Leaf
<1>. DEFINE Bad == {m \in Node : ~ (LeavesBelow[m] \subseteq Leaf)}
<1>. SUFFICES ASSUME Bad # {} PROVE FALSE
  OBVIOUS
<1>1. Bad \subseteq Node
  OBVIOUS
<1>. HIDE DEF Bad
<1>2. PICK m \in Bad : \A k \in Bad : ~ (<<k, m>> \in Less)
  BY <1>1, NodesAreOrdered, WFMin
<1>3. m \in Node /\ ~ (LeavesBelow[m] \subseteq Leaf)
  BY <1>2 DEF Bad
<1>4. \A c \in Children(m) : LeavesBelow[c] \subseteq Leaf
  BY <1>2, <1>3, ChildrenAreLess DEF Bad
<1>5. CASE m \in Leaf
  BY <1>3, <1>5, LeavesBelowAre DEF LeavesOf
<1>6. CASE m \notin Leaf
  <2>1. LeavesBelow[m] = UNION {LeavesBelow[c] : c \in Children(m)}
    BY <1>3, <1>6, LeavesBelowAre DEF LeavesOf
  <2>. QED
    BY <1>3, <1>4, <2>1
<1>. QED
  BY <1>5, <1>6

LEMMA PartsAreRepairable ==
  ASSUME NEW n \in Node, Repairable[n], n \notin Leaf, NEW c \in Children(n)
  PROVE  /\ c \in Node /\ <<c, n>> \in Less /\ Repairable[c]
         /\ LeavesBelow[c] \subseteq LeavesBelow[n]
<1>1. c \in Node /\ <<c, n>> \in Less
  BY ChildrenAreLess
<1>2. Repairable[c]
  BY RepairableIs
<1>3. LeavesBelow[n] = UNION {LeavesBelow[d] : d \in Children(n)}
  BY LeavesBelowAre DEF LeavesOf
<1>. QED
  BY <1>1, <1>2, <1>3

(* The truth of a repairable predicate is that of the leaves below it.     *)
LEMMA TruthsReadTheirLeaves ==
  ASSUME NEW n \in Node, Repairable[n], NEW f, NEW g,
         \A l \in LeavesBelow[n] : f[l] = g[l]
  PROVE  Evaluate(f)[n] = Evaluate(g)[n]
<1>. DEFINE Bad == {m \in Node : /\ Repairable[m]
                                 /\ \A l \in LeavesBelow[m] : f[l] = g[l]
                                 /\ Evaluate(f)[m] # Evaluate(g)[m]}
<1>. SUFFICES ASSUME Bad # {} PROVE FALSE
  OBVIOUS
<1>1. Bad \subseteq Node
  OBVIOUS
<1>. HIDE DEF Bad
<1>2. PICK m \in Bad : \A k \in Bad : ~ (<<k, m>> \in Less)
  BY <1>1, NodesAreOrdered, WFMin
<1>3. /\ m \in Node /\ Repairable[m]
      /\ \A l \in LeavesBelow[m] : f[l] = g[l]
      /\ Evaluate(f)[m] # Evaluate(g)[m]
  BY <1>2 DEF Bad
<1>. DEFINE F == Evaluate(f)
            G == Evaluate(g)
<1>4. F[m] = Verdict(f, F, m) /\ G[m] = Verdict(g, G, m)
  BY <1>3, EvaluateIs
<1>5. CASE m \in Leaf
  <2>1. f[m] = g[m]
    BY <1>3, <1>5, LeavesBelowAre DEF LeavesOf
  <2>. QED
    BY <1>3, <1>4, <1>5, <2>1 DEF Verdict, Leaf, Composite
<1>6. CASE m \notin Leaf
  <2>1. \A c \in Children(m) : F[c] = G[c]
    BY <1>2, <1>3, <1>6, PartsAreRepairable DEF Bad
  <2>. HIDE DEF F, G
  <2>2. {F[c] : c \in Children(m)} = {G[c] : c \in Children(m)}
    BY <2>1
  <2>3. Body[m].op = "not" => F[Body[m].of] = G[Body[m].of]
    BY <2>1 DEF Children
  <2>4. Body[m].op \in Composite
    BY <1>3, <1>6, RepairableIs
  <2>5. F[m] = G[m]
    BY <1>4, <2>2, <2>3, <2>4 DEF Verdict, Composite
  <2>. QED
    BY <1>3, <2>5 DEF F, G
<1>. QED
  BY <1>5, <1>6

(* What is asked of a repairable predicate is asked of leaves below it.    *)
LEMMA CausesAreBelow ==
  ASSUME NEW leaf, NEW n \in Node, Repairable[n], NEW negated \in BOOLEAN
  PROVE  Causes(leaf)[n][negated] \subseteq LeavesBelow[n] \X BOOLEAN
<1>. DEFINE C == Causes(leaf)
            Bad == {m \in Node : /\ Repairable[m]
                                 /\ \E b \in BOOLEAN :
                                      ~ (C[m][b] \subseteq LeavesBelow[m] \X BOOLEAN)}
<1>. SUFFICES ASSUME Bad # {} PROVE FALSE
  OBVIOUS
<1>1. Bad \subseteq Node
  OBVIOUS
<1>. HIDE DEF Bad
<1>2. PICK m \in Bad : \A k \in Bad : ~ (<<k, m>> \in Less)
  BY <1>1, NodesAreOrdered, WFMin
<1>3. /\ m \in Node /\ Repairable[m]
      /\ \E b \in BOOLEAN : ~ (C[m][b] \subseteq LeavesBelow[m] \X BOOLEAN)
  BY <1>2 DEF Bad
<1>4. PICK b \in BOOLEAN : ~ (C[m][b] \subseteq LeavesBelow[m] \X BOOLEAN)
  BY <1>3
<1>5. C[m][b] = CausesOf(C, Evaluate(leaf), m, b)
  BY <1>3, CausesAre
<1>. HIDE DEF C
<1>6. CASE m \in Leaf
  <2>1. LeavesBelow[m] = {m}
    BY <1>3, <1>6, LeavesBelowAre DEF LeavesOf
  <2>2. C[m][b] \subseteq {<<m, b>>}
    BY <1>5, <1>6 DEF CausesOf, Leaf, Composite
  <2>. QED
    BY <1>4, <2>1, <2>2
<1>7. CASE m \notin Leaf
  <2>1. \A c \in Children(m), d \in BOOLEAN : C[c][d] \subseteq LeavesBelow[m] \X BOOLEAN
    <3>. TAKE c \in Children(m), d \in BOOLEAN
    <3>1. C[c][d] \subseteq LeavesBelow[c] \X BOOLEAN
      BY <1>2, <1>3, <1>7, PartsAreRepairable DEF Bad
    <3>2. LeavesBelow[c] \subseteq LeavesBelow[m]
      BY <1>3, <1>7, PartsAreRepairable
    <3>. QED
      BY <3>1, <3>2
  <2>2. Body[m].op \in Composite
    BY <1>3, <1>7, RepairableIs
  <2>3. CASE Body[m].op = "not"
    <3>1. C[m][b] = C[Body[m].of][~b] /\ Body[m].of \in Children(m)
      BY <1>5, <2>3 DEF CausesOf, Children
    <3>2. (~b) \in BOOLEAN
      OBVIOUS
    <3>. QED
      BY <1>4, <2>1, <3>1, <3>2
  <2>4. CASE Body[m].op \in {"all", "any"}
    <3>1. \A x \in C[m][b] : \E c \in Children(m) : x \in C[c][b]
      BY <1>5, <2>4 DEF CausesOf
    <3>. QED
      BY <1>4, <2>1, <3>1
  <2>. QED
    BY <2>2, <2>3, <2>4 DEF Composite
<1>. QED
  BY <1>6, <1>7


(* The parts that are asked: all that refute a conjunction, or a negated   *)
(* disjunction; every one of the rest.                                     *)
Chosen(leaf, n, b) ==
  {c \in Children(n) : (Body[n].op = "all") # b => ~Satisfied(Evaluate(leaf)[c], b)}

LEMMA PartsAreAsked ==
  ASSUME NEW leaf, NEW n \in Node, Repairable[n], Body[n].op \in {"all", "any"},
         NEW b \in BOOLEAN, ~Satisfied(Evaluate(leaf)[n], b),
         NEW c \in Children(n), NEW l \in LeavesBelow[c], NEW x \in BOOLEAN
  PROVE  <<l, x>> \in Causes(leaf)[n][b]
           <=> c \in Chosen(leaf, n, b) /\ <<l, x>> \in Causes(leaf)[c][b]
<1>. DEFINE C == Causes(leaf)
<1>1. n \notin Leaf
  BY DEF Leaf, Composite
<1>2. C[n][b] = UNION {C[d][b] : d \in Chosen(leaf, n, b)}
  <2>1. C[n][b] = CausesOf(C, Evaluate(leaf), n, b)
    BY CausesAre
  <2>. HIDE DEF C
  <2>. QED
    BY <2>1, Zenon DEF CausesOf, Chosen
<1>3. \A d \in Children(n) : C[d][b] \subseteq LeavesBelow[d] \X BOOLEAN
  BY <1>1, PartsAreRepairable, CausesAreBelow
<1>4. \A d \in Children(n) : <<l, x>> \in C[d][b] => d = c
  <2>. SUFFICES ASSUME NEW d \in Children(n), <<l, x>> \in C[d][b], d # c PROVE FALSE
    OBVIOUS
  <2>1. l \in LeavesBelow[d]
    BY <1>3
  <2>2. LeavesBelow[c] \cap LeavesBelow[d] = {}
    BY <1>1, RepairableIs
  <2>. QED
    BY <2>1, <2>2
<1>5. Chosen(leaf, n, b) \subseteq Children(n)
  BY DEF Chosen
<1>. HIDE DEF C
<1>6. <<l, x>> \in C[n][b] <=> c \in Chosen(leaf, n, b) /\ <<l, x>> \in C[c][b]
  BY <1>2, <1>4, <1>5
<1>. QED
  BY <1>6 DEF C

(* No leaf is asked to be both true and false.                             *)
LEMMA CausesAgree ==
  ASSUME NEW leaf, NEW n \in Node, Repairable[n], NEW negated \in BOOLEAN, NEW l
  PROVE  ~ (<<l, TRUE>> \in Causes(leaf)[n][negated] /\ <<l, FALSE>> \in Causes(leaf)[n][negated])
<1>. DEFINE C == Causes(leaf)
            Both(m, b) == <<l, TRUE>> \in C[m][b] /\ <<l, FALSE>> \in C[m][b]
            Bad == {m \in Node : Repairable[m] /\ \E b \in BOOLEAN : Both(m, b)}
<1>. SUFFICES ASSUME Bad # {} PROVE FALSE
  OBVIOUS
<1>1. Bad \subseteq Node
  OBVIOUS
<1>. HIDE DEF Bad
<1>2. PICK m \in Bad : \A k \in Bad : ~ (<<k, m>> \in Less)
  BY <1>1, NodesAreOrdered, WFMin
<1>3. m \in Node /\ Repairable[m] /\ \E b \in BOOLEAN : Both(m, b)
  BY <1>2 DEF Bad
<1>4. PICK b \in BOOLEAN : Both(m, b)
  BY <1>3
<1>5. C[m][b] = CausesOf(C, Evaluate(leaf), m, b)
  BY <1>3, CausesAre
<1>6. CASE m \in Leaf
  <2>. HIDE DEF C
  <2>1. C[m][b] \subseteq {<<m, b>>}
    BY <1>5, <1>6 DEF CausesOf, Leaf, Composite
  <2>2. <<l, TRUE>> = <<m, b>> /\ <<l, FALSE>> = <<m, b>>
    BY <1>4, <2>1
  <2>. QED
    BY <2>2
<1>7. CASE m \notin Leaf
  <2>1. \A c \in Children(m), d \in BOOLEAN : ~ Both(c, d)
    <3>. TAKE c \in Children(m), d \in BOOLEAN
    <3>1. c \in Node /\ Repairable[c] /\ <<c, m>> \in Less
      BY <1>3, <1>7, PartsAreRepairable
    <3>. QED
      BY <1>2, <3>1, Zenon DEF Bad
  <2>2. Body[m].op \in Composite
    BY <1>3, <1>7, RepairableIs
  <2>3. CASE Body[m].op = "not"
    <3>. HIDE DEF C
    <3>1. C[m][b] = C[Body[m].of][~b] /\ Body[m].of \in Children(m)
      BY <1>5, <2>3 DEF CausesOf, Children
    <3>2. (~b) \in BOOLEAN
      OBVIOUS
    <3>3. ~ Both(Body[m].of, ~b)
      BY <2>1, <3>1, <3>2
    <3>. QED
      BY <1>4, <3>1, <3>3
  <2>4. CASE Body[m].op \in {"all", "any"}
    <3>1. ~Satisfied(Evaluate(leaf)[m], b)
      BY <1>4, <1>5, <2>4 DEF CausesOf
    <3>2. l \in LeavesBelow[m]
      <4>1. C[m][b] \subseteq LeavesBelow[m] \X BOOLEAN
        BY <1>3, CausesAreBelow
      <4>. QED
        BY <1>4, <4>1
    <3>3. PICK c \in Children(m) : l \in LeavesBelow[c]
      <4>1. LeavesBelow[m] = UNION {LeavesBelow[c] : c \in Children(m)}
        BY <1>3, <1>7, LeavesBelowAre DEF LeavesOf
      <4>. QED
        BY <3>2, <4>1
    <3>4. \A x \in BOOLEAN : <<l, x>> \in Causes(leaf)[m][b] => <<l, x>> \in Causes(leaf)[c][b]
      BY <1>3, <2>4, <3>1, <3>3, PartsAreAsked
    <3>5. Both(c, b)
      BY <1>4, <3>4
    <3>. QED
      BY <2>1, <3>5
  <2>. QED
    BY <2>2, <2>3, <2>4 DEF Composite
<1>. QED
  BY <1>6, <1>7


(* r is what leaf was, but for the causes: they are what is asked of them. *)
Repairs(r, leaf, causes, leaves) ==
  \A l \in leaves :
    /\ <<l, FALSE>> \in causes => r[l] = "true"
    /\ <<l, TRUE>> \in causes => r[l] = "false"
    /\ <<l, FALSE>> \notin causes /\ <<l, TRUE>> \notin causes => r[l] = leaf[l]

(* When every part satisfies, so does the whole.                           *)
LEMMA PartsSatisfy ==
  ASSUME NEW r, NEW n \in Node, Body[n].op \in {"all", "any"}, Children(n) # {},
         NEW b \in BOOLEAN, \A c \in Children(n) : Satisfied(Evaluate(r)[c], b)
  PROVE  Satisfied(Evaluate(r)[n], b)
<1>. DEFINE R == Evaluate(r)
            wanted == IF b THEN "false" ELSE "true"
<1>1. R[n] = Verdict(r, R, n)
  BY EvaluateIs
<1>2. \A c \in Children(n) : R[c] = wanted
  BY DEF Satisfied
<1>3. {R[c] : c \in Children(n)} = {wanted}
  BY <1>2
<1>. HIDE DEF R
<1>4. And({wanted}) = wanted /\ Or({wanted}) = wanted
  BY DEF And, Or
<1>5. R[n] = wanted
  BY <1>1, <1>3, <1>4, Zenon DEF Verdict
<1>. QED
  BY <1>5 DEF R, Satisfied

LEMMA RepairsSatisfy ==
  ASSUME NEW leaf, NEW r, NEW n \in Node, Repairable[n], NEW negated \in BOOLEAN,
         Repairs(r, leaf, Causes(leaf)[n][negated], LeavesBelow[n])
  PROVE  Satisfied(Evaluate(r)[n], negated)
<1>. DEFINE C == Causes(leaf)
            T == Evaluate(leaf)
            R == Evaluate(r)
            Fails(m, b) == /\ Repairs(r, leaf, C[m][b], LeavesBelow[m])
                           /\ ~ Satisfied(R[m], b)
            Bad == {m \in Node : Repairable[m] /\ \E b \in BOOLEAN : Fails(m, b)}
<1>. SUFFICES ASSUME Bad # {} PROVE FALSE
  OBVIOUS
<1>1. Bad \subseteq Node
  OBVIOUS
<1>. HIDE DEF Bad
<1>2. PICK m \in Bad : \A k \in Bad : ~ (<<k, m>> \in Less)
  BY <1>1, NodesAreOrdered, WFMin
<1>3. m \in Node /\ Repairable[m] /\ \E b \in BOOLEAN : Fails(m, b)
  BY <1>2 DEF Bad
<1>4. PICK b \in BOOLEAN : Fails(m, b)
  BY <1>3
<1>5. C[m][b] = CausesOf(C, T, m, b)
  BY <1>3, CausesAre
<1>6. /\ Repairs(r, leaf, C[m][b], LeavesBelow[m])
      /\ ~ Satisfied(R[m], b)
  BY <1>4
<1>7. R[m] = Verdict(r, R, m) /\ T[m] = Verdict(leaf, T, m)
  BY <1>3, EvaluateIs
<1>8. CASE m \in Leaf
  <2>1. m \in LeavesBelow[m]
    BY <1>3, <1>8, LeavesBelowAre DEF LeavesOf
  <2>. HIDE DEF C, T, R
  <2>2. R[m] = r[m] /\ T[m] = leaf[m]
    BY <1>7, <1>8 DEF Verdict, Leaf, Composite
  <2>3. C[m][b] = IF Satisfied(T[m], b) THEN {} ELSE {<<m, b>>}
    BY <1>5, <1>8 DEF CausesOf, Leaf, Composite
  <2>4. CASE Satisfied(T[m], b)
    <3>1. r[m] = leaf[m]
      BY <1>6, <2>1, <2>3, <2>4 DEF Repairs
    <3>. QED
      BY <1>6, <2>2, <2>4, <3>1
  <2>5. CASE ~Satisfied(T[m], b)
    <3>1. <<m, b>> \in C[m][b]
      BY <2>3, <2>5
    <3>2. CASE b = TRUE
      BY <1>6, <2>1, <2>2, <3>1, <3>2 DEF Repairs, Satisfied
    <3>3. CASE b = FALSE
      BY <1>6, <2>1, <2>2, <3>1, <3>3 DEF Repairs, Satisfied
    <3>. QED
      BY <3>2, <3>3
  <2>. QED
    BY <2>4, <2>5
<1>9. CASE m \notin Leaf
  <2>1. \A c \in Children(m) : /\ c \in Node /\ Repairable[c]
                               /\ LeavesBelow[c] \subseteq LeavesBelow[m]
    BY <1>3, <1>9, PartsAreRepairable
  <2>2. \A c \in Children(m), d \in BOOLEAN : ~ Fails(c, d)
    <3>. TAKE c \in Children(m), d \in BOOLEAN
    <3>1. c \in Node /\ Repairable[c] /\ <<c, m>> \in Less
      BY <1>3, <1>9, PartsAreRepairable
    <3>. QED
      BY <1>2, <3>1, Zenon DEF Bad
  <2>3. Body[m].op \in Composite /\ Children(m) # {}
    BY <1>3, <1>9, RepairableIs
  <2>4. CASE Body[m].op = "not"
    <3>. PICK c : c = Body[m].of
      OBVIOUS
    <3>. PICK d \in BOOLEAN : d = ~b
      OBVIOUS
    <3>1. c \in Children(m)
      BY <2>4 DEF Children
    <3>. HIDE DEF C, T, R
    <3>2. C[m][b] = C[c][d]
      BY <1>5, <2>4 DEF CausesOf
    <3>3. Repairs(r, leaf, C[c][d], LeavesBelow[c])
      BY <1>6, <2>1, <3>1, <3>2 DEF Repairs
    <3>4. Satisfied(R[c], d)
      BY <2>2, <3>1, <3>3
    <3>5. R[m] = Not(R[c])
      BY <1>7, <2>4 DEF Verdict
    <3>6. CASE b = TRUE
      BY <1>6, <3>4, <3>5, <3>6 DEF Satisfied, Not
    <3>7. CASE b = FALSE
      BY <1>6, <3>4, <3>5, <3>7 DEF Satisfied, Not
    <3>. QED
      BY <3>6, <3>7
  <2>5. CASE Body[m].op \in {"all", "any"} /\ Satisfied(T[m], b)
    <3>1. C[m][b] = {}
      <4>. HIDE DEF C, T
      <4>. QED
        BY <1>5, <2>5, Zenon DEF CausesOf
    <3>2. \A l \in LeavesBelow[m] : r[l] = leaf[l]
      BY <1>6, <3>1 DEF Repairs
    <3>3. R[m] = T[m]
      BY <1>3, <3>2, TruthsReadTheirLeaves
    <3>. QED
      BY <1>6, <2>5, <3>3
  <2>6. CASE Body[m].op \in {"all", "any"} /\ ~Satisfied(T[m], b)
    <3>1. ASSUME NEW c \in Children(m), NEW l \in LeavesBelow[c], NEW x \in BOOLEAN
          PROVE  <<l, x>> \in C[m][b] <=> c \in Chosen(leaf, m, b) /\ <<l, x>> \in C[c][b]
      BY <1>3, <2>6, PartsAreAsked
    <3>2. ASSUME NEW c \in Children(m) PROVE Satisfied(R[c], b)
      <4>1. CASE c \in Chosen(leaf, m, b)
        <5>1. \A l \in LeavesBelow[c], x \in BOOLEAN : <<l, x>> \in C[m][b] <=> <<l, x>> \in C[c][b]
          BY <3>1, <4>1
        <5>2. Repairs(r, leaf, C[c][b], LeavesBelow[c])
          <6>. HIDE DEF C
          <6>. QED
            BY <1>6, <2>1, <5>1 DEF Repairs
        <5>. QED
          BY <2>2, <5>2
      <4>2. CASE c \notin Chosen(leaf, m, b)
        <5>1. Satisfied(T[c], b)
          BY <4>2 DEF Chosen
        <5>2. \A l \in LeavesBelow[c] : <<l, TRUE>> \notin C[m][b] /\ <<l, FALSE>> \notin C[m][b]
          BY <3>1, <4>2
        <5>3. \A l \in LeavesBelow[c] : r[l] = leaf[l]
          <6>. HIDE DEF C
          <6>. QED
            BY <1>6, <2>1, <5>2 DEF Repairs
        <5>4. R[c] = T[c]
          BY <2>1, <5>3, TruthsReadTheirLeaves
        <5>. QED
          BY <5>1, <5>4
      <4>. QED
        BY <4>1, <4>2
    <3>. QED
      BY <1>3, <1>6, <2>3, <2>6, <3>2, PartsSatisfy
  <2>. QED
    BY <2>3, <2>4, <2>5, <2>6 DEF Composite
<1>. QED
  BY <1>8, <1>9

(* The causes an outcome names are enough to act on: for every table of    *)
(* predicates and every store of facts, were each cause to become what is  *)
(* asked of it, and nothing else to change, the predicate would hold       *)
(* (predicate.rs, outcome and collect_causes).  What is asked of a leaf is *)
(* asked of it once, or two causes could contradict one another: that is   *)
(* Repairable, whose every composite has parts, as Predicate::combine      *)
(* leaves it.                                                              *)
THEOREM CausesAreEnough == FactsSpec => []RepairingTheCausesSatisfies
<1>1. RepairingTheCausesSatisfies
  <2>. PICK leaf : leaf = Leaves(facts)
    OBVIOUS
  <2>. DEFINE C(n) == Causes(leaf)[n][FALSE]
              repaired(n) == [l \in Leaf |->
                                IF <<l, FALSE>> \in C(n) THEN "true"
                                ELSE IF <<l, TRUE>> \in C(n) THEN "false" ELSE leaf[l]]
  <2>1. ASSUME NEW n \in Node, Repairable[n] PROVE Evaluate(repaired(n))[n] = "true"
    <3>. PICK causes : causes = C(n)
      OBVIOUS
    <3>. PICK r : r = repaired(n)
      OBVIOUS
    <3>1. \A l \in Leaf : r[l] = IF <<l, FALSE>> \in causes THEN "true"
                                 ELSE IF <<l, TRUE>> \in causes THEN "false" ELSE leaf[l]
      OBVIOUS
    <3>2. \A l \in Leaf : ~ (<<l, TRUE>> \in causes /\ <<l, FALSE>> \in causes)
      BY <2>1, CausesAgree
    <3>3. LeavesBelow[n] \subseteq Leaf
      BY LeavesBelowAreLeaves
    <3>4. Repairs(r, leaf, causes, LeavesBelow[n])
      BY ONLY <3>1, <3>2, <3>3 DEF Repairs
    <3>5. Satisfied(Evaluate(r)[n], FALSE)
      BY <2>1, <3>4, RepairsSatisfy
    <3>. QED
      BY <3>5 DEF Satisfied
  <2>2. \A n \in Node : Repairable[n] => Evaluate(repaired(n))[n] = "true"
    BY <2>1
  <2>. QED
    BY <2>2, Zenon DEF RepairingTheCausesSatisfies
<1>. QED
  BY <1>1, PTL


=============================================================================
