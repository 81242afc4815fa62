------------------------------ MODULE MCEngine ------------------------------
(* A short workflow with a back-edge and a guard on `evidence.missing`.    *)
(* The suite's runs decay after two days where a state is entered and      *)
(* after three where completion requires them; a deployment decays after   *)
(* one.                                                                    *)
EXTENDS Engine

Path(p) == [is |-> "fact", path |-> p]
Literal(v) == [is |-> "literal", value |-> v]

PlanNodes == 1 .. 5

PlanBody ==
  << [op |-> "compare", left |-> Path("tests.failed"), cmp |-> "eq", right |-> Literal(Number(0))],
     [op |-> "compare", left |-> Path("tests.failed"), cmp |-> "gt", right |-> Literal(Number(0))],
     [op |-> "compare", left |-> Path("evidence.missing"), cmp |-> "eq", right |-> Literal(Number(0))],
     [op |-> "truthy", path |-> "risk.high"],
     [op |-> "always"] >>

PlanStates == {"implement", "verify", "complete"}

PlanPhases ==
  [s \in PlanStates |-> IF s = "complete" THEN {"completion"} ELSE {}]

PlanTransitions ==
  << [from |-> "implement", to |-> "verify", when |-> 5, requires |-> 1],
     [from |-> "verify", to |-> "complete", when |-> 3, requires |-> 2],
     [from |-> "verify", to |-> "implement", when |-> 2, requires |-> 1] >>

Suite(horizon) ==
  [kind |-> "test", atLeast |-> 1, independent |-> TRUE, verifier |-> "test-runner",
   subject |-> "any", horizon |-> horizon]

Deployment ==
  [kind |-> "deploy", atLeast |-> 1, independent |-> FALSE, verifier |-> "any",
   subject |-> "any", horizon |-> 1]

Nothing ==
  [predicates |-> {}, evidence |-> {}, approvals |-> {}, artifacts |-> {}, conditional |-> {}]

(* 1 nothing; 2 a green suite; 3 a deployment; 4 completion: a suite, and  *)
(* a deployment when the risk is high; 5 entering `complete`.              *)
TheSets ==
  << Nothing,
     [Nothing EXCEPT !.predicates = {1}],
     [Nothing EXCEPT !.evidence = {Deployment}],
     [Nothing EXCEPT !.evidence = {Suite(3)}, !.conditional = {[when |-> 4, require |-> 3]}],
     [Nothing EXCEPT !.evidence = {Suite(2)}] >>

PlanStateRequires == [s \in PlanStates |-> IF s = "complete" THEN 5 ELSE 1]

PlanObligations == {[timing |-> "before", target |-> "completion", requires |-> 4]}

PlanPrincipleEvidence == {Suite(3)}

Run(by, failed, digest) ==
  [kind |-> "test", by |-> by, subject |-> "none", digest |-> digest,
   facts |-> ("tests.failed" :> Number(failed)), approval |-> "none", decision |-> "none"]

Deployed ==
  [kind |-> "deploy", by |-> "agent", subject |-> "none", digest |-> "none",
   facts |-> ("deploy.ok" :> Bool(TRUE)), approval |-> "none", decision |-> "none"]

SuiteRuns == {Run("test-runner", 0, "none"), Run("test-runner", 1, "none")}
AllRuns == SuiteRuns \cup {Run("agent", 0, "none"), Deployed}
SpecRuns == {Run("test-runner", 0, "r1")}

NoFacts == [p \in {} |-> Number(0)]
Quiet == [facts |-> NoFacts, governing |-> {}, met |-> {}]
Risky == [facts |-> ("risk.high" :> Bool(TRUE)), governing |-> {}, met |-> {}]
Calm == [facts |-> ("risk.high" :> Bool(FALSE)), governing |-> {}, met |-> {}]
AtFirst == [Calm EXCEPT !.governing = {"r1"}]
AtSecond == [Calm EXCEPT !.governing = {"r2"}]

OneGraph == {Calm}
Risks == {Quiet, Risky, Calm}
Revisions == {AtFirst, AtSecond}

(* The plans here are of the kind the theorems are about.                  *)
ASSUME PlanInScope ==
  /\ GuardsConjoin /\ OnlyEvidenceBinds /\ ConditionsReadObservations /\ CountIsAskedToBeNothing
  /\ OneKindBinds /\ LapsesOnlyUnsettle

=============================================================================
