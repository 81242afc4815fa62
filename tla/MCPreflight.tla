----------------------------- MODULE MCPreflight -----------------------------
(* The workflow of MCEngine under a plan that asks a person in every       *)
(* place: on a transition, in an obligation, and two conditions deep in    *)
(* completion; and that may ask for a specification no step produces.      *)
EXTENDS Preflight, MCEngine

AskingNodes == 1 .. 8

AskingBody ==
  PlanBody \o << [op |-> "truthy", path |-> "deploy.ok"],
                 [op |-> "truthy", path |-> "contract.changed"],
                 [op |-> "defined", path |-> "deploy.ok"] >>

Evidence(kind, verifier, subject) ==
  [kind |-> kind, atLeast |-> 1, independent |-> FALSE, verifier |-> verifier,
   subject |-> subject, horizon |-> NoHorizon]

(* 1 nothing; 2 approving the move; 3 a person's word on the deployment;   *)
(* 4 a deployment, and the word once it is there; 5 a specification;       *)
(* 6 entering `complete`; 7 the review an obligation asks for;             *)
(* 8 completion.                                                           *)
AskingSets ==
  << Nothing,
     [Nothing EXCEPT !.approvals = {[approval |-> "ship", human |-> TRUE]}],
     [Nothing EXCEPT !.evidence = {Evidence("approval", Person, "release")}],
     [Nothing EXCEPT !.evidence = {Evidence("deploy", "any", "any")},
                     !.conditional = {[when |-> 6, require |-> 3]}],
     [Nothing EXCEPT !.evidence = {Evidence("spec", "any", "any")}],
     [Nothing EXCEPT !.evidence = {Suite(1)}],
     [Nothing EXCEPT !.artifacts = {"design-review"}],
     [Nothing EXCEPT !.evidence = {Suite(1)},
        !.conditional = {[when |-> 4, require |-> 4], [when |-> 7, require |-> 5]}] >>

AskingTransitions == [PlanTransitions EXCEPT ![2].requires = 2]
AskingStates == [s \in PlanStates |-> IF s = "complete" THEN 6 ELSE 1]
AskingObligations ==
  {[timing |-> "before", target |-> "completion", requires |-> 7],
   [timing |-> "during", target |-> "verify", requires |-> 6]}
AskingPrinciples == {Evidence("approval", Person, "any")}

SignOff ==
  [kind |-> "approval", by |-> Person, subject |-> "none", digest |-> "none",
   facts |-> NoFacts, approval |-> "ship", decision |-> "granted"]

WithPerson == {Run("test-runner", 0, "none"), Deployed, SignOff}

Known(risk, contract) ==
  [facts |-> ("risk.high" :> Bool(risk) @@ "contract.changed" :> Bool(contract)),
   governing |-> {}, met |-> {"design-review"}]

Situations == {Known(TRUE, FALSE), Known(FALSE, FALSE)}

(* The shipped approval gate: nobody is asked until something is deployed. *)
GatedSets ==
  << Nothing, Nothing, Nothing, Nothing, Nothing, [Nothing EXCEPT !.evidence = {Suite(1)}],
     [Nothing EXCEPT !.approvals = {[approval |-> "ship", human |-> TRUE]}],
     [Nothing EXCEPT !.conditional = {[when |-> 8, require |-> 7]}] >>
GatedObligations == {[timing |-> "before", target |-> "completion", requires |-> 8]}

(* And nobody here attests a revision.                                     *)
ASSUME RecordsInScope == NothingIsUnbound
=============================================================================
