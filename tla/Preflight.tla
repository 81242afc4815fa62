------------------------------ MODULE Preflight ------------------------------
(***************************************************************************)
(* What is decided about a run before its first step: the evidence its     *)
(* plan can demand and its step map cannot produce                         *)
(* (crates/aep-engine/src/evaluate.rs, demanded_evidence, with             *)
(* crates/aep-driver/src/coverage.rs), and the approvals it can reach      *)
(* (crates/aep-driver/src/approval.rs).  Both read documents only; what    *)
(* they say is held against the executions of the engine.                  *)
(***************************************************************************)
EXTENDS Engine

CONSTANTS
  StepKinds,      \* the evidence kinds some step of the map declares
  PersonReviews   \* the reviews a person has to give, among the artifacts of sets

VARIABLE report   \* what was decided before the run

PersonKinds == {"approval", "review"}
Person == "person"

(* A map's steps produce the kinds it declares, and a person the rest.     *)
ASSUME MapAssumption ==
  \A s \in Submissions : s.kind \in StepKinds \/ (s.kind \in PersonKinds /\ s.by = Person)

---------------------------------------------------------------------------
(* A requirement set and everything under its conditions that the facts    *)
(* known before the run do not refute: the only pruning there is.          *)
BeforeTheRun == TruthIn(PlanFacts)

Nested(conditional, found) ==
  {[f EXCEPT !.under = <<conditional.when>> \o @] : f \in found}

(* collect_demands                                                         *)
Demands ==
  LET d[s \in SetId] ==
        {[req |-> r, under |-> <<>>] : r \in Sets[s].evidence}
          \cup UNION {Nested(c, d[c.require]) :
                        c \in {c \in Sets[s].conditional : BeforeTheRun[c.when] # "false"}}
  IN d

(* scan: the approvals, reviews and evidence only a person can give.       *)
OfAPerson(s) ==
     {<<"approval", a.approval>> : a \in {a \in Sets[s].approvals : a.human}}
  \cup {<<"review", r>> : r \in Sets[s].artifacts \cap PersonReviews}
  \cup {<<"evidence", r.kind>> : r \in {r \in Sets[s].evidence : r.verifier = Person}}

(* Mutant: one level of conditions is read, as the count does.             *)
ScanOneLevel(s) ==
  {[what |-> w, under |-> <<>>] : w \in OfAPerson(s)}
    \cup UNION {{[what |-> w, under |-> <<c.when>>] : w \in OfAPerson(c.require)} :
                  c \in {c \in Sets[s].conditional : BeforeTheRun[c.when] # "false"}}

Scanned(set, truth) ==
  LET f[s \in SetId] ==
        {[what |-> w, under |-> <<>>] : w \in OfAPerson(s)}
          \cup UNION {Nested(c, f[c.require]) :
                        c \in {c \in Sets[s].conditional : truth[c.when] # "false"}}
  IN f[set]

Scan(s) == Scanned(s, BeforeTheRun)

(* reachable_approvals, the capabilities of the map's steps aside.         *)
ReachableApprovals == UNION {Scan(s) : s \in PlanSets}

(* Workflow::reachable                                                     *)
Reachable ==
  LET step(seen) == seen \cup {Transitions[i].to : i \in {i \in DOMAIN Transitions :
                                                            Transitions[i].from \in seen}}
      after[n \in Nat] == IF n = 0 THEN {Initial} ELSE step(after[n - 1])
  IN after[Cardinality(State)]

Leaving(s) == {i \in DOMAIN Transitions : Transitions[i].from = s}

---------------------------------------------------------------------------
(* What a demand blocks: moves by their number, and completion as 0.       *)

ReadsMissingCount(n) == "evidence.missing" \in Paths[n]

BlockedByTheCount ==
  {i \in DOMAIN Transitions : Transitions[i].from \in Reachable
                                /\ ReadsMissingCount(Transitions[i].when)}
    \cup {i \in {0} : \E p \in Sets[Completion].predicates : ReadsMissingCount(p)}

BlockedByTiming(o) ==
  {i \in DOMAIN Transitions :
     CASE o.timing = "always" -> TRUE
       [] o.timing = "before" -> Targets(o, Transitions[i].to)
       [] OTHER -> Targets(o, Transitions[i].from)}

(* Mutant: the count is believed to descend as deep as the requirement.    *)
CountsAtAnyDepth(under) == TRUE

CountedInMissing(under) == Len(under) <= 1

Demanded(set, folds, owned) ==
  {[req |-> d.req, under |-> d.under,
    blocks |-> owned \cup IF folds /\ CountedInMissing(d.under) THEN BlockedByTheCount ELSE {}] :
     d \in Demands[set]}

(* demanded_evidence                                                       *)
DemandedEvidence ==
  Demanded(Completion, TRUE, {0})
    \cup (UNION {Demanded(o.requires, TRUE, BlockedByTiming(o)) : o \in Obligations})
    \cup {[req |-> r, under |-> <<>>, blocks |-> {0} \cup BlockedByTheCount] :
            r \in PrincipleEvidence}
    \cup (UNION {Demanded(StateRequires[s], FALSE,
                          {i \in DOMAIN Transitions : Transitions[i].to = s}) : s \in Reachable})
    \cup UNION {Demanded(Transitions[i].requires, FALSE, {i}) :
                  i \in {i \in DOMAIN Transitions : Transitions[i].from \in Reachable}}

(* Mutant: a person's evidence is asked of the map.                        *)
NobodysToGive(req) == FALSE

IsPersonShaped(req) == req.verifier = Person \/ req.kind \in PersonKinds

(* evidence_coverage: the demands a launch is refused for.                 *)
MissingProducers ==
  {d \in DemandedEvidence :
     d.req.atLeast > 0 /\ ~IsPersonShaped(d.req) /\ d.req.kind \notin StepKinds}

(* What protocol drive prints, and refuses by, before anything executes.   *)
Launch ==
  report = [demands |-> DemandedEvidence, missing |-> MissingProducers,
            approvals |-> ReachableApprovals]

LaunchedNext == Next /\ UNCHANGED report

LaunchedSpec == Init /\ Launch /\ [][LaunchedNext]_<<vars, report>>

---------------------------------------------------------------------------
(* Properties                                                              *)

Refuted(truth, under) == \E i \in DOMAIN under : truth[under[i]] = "false"

Passed(blocks) ==
  \/ outcome.is = "moved" /\ outcome.via \in blocks
  \/ outcome.is = "completed" /\ 0 \in blocks

(* What a demand is said to block stays shut while it is unmet: the        *)
(* launch report and the evaluator agree on every plan (evaluate.rs,       *)
(* DemandedEvidence::blocks), whatever is nested in what.                  *)
DemandsBlock ==
  outcome.is \in {"moved", "completed"} =>
    \A d \in report.demands :
      Passed(d.blocks) /\ EvidenceTruth(d.req, exec) # "true" => Refuted(TruthIn(Facts(exec)), d.under)

(* A refusal is never for nothing: nothing a missing producer holds shut   *)
(* is passed by a run of this map, but by facts that refute the condition  *)
(* the demand is under (coverage.rs, "a refusal that fires on a rule which *)
(* would never have bitten is worse than no check at all").                *)
RefusalsAreReal ==
  outcome.is \in {"moved", "completed"} =>
    \A d \in report.missing : Passed(d.blocks) => Refuted(TruthIn(Facts(exec)), d.under)

(* The sets the evaluator reads where the execution stands.                *)
SetsHere ==
  (IF exec.state \in Terminal THEN {Completion} \cup {o.requires : o \in OwedToComplete} ELSE {})
    \cup UNION {SetsOf(i) : i \in Leaving(exec.state)}

(* What is asked of a person here and now, at any depth.                   *)
AskedHere ==
  LET truth == TruthIn(Facts(exec))
  IN {p \in UNION {Scanned(s, truth) : s \in SetsHere} :
        \A i \in DOMAIN p.under : truth[p.under[i]] = "true"}

(* The scan finds every approval a run can come to be asked for, at every  *)
(* depth and in every document, that the facts known before the run leave  *)
(* possible (approval.rs 9-30).                                            *)
ScanIsComplete ==
  \A p \in AskedHere :
    ~Refuted(BeforeTheRun, p.under) => p \in report.approvals

(* "Empty means a headless run cannot meet a person-shaped requirement on  *)
(* any path the documents describe" (approval.rs 74).                      *)
HeadlessMeetsNobody == report.approvals = {} => AskedHere = {}
=============================================================================
