------------------------------- MODULE Engine -------------------------------
(***************************************************************************)
(* The protocol engine: crates/aep-engine/src/execution.rs, evaluate.rs    *)
(* and engine.rs, with the requirements of crates/aep-domain/src/          *)
(* requirement.rs.  One execution of a resolved plan: evidence arrives in  *)
(* one order and was observed in another, time passes, observations lapse, *)
(* and the engine decides what is permitted.                               *)
(*                                                                         *)
(* The plan is constant: a workflow, requirement sets by name, and what    *)
(* completion, the principles and their obligations require.  The event    *)
(* record is left out: the engine writes it and never reads it back.       *)
(***************************************************************************)
EXTENDS Predicates, SequencesExt, TLC

CONSTANTS
  State, Initial, Terminal,
  Phases,        \* the phases of every state
  Transitions,   \* in document order: from, to, when (a Node), requires (a set)
  SetId, Sets,   \* requirement sets, by number: predicates, evidence,
                 \* approvals, artifacts, conditional
  StateRequires, \* the set every state requires on entry
  Obligations,   \* timing, target, requires
  Completion,    \* the set the profile's completion is
  PrincipleEvidence, PrincipleVerification, \* what principles require directly
  PlanFacts,     \* the facts the plan itself declares
  Kind,          \* the evidence kinds the protocol declares
  Submissions,   \* what can be submitted: an evidence record without its instants
  Graphs,        \* the artifact graphs a harness may load: facts, governing, met
  MaxClock, MaxEvidence, MaxEntries, MaxRestores, \* bounds
  None

NoHorizon == 0

EvidenceOf(s) ==
  Sets[s].evidence \cup UNION {Sets[c.require].evidence : c \in Sets[s].conditional}

ASSUME SetAssumption ==
  /\ SetId \subseteq Nat
  /\ \A s \in SetId : /\ IsFiniteSet(Sets[s].evidence) /\ IsFiniteSet(Sets[s].conditional)
                       /\ Sets[s].predicates \subseteq Node
  /\ \A s \in SetId : \A c \in Sets[s].conditional :
       c.require \in SetId /\ c.require < s /\ c.when \in Node
ASSUME PlanAssumption ==
  /\ Initial \in State /\ StateRequires \in [State -> SetId] /\ Completion \in SetId
  /\ IsFiniteSet(Obligations) /\ IsFiniteSet(PrincipleEvidence)
  /\ \A o \in Obligations : o.requires \in SetId /\ o.timing \in {"always", "before", "during"}
  /\ DOMAIN Transitions \subseteq Nat \ {0}
  /\ \A i \in DOMAIN Transitions :
       Transitions[i].to \in State /\ Transitions[i].requires \in SetId
ASSUME HorizonAssumption ==
  \A r \in PrincipleEvidence \cup UNION {Sets[s].evidence : s \in SetId} :
    r.horizon \in Nat /\ r.atLeast \in Nat /\ (r.horizon # NoHorizon => r.atLeast >= 1)
ASSUME SubmissionAssumption ==
  \A s \in Submissions : /\ {"observed", "produced"} \cap DOMAIN s = {}
                         /\ {"kind", "by", "digest", "facts"} \subseteq DOMAIN s
ASSUME EngineBounds ==
  /\ MaxClock \in Nat /\ MaxEvidence \in Nat /\ MaxEntries \in Nat /\ MaxRestores \in Nat
ASSUME SentinelAssumption == None \notin Nat

VARIABLES
  clock,     \* the engine's clock, in days
  exec,      \* the execution: state, entered, evidence, graph, at
  saved,     \* the snapshot a harness last took, or None
  outcome,   \* what the last call was and answered
  restores   \* how often the execution was restored

vars == <<clock, exec, saved, outcome, restores>>

---------------------------------------------------------------------------
(* Evidence, and how long it stands.  x is an execution; x.at is the       *)
(* instant it was last read at, None when no engine has read it.           *)

(* The sets the plan's documents hold, and every evidence requirement.     *)
PlanSets ==
  {Completion} \cup {o.requires : o \in Obligations} \cup Range(StateRequires)
    \cup {Transitions[i].requires : i \in DOMAIN Transitions}

PlanRequirements == PrincipleEvidence \cup UNION {EvidenceOf(s) : s \in PlanSets}

Horizons(kind) ==
  {r.horizon : r \in {r \in PlanRequirements : r.kind = kind /\ r.horizon # NoHorizon}}

(* Horizon::covers: an age equal to the horizon is covered, and the age of *)
(* an observation after the instant is zero.                               *)
Covers(horizon, observed, at) == at <= observed + horizon

(* strictest_horizon and has_lapsed: no horizon is no decay, and no clock  *)
(* is no claim.                                                            *)
HasLapsed(record, at) ==
  /\ Horizons(record.kind) # {}
  /\ at # None => \E h \in Horizons(record.kind) : ~Covers(h, record.observed, at)

(* EvidenceRequirement::matches.                                           *)
Matches(req, record) ==
  /\ record.kind = req.kind
  /\ req.subject # "any" => record.subject = req.subject
  /\ req.independent => record.by # "agent"
  /\ req.verifier # "any" => record.by = req.verifier

(* unbound_revision: the record attests a model, and no governing artifact *)
(* is at the revision it names.                                            *)
Unbound(record, graph) ==
  /\ record.digest # "none" /\ graph.governing # {}
  /\ record.digest \notin graph.governing

(* Mutant: decay is counted from the submission, not the observation.      *)
StandsFromSubmission(req, record, at) ==
  req.horizon # NoHorizon => at # None /\ Covers(req.horizon, record.produced, at)

Stands(req, record, at) ==
  req.horizon # NoHorizon => at # None /\ Covers(req.horizon, record.observed, at)

Matching(req, x) == {i \in DOMAIN x.evidence : Matches(req, x.evidence[i])}

Counted(req, x) ==
  {i \in Matching(req, x) : ~Unbound(x.evidence[i], x.graph) /\ Stands(req, x.evidence[i], x.at)}

(* EvidenceRequirement::evaluate.                                          *)
EvidenceTruth(req, x) ==
  IF Cardinality(Counted(req, x)) >= req.atLeast THEN "true"
  ELSE IF \E i \in Matching(req, x) : Unbound(x.evidence[i], x.graph) THEN "false"
  ELSE "unknown"

(* ApprovalRequirement::evaluate: one grant answers, whatever follows it.  *)
ApprovalTruth(req, x) ==
  LET given == {r \in Range(x.evidence) :
                  r.approval = req.approval /\ (req.human => r.by = "person")}
  IN IF \E r \in given : r.decision = "granted" THEN "true"
     ELSE IF given # {} THEN "false" ELSE "unknown"

(* principle_verification: somebody the plan trusts has spoken, in a       *)
(* record that stands under the strictest horizon of its kind.             *)
VerificationTruth(verifier, x) ==
  IF \E r \in Range(x.evidence) : ~HasLapsed(r, x.at) /\ r.by = verifier
  THEN "true" ELSE "unknown"

---------------------------------------------------------------------------
(* Facts                                                                   *)

(* FactStore::extend: a later binding replaces an earlier one.             *)
Extended(facts, more) ==
  [p \in DOMAIN facts \cup DOMAIN more |-> IF p \in DOMAIN more THEN more[p] ELSE facts[p]]

(* Mutant: the first record to bind a path keeps it.                       *)
ObservedKeepsFirst(x) ==
  FoldLeft(LAMBDA facts, r : IF HasLapsed(r, x.at) THEN facts ELSE Extended(r.facts, facts),
           Extended(PlanFacts, x.graph.facts), x.evidence)

(* The plan's facts, the graph's, then each standing record's, in the      *)
(* order they were submitted.                                              *)
Observed(x) ==
  FoldLeft(LAMBDA facts, r : IF HasLapsed(r, x.at) THEN facts ELSE Extended(facts, r.facts),
           Extended(PlanFacts, x.graph.facts), x.evidence)

(* Mutant: the count does not decay.                                       *)
SatisfiesEvidenceForever(req, x) == Cardinality(Matching(req, x)) >= req.atLeast

(* satisfies_evidence: a second reading of the same requirement, which     *)
(* does not ask what revision a record attests.                            *)
SatisfiesEvidence(req, x) ==
  Cardinality({i \in Matching(req, x) : Stands(req, x.evidence[i], x.at)}) >= req.atLeast

(* count_missing_evidence: obligations, completion and principles; under a *)
(* condition only when the observed facts do not refute it.  One set       *)
(* counts each of its unmet requirements; the same requirement in two sets *)
(* counts twice.                                                           *)
Unmet(reqs, x) == Cardinality({r \in reqs : ~SatisfiesEvidence(r, x)})

UnmetIn(s, x) ==
  LET truth == TruthIn(Observed(x))
      inForce == {c \in Sets[s].conditional : truth[c.when] # "false"}
  IN Unmet(Sets[s].evidence, x)
       + SumFunctionOnSet([c \in inForce |-> Unmet(Sets[c.require].evidence, x)], inForce)

MissingCount(x) ==
  UnmetIn(Completion, x) + Unmet(PrincipleEvidence, x)
    + SumFunctionOnSet([o \in Obligations |-> UnmetIn(o.requires, x)], Obligations)

(* derived_facts, the ones a guard of the plan can read.                   *)
Derived(x) ==
  LET at(k) == {i \in DOMAIN x.evidence : x.evidence[i].kind = k}
      seen == {k \in Kind : at(k) # {}}
      count(set) == Number(Cardinality(set))
  IN [path \in {"evidence.missing", "evidence.lapsed", "approvals.granted", "workflow.terminal",
                "state.current"} \cup {"evidence.count." \o k : k \in seen} |->
        CASE path = "evidence.missing" -> Number(MissingCount(x))
          [] path = "evidence.lapsed" ->
               count({i \in DOMAIN x.evidence : HasLapsed(x.evidence[i], x.at)})
          [] path = "approvals.granted" ->
               count({i \in DOMAIN x.evidence : x.evidence[i].decision = "granted"})
          [] path = "workflow.terminal" -> Bool(x.state \in Terminal)
          [] path = "state.current" -> Text(x.state)
          [] OTHER -> count(at(CHOOSE k \in seen : path = "evidence.count." \o k))]

Facts(x) == Extended(Observed(x), Derived(x))

---------------------------------------------------------------------------
(* evaluate                                                                *)

(* RequirementSet::evaluate, for every set of the plan.                    *)
SetTruths(x) ==
  LET truth == TruthIn(Facts(x))
      t[s \in SetId] ==
        And({truth[p] : p \in Sets[s].predicates}
              \cup {EvidenceTruth(r, x) : r \in Sets[s].evidence}
              \cup {ApprovalTruth(r, x) : r \in Sets[s].approvals}
              \cup {IF a \in x.graph.met THEN "true" ELSE "unknown" : a \in Sets[s].artifacts}
              \cup {CASE truth[c.when] = "false" -> "true"
                      [] truth[c.when] = "unknown" -> "unknown"
                      [] OTHER -> t[c.require] : c \in Sets[s].conditional})
  IN t

Targets(o, s) == o.target = s \/ o.target \in Phases[s]

OwedNow(s)       == {o \in Obligations : o.timing = "always" \/ (o.timing = "during" /\ Targets(o, s))}
OwedToEnter(s)   == {o \in Obligations : o.timing = "before" /\ Targets(o, s)}
OwedToComplete ==
  {o \in Obligations :
     \/ o.timing = "always"
     \/ \E s \in State : (s \in Terminal \/ "completion" \in Phases[s]) /\ o \in OwedToEnter(s)}

(* The sets that guard a transition besides its own condition.             *)
SetsOf(i) ==
  LET t == Transitions[i]
  IN {t.requires, StateRequires[t.to]}
       \cup {o.requires : o \in OwedToEnter(t.to) \cup OwedNow(t.from)}

(* The transitions evaluate calls permitted.                               *)
Permitted(x) ==
  LET truth == TruthIn(Facts(x))
      sets == SetTruths(x)
  IN {i \in DOMAIN Transitions :
        /\ Transitions[i].from = x.state
        /\ truth[Transitions[i].when] = "true"
        /\ \A s \in SetsOf(i) : sets[s] = "true"}

IsComplete(x) ==
  LET sets == SetTruths(x)
  IN /\ x.state \in Terminal
     /\ sets[Completion] = "true"
     /\ \A o \in OwedToComplete : sets[o.requires] = "true"
     /\ \A r \in PrincipleEvidence : EvidenceTruth(r, x) = "true"
     /\ \A v \in PrincipleVerification : VerificationTruth(v, x) = "true"

---------------------------------------------------------------------------
(* The engine's entry points                                               *)

Answer(is) == outcome' = [is |-> is, via |-> 0]

(* initialize_with_artifacts.                                              *)
Init ==
  /\ clock = 0
  /\ \E g \in Graphs :
       exec = [state |-> Initial, entered |-> <<Initial>>, evidence |-> <<>>,
               graph |-> g, at |-> 0]
  /\ saved = None
  /\ outcome = [is |-> "initialized", via |-> 0]
  /\ restores = 0

(* Time passes, and nothing is read.                                       *)
Tick ==
  /\ clock < MaxClock
  /\ clock' = clock + 1
  /\ Answer("none")
  /\ UNCHANGED <<exec, saved, restores>>

(* set_artifacts: a harness reloads its manifest; the clock is not read.   *)
SetArtifacts ==
  /\ \E g \in Graphs \ {exec.graph} : exec' = [exec EXCEPT !.graph = g]
  /\ Answer("none")
  /\ UNCHANGED <<clock, saved, restores>>

(* A record: what is submitted, when it was observed and when it came.     *)
EvidenceRecord(submission, observed, produced) ==
  [field \in DOMAIN submission \cup {"observed", "produced"} |->
     CASE field = "observed" -> observed
       [] field = "produced" -> produced
       [] OTHER -> submission[field]]

(* Mutant: the record is appended and the clock is not read.               *)
SubmitUnobserved(submission, observed) ==
  /\ Len(exec.evidence) < MaxEvidence
  /\ submission.kind \in Kind /\ observed <= clock
  /\ exec' = [exec EXCEPT !.evidence = Append(@, EvidenceRecord(submission, observed, clock))]
  /\ Answer("submitted")
  /\ UNCHANGED <<clock, saved, restores>>

(* The engine refuses a kind the protocol does not declare and an          *)
(* observation in the future, and then changes nothing.                    *)
Submit(submission, observed) ==
  /\ Len(exec.evidence) < MaxEvidence
  /\ submission.kind \in Kind /\ observed <= clock
  /\ exec' = [exec EXCEPT !.at = clock,
                          !.evidence = Append(@, EvidenceRecord(submission, observed, clock))]
  /\ Answer("submitted")
  /\ UNCHANGED <<clock, saved, restores>>

SubmitEvidence == \E s \in Submissions : \E t \in 0 .. MaxClock : Submit(s, t)

(* Complete, take the first permitted transition in document order, or     *)
(* stay, by the facts of one reading.                                      *)
Proceed(now) ==
  \E open \in {IF IsComplete(now) THEN {0} ELSE Permitted(now)} :
    \/ open = {} /\ exec' = now /\ Answer("blocked")
    \/ open = {0} /\ exec' = now /\ Answer("completed")
    \/ /\ open \notin {{}, {0}} /\ Len(exec.entered) < MaxEntries
       /\ LET to == Transitions[Min(open)].to
          IN exec' = [now EXCEPT !.state = to, !.entered = Append(@, to)]
       /\ outcome' = [is |-> "moved", via |-> Min(open)]

(* Mutant: the transition is decided as of the last reading.               *)
TransitionUnobserved ==
  /\ Proceed(exec)
  /\ UNCHANGED <<clock, saved, restores>>

(* transition: read the clock, and then complete, take the first permitted *)
(* transition in document order, or stay.                                  *)
Transition ==
  /\ \E now \in {[exec EXCEPT !.at = clock]} : Proceed(now)
  /\ UNCHANGED <<clock, saved, restores>>

(* Execution::snapshot carries no instant, and no graph.                   *)
Save ==
  /\ restores < MaxRestores
  /\ saved' = [state |-> exec.state, entered |-> exec.entered, evidence |-> exec.evidence]
  /\ Answer("none")
  /\ UNCHANGED <<clock, exec, restores>>

(* restore: a fresh graph, and the restoring engine's own clock.           *)
Restore ==
  /\ saved # None /\ restores < MaxRestores
  /\ \E g \in Graphs :
       exec' = [state |-> saved.state, entered |-> saved.entered, evidence |-> saved.evidence,
                graph |-> g, at |-> clock]
  /\ restores' = restores + 1
  /\ Answer("restored")
  /\ UNCHANGED <<clock, saved>>

Next == Tick \/ SetArtifacts \/ SubmitEvidence \/ Transition \/ Save \/ Restore

Spec == Init /\ [][Next]_vars

---------------------------------------------------------------------------
Instant == 0 .. MaxClock

Record(r) ==
  /\ \E s \in Submissions : \A field \in DOMAIN s : r[field] = s[field]
  /\ r.observed \in Instant /\ r.produced \in Instant /\ r.observed <= r.produced

Log(x) ==
  /\ x.state \in State /\ x.entered \in Seq(State)
  /\ x.state = x.entered[Len(x.entered)] /\ x.entered[1] = Initial
  /\ Len(x.evidence) <= MaxEvidence /\ \A r \in Range(x.evidence) : Record(r)

(* The record of states ends where the execution is, and nothing in the    *)
(* evidence log was observed after it was submitted.                       *)
TypeOK ==
  /\ clock \in Instant /\ exec.at \in 0 .. clock /\ exec.graph \in Graphs
  /\ Log(exec) /\ (saved # None => Log(saved))

StandsToday(req) ==
  Cardinality({i \in Matching(req, exec) :
                 /\ ~Unbound(exec.evidence[i], exec.graph)
                 /\ req.horizon = NoHorizon
                      \/ clock - exec.evidence[i].observed <= req.horizon}) >= req.atLeast

(* After every call that reads the clock, what the engine would report as  *)
(* met is met by observations that stand now: an old log restored, or one  *)
(* appended to after a week, never reads as it did when it was written     *)
(* (execution.rs 304-327).                                                 *)
EntryPointsReadTheClock ==
  outcome.is # "none" =>
    \A r \in PlanRequirements : EvidenceTruth(r, exec) = "true" => StandsToday(r)

(* The paths a guard reads that only evidence binds, and who bound them.   *)
Bound(path) ==
  {i \in DOMAIN exec.evidence :
     /\ path \in DOMAIN exec.evidence[i].facts
     /\ \A h \in Horizons(exec.evidence[i].kind) : clock - exec.evidence[i].observed <= h}

(* What a move or a completion required stands when it is passed.          *)
RequirementsStood ==
  /\ outcome.is = "moved" =>
       \A s \in SetsOf(outcome.via) : \A r \in Sets[s].evidence : StandsToday(r)
  /\ outcome.is = "completed" =>
       /\ \A r \in Sets[Completion].evidence \cup PrincipleEvidence : StandsToday(r)
       /\ \A v \in PrincipleVerification :
            \E r \in Range(exec.evidence) :
              r.by = v /\ \A h \in Horizons(r.kind) : clock - r.observed <= h

(* What its guard read of evidence was bound by a record that stands.      *)
VerdictsStood ==
  outcome.is = "moved" =>
    \A p \in Paths[Transitions[outcome.via].when] :
      (\E s \in Submissions : p \in DOMAIN s.facts) => Bound(p) # {}

(* No gate is passed on a lapsed observation: every record a move or a     *)
(* completion required, and every verdict its guard read, stood at the     *)
(* instant it was passed (execution.rs 304-327, evaluate.rs 390-402).      *)
GatesStandOnLiveEvidence == RequirementsStood /\ VerdictsStood

(* A guard on `evidence.missing == 0` never passes while the report beside *)
(* it names an unmet requirement the count is about: the two read one      *)
(* record one way (execution.rs 590-604).                                  *)
Reported(s) ==
  LET truth == TruthIn(Facts(exec))
  IN Sets[s].evidence
       \cup UNION {Sets[c.require].evidence :
                     c \in {c \in Sets[s].conditional : truth[c.when] = "true"}}

MissingAgreesWithTheReport ==
  MissingCount(exec) = 0 =>
    \A r \in PrincipleEvidence
               \cup UNION {Reported(s) : s \in {Completion} \cup {o.requires : o \in Obligations}} :
      EvidenceTruth(r, exec) = "true"

(* Submitting again what was observed too long ago restores nothing: only  *)
(* a new observation does (evidence-horizons-design-v0.1.md, 5.6).         *)
ResubmissionRestoresNothing ==
  [][outcome'.is = "submitted" =>
       \A r \in PlanRequirements :
         /\ r.horizon # NoHorizon
         /\ clock - exec'.evidence[Len(exec'.evidence)].observed > r.horizon
         /\ EvidenceTruth(r, exec') = "true"
         => EvidenceTruth(r, [exec EXCEPT !.at = clock]) = "true"]_vars

(* While observations are submitted in the order they were made, the       *)
(* passing of time only ever closes gates: what is not permitted now is    *)
(* not permitted later on the same log, and a task that is not complete    *)
(* does not become complete by waiting (execution.rs 338-365).             *)
InOrder ==
  \A i, j \in DOMAIN exec.evidence :
    i <= j => exec.evidence[i].observed <= exec.evidence[j].observed

TimeOpensNothing ==
  [][clock' # clock /\ InOrder =>
       LET before == [exec EXCEPT !.at = clock]
           later == [exec EXCEPT !.at = clock']
       IN /\ Permitted(later) \subseteq Permitted(before)
          /\ IsComplete(later) => IsComplete(before)]_vars

---------------------------------------------------------------------------
(* What some properties need of a plan: the hypotheses of their proofs.    *)

(* The names the engine binds of its own accord (execution.rs 541-666).    *)
EnginePaths ==
  {"evidence.missing", "evidence.lapsed", "approvals.granted", "workflow.terminal",
   "state.current"} \cup {"evidence.count." \o k : k \in Kind}

EvidencePaths == UNION {DOMAIN s.facts : s \in Submissions}

(* What each of these asks, all of its leaves ask.                         *)
Conjoins(set) ==
  set \subseteq Node /\ \A n \in set : Body[n].op \notin {"any", "not"} /\ Children(n) \subseteq set

Guards == {Transitions[i].when : i \in DOMAIN Transitions}

(* Guards are conjunctions.                                                *)
GuardsConjoin == \E set \in SUBSET Node : Conjoins(set) /\ Guards \subseteq set

(* Nothing else binds what a record does.                                  *)
OnlyEvidenceBinds ==
  \A p \in EvidencePaths :
    p \notin DOMAIN PlanFacts /\ p \notin EnginePaths /\ \A g \in Graphs : p \notin DOMAIN g.facts

(* Conditions ask what was observed, never what the engine derives: the    *)
(* count of missing evidence is taken before anything is derived.          *)
ConditionsReadObservations ==
  \A s \in SetId : \A c \in Sets[s].conditional : Paths[c.when] \cap EnginePaths = {}

(* The count is read as `evidence.missing == 0`, in a conjunction, as the  *)
(* shipped workflows and profiles do.                                      *)
AsksForNothingMissing(n) ==
  /\ Body[n].op = "compare" /\ Body[n].cmp = "eq"
  /\ Body[n].left.is = "fact" /\ Body[n].left.path = "evidence.missing"
  /\ Body[n].right.is = "literal" /\ Body[n].right.value = Number(0)

CountIsAskedToBeNothing ==
  \E set \in SUBSET Node :
    /\ Conjoins(set)
    /\ \A n \in set \cap Leaf : "evidence.missing" \in LeafPaths(n) => AsksForNothingMissing(n)
    /\ \A n \in Guards \cup Sets[Completion].predicates : "evidence.missing" \in Paths[n] => n \in set

(* No record attests a model that nothing governing is at.                 *)
NothingIsUnbound == \A s \in Submissions : \A g \in Graphs : ~Unbound(s, g)

(* A name is bound by records of one kind, so by records that decay alike. *)
OneKindBinds ==
  \A s, t \in Submissions : DOMAIN s.facts \cap DOMAIN t.facts # {} => s.kind = t.kind

(* The counts that grow as records lapse.                                  *)
Lapses == {"evidence.missing", "evidence.lapsed"}

(* The names that may lapse: records of a kind with a horizon bind them.   *)
DecayingPaths == UNION {DOMAIN s.facts : s \in {s \in Submissions : Horizons(s.kind) # {}}}

(* A leaf no lapse can settle: it reads no count of lapses, and does not   *)
(* ask whether a fact that may lapse is there.                             *)
OnlyUnsettled(n) ==
  /\ LeafPaths(n) \cap Lapses = {}
  /\ Body[n].op = "defined" => Body[n].path \notin DecayingPaths

(* Conditions are built of such leaves, and so is what gates ask for, but  *)
(* for the count of missing evidence, which they ask to be nothing and ask *)
(* under no negation.                                                      *)
LapsesOnlyUnsettle ==
  \E steady, set \in SUBSET Node :
    /\ \A n \in steady : Children(n) \subseteq steady /\ (n \in Leaf => OnlyUnsettled(n))
    /\ \A n \in set : \/ n \in steady
                      \/ AsksForNothingMissing(n)
                      \/ Body[n].op \in {"all", "any"} /\ Children(n) \subseteq set
    /\ \A s \in SetId : \A c \in Sets[s].conditional : c.when \in steady
    /\ Guards \subseteq set /\ \A s \in SetId : Sets[s].predicates \subseteq set

---------------------------------------------------------------------------
(* Statements of the documentation that the code does not keep             *)

(* "A withheld fact is absent, and an absent fact is Unknown.  The guard   *)
(* does not read False" (evidence-horizons-design-v0.1.md 357-361): over   *)
(* guards that read evidence, time turns a verdict into unknown or leaves  *)
(* it.                                                                     *)
LapseReadsUnknown ==
  [][clock' # clock =>
       LET before == TruthIn(Observed([exec EXCEPT !.at = clock]))
           later == TruthIn(Observed([exec EXCEPT !.at = clock']))
       IN \A n \in Leaf : later[n] \in {"unknown", before[n]}]_vars

(* "a verification requirement and an evidence requirement cannot disagree *)
(* about one record" (evaluate.rs 400-402).                                *)
VerifierAndEvidenceAgree ==
  \A r \in PlanRequirements :
    r.verifier \in PrincipleVerification /\ EvidenceTruth(r, exec) = "true" =>
      VerificationTruth(r.verifier, exec) = "true"

(* "Counts unmet evidence requirements across the plan" (execution.rs      *)
(* 543), states and transitions included.                                  *)
MissingCountsThePlan ==
  MissingCount(exec) = 0 =>
    \A r \in UNION {Sets[StateRequires[s]].evidence : s \in State} :
      SatisfiesEvidence(r, exec)

=============================================================================
