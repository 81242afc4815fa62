------------------------- MODULE CapabilitiesProofs -------------------------
(* Proofs about Capabilities, for every protocol, profile, principle, task *)
(* and state: what a resolved plan decides binds every later answer, and   *)
(* wildcards reach around neither a denial nor the approval floor.         *)
EXTENDS Capabilities, TLAPS

(* Covering is a preorder: what covers a wildcard covers all it stands for *)
(* (capability.rs 82-85).                                                  *)
LEMMA CoversReflexive == ASSUME NEW c PROVE Covers(c, c)
  BY DEF Covers

LEMMA CoversTransitive ==
  ASSUME NEW a, NEW b, NEW c, Covers(a, b), Covers(b, c)
  PROVE  Covers(a, c)
  BY DEF Covers

LEMMA DecideRange ==
  ASSUME NEW policy, NEW c
  PROVE  Decide(policy, c) \in {"allowed", "requires_approval", "denied", "not_granted"}
  BY DEF Decide

(* What a policy allows, some entry of its allow list covers that the same *)
(* policy allows as it stands: neither a denial nor an approval meets the  *)
(* wide entry without meeting all that it covers.                          *)
LEMMA AllowedThroughAnEntry ==
  ASSUME NEW policy, NEW c, Decide(policy, c) = "allowed"
  PROVE  \E entry \in policy.allow : Covers(entry, c) /\ Decide(policy, entry) = "allowed"
<1>1. /\ ~CoveredBy(policy.deny, c) /\ ~CoveredBy(policy.gated, c)
      /\ CoveredBy(policy.allow, c)
  BY DEF Decide
<1>2. PICK entry \in policy.allow : Covers(entry, c)
  BY <1>1 DEF CoveredBy
<1>3. ~CoveredBy(policy.deny, entry) /\ ~CoveredBy(policy.gated, entry)
  BY <1>1, <1>2, CoversTransitive DEF CoveredBy
<1>4. CoveredBy(policy.allow, entry)
  BY CoversReflexive DEF CoveredBy
<1>. QED
  BY <1>2, <1>3, <1>4 DEF Decide

---------------------------------------------------------------------------
LEMMA TypeInit == Init => TypeOK
  BY StateAssumption DEF Init, TypeOK

LEMMA TypeNext == TypeOK /\ [Next]_vars => TypeOK'
<1>. SUFFICES ASSUME TypeOK, [Next]_vars PROVE TypeOK'
  OBVIOUS
<1>. USE DEF TypeOK
<1>1. CASE UNCHANGED vars
  BY <1>1 DEF vars
<1>2. CASE Resolve
  BY <1>2 DEF Resolve
<1>3. ASSUME NEW c \in Request, Authorize(c) PROVE TypeOK'
  <2>1. /\ answer'.capability = c
        /\ answer'.allowed = Authorized(c)
        /\ answer'.decision = DecisionOn(c)
    BY <1>3 DEF Authorize
  <2>2. DecisionOn(c) \in {"allowed", "requires_approval", "denied", "not_granted"}
    BY DecideRange DEF DecisionOn
  <2>3. /\ Authorized(c) \in BOOLEAN
        /\ Authorized(c) => DecisionOn(c) \in {"allowed", "requires_approval"}
    BY DEF Authorized
  <2>. QED
    BY <1>3, <2>1, <2>2, <2>3 DEF Authorize
<1>4. ASSUME NEW s \in DOMAIN State, Enter(s) PROVE TypeOK'
  BY <1>4 DEF Enter
<1>5. ASSUME NEW c \in Request, NEW d \in {"granted", "denied"}, RecordApproval(c, d)
      PROVE  TypeOK'
  BY <1>5 DEF RecordApproval
<1>. QED
  BY <1>1, <1>2, <1>3, <1>4, <1>5 DEF Next

(* Every behaviour of the capability policy keeps its variables in their   *)
(* types, and an answer that allows is a grant or an approved gate         *)
(* (policy.rs 94-132).                                                     *)
THEOREM TypeCorrect == Spec => []TypeOK
<1>. QED
  BY TypeInit, TypeNext, PTL DEF Spec

---------------------------------------------------------------------------
(* The check resolve makes of every entry a plan allows.                   *)
EntriesAboveTheFloor ==
  Resolved =>
    \A entry \in plan.policy.allow :
      ~(Decide(plan.policy, entry) = "allowed" /\ NeedsApprovalFloor(entry))

(* A plan that resolves allows nothing the floor holds, in no environment  *)
(* its wildcards reach: the check resolve makes entry by entry is enough   *)
(* for every capability that could be asked (resolve.rs 98-268).           *)
THEOREM FloorHolds == Spec => []PlanKeepsTheFloor
<1>1. Init => EntriesAboveTheFloor
  BY DEF Init, EntriesAboveTheFloor, Resolved
<1>2. EntriesAboveTheFloor /\ [Next]_vars => EntriesAboveTheFloor'
  <2>. SUFFICES ASSUME EntriesAboveTheFloor, [Next]_vars PROVE EntriesAboveTheFloor'
    OBVIOUS
  <2>1. CASE Resolve
    BY <2>1 DEF Resolve, Refused, EntriesAboveTheFloor, Resolved
  <2>2. CASE UNCHANGED <<plan, resolution>>
    BY <2>2 DEF EntriesAboveTheFloor, Resolved
  <2>. QED
    BY <2>1, <2>2 DEF Next, Authorize, Enter, RecordApproval, vars
<1>3. EntriesAboveTheFloor => PlanKeepsTheFloor
  <2>. SUFFICES ASSUME EntriesAboveTheFloor, Resolved, NEW c \in Request, c \in Floor,
                       Decide(plan.policy, c) = "allowed"
                PROVE  FALSE
    BY DEF PlanKeepsTheFloor
  <2>1. PICK entry \in plan.policy.allow :
          Covers(entry, c) /\ Decide(plan.policy, entry) = "allowed"
    BY AllowedThroughAnEntry
  <2>2. NeedsApprovalFloor(entry)
    BY <2>1 DEF NeedsApprovalFloor
  <2>. QED
    BY <2>1, <2>2 DEF EntriesAboveTheFloor
<1>. QED
  BY <1>1, <1>2, <1>3, PTL DEF Spec

---------------------------------------------------------------------------
(* Recording an approval authorises, of all capabilities, at most the one  *)
(* it names: a wide approval opens no narrow capability, nor the reverse   *)
(* (policy.rs 134-151).                                                    *)
THEOREM ApprovalsAreNarrow == Spec => ApprovalOpensWhatItNames
<1>1. TypeOK /\ [Next]_vars =>
        [\A c \in Request :
           Authorized(c)' =>
             \/ Authorized(c)
             \/ [capability |-> c, decision |-> "granted"] \in approvals' \ approvals]_approvals
  <2>. SUFFICES ASSUME TypeOK, Next, approvals' # approvals,
                       NEW c \in Request, Authorized(c)', ~Authorized(c)
                PROVE  [capability |-> c, decision |-> "granted"] \in approvals' \ approvals
    BY DEF vars
  <2>1. PICK asked \in Request, d \in {"granted", "denied"} : RecordApproval(asked, d)
    BY DEF Next, Resolve, Authorize, Enter
  <2>2. DecisionOn(c)' = DecisionOn(c)
    BY <2>1 DEF RecordApproval, DecisionOn, EffectivePolicy
  <2>3. ApprovalRecorded(c)' /\ ~ApprovalRecorded(c)
    BY <2>2 DEF Authorized
  <2>4. PICK a \in approvals' : a.decision = "granted" /\ a.capability = c
    BY <2>3 DEF ApprovalRecorded
  <2>5. a \notin approvals
    BY <2>3, <2>4 DEF ApprovalRecorded
  <2>6. a = [capability |-> c, decision |-> "granted"]
    BY <2>1, <2>4, <2>5 DEF RecordApproval
  <2>. QED
    BY <2>4, <2>5, <2>6
<1>2. TypeOK /\ [Next]_vars =>
        [approvals' # approvals =>
           \A c \in Request :
             Authorized(c)' =>
               \/ Authorized(c)
               \/ [capability |-> c, decision |-> "granted"] \in approvals' \ approvals]_vars
  BY <1>1
<1>. QED
  BY <1>2, TypeInit, TypeNext, PTL DEF Spec, ApprovalOpensWhatItNames

---------------------------------------------------------------------------
(* What an answer that allows never contradicts: the plan's denials and    *)
(* gates, the state's, and the floor.                                      *)
PlanBinds ==
  answer # None /\ answer.allowed =>
    LET c == answer.capability
    IN /\ ~CoveredBy(plan.policy.deny \cup State[state].deny, c)
       /\ \/ [capability |-> c, decision |-> "granted"] \in approvals
          \/ /\ ~CoveredBy(plan.policy.gated \cup State[state].gated, c)
             /\ ~NeedsApprovalFloor(c)

AnsweredWhenResolved == resolution = "pending" => answer = None

LEMMA AnswerBinds ==
  ASSUME TypeOK, NEW c \in Request, Authorized(c)
  PROVE  /\ ~CoveredBy(plan.policy.deny \cup State[state].deny, c)
         /\ \/ [capability |-> c, decision |-> "granted"] \in approvals
            \/ /\ ~CoveredBy(plan.policy.gated \cup State[state].gated, c)
               /\ ~NeedsApprovalFloor(c)
<1>. DEFINE decision == Decide(EffectivePolicy, c)
<1>1. /\ EffectivePolicy.deny = plan.policy.deny \cup State[state].deny
      /\ EffectivePolicy.gated = plan.policy.gated \cup State[state].gated
  BY DEF EffectivePolicy, GrantFrom, Policy
<1>2. CASE DecisionOn(c) = "allowed"
  <2>1. decision = "allowed" /\ ~NeedsApprovalFloor(c)
    BY <1>2 DEF DecisionOn
  <2>2. ~CoveredBy(EffectivePolicy.deny, c) /\ ~CoveredBy(EffectivePolicy.gated, c)
    BY <2>1 DEF Decide
  <2>. QED
    BY <1>1, <2>1, <2>2
<1>3. CASE DecisionOn(c) = "requires_approval" /\ ApprovalRecorded(c)
  <2>1. decision \in {"allowed", "requires_approval"}
    BY <1>3 DEF DecisionOn
  <2>2. ~CoveredBy(EffectivePolicy.deny, c)
    BY <2>1 DEF Decide
  <2>3. PICK a \in approvals : a.decision = "granted" /\ a.capability = c
    BY <1>3 DEF ApprovalRecorded
  <2>4. a = [capability |-> c, decision |-> "granted"]
    BY <2>3 DEF TypeOK
  <2>. QED
    BY <1>1, <2>2, <2>3, <2>4
<1>. QED
  BY <1>2, <1>3 DEF Authorized

(* No state's grant and no approval waives what the plan denies or gates,  *)
(* and no plan waives what the state does: whatever the composition made   *)
(* the plan say is what every later answer keeps (policy.rs 78-132).       *)
THEOREM PlansBind == Spec => []PlanBinds
<1>. DEFINE Inv == TypeOK /\ AnsweredWhenResolved /\ PlanBinds
<1>1. Init => Inv
  BY TypeInit DEF Init, AnsweredWhenResolved, PlanBinds
<1>2. Inv /\ [Next]_vars => Inv'
  <2>. SUFFICES ASSUME Inv, [Next]_vars PROVE Inv'
    OBVIOUS
  <2>1. TypeOK'
    BY TypeNext
  <2>2. CASE UNCHANGED vars
    BY <2>1, <2>2 DEF vars, AnsweredWhenResolved, PlanBinds
  <2>3. CASE Resolve
    BY <2>1, <2>3 DEF Resolve, AnsweredWhenResolved, PlanBinds
  <2>4. ASSUME NEW c \in Request, Authorize(c) PROVE Inv'
    <3>1. /\ answer'.capability = c /\ answer'.allowed = Authorized(c)
          /\ UNCHANGED <<plan, state, approvals, resolution>>
          /\ resolution = "resolved"
      BY <2>4 DEF Authorize, Resolved
    <3>2. PlanBinds'
      BY <3>1, AnswerBinds DEF PlanBinds
    <3>. QED
      BY <2>1, <3>1, <3>2 DEF AnsweredWhenResolved
  <2>5. ASSUME NEW s \in DOMAIN State, Enter(s) PROVE Inv'
    BY <2>1, <2>5 DEF Enter, AnsweredWhenResolved, PlanBinds
  <2>6. ASSUME NEW c \in Request, NEW d \in {"granted", "denied"}, RecordApproval(c, d)
        PROVE  Inv'
    BY <2>1, <2>6 DEF RecordApproval, AnsweredWhenResolved, PlanBinds
  <2>. QED
    BY <2>2, <2>3, <2>4, <2>5, <2>6 DEF Next
<1>. QED
  BY <1>1, <1>2, PTL DEF Spec

---------------------------------------------------------------------------
(* Nothing a document says is lost on the way into a plan: whatever one of *)
(* them denies or gates, the composition of all denies or gates.           *)
Documents ==
  {profile.capabilities : profile \in Range(chain)}
    \cup {Principle[p].capabilities : p \in Range(InForce(Profile(chain), task))}
    \cup {task.capabilities}

Binds(policy, document) == document.deny \subseteq policy.deny /\ document.gated \subseteq policy.gated

DocumentsBind ==
  /\ Resolved => \A document \in Documents : Binds(plan.policy, document)
  /\ answer # None => Resolved

LEMMA ComposeBinds ==
  ASSUME NEW document \in Documents
  PROVE  Binds(Compose(Profile(chain), task), document)
<1>. DEFINE granted == {profile.capabilities : profile \in Range(chain)}
            restricted == {Principle[p].capabilities : p \in Range(InForce(Profile(chain), task))}
            policy == Compose(Profile(chain), task)
<1>1. Profile(chain).capabilities = Together(granted)
  BY DEF Profile
<1>2. policy = RestrictBy(RestrictBy(Together(granted), Together(restricted)), task.capabilities)
  BY <1>1 DEF Compose
<1>3. /\ policy.deny = Together(granted).deny \cup Together(restricted).deny
                          \cup task.capabilities.deny
      /\ policy.gated = Together(granted).gated \cup Together(restricted).gated
                          \cup task.capabilities.gated
  BY <1>2 DEF RestrictBy, Policy
<1>4. ASSUME NEW policies, NEW one \in policies PROVE Binds(Together(policies), one)
  BY DEF Binds, Together, Policy
<1>5. document \in granted \/ document \in restricted \/ document = task.capabilities
  BY DEF Documents
<1>. HIDE DEF granted, restricted, policy
<1>6. Binds(policy, document)
  <2>1. CASE document \in granted
    BY <1>3, <1>4, <2>1 DEF Binds
  <2>2. CASE document \in restricted
    BY <1>3, <1>4, <2>2 DEF Binds
  <2>3. CASE document = task.capabilities
    BY <1>3, <2>3 DEF Binds
  <2>. QED
    BY <1>5, <2>1, <2>2, <2>3
<1>. QED
  BY <1>6 DEF policy

LEMMA DocumentsBindAlways == Spec => []DocumentsBind
<1>1. Init => DocumentsBind
  BY DEF Init, DocumentsBind, Resolved
<1>2. DocumentsBind /\ [Next]_vars => DocumentsBind'
  <2>. SUFFICES ASSUME DocumentsBind, [Next]_vars PROVE DocumentsBind'
    OBVIOUS
  <2>1. UNCHANGED <<chain, task>> /\ Documents' = Documents
    BY DEF Next, Resolve, Authorize, Enter, RecordApproval, vars, Documents
  <2>2. CASE Resolve
    <3>1. answer' = None
      BY <2>2 DEF Resolve, DocumentsBind, Resolved
    <3>2. resolution' = "resolved" => plan'.policy = Compose(Profile(chain), task)
      BY <2>2 DEF Resolve
    <3>. QED
      BY <2>1, <3>1, <3>2, ComposeBinds DEF DocumentsBind, Resolved
  <2>3. CASE UNCHANGED <<resolution, plan>> /\ (answer' # None => Resolved)
    BY <2>1, <2>3 DEF DocumentsBind, Resolved
  <2>. QED
    BY <2>2, <2>3 DEF Next, Authorize, Enter, RecordApproval, vars, DocumentsBind
<1>. QED
  BY <1>1, <1>2, PTL DEF Spec

LEMMA SpeakingIs == Speaking = Documents \cup {State[state]}
  BY DEF Speaking, Documents

(* A denial stated anywhere - in any profile of the chain, in any          *)
(* principle in force, in the task or in the state - binds every answer:   *)
(* neither composition, nor a state's grant, nor an approval takes it back *)
(* (README.md:61, policy.rs 80-83).                                        *)
THEOREM DenialsBind == Spec => []DeniedStaysDenied
<1>1. PlanBinds /\ DocumentsBind => DeniedStaysDenied
  <2>. SUFFICES ASSUME PlanBinds, DocumentsBind, answer # None, answer.allowed,
                       NEW policy \in Speaking, CoveredBy(policy.deny, answer.capability)
                PROVE  FALSE
    BY DEF DeniedStaysDenied
  <2>1. ~CoveredBy(plan.policy.deny \cup State[state].deny, answer.capability)
    BY DEF PlanBinds
  <2>2. policy.deny \subseteq plan.policy.deny \cup State[state].deny
    BY SpeakingIs DEF DocumentsBind, Binds
  <2>. QED
    BY <2>1, <2>2 DEF CoveredBy
<1>. QED
  BY <1>1, PlansBind, DocumentsBindAlways, PTL

(* What any document puts behind approval, or the floor holds, is          *)
(* exercised only on an approval of that very capability, for every        *)
(* composition of documents and every state (policy.rs 94-151).            *)
THEOREM GatesBind == Spec => []NothingGatedWithoutApproval
<1>1. PlanBinds /\ DocumentsBind => NothingGatedWithoutApproval
  <2>. SUFFICES ASSUME PlanBinds, DocumentsBind, answer # None, answer.allowed,
                       [capability |-> answer.capability, decision |-> "granted"] \notin approvals
                PROVE  /\ \A policy \in Speaking : ~CoveredBy(policy.gated, answer.capability)
                       /\ \A f \in Floor : ~Covers(f, answer.capability)
                                            /\ ~Covers(answer.capability, f)
    BY DEF NothingGatedWithoutApproval
  <2>1. /\ ~CoveredBy(plan.policy.gated \cup State[state].gated, answer.capability)
        /\ ~NeedsApprovalFloor(answer.capability)
    BY DEF PlanBinds
  <2>2. ASSUME NEW policy \in Speaking
        PROVE  policy.gated \subseteq plan.policy.gated \cup State[state].gated
    BY SpeakingIs DEF DocumentsBind, Binds
  <2>. QED
    BY <2>1, <2>2 DEF CoveredBy, NeedsApprovalFloor
<1>. QED
  BY <1>1, PlansBind, DocumentsBindAlways, PTL

=============================================================================
