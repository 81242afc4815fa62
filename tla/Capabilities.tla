---------------------------- MODULE Capabilities ----------------------------
(***************************************************************************)
(* What an execution may do: how the capability policies of a chain of     *)
(* profiles, of principles and of a task compose into a plan's             *)
(* (crates/aep-engine/src/resolve.rs), and how a request is decided in a   *)
(* state, with the approvals recorded so far (policy.rs).  The policies    *)
(* themselves are crates/aep-domain/src/capability.rs.                     *)
(*                                                                         *)
(* A capability is a name and an environment, "none" where it takes none   *)
(* and "*" for all of them.                                                *)
(***************************************************************************)
EXTENDS Naturals, SequencesExt

CONSTANTS
  Request,      \* the capabilities an action can require
  Declared,     \* what the protocol declares
  Floor,        \* the protocol's approval floor
  Principle,    \* every principle: its policy, and the truth of its applicability
  Chains,       \* profiles a task may name, each with what it extends, base first
  Tasks,        \* what a task says: capabilities, add, remove
  State,        \* the capability policy of every workflow state
  Initial,
  None

ASSUME CapabilityAssumption == \A c \in Request : DOMAIN c = {"name", "env"}
ASSUME StateAssumption == Initial \in DOMAIN State

VARIABLES
  chain, task,  \* the documents
  resolution,   \* "pending", "refused" or "resolved"
  plan,         \* the resolved policy with its rationale, or None
  state,
  approvals,    \* the approvals recorded: capability, decision
  answer        \* the last decision, until something changes

vars == <<chain, task, resolution, plan, state, approvals, answer>>

Policy(allow, gated, deny) == [allow |-> allow, gated |-> gated, deny |-> deny]

Resolved == resolution = "resolved"

---------------------------------------------------------------------------
(* CapabilityPolicy                                                        *)

Covers(mine, theirs) ==
  mine.name = theirs.name /\ (mine.env = "*" \/ mine.env = theirs.env)

CoveredBy(set, c) == \E entry \in set : Covers(entry, c)

(* Mutant: a grant is looked up before what must be approved.              *)
DecideAllowFirst(policy, c) ==
  IF CoveredBy(policy.allow, c) THEN "allowed"
  ELSE IF CoveredBy(policy.deny, c) THEN "denied"
  ELSE IF CoveredBy(policy.gated, c) THEN "requires_approval"
  ELSE "not_granted"

Decide(policy, c) ==
  IF CoveredBy(policy.deny, c) THEN "denied"
  ELSE IF CoveredBy(policy.gated, c) THEN "requires_approval"
  ELSE IF CoveredBy(policy.allow, c) THEN "allowed"
  ELSE "not_granted"

GrantFrom(policy, other) ==
  Policy(policy.allow \cup other.allow, policy.gated \cup other.gated, policy.deny \cup other.deny)

RestrictBy(policy, other) ==
  Policy(policy.allow, policy.gated \cup other.gated, policy.deny \cup other.deny)

Mentioned(policy) == policy.allow \cup policy.gated \cup policy.deny

(* Mutant: only the floor's own capabilities are behind it.                *)
NeedsApprovalFloorExact(c) == c \in Floor

(* needs_approval_floor: overlap is enough, in either direction.           *)
NeedsApprovalFloor(c) == \E f \in Floor : Covers(f, c) \/ Covers(c, f)

---------------------------------------------------------------------------
(* resolve                                                                 *)

(* What several policies grant and withhold together.                      *)
Together(policies) ==
  Policy(UNION {p.allow : p \in policies}, UNION {p.gated : p \in policies},
         UNION {p.deny : p \in policies})

(* Profile::extend, over the principles a profile lists; what the profiles *)
(* of a chain grant and withhold only adds up.                             *)
Extend(base, derived) ==
  [principles |->
     SelectSeq(base.principles
                 \o SelectSeq(derived.principles, LAMBDA p : p \notin Range(base.principles)),
               LAMBDA p : p \notin derived.without),
   without |-> derived.without]

Profile(profiles) ==
  [capabilities |-> Together({p.capabilities : p \in Range(profiles)}),
   principles |-> FoldLeft(Extend, Head(profiles), Tail(profiles)).principles]

Named(profile, t) ==
  profile.principles \o SelectSeq(t.add, LAMBDA p : p \notin Range(profile.principles))

(* The principles in force: those the task does not remove, and that       *)
(* cannot rule themselves out.                                             *)
InForce(profile, t) ==
  SelectSeq(Named(profile, t), LAMBDA p : p \notin t.remove /\ Principle[p].applies # "false")

Compose(profile, t) ==
  LET principles == Together({Principle[p].capabilities : p \in Range(InForce(profile, t))})
  IN RestrictBy(RestrictBy(profile.capabilities, principles), t.capabilities)

(* The documents that spoke, in composition order.                         *)
Rationale(profile, t) ==
  LET principles == InForce(profile, t)
  IN <<[source |-> "profile", says |-> profile.capabilities]>>
       \o [i \in DOMAIN principles |->
             [source |-> principles[i],
              says |-> RestrictBy(Policy({}, {}, {}), Principle[principles[i]].capabilities)]]
       \o <<[source |-> "task", says |-> RestrictBy(Policy({}, {}, {}), t.capabilities)]>>

(* What resolve refuses: a removal of what is not there, a capability the  *)
(* protocol does not declare, a need the policy denies, and a grant that   *)
(* reaches below the approval floor.                                       *)
Refused(profile, t, policy) ==
  \/ \E p \in t.remove : p \notin Range(Named(profile, t))
  \/ \E c \in Mentioned(policy) : ~CoveredBy(Declared, c)
  \/ \E c \in t.capabilities.allow : Decide(policy, c) = "denied"
  \/ \E c \in policy.allow : Decide(policy, c) = "allowed" /\ NeedsApprovalFloor(c)

Resolve ==
  /\ resolution = "pending"
  /\ LET profile == Profile(chain)
         policy == Compose(profile, task)
     IN IF Refused(profile, task, policy)
        THEN resolution' = "refused" /\ plan' = None
        ELSE /\ resolution' = "resolved"
             /\ plan' = [policy |-> policy, rationale |-> Rationale(profile, task)]
  /\ UNCHANGED <<chain, task, state, approvals, answer>>

---------------------------------------------------------------------------
(* authorize                                                               *)

(* effective_policy: a state grants what the profile did not.              *)
EffectivePolicy == GrantFrom(plan.policy, State[state])

(* Mutant: an approval opens all that its capability covers.               *)
ApprovalRecordedForCovered(c) ==
  \E a \in approvals : a.decision = "granted" /\ Covers(a.capability, c)

(* approval_recorded: any grant that names this capability.                *)
ApprovalRecorded(c) ==
  \E a \in approvals : a.decision = "granted" /\ a.capability = c

(* Mutant: the floor is not asked again of what a state grants.            *)
DecisionOnWithoutFloor(c) == Decide(EffectivePolicy, c)

(* The floor holds for what a state grants, too.                           *)
DecisionOn(c) ==
  LET decision == Decide(EffectivePolicy, c)
  IN IF decision = "allowed" /\ NeedsApprovalFloor(c) THEN "requires_approval" ELSE decision

Authorized(c) ==
  \/ DecisionOn(c) = "allowed"
  \/ DecisionOn(c) = "requires_approval" /\ ApprovalRecorded(c)

Said(says, decision) ==
  CASE decision = "allowed" -> says.allow
    [] decision = "requires_approval" -> says.gated
    [] decision = "denied" -> says.deny
    [] OTHER -> {}

(* reason_for: the last document to speak, else the floor.                 *)
Reason(c, decision) ==
  LET spoke == {i \in DOMAIN plan.rationale :
                  CoveredBy(Said(plan.rationale[i].says, decision), c)}
  IN IF spoke # {} THEN plan.rationale[CHOOSE i \in spoke : \A j \in spoke : j <= i].source
     ELSE IF decision = "requires_approval" THEN "protocol" ELSE None

Authorize(c) ==
  /\ Resolved
  /\ answer' = [capability |-> c, allowed |-> Authorized(c), decision |-> DecisionOn(c),
                reason |-> Reason(c, DecisionOn(c))]
  /\ UNCHANGED <<chain, task, resolution, plan, state, approvals>>

(* The engine enters a state, or takes an approval as evidence.            *)
Enter(s) ==
  /\ Resolved /\ s # state
  /\ state' = s /\ answer' = None
  /\ UNCHANGED <<chain, task, resolution, plan, approvals>>

RecordApproval(c, decision) ==
  /\ Resolved
  /\ approvals' = approvals \cup {[capability |-> c, decision |-> decision]}
  /\ answer' = None
  /\ UNCHANGED <<chain, task, resolution, plan, state>>

Init ==
  /\ chain \in Chains /\ task \in Tasks
  /\ resolution = "pending" /\ plan = None
  /\ state = Initial /\ approvals = {} /\ answer = None

Next ==
  \/ Resolve
  \/ \E c \in Request : Authorize(c)
  \/ \E s \in DOMAIN State : Enter(s)
  \/ \E c \in Request, d \in {"granted", "denied"} : RecordApproval(c, d)

Spec == Init /\ [][Next]_vars

---------------------------------------------------------------------------
(* The policies of every document in force where the execution is, each on *)
(* its own and before any composition.                                     *)
Speaking ==
  {profile.capabilities : profile \in Range(chain)}
    \cup {Principle[p].capabilities : p \in Range(InForce(Profile(chain), task))}
    \cup {task.capabilities, State[state]}

(* Every answer is one of the four, and names a document or nothing.       *)
TypeOK ==
  /\ chain \in Chains /\ task \in Tasks /\ state \in DOMAIN State
  /\ approvals \subseteq [capability : Request, decision : {"granted", "denied"}]
  /\ answer = None \/
       /\ answer.capability \in Request /\ answer.allowed \in BOOLEAN
       /\ answer.decision \in {"allowed", "requires_approval", "denied", "not_granted"}
       /\ answer.allowed => answer.decision \in {"allowed", "requires_approval"}

(* A denial any document in force states is never granted back: not by a   *)
(* narrower profile, not by the task that needs it, not by the state the   *)
(* execution is in, and not by an approval (README.md:61, policy.rs 80-83).*)
DeniedStaysDenied ==
  answer # None /\ answer.allowed =>
    \A policy \in Speaking : ~CoveredBy(policy.deny, answer.capability)

(* What any document in force puts behind approval, and whatever overlaps  *)
(* the protocol's floor, is exercised only once that very capability has   *)
(* been approved: no order of composition and no state's grant waives it.  *)
NothingGatedWithoutApproval ==
  answer # None /\ answer.allowed =>
    \/ [capability |-> answer.capability, decision |-> "granted"] \in approvals
    \/ /\ \A policy \in Speaking : ~CoveredBy(policy.gated, answer.capability)
       /\ \A f \in Floor : ~Covers(f, answer.capability) /\ ~Covers(answer.capability, f)

(* A plan that resolves grants nothing below the floor outright, in no     *)
(* environment its wildcards reach (protocol.rs 114-118).                  *)
PlanKeepsTheFloor ==
  Resolved => \A c \in Request : c \in Floor => Decide(plan.policy, c) # "allowed"

(* An approval opens the capability it names and no other: approving       *)
(* deployment everywhere is not approving a deployment to production.      *)
ApprovalOpensWhatItNames ==
  [][approvals' # approvals =>
       \A c \in Request :
         Authorized(c)' =>
           \/ Authorized(c)
           \/ [capability |-> c, decision |-> "granted"] \in approvals' \ approvals]_vars

---------------------------------------------------------------------------
(* Statements of the documentation that the code does not keep             *)

(* "a principle cannot hand out access a profile did not grant"            *)
(* (capability.rs 628-629): what is exercised was granted, outright or     *)
(* behind approval, by a profile or by the state.                          *)
PrinciplesHandOutNothing ==
  answer # None /\ answer.allowed =>
    \E policy \in {profile.capabilities : profile \in Range(chain)} \cup {State[state]} :
      CoveredBy(policy.allow \cup policy.gated, answer.capability)

(* "capabilities are granted from the base and then restricted by this     *)
(* profile's denials and approval requirements" (profile.rs 76-77).        *)
ExtensionOnlyRestricts ==
  Resolved => \A c \in Request :
    Decide(Profile(chain).capabilities, c) = "allowed" =>
      CoveredBy(Head(chain).capabilities.allow, c)

(* "The refusal has an address: it names a principle someone can go and    *)
(* read" (README.md:45): the document it names is one that refuses.        *)
RefusalHasAnAddress ==
  answer # None /\ ~answer.allowed /\ answer.decision # "not_granted" =>
    \/ answer.reason = "protocol" /\ NeedsApprovalFloor(answer.capability)
    \/ \E i \in DOMAIN plan.rationale :
         /\ plan.rationale[i].source = answer.reason
         /\ CoveredBy(Said(plan.rationale[i].says, answer.decision), answer.capability)

=============================================================================
