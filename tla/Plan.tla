-------------------------------- MODULE Plan --------------------------------
(***************************************************************************)
(* What a planning store promises: a set of documents, each changed by one *)
(* command at a time, and the reviews an execution has recorded of them.   *)
(* `protocol artifact new`, `move` and `relate` are                        *)
(* crates/protocol-cli/src/planning.rs over                                *)
(* PlanningDocument; PlanningStore has the files and the processes behind  *)
(* the same commands.                                                      *)
(***************************************************************************)
EXTENDS PlanningDocument

CONSTANTS
  NewEdges,      \* the edges `new --relate` may declare: sets of them
  Requirements,  \* the artifact requirements of the documents in force
  Reviews,       \* the review results an execution may accept
  MaxReviews     \* bound: reviews on record

VARIABLES
  plan,     \* the documents, by id
  reviews   \* the review results an execution has accepted

planVars == <<plan, reviews>>

ASSUME PlanAssumption ==
  /\ NewEdges \subseteq SUBSET (Relation \X ArtifactId)
  /\ MaxReviews \in Nat

Review ==
  [subject : ArtifactId, subjectKind : SUBSET Kind, human : BOOLEAN, blocking : BOOLEAN,
   disposition : {"approved", "changes_requested", "rejected"},
   version : 1 .. MaxRevision \cup {NoVersion}]

ASSUME ReviewAssumption == Reviews \subseteq Review

PlanInit == plan = [d \in {} |-> {}] /\ reviews = {}

---------------------------------------------------------------------------
(* Commands                                                                *)

(* Mutant: a new document starts as every other does.                      *)
NewAsDraft(d, edges) ==
  /\ d \notin DOMAIN plan
  /\ plan' = Put(plan, d, [Fresh(d, edges) EXCEPT !.status = "draft"])
  /\ UNCHANGED reviews

(* `new` looks at its own path and at nothing else in the store: an edge   *)
(* it declares may lead anywhere.                                          *)
New(d, edges) ==
  /\ d \notin DOMAIN plan
  /\ plan' = Put(plan, d, Fresh(d, edges))
  /\ UNCHANGED reviews

(* Mutant: any status may follow any other.                                *)
MoveAnywhere(d, to) ==
  /\ d \in DOMAIN plan /\ plan[d].revision < MaxRevision
  /\ plan' = Put(plan, d, MovedTo(plan[d], to))
  /\ UNCHANGED reviews

Move(d, to) ==
  /\ d \in DOMAIN plan /\ plan[d].revision < MaxRevision
  /\ to \in LifecycleOf(plan[d].kind).moves[plan[d].status]
  /\ plan' = Put(plan, d, MovedTo(plan[d], to))
  /\ UNCHANGED reviews

(* Mutant: the graph is checked before the edge is in it.                  *)
RelateThenCheck(d, relation, target) ==
  LET edge == <<relation, target>> IN
  /\ d \in DOMAIN plan /\ target \in DOMAIN plan /\ plan[d].revision < MaxRevision
  /\ edge \notin plan[d].relations
  /\ Buildable(Graph(plan))
  /\ plan' = Put(plan, d, RelatedTo(plan[d], edge))
  /\ UNCHANGED reviews

Relate(d, relation, target) ==
  LET edge == <<relation, target>> IN
  /\ d \in DOMAIN plan /\ target \in DOMAIN plan /\ plan[d].revision < MaxRevision
  /\ edge \notin plan[d].relations
  /\ Buildable(Graph(Put(plan, d, RelatedTo(plan[d], edge))))
  /\ plan' = Put(plan, d, RelatedTo(plan[d], edge))
  /\ UNCHANGED reviews

(* A review of a document as it stood at some revision up to now, or of no *)
(* revision in particular.                                                 *)
Record(review) ==
  /\ review \notin reviews /\ Cardinality(reviews) < MaxReviews
  /\ review.subject \in DOMAIN plan
  /\ review.version \in 1 .. plan[review.subject].revision \cup {NoVersion}
  /\ reviews' = reviews \cup {review}
  /\ UNCHANGED plan

PlanNext ==
  \/ \E d \in ArtifactId, edges \in NewEdges : New(d, edges)
  \/ \E d \in ArtifactId, to \in Status : Move(d, to)
  \/ \E d, target \in ArtifactId, relation \in Relation : Relate(d, relation, target)
  \/ \E review \in Reviews : Record(review)

PlanSpec == PlanInit /\ [][PlanNext]_planVars

---------------------------------------------------------------------------
(* Properties                                                              *)

(* Documents and reviews have their shapes, and no review is of a revision *)
(* its document has not had.                                               *)
PlanTypeOK ==
  /\ DOMAIN plan \subseteq ArtifactId
  /\ \A d \in DOMAIN plan : plan[d] \in Document
  /\ reviews \subseteq Reviews
  /\ \A r \in reviews :
       r.subject \in DOMAIN plan /\ r.version \in 1 .. plan[r.subject].revision \cup {NoVersion}

(* Whatever the tool wrote, `artifact validate` finds no status outside    *)
(* the lifecycle that governs the kind (artifact.rs, validate_lifecycles   *)
(* against planning.rs, create and move_status): a specialised kind is     *)
(* created and moved along its family's lifecycle.                         *)
StatusesStayDeclared == StatusesDeclared(Graph(plan))

(* The two ways a document in force can ask whether a kind is approved     *)
(* agree: a requirement for an approved artifact is satisfied exactly when *)
(* the fact is true, and contradicted only when the fact is false          *)
(* (artifact.rs, facts; requirement.rs, ArtifactRequirement::evaluate).    *)
FactsAgreeWithRequirements ==
  \A k \in Kind :
    LET truth == ArtifactTruth([kind |-> k, status |-> {"approved"}, atLeast |-> 1,
                                fresh |-> TRUE, relation |-> {}], Graph(plan))
    IN /\ truth = "true" <=> ApprovedFact(Graph(plan), k) = "true"
       /\ truth = "false" => ApprovedFact(Graph(plan), k) = "false"

(* A requirement for live work that the plan contradicts stays             *)
(* contradicted until a document of its kind is written: no sequence of    *)
(* moves brings a rejected, superseded or archived one back                *)
(* (requirement.rs, "waiting will not produce an approved design out of a  *)
(* rejected one").                                                         *)
ContradictionNeedsNewWork ==
  [][\A req \in {r \in Requirements : r.fresh} :
        /\ ArtifactTruth(req, Graph(plan)) = "false"
        /\ ArtifactTruth(req, Graph(plan')) # "false"
        => \E d \in DOMAIN plan' \ DOMAIN plan : IsA(KindOf[d], req.kind)]_planVars

(* A document that must be reviewed as it stands is approved by a review   *)
(* of a revision until the next command that changes it, and no longer; a  *)
(* command on another document changes nothing about it (requirement.rs,   *)
(* ReviewRequirement::evaluate; review.rs, covers; document.rs, bump).     *)
Approved(d, p) ==
  ReviewTruth([subject |-> {d}, subjectKind |-> {}, human |-> FALSE, result |-> "approved",
               fresh |-> TRUE], {r \in reviews : r.version # NoVersion}, Graph(p))

ChangeEndsReview ==
  [][\A d \in DOMAIN plan :
        IF plan'[d] = plan[d] THEN Approved(d, plan') = Approved(d, plan)
        ELSE Approved(d, plan') # "true"]_planVars

(* A plan that builds keeps building, except when `new` declares an edge   *)
(* to a document the store does not hold: `relate` closes no cycle and     *)
(* leaves no edge to nothing (planning.rs, relate).                        *)
OnlyNewBreaksThePlan ==
  [][Buildable(Graph(plan)) /\ ~Buildable(Graph(plan')) =>
       \E d \in DOMAIN plan' \ DOMAIN plan :
         \E edge \in plan'[d].relations : edge[2] \notin DOMAIN plan]_planVars

(* What the code comment on `relate` says of the store, read as a          *)
(* promise: no command leaves a plan that does not build.                  *)
PlanAlwaysBuilds == Buildable(Graph(plan))

(* What review.rs says of a review with no recorded version: it stops      *)
(* applying when something supersedes its subject.                         *)
SupersessionEndsReview ==
  \A r \in reviews :
    (\E d \in DOMAIN plan : Edge(Graph(plan), "supersedes", d, r.subject)) =>
      ~StillCovers(r, Graph(plan))
=============================================================================
