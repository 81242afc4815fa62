------------------------------ MODULE Artifacts ------------------------------
(***************************************************************************)
(* The artifact graph and what is asked of it: kinds and their hierarchy,  *)
(* statuses, lifecycles and edges (crates/aep-domain/src/artifact.rs), the *)
(* artifact and review requirements (requirement.rs) and what a review     *)
(* covers (review.rs).                                                     *)
(*                                                                         *)
(* A graph is a function from artifact ids to artifacts.  An edge is       *)
(* stored on the artifact it leaves, as a relation and a target.           *)
(***************************************************************************)
EXTENDS Naturals, FiniteSets

CONSTANTS
  ArtifactId,
  Kind,
  Parent,      \* the kind a kind specialises, for those that do
  Lifecycles,  \* the lifecycles registered for a kind, by kind
  Fallback,    \* the lifecycle of the kinds no document names: at most one
  Relation,    \* the names edges have
  NoVersion    \* the version of an artifact that declares none

Status == {"draft", "proposed", "in_review", "approved", "accepted", "rejected",
           "active", "implemented", "superseded", "archived"}

Lifecycle == [initial : Status, moves : [Status -> SUBSET Status]]

ASSUME KindAssumption ==
  /\ DOMAIN Parent \subseteq Kind
  /\ \A k \in DOMAIN Parent : Parent[k] \in Kind \ DOMAIN Parent

ASSUME LifecycleAssumption ==
  /\ DOMAIN Lifecycles \subseteq Kind
  /\ \A k \in DOMAIN Lifecycles : Lifecycles[k] \in Lifecycle
  /\ Fallback \subseteq Lifecycle
  /\ \A one, other \in Fallback : one = other

---------------------------------------------------------------------------
(* Kinds and statuses                                                      *)

(* A parent has no parent: a lineage is one step long.                     *)
Lineage(k) == {k} \cup (IF k \in DOMAIN Parent THEN {Parent[k]} ELSE {})

IsA(k, other) == other \in Lineage(k)

Retired == {"superseded", "archived", "rejected"}

(* Mutant: a status may be relied on until its artifact has been replaced. *)
ApprovedUntilReplaced ==
  {"approved", "accepted", "active", "implemented", "superseded"}

ApprovedStatuses == {"approved", "accepted", "active", "implemented"}

Satisfies(status, required) ==
  status = required \/ (required = "approved" /\ status \in ApprovedStatuses)

---------------------------------------------------------------------------
(* Lifecycles                                                              *)

Permissive == [initial |-> "draft", moves |-> [s \in Status |-> Status]]

(* The lifecycle of a kind: its own, its family's, the tree's fallback.    *)
Governing(k) ==
  IF \E own \in Lineage(k) : own \in DOMAIN Lifecycles
  THEN {Lifecycles[IF k \in DOMAIN Lifecycles THEN k ELSE Parent[k]]}
  ELSE Fallback

LifecycleOf(k) == CHOOSE l \in IF Governing(k) = {} THEN {Permissive} ELSE Governing(k) : TRUE

Mentioned(l) == {l.initial} \cup {s \in Status : l.moves[s] # {}}
                  \cup UNION {l.moves[s] : s \in Status}

---------------------------------------------------------------------------
(* The graph                                                               *)

Edge(graph, relation, a, b) ==
  /\ a \in DOMAIN graph /\ b \in DOMAIN graph
  /\ <<relation, b>> \in graph[a].relations

TargetsOf(graph, a, relation) == {edge[2] : edge \in {e \in graph[a].relations : e[1] = relation}}

Resolved(graph) ==
  \A a \in DOMAIN graph : \A edge \in graph[a].relations : edge[2] \in DOMAIN graph

SelfReferring(graph) == \E a \in DOMAIN graph, r \in Relation : Edge(graph, r, a, a)

(* The edges of one relation close a cycle when some artifacts each have   *)
(* a successor among themselves.                                           *)
Cyclic(graph, relation) ==
  \E ring \in SUBSET DOMAIN graph :
    ring # {} /\ \A a \in ring : \E b \in ring : Edge(graph, relation, a, b)

(* ArtifactGraph::build accepts it.                                        *)
Buildable(graph) ==
  /\ Resolved(graph)
  /\ ~SelfReferring(graph)
  /\ \A r \in Relation : ~Cyclic(graph, r)

(* A superseded artifact names its successor: its part of                  *)
(* validate_lifecycles, beside the statuses a lifecycle mentions.          *)
Succeeded(graph) ==
  \A a \in DOMAIN graph :
    graph[a].status = "superseded" => \E b \in DOMAIN graph : Edge(graph, "supersedes", b, a)

StatusesDeclared(graph) ==
  \A a \in DOMAIN graph :
    Governing(graph[a].kind) # {} =>
      graph[a].status \in Mentioned(LifecycleOf(graph[a].kind))

OfKind(graph, k) == {a \in DOMAIN graph : IsA(graph[a].kind, k)}

(* The facts `artifact.<kind>.approved`: no path for a kind with no        *)
(* artifact, which a predicate reads as unknown.                           *)
ApprovedFact(graph, k) ==
  IF OfKind(graph, k) = {} THEN "unknown"
  ELSE IF \E a \in OfKind(graph, k) : graph[a].status \in ApprovedStatuses
       THEN "true" ELSE "false"

---------------------------------------------------------------------------
(* Requirements                                                            *)

(* An edge a requirement asks for: its relation, and the kind of its       *)
(* target when it names one.                                               *)
HasRelation(graph, a, wanted) ==
  /\ TargetsOf(graph, a, wanted.relation) # {}
  /\ wanted.target # {} =>
       \E b \in TargetsOf(graph, a, wanted.relation) \cap DOMAIN graph :
          \E k \in wanted.target : IsA(graph[b].kind, k)

Counts(req, graph, a) ==
  /\ IsA(graph[a].kind, req.kind)
  /\ req.fresh => graph[a].status \notin Retired
  /\ \A s \in req.status : Satisfies(graph[a].status, s)
  /\ \A wanted \in req.relation : HasRelation(graph, a, wanted)

ArtifactTruth(req, graph) ==
  IF Cardinality({a \in DOMAIN graph : Counts(req, graph, a)}) >= req.atLeast THEN "true"
  ELSE IF /\ OfKind(graph, req.kind) # {}
          /\ \A a \in OfKind(graph, req.kind) : graph[a].status \in Retired
       THEN "false" ELSE "unknown"

(* ReviewResult::covers, where the subject resolves; a review of something *)
(* the graph does not hold is never stale.                                 *)
StillCovers(review, graph) ==
  review.subject \in DOMAIN graph =>
    LET artifact == graph[review.subject] IN
    \/ artifact.freshness = "always_valid"
    \/ review.version = artifact.version
    \/ /\ (review.version = NoVersion) # (artifact.version = NoVersion)
       /\ artifact.freshness # "bound_to_revision"

IsAbout(req, review, graph) ==
  /\ req.subject \subseteq {review.subject}
  /\ \A k \in req.subjectKind :
       \/ \E declared \in review.subjectKind : IsA(declared, k)
       \/ review.subject \in DOMAIN graph /\ IsA(graph[review.subject].kind, k)

Considered(req, reviews, graph) ==
  {r \in reviews : IsAbout(req, r, graph) /\ (req.human => r.human)}

ReviewTruth(req, reviews, graph) ==
  IF Considered(req, reviews, graph) = {} THEN "unknown"
  ELSE IF \E r \in Considered(req, reviews, graph) :
            /\ r.disposition = req.result
            /\ req.fresh => StillCovers(r, graph)
            /\ req.result = "approved" => ~r.blocking
       THEN "true" ELSE "false"
=============================================================================
