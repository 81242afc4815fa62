------------------------------ MODULE PlanProofs ------------------------------
(***************************************************************************)
(* What the planning commands keep of a plan, proved for every hierarchy   *)
(* of kinds, every registered lifecycle and any number of documents.  The  *)
(* first half is about documents and the graph they make, and knows no     *)
(* plan: PlanningStoreProofs uses it of the documents in the files.        *)
(***************************************************************************)
EXTENDS Plan, FiniteSetTheorems, TLAPS

---------------------------------------------------------------------------
(* Lifecycles.                                                             *)

LEMMA PermissiveIsOne == Permissive \in Lifecycle
  BY DEF Permissive, Lifecycle, Status

LEMMA GoverningIsOne ==
  ASSUME NEW k \in Kind
  PROVE  Governing(k) \subseteq Lifecycle
<1>1. CASE \E own \in Lineage(k) : own \in DOMAIN Lifecycles
  <2>1. (IF k \in DOMAIN Lifecycles THEN k ELSE Parent[k]) \in DOMAIN Lifecycles
    BY <1>1 DEF Lineage
  <2> QED  BY <1>1, <2>1, LifecycleAssumption DEF Governing
<1>2. CASE ~\E own \in Lineage(k) : own \in DOMAIN Lifecycles
  BY <1>2, LifecycleAssumption DEF Governing
<1> QED  BY <1>1, <1>2

(* The lifecycle of a kind is one that governs it, or else the permissive. *)
LEMMA LifecycleIsGoverning ==
  ASSUME NEW k \in Kind
  PROVE  /\ LifecycleOf(k) \in Lifecycle
         /\ Governing(k) # {} => LifecycleOf(k) \in Governing(k)
<1> DEFINE set == IF Governing(k) = {} THEN {Permissive} ELSE Governing(k)
<1>1. set # {} /\ set \subseteq Lifecycle
  BY GoverningIsOne, PermissiveIsOne
<1>2. LifecycleOf(k) \in set
  BY <1>1 DEF LifecycleOf
<1> QED  BY <1>1, <1>2

LEMMA InitialIsDeclared ==
  ASSUME NEW k \in Kind
  PROVE  LifecycleOf(k).initial \in Status /\ LifecycleOf(k).initial \in Mentioned(LifecycleOf(k))
  BY LifecycleIsGoverning DEF Lifecycle, Mentioned

LEMMA MovesAreDeclared ==
  ASSUME NEW k \in Kind, NEW s \in Status, NEW to \in LifecycleOf(k).moves[s]
  PROVE  to \in Status /\ to \in Mentioned(LifecycleOf(k))
  BY LifecycleIsGoverning DEF Lifecycle, Mentioned

---------------------------------------------------------------------------
(* Documents.                                                              *)

(* What the graph says of a document.                                      *)
LEMMA GraphIs ==
  ASSUME NEW p
  PROVE  /\ DOMAIN Graph(p) = DOMAIN p
         /\ \A d \in DOMAIN p :
              /\ Graph(p)[d].kind = p[d].kind /\ Graph(p)[d].status = p[d].status
              /\ Graph(p)[d].version = p[d].revision
              /\ Graph(p)[d].freshness = "until_superseded"
              /\ Graph(p)[d].relations = p[d].relations
  BY DEF Graph, ToArtifact

LEMMA FreshIs ==
  ASSUME NEW d \in ArtifactId, NEW edges \in SUBSET (Relation \X ArtifactId)
  PROVE  /\ Fresh(d, edges) \in Document
         /\ Fresh(d, edges).kind = KindOf[d]
         /\ Fresh(d, edges).status = LifecycleOf(KindOf[d]).initial
         /\ Fresh(d, edges).relations = edges
<1>1. KindOf[d] \in Kind /\ 1 \in 1 .. MaxRevision
  BY DocumentAssumption
<1>2. LifecycleOf(KindOf[d]).initial \in Status
  BY <1>1, InitialIsDeclared
<1> QED  BY <1>1, <1>2 DEF Fresh, Document

LEMMA RevisionsGrow ==
  ASSUME NEW document \in Document
  PROVE  /\ \A to : MovedTo(document, to).revision = document.revision + 1
         /\ \A edge : RelatedTo(document, edge).revision = document.revision + 1
<1>1. ASSUME NEW to
      PROVE  MovedTo(document, to).revision = document.revision + 1
  <2>1. PICK middle : middle = [document EXCEPT !.status = to]
    OBVIOUS
  <2>2. middle.revision = document.revision /\ "revision" \in DOMAIN middle
    BY <2>1 DEF Document
  <2> QED  BY <2>1, <2>2 DEF MovedTo, Bumped
<1>2. ASSUME NEW edge
      PROVE  RelatedTo(document, edge).revision = document.revision + 1
  <2>1. PICK middle : middle = [document EXCEPT !.relations = @ \cup {edge}]
    OBVIOUS
  <2>2. middle.revision = document.revision /\ "revision" \in DOMAIN middle
    BY <2>1 DEF Document
  <2> QED  BY <2>1, <2>2 DEF RelatedTo, Bumped
<1> QED  BY <1>1, <1>2

LEMMA Moved ==
  ASSUME NEW document \in Document, document.revision < MaxRevision, NEW to \in Status
  PROVE  /\ MovedTo(document, to) \in Document
         /\ MovedTo(document, to).kind = document.kind
         /\ MovedTo(document, to).status = to
         /\ MovedTo(document, to).revision = document.revision + 1
         /\ MovedTo(document, to).relations = document.relations
<1>1. document.revision + 1 \in 1 .. MaxRevision
  BY DocumentAssumption DEF Document
<1>2. PICK middle : middle = [document EXCEPT !.status = to]
  OBVIOUS
<1>3. middle = [kind |-> document.kind, status |-> to, revision |-> document.revision,
                relations |-> document.relations]
  BY <1>2 DEF Document
<1>4. Bumped(middle) = [kind |-> document.kind, status |-> to,
                        revision |-> document.revision + 1, relations |-> document.relations]
  BY <1>3 DEF Bumped
<1>5. MovedTo(document, to) = Bumped(middle)
  BY <1>2 DEF MovedTo
<1> QED  BY <1>1, <1>4, <1>5 DEF Document

LEMMA Related ==
  ASSUME NEW document \in Document, document.revision < MaxRevision,
         NEW edge \in Relation \X ArtifactId
  PROVE  /\ RelatedTo(document, edge) \in Document
         /\ RelatedTo(document, edge).kind = document.kind
         /\ RelatedTo(document, edge).status = document.status
         /\ RelatedTo(document, edge).revision = document.revision + 1
         /\ RelatedTo(document, edge).relations = document.relations \cup {edge}
<1>1. document.revision + 1 \in 1 .. MaxRevision
  BY DocumentAssumption DEF Document
<1>2. PICK middle : middle = [document EXCEPT !.relations = @ \cup {edge}]
  OBVIOUS
<1>3. middle = [kind |-> document.kind, status |-> document.status,
                revision |-> document.revision, relations |-> document.relations \cup {edge}]
  BY <1>2 DEF Document
<1>4. Bumped(middle) = [kind |-> document.kind, status |-> document.status,
                        revision |-> document.revision + 1,
                        relations |-> document.relations \cup {edge}]
  BY <1>3 DEF Bumped
<1>5. RelatedTo(document, edge) = Bumped(middle)
  BY <1>2 DEF RelatedTo
<1>6. document.relations \cup {edge} \in SUBSET (Relation \X ArtifactId)
  BY DEF Document
<1> QED  BY <1>1, <1>4, <1>5, <1>6 DEF Document

---------------------------------------------------------------------------
(* The graph builds.                                                       *)

(* Only the edges decide whether a graph builds.                           *)
SameEdges(g, h) ==
  DOMAIN h = DOMAIN g /\ \A a \in DOMAIN g : h[a].relations = g[a].relations

LEMMA EdgesDecide ==
  ASSUME NEW g, NEW h, SameEdges(g, h), Buildable(g)
  PROVE  Buildable(h)
<1>1. \A r, a, b : Edge(h, r, a, b) <=> Edge(g, r, a, b)
  BY DEF SameEdges, Edge
<1>2. Resolved(h)
  BY DEF SameEdges, Buildable, Resolved
<1>3. ~SelfReferring(h)
  BY <1>1 DEF SameEdges, Buildable, SelfReferring
<1>4. ASSUME NEW r \in Relation  PROVE ~Cyclic(h, r)
  <2>1. ~Cyclic(g, r) /\ DOMAIN g = DOMAIN h
    BY DEF Buildable, SameEdges
  <2> QED  BY <1>1, <2>1 DEF Cyclic
<1> QED  BY <1>2, <1>3, <1>4 DEF Buildable

(* A node whose edges lead to what was there before closes no cycle.       *)
LEMMA SourcesAreHarmless ==
  ASSUME NEW g, NEW h, NEW d, Buildable(g), d \notin DOMAIN g,
         DOMAIN h = DOMAIN g \cup {d},
         \A a \in DOMAIN g : h[a].relations = g[a].relations,
         \A edge \in h[d].relations : edge[2] \in DOMAIN g
  PROVE  Buildable(h)
<1>1. \A a \in DOMAIN h : \A edge \in h[a].relations : edge[2] \in DOMAIN g
  BY DEF Buildable, Resolved
<1>2. Resolved(h)
  BY <1>1 DEF Resolved
<1>3. ASSUME NEW r, NEW a, NEW b, Edge(h, r, a, b)
      PROVE  b \in DOMAIN g /\ (a \in DOMAIN g => Edge(g, r, a, b))
  <2>1. a \in DOMAIN h /\ <<r, b>> \in h[a].relations
    BY <1>3 DEF Edge
  <2>2. b \in DOMAIN g
    BY <1>1, <2>1
  <2> QED  BY <2>1, <2>2 DEF Edge
<1>4. ~SelfReferring(h)
  BY <1>3 DEF SelfReferring, Buildable
<1>5. ASSUME NEW r \in Relation, Cyclic(h, r)  PROVE FALSE
  <2>1. PICK ring \in SUBSET DOMAIN h :
          ring # {} /\ \A a \in ring : \E b \in ring : Edge(h, r, a, b)
    BY <1>5 DEF Cyclic
  <2>2. ring \cap DOMAIN g # {}
    BY <1>3, <2>1
  <2>3. \A a \in ring \cap DOMAIN g : \E b \in ring \cap DOMAIN g : Edge(g, r, a, b)
    BY <1>3, <2>1
  <2>4. Cyclic(g, r)
    BY <2>2, <2>3 DEF Cyclic
  <2> QED  BY <2>4 DEF Buildable
<1> QED  BY <1>2, <1>4, <1>5 DEF Buildable

(* A graph that is one building graph on its nodes and another elsewhere:  *)
(* edges do not leave the first, so a cycle is in one of the two.          *)
LEMMA Gluing ==
  ASSUME NEW inner, NEW outer, NEW h, Buildable(inner), Buildable(outer),
         DOMAIN h = DOMAIN outer, DOMAIN inner \subseteq DOMAIN outer,
         \A a \in DOMAIN inner : h[a].relations = inner[a].relations,
         \A a \in DOMAIN outer \ DOMAIN inner : h[a].relations = outer[a].relations
  PROVE  Buildable(h)
<1>1. \A a \in DOMAIN inner : \A edge \in h[a].relations : edge[2] \in DOMAIN inner
  BY DEF Buildable, Resolved
<1>2. Resolved(h)
  BY <1>1 DEF Buildable, Resolved
<1>3. ASSUME NEW r, NEW a, NEW b, Edge(h, r, a, b)
      PROVE  IF a \in DOMAIN inner THEN Edge(inner, r, a, b) ELSE Edge(outer, r, a, b)
  <2>1. a \in DOMAIN h /\ <<r, b>> \in h[a].relations
    BY <1>3 DEF Edge
  <2>2. a \in DOMAIN inner => b \in DOMAIN inner
    BY <1>1, <2>1
  <2>3. b \in DOMAIN outer
    BY <1>2, <2>1 DEF Resolved
  <2> QED  BY <2>1, <2>2, <2>3 DEF Edge
<1>4. ~SelfReferring(h)
  BY <1>3 DEF SelfReferring, Buildable
<1>5. ASSUME NEW r \in Relation, Cyclic(h, r)  PROVE FALSE
  <2>1. PICK ring \in SUBSET DOMAIN h :
          ring # {} /\ \A a \in ring : \E b \in ring : Edge(h, r, a, b)
    BY <1>5 DEF Cyclic
  <2>2. CASE ring \cap DOMAIN inner = {}
    <3>1. Cyclic(outer, r)
      BY <1>3, <2>1, <2>2 DEF Cyclic
    <3> QED  BY <3>1 DEF Buildable
  <2>3. CASE ring \cap DOMAIN inner # {}
    <3>1. \A a \in ring \cap DOMAIN inner : \E b \in ring \cap DOMAIN inner : Edge(inner, r, a, b)
      BY <1>3, <2>1 DEF Edge
    <3>2. Cyclic(inner, r)
      BY <2>3, <3>1 DEF Cyclic
    <3> QED  BY <3>2 DEF Buildable
  <2> QED  BY <2>2, <2>3
<1> QED  BY <1>2, <1>4, <1>5 DEF Buildable

---------------------------------------------------------------------------
(* The plan.                                                               *)

LEMMA GraphOf ==
  /\ DOMAIN Graph(plan) = DOMAIN plan /\ DOMAIN Graph(plan') = DOMAIN plan'
  /\ \A d \in DOMAIN plan : Graph(plan)[d].relations = plan[d].relations
  /\ \A d \in DOMAIN plan' : Graph(plan')[d].relations = plan'[d].relations
  BY GraphIs

---------------------------------------------------------------------------
(* Types, and what keeps them: a document keeps the kind its id begins     *)
(* with, and its status is one of its kind's lifecycle.                    *)

DocumentsInv ==
  /\ DOMAIN plan \subseteq ArtifactId /\ IsFiniteSet(DOMAIN plan)
  /\ \A d \in DOMAIN plan :
       /\ plan[d] \in Document
       /\ plan[d].kind = KindOf[d]
       /\ Governing(KindOf[d]) # {} => plan[d].status \in Mentioned(LifecycleOf(KindOf[d]))

ReviewsInv ==
  /\ reviews \subseteq Reviews
  /\ \A r \in reviews :
       r.subject \in DOMAIN plan /\ r.version \in 1 .. plan[r.subject].revision \cup {NoVersion}

PlanInv == DocumentsInv /\ ReviewsInv

(* One command on one document: the others stay, and no revision is lost.  *)
Changes(d) ==
  /\ UNCHANGED reviews
  /\ DOMAIN plan' = DOMAIN plan \cup {d}
  /\ \A e \in DOMAIN plan \ {d} : plan'[e] = plan[e]

Creates(d, edges) ==
  /\ Changes(d) /\ d \notin DOMAIN plan
  /\ plan'[d] = Fresh(d, edges)

Alters(d) ==
  /\ Changes(d) /\ d \in DOMAIN plan
  /\ plan'[d] \in Document /\ plan'[d].kind = plan[d].kind
  /\ plan'[d].revision = plan[d].revision + 1

Moves(d, to) ==
  /\ Alters(d)
  /\ plan[d].status \in Status /\ to \in LifecycleOf(KindOf[d]).moves[plan[d].status]
  /\ plan'[d].status = to /\ plan'[d].relations = plan[d].relations

Relates(d) ==
  /\ Alters(d)
  /\ plan'[d].status = plan[d].status /\ Buildable(Graph(plan'))

LEMMA PutChanges ==
  ASSUME NEW d, NEW document, plan' = Put(plan, d, document), UNCHANGED reviews
  PROVE  Changes(d) /\ plan'[d] = document
  BY DEF Put, Changes

LEMMA Commands ==
  ASSUME PlanInv, PlanNext
  PROVE  \/ \E d \in ArtifactId, edges \in NewEdges : Creates(d, edges)
         \/ \E d \in ArtifactId : \E to \in Status : Moves(d, to)
         \/ \E d \in ArtifactId : Relates(d)
         \/ \E review \in Reviews : Record(review)
<1>1. ASSUME NEW d \in ArtifactId, NEW edges \in NewEdges, New(d, edges)
      PROVE  Creates(d, edges)
  BY <1>1, PutChanges DEF New, Creates
<1>2. ASSUME NEW d \in ArtifactId, NEW to \in Status, Move(d, to)
      PROVE  Moves(d, to)
  <2>1. /\ d \in DOMAIN plan /\ plan[d] \in Document /\ plan[d].revision < MaxRevision
        /\ plan[d].kind = KindOf[d]
        /\ plan' = Put(plan, d, MovedTo(plan[d], to)) /\ UNCHANGED reviews
        /\ to \in LifecycleOf(KindOf[d]).moves[plan[d].status]
    BY <1>2 DEF Move, PlanInv, DocumentsInv
  <2>2. plan'[d] = MovedTo(plan[d], to) /\ Changes(d)
    BY <2>1, PutChanges
  <2>3. plan[d].status \in Status
    BY <2>1 DEF Document
  <2> QED  BY <2>1, <2>2, <2>3, Moved DEF Moves, Alters
<1>3. ASSUME NEW d \in ArtifactId, NEW target \in ArtifactId, NEW relation \in Relation,
             Relate(d, relation, target)
      PROVE  Relates(d)
  <2> DEFINE edge == <<relation, target>>
  <2>1. /\ d \in DOMAIN plan /\ plan[d] \in Document /\ plan[d].revision < MaxRevision
        /\ plan' = Put(plan, d, RelatedTo(plan[d], edge)) /\ UNCHANGED reviews
        /\ Buildable(Graph(Put(plan, d, RelatedTo(plan[d], edge))))
    BY <1>3 DEF Relate, PlanInv, DocumentsInv
  <2>2. edge \in Relation \X ArtifactId
    OBVIOUS
  <2> HIDE DEF edge
  <2>3. plan'[d] = RelatedTo(plan[d], edge) /\ Changes(d)
    BY <2>1, PutChanges
  <2>4. Buildable(Graph(plan'))
    BY <2>1
  <2> QED  BY <2>1, <2>2, <2>3, <2>4, Related DEF Relates, Alters
<1> QED  BY <1>1, <1>2, <1>3 DEF PlanNext

LEMMA PlanInvInit == PlanInit => PlanInv
<1> SUFFICES ASSUME PlanInit PROVE PlanInv
  OBVIOUS
<1>1. DOMAIN plan = {} /\ reviews = {}
  BY DEF PlanInit
<1> QED  BY <1>1, FS_EmptySet DEF PlanInv, DocumentsInv, ReviewsInv

LEMMA ReviewsStand ==
  ASSUME PlanInv, NEW d \in ArtifactId, Changes(d),
         d \in DOMAIN plan => plan'[d].revision = plan[d].revision + 1
  PROVE  ReviewsInv'
<1>1. ASSUME NEW r \in reviews
      PROVE  /\ r.subject \in DOMAIN plan'
             /\ r.version \in 1 .. plan'[r.subject].revision \cup {NoVersion}
  <2>1. /\ r.subject \in DOMAIN plan
        /\ r.version \in 1 .. plan[r.subject].revision \cup {NoVersion}
        /\ plan[r.subject].revision \in Nat
    BY DEF PlanInv, ReviewsInv, DocumentsInv, Document
  <2> QED  BY <2>1 DEF Changes
<1> QED  BY <1>1 DEF PlanInv, ReviewsInv, Changes

LEMMA PlanInvNext == PlanInv /\ [PlanNext]_planVars => PlanInv'
<1> SUFFICES ASSUME PlanInv, [PlanNext]_planVars PROVE PlanInv'
  OBVIOUS
<1> DEFINE Keeps(d) ==
      /\ plan'[d] \in Document
      /\ plan'[d].kind = KindOf[d]
      /\ Governing(KindOf[d]) # {} => plan'[d].status \in Mentioned(LifecycleOf(KindOf[d]))
<1>1. CASE UNCHANGED planVars
  BY <1>1 DEF planVars, PlanInv, DocumentsInv, ReviewsInv
<1>2. ASSUME NEW d \in ArtifactId, Changes(d), Keeps(d)
      PROVE  DocumentsInv'
  <2>1. IsFiniteSet(DOMAIN plan')
    BY <1>2, FS_AddElement DEF PlanInv, DocumentsInv, Changes
  <2> QED  BY <1>2, <2>1 DEF PlanInv, DocumentsInv, Changes
<1>3. ASSUME NEW d \in ArtifactId, NEW edges \in NewEdges, Creates(d, edges)
      PROVE  PlanInv'
  <2>1. KindOf[d] \in Kind
    BY DocumentAssumption
  <2>2. Keeps(d)
    BY <1>3, <2>1, FreshIs, InitialIsDeclared, PlanAssumption DEF Creates
  <2> HIDE DEF Keeps
  <2> QED  BY <1>2, <1>3, <2>2, ReviewsStand DEF Creates, PlanInv
<1>4. ASSUME NEW d \in ArtifactId, NEW to \in Status, Moves(d, to)
      PROVE  PlanInv'
  <2>1. KindOf[d] \in Kind /\ plan[d].kind = KindOf[d]
    BY <1>4, DocumentAssumption DEF Moves, Alters, PlanInv, DocumentsInv
  <2>2. Keeps(d)
    BY <1>4, <2>1, MovesAreDeclared DEF Moves, Alters
  <2> HIDE DEF Keeps
  <2> QED  BY <1>2, <1>4, <2>2, ReviewsStand DEF Moves, Alters, PlanInv
<1>5. ASSUME NEW d \in ArtifactId, Relates(d)
      PROVE  PlanInv'
  <2>1. Keeps(d)
    BY <1>5 DEF Relates, Alters, PlanInv, DocumentsInv
  <2> HIDE DEF Keeps
  <2> QED  BY <1>2, <1>5, <2>1, ReviewsStand DEF Relates, Alters, PlanInv
<1>6. ASSUME NEW review \in Reviews, Record(review)
      PROVE  PlanInv'
  BY <1>6 DEF Record, PlanInv, DocumentsInv, ReviewsInv
<1> QED  BY <1>1, <1>3, <1>4, <1>5, <1>6, Commands

LEMMA PlanInvHolds == PlanSpec => []PlanInv
<1> QED  BY PlanInvInit, PlanInvNext, PTL DEF PlanSpec

(* Every command, in any order and on any plan, leaves documents and       *)
(* reviews of their types, and no review of a revision its document has    *)
(* not had (planning.rs, review.rs).                                       *)
THEOREM PlanTypeCorrect == PlanSpec => []PlanTypeOK
<1>1. PlanInv => PlanTypeOK
  BY DEF PlanInv, DocumentsInv, ReviewsInv, PlanTypeOK
<1> QED  BY <1>1, PlanInvHolds, PTL

(* Whatever the tool wrote, `artifact validate` finds no status outside    *)
(* the lifecycle that governs the kind (artifact.rs, validate_lifecycles   *)
(* against planning.rs), for every tree of kinds and lifecycles.           *)
THEOREM StatusesDeclaredAlways == PlanSpec => []StatusesStayDeclared
<1>1. PlanInv => StatusesStayDeclared
  BY GraphIs DEF PlanInv, DocumentsInv, StatusesStayDeclared, StatusesDeclared
<1> QED  BY <1>1, PlanInvHolds, PTL

---------------------------------------------------------------------------
(* Requirements.                                                           *)

LEMMA AtLeastOne ==
  ASSUME NEW S, IsFiniteSet(S)
  PROVE  Cardinality(S) >= 1 <=> S # {}
BY FS_EmptySet, FS_CardinalityType

LEMMA CountsAreFinite ==
  ASSUME PlanInv, NEW req
  PROVE  LET S == {a \in DOMAIN Graph(plan) : Counts(req, Graph(plan), a)} IN
         S \subseteq DOMAIN plan /\ IsFiniteSet(S)
<1>1. DOMAIN Graph(plan) = DOMAIN plan /\ IsFiniteSet(DOMAIN plan)
  BY GraphIs DEF PlanInv, DocumentsInv
<1> QED  BY <1>1, FS_Subset

(* The two ways a document in force can ask whether a kind is approved     *)
(* agree (artifact.rs, facts; requirement.rs,                              *)
(* ArtifactRequirement::evaluate), for every hierarchy of kinds.           *)
THEOREM FactsAndRequirementsAgree == PlanSpec => []FactsAgreeWithRequirements
<1>1. ASSUME PlanInv, NEW k \in Kind
      PROVE  LET req == [kind |-> k, status |-> {"approved"}, atLeast |-> 1, fresh |-> TRUE,
                         relation |-> {}]
                 truth == ArtifactTruth(req, Graph(plan))
             IN /\ truth = "true" <=> ApprovedFact(Graph(plan), k) = "true"
                /\ truth = "false" => ApprovedFact(Graph(plan), k) = "false"
  <2> DEFINE req == [kind |-> k, status |-> {"approved"}, atLeast |-> 1, fresh |-> TRUE,
                     relation |-> {}]
             g == Graph(plan)
             S == {a \in DOMAIN g : Counts(req, g, a)}
             approved == \E a \in OfKind(g, k) : g[a].status \in ApprovedStatuses
  <2>1. /\ req.kind = k /\ req.status = {"approved"} /\ req.atLeast = 1 /\ req.fresh = TRUE
        /\ req.relation = {}
    OBVIOUS
  <2>2. IsFiniteSet(S)
    BY <1>1, CountsAreFinite
  <2> HIDE DEF req, g
  <2>3. ASSUME NEW a \in DOMAIN g
        PROVE  Counts(req, g, a) <=> a \in OfKind(g, k) /\ g[a].status \in ApprovedStatuses
    <3>1. /\ \A s \in req.status : Satisfies(g[a].status, s) <=> g[a].status \in ApprovedStatuses
          /\ g[a].status \in ApprovedStatuses => g[a].status \notin Retired
      BY <2>1 DEF Satisfies, ApprovedStatuses, Retired
    <3> QED  BY <2>1, <3>1 DEF Counts, OfKind
  <2>4. S # {} <=> approved
    BY <2>3 DEF OfKind
  <2>5. Cardinality(S) >= req.atLeast <=> approved
    BY <2>1, <2>2, <2>4, AtLeastOne
  <2>6. ASSUME \A a \in OfKind(g, k) : g[a].status \in Retired  PROVE ~approved
    BY <2>6 DEF ApprovedStatuses, Retired
  <2>7. /\ ArtifactTruth(req, g) = "true" <=> approved
        /\ ArtifactTruth(req, g) = "false" => ~approved /\ OfKind(g, k) # {}
    BY <2>1, <2>5, <2>6 DEF ArtifactTruth
  <2>8. /\ ApprovedFact(g, k) = "true" <=> approved
        /\ ~approved /\ OfKind(g, k) # {} => ApprovedFact(g, k) = "false"
    BY DEF ApprovedFact
  <2>9. /\ ArtifactTruth(req, g) = "true" <=> ApprovedFact(g, k) = "true"
        /\ ArtifactTruth(req, g) = "false" => ApprovedFact(g, k) = "false"
    BY <2>7, <2>8
  <2> QED  BY <2>9 DEF req, g
<1>2. PlanInv => FactsAgreeWithRequirements
  BY <1>1 DEF FactsAgreeWithRequirements
<1> QED  BY <1>2, PlanInvHolds, PTL

(* A kind's retired documents stay retired: no lifecycle in force moves    *)
(* one back to life.                                                       *)
RetirementIsFinal ==
  \A k \in Kind : \A s \in Retired : LifecycleOf(k).moves[s] \subseteq Retired

AllRetired(p, k) == \A a \in DOMAIN p : IsA(p[a].kind, k) => p[a].status \in Retired

Some(p, k) == \E a \in DOMAIN p : IsA(p[a].kind, k)

LEMMA TruthOfTheRetired ==
  ASSUME NEW p, NEW req, req.fresh, AllRetired(p, req.kind), Some(p, req.kind),
         ~(0 >= req.atLeast)
  PROVE  ArtifactTruth(req, Graph(p)) = "false"
<1> DEFINE g == Graph(p)
           S == {a \in DOMAIN g : Counts(req, g, a)}
<1>1. S = {} /\ OfKind(g, req.kind) # {}
      /\ \A a \in OfKind(g, req.kind) : g[a].status \in Retired
  BY GraphIs DEF Counts, OfKind, AllRetired, Some
<1>2. Cardinality(S) = 0
  BY <1>1, FS_EmptySet
<1> QED  BY <1>1, <1>2 DEF ArtifactTruth

LEMMA RetiredWhenFalse ==
  ASSUME NEW p, NEW req, req.fresh, ArtifactTruth(req, Graph(p)) = "false"
  PROVE  AllRetired(p, req.kind) /\ Some(p, req.kind) /\ ~(0 >= req.atLeast)
<1> DEFINE g == Graph(p)
           S == {a \in DOMAIN g : Counts(req, g, a)}
<1>1. /\ ~(Cardinality(S) >= req.atLeast) /\ OfKind(g, req.kind) # {}
      /\ \A a \in OfKind(g, req.kind) : g[a].status \in Retired
  BY DEF ArtifactTruth
<1>2. AllRetired(p, req.kind) /\ Some(p, req.kind)
  BY <1>1, GraphIs DEF OfKind, AllRetired, Some
<1>3. S = {}
  BY <1>2, GraphIs DEF Counts, AllRetired
<1>4. Cardinality(S) = 0
  BY <1>3, FS_EmptySet
<1> QED  BY <1>1, <1>2, <1>4

(* Where no lifecycle brings the retired back, a requirement for live work *)
(* that the plan contradicts stays contradicted until a document of its    *)
(* kind is written (requirement.rs, "waiting will not produce an approved  *)
(* design out of a rejected one").                                         *)
THEOREM RetiredWorkStaysRetired ==
  ASSUME RetirementIsFinal
  PROVE  PlanSpec => ContradictionNeedsNewWork
<1>1. ASSUME PlanInv, [PlanNext]_planVars, NEW req \in Requirements, req.fresh,
             ArtifactTruth(req, Graph(plan)) = "false",
             ArtifactTruth(req, Graph(plan')) # "false"
      PROVE  \E d \in DOMAIN plan' \ DOMAIN plan : IsA(KindOf[d], req.kind)
  <2>1. AllRetired(plan, req.kind) /\ Some(plan, req.kind) /\ ~(0 >= req.atLeast)
    BY <1>1, RetiredWhenFalse
  <2>2. AllRetired(plan', req.kind) /\ Some(plan', req.kind) => FALSE
    BY <1>1, <2>1, TruthOfTheRetired
  <2>3. plan' # plan
    BY <2>1, <2>2
  <2>4. ASSUME NEW d \in ArtifactId, NEW edges \in NewEdges, Creates(d, edges)
        PROVE  \E e \in DOMAIN plan' \ DOMAIN plan : IsA(KindOf[e], req.kind)
    <3>1. plan'[d].kind = KindOf[d]
      BY <2>4, FreshIs, PlanAssumption DEF Creates
    <3>2. SUFFICES ASSUME ~IsA(KindOf[d], req.kind) PROVE FALSE
      BY <2>4 DEF Creates, Changes
    <3> QED
      BY <2>1, <2>2, <2>4, <3>1, <3>2 DEF Creates, Changes, AllRetired, Some
  <2>5. ASSUME NEW d \in ArtifactId, NEW to \in Status, Moves(d, to)
        PROVE  FALSE
    <3>1. KindOf[d] \in Kind /\ plan'[d].kind = plan[d].kind
      BY <2>5, DocumentAssumption DEF Moves, Alters
    <3>2. plan[d].status \in Retired => plan'[d].status \in Retired
      BY <2>5, <3>1 DEF Moves, RetirementIsFinal
    <3> QED
      BY <2>1, <2>2, <2>5, <3>1, <3>2 DEF Moves, Alters, Changes, AllRetired, Some
  <2>6. ASSUME NEW d \in ArtifactId, Relates(d)
        PROVE  FALSE
    BY <2>1, <2>2, <2>6 DEF Relates, Alters, Changes, AllRetired, Some
  <2> QED  BY <1>1, <2>3, <2>4, <2>5, <2>6, Commands DEF planVars, Record
<1>2. PlanInv /\ [PlanNext]_planVars =>
        [\A req \in {r \in Requirements : r.fresh} :
           /\ ArtifactTruth(req, Graph(plan)) = "false"
           /\ ArtifactTruth(req, Graph(plan')) # "false"
           => \E d \in DOMAIN plan' \ DOMAIN plan : IsA(KindOf[d], req.kind)]_planVars
  BY <1>1
<1> QED  BY <1>2, PlanInvHolds, PTL DEF PlanSpec, ContradictionNeedsNewWork

---------------------------------------------------------------------------
(* Reviews.                                                                *)

Given == {r \in reviews : r.version # NoVersion}

AsItStands(d) ==
  [subject |-> {d}, subjectKind |-> {}, human |-> FALSE, result |-> "approved", fresh |-> TRUE]

Covering(r, d, p) ==
  r.disposition = "approved" /\ StillCovers(r, Graph(p)) /\ ~r.blocking

(* The truth of such a review requirement, opened.                         *)
LEMMA ApprovedIs ==
  ASSUME NEW d, NEW p
  PROVE  LET about == {r \in Given : r.subject = d} IN
         Approved(d, p) = IF about = {} THEN "unknown"
                          ELSE IF \E r \in about : Covering(r, d, p) THEN "true" ELSE "false"
<1> DEFINE req == AsItStands(d)
           g == Graph(p)
           about == {r \in Given : r.subject = d}
<1>1. /\ req.subject = {d} /\ req.subjectKind = {} /\ req.human = FALSE
      /\ req.result = "approved" /\ req.fresh = TRUE
  BY DEF AsItStands
<1>2. Approved(d, p) = ReviewTruth(req, Given, g)
  BY DEF Approved, AsItStands, Given
<1> HIDE DEF req, g
<1>3. ASSUME NEW r \in Given  PROVE IsAbout(req, r, g) <=> r.subject = d
  BY <1>1 DEF IsAbout
<1>4. Considered(req, Given, g) = about
  BY <1>1, <1>3 DEF Considered
<1>5. ASSUME NEW r
      PROVE  /\ r.disposition = req.result
             /\ req.fresh => StillCovers(r, g)
             /\ req.result = "approved" => ~r.blocking
             <=> Covering(r, d, p)
  BY <1>1 DEF Covering, g
<1> HIDE DEF about
<1> QED  BY <1>2, <1>4, <1>5 DEF ReviewTruth, about

(* A review of a revision covers the document while it stands at that      *)
(* revision.                                                               *)
LEMMA CoversItsRevision ==
  ASSUME NEW p, NEW r, r.subject \in DOMAIN p, r.version # NoVersion,
         p[r.subject].revision \in Nat
  PROVE  StillCovers(r, Graph(p)) <=> r.version = p[r.subject].revision
<1> DEFINE artifact == Graph(p)[r.subject]
<1>1. /\ r.subject \in DOMAIN Graph(p)
      /\ artifact.version = p[r.subject].revision /\ artifact.freshness = "until_superseded"
  BY GraphIs
<1>2. artifact.version # NoVersion
  BY <1>1, DocumentAssumption
<1> HIDE DEF artifact
<1>3. ~((r.version = NoVersion) # (artifact.version = NoVersion))
  BY <1>2
<1>4. artifact.freshness # "always_valid"
  BY <1>1
<1> QED  BY <1>1, <1>3, <1>4 DEF StillCovers, artifact

(* A document that must be reviewed as it stands is approved by a review   *)
(* of a revision until the next command that changes it, and no longer; a  *)
(* command on another document changes nothing about it (requirement.rs,   *)
(* ReviewRequirement::evaluate; review.rs, covers; document.rs, bump).     *)
THEOREM ChangesEndReviews == PlanSpec => ChangeEndsReview
<1>1. ASSUME PlanInv, [PlanNext]_planVars, ~UNCHANGED planVars, NEW d \in DOMAIN plan
      PROVE  IF plan'[d] = plan[d] THEN Approved(d, plan') = Approved(d, plan)
             ELSE Approved(d, plan') # "true"
  <2>1. /\ d \in DOMAIN plan' /\ plan[d].revision \in Nat
        /\ plan'[d] = plan[d] \/ plan'[d].revision = plan[d].revision + 1
    <3>1. plan[d].revision \in Nat
      BY <1>1 DEF PlanInv, DocumentsInv, Document
    <3>2. ASSUME NEW e, Changes(e), e \notin DOMAIN plan \/ Alters(e)
          PROVE  /\ d \in DOMAIN plan'
                 /\ plan'[d] = plan[d] \/ plan'[d].revision = plan[d].revision + 1
      BY <3>2 DEF Changes, Alters
    <3>3. ASSUME UNCHANGED plan
          PROVE  d \in DOMAIN plan' /\ plan'[d] = plan[d]
      BY <3>3
    <3> QED
      BY <1>1, <3>1, <3>2, <3>3, Commands DEF Creates, Moves, Relates, Alters, Record
  <2> DEFINE about == {r \in Given : r.subject = d}
  <2>2. ASSUME NEW r \in about
        PROVE  /\ r.subject = d /\ r.version # NoVersion
               /\ r.version \in Nat /\ r.version <= plan[d].revision
    BY <2>1, <1>1 DEF Given, PlanInv, ReviewsInv
  <2>3. ASSUME NEW r \in about
        PROVE  /\ StillCovers(r, Graph(plan)) <=> r.version = plan[d].revision
               /\ StillCovers(r, Graph(plan')) <=> r.version = plan'[d].revision
    <3>1. plan'[d].revision \in Nat
      BY <2>1
    <3> QED  BY <2>1, <2>2, <3>1, CoversItsRevision
  <2>4. CASE plan'[d] = plan[d]
    <3>1. ASSUME NEW r \in about  PROVE Covering(r, d, plan') <=> Covering(r, d, plan)
      BY <2>3, <2>4 DEF Covering
    <3> QED  BY <2>4, <3>1, ApprovedIs
  <2>5. CASE plan'[d] # plan[d]
    <3>1. ASSUME NEW r \in about  PROVE ~Covering(r, d, plan')
      BY <2>1, <2>2, <2>3, <2>5 DEF Covering
    <3> QED  BY <2>5, <3>1, ApprovedIs
  <2> QED  BY <2>4, <2>5
<1>2. PlanInv /\ [PlanNext]_planVars =>
        [\A d \in DOMAIN plan :
           IF plan'[d] = plan[d] THEN Approved(d, plan') = Approved(d, plan)
           ELSE Approved(d, plan') # "true"]_planVars
  BY <1>1
<1> QED  BY <1>2, PlanInvHolds, PTL DEF PlanSpec, ChangeEndsReview

---------------------------------------------------------------------------
(* The graph builds.                                                       *)

(* A plan that builds keeps building, except when `new` declares an edge   *)
(* to a document the store does not hold: `relate` closes no cycle and     *)
(* leaves no edge to nothing (planning.rs, relate).                        *)
THEOREM PlansKeepBuilding == PlanSpec => OnlyNewBreaksThePlan
<1>1. ASSUME PlanInv, [PlanNext]_planVars, Buildable(Graph(plan)), ~Buildable(Graph(plan'))
      PROVE  \E d \in DOMAIN plan' \ DOMAIN plan :
               \E edge \in plan'[d].relations : edge[2] \notin DOMAIN plan
  <2>1. plan' # plan
    BY <1>1
  <2>2. ASSUME NEW d \in ArtifactId, NEW to \in Status, Moves(d, to)  PROVE FALSE
    <3>1. /\ DOMAIN plan' = DOMAIN plan
          /\ \A a \in DOMAIN plan : plan'[a].relations = plan[a].relations
      BY <2>2 DEF Moves, Alters, Changes
    <3>2. SameEdges(Graph(plan), Graph(plan'))
      BY <3>1, GraphOf DEF SameEdges
    <3> QED  BY <1>1, <3>2, EdgesDecide
  <2>3. ASSUME NEW d \in ArtifactId, NEW edges \in NewEdges, Creates(d, edges)
        PROVE  \E edge \in plan'[d].relations : edge[2] \notin DOMAIN plan
    <3>1. SUFFICES ASSUME \A edge \in plan'[d].relations : edge[2] \in DOMAIN plan
                   PROVE  FALSE
      OBVIOUS
    <3> DEFINE g == Graph(plan)
               h == Graph(plan')
    <3>2. /\ d \notin DOMAIN g /\ DOMAIN h = DOMAIN g \cup {d}
          /\ \A a \in DOMAIN g : h[a].relations = g[a].relations
          /\ \A edge \in h[d].relations : edge[2] \in DOMAIN g
      <4>1. /\ d \notin DOMAIN plan /\ DOMAIN plan' = DOMAIN plan \cup {d}
            /\ \A a \in DOMAIN plan : plan'[a] = plan[a]
        BY <2>3 DEF Creates, Changes
      <4> QED  BY <3>1, <4>1, GraphOf
    <3> HIDE DEF g, h
    <3>3. Buildable(h)
      BY <1>1, <3>2, SourcesAreHarmless DEF g
    <3> QED  BY <1>1, <3>3 DEF h
  <2> QED
    BY <1>1, <2>1, <2>2, <2>3, Commands DEF planVars, Creates, Changes, Relates, Record
<1>2. PlanInv /\ [PlanNext]_planVars =>
        [Buildable(Graph(plan)) /\ ~Buildable(Graph(plan')) =>
           \E d \in DOMAIN plan' \ DOMAIN plan :
             \E edge \in plan'[d].relations : edge[2] \notin DOMAIN plan]_planVars
  BY <1>1
<1> QED  BY <1>2, PlanInvHolds, PTL DEF PlanSpec, OnlyNewBreaksThePlan

=============================================================================
