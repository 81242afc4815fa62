-------------------------- MODULE PlanningDocument --------------------------
(***************************************************************************)
(* One document of the plan and what a command does to it:                 *)
(* crates/aep-backend-markdown/src/document.rs and frontmatter.rs.  The    *)
(* body is prose nobody interprets and is left out.                        *)
(***************************************************************************)
EXTENDS Artifacts

CONSTANTS
  KindOf,       \* the kind of a document: an id begins with its kind
  MaxRevision   \* bound: revisions of one document

ASSUME DocumentAssumption ==
  /\ KindOf \in [ArtifactId -> Kind]
  /\ MaxRevision \in Nat \ {0}
  /\ NoVersion \notin Nat

Document ==
  [kind : Kind, status : Status, revision : 1 .. MaxRevision,
   relations : SUBSET (Relation \X ArtifactId)]

(* PlanningFrontmatter::to_artifact: the version is the revision, and the  *)
(* freshness policy is the default one.                                    *)
ToArtifact(document) ==
  [kind |-> document.kind, status |-> document.status, version |-> document.revision,
   freshness |-> "until_superseded", relations |-> document.relations]

Graph(documents) == [d \in DOMAIN documents |-> ToArtifact(documents[d])]

Fresh(d, edges) ==
  [kind |-> KindOf[d], status |-> LifecycleOf(KindOf[d]).initial, revision |-> 1,
   relations |-> edges]

Bumped(document) == [document EXCEPT !.revision = @ + 1]

(* Mutant: a move rewrites the status and leaves the revision alone.       *)
MovedInPlace(document, to) == [document EXCEPT !.status = to]

MovedTo(document, to) == Bumped([document EXCEPT !.status = to])

RelatedTo(document, edge) == Bumped([document EXCEPT !.relations = @ \cup {edge}])

Put(documents, d, document) ==
  [e \in DOMAIN documents \cup {d} |-> IF e = d THEN document ELSE documents[e]]
=============================================================================
