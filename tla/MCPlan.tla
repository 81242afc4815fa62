------------------------------- MODULE MCPlan -------------------------------
(* Two designs, one of them of a specialised kind, and a decision, under   *)
(* the lifecycles of artifacts/lifecycles/.                                *)
EXTENDS Plan

Moves(given) == [s \in Status |-> IF s \in DOMAIN given THEN given[s] ELSE {}]

DesignMoves == Moves(
  [draft |-> {"in_review", "archived"}, in_review |-> {"draft", "approved", "rejected"},
   approved |-> {"implemented", "superseded", "archived"},
   implemented |-> {"superseded", "archived"},
   rejected |-> {"archived"}, superseded |-> {"archived"}])

DecisionMoves == Moves(
  [proposed |-> {"accepted", "rejected"}, accepted |-> {"superseded"}])

MCArtifactId == {1, 2, 3}
MCKind == {"design", "api-design", "adr"}
MCParent == [k \in {"api-design"} |-> "design"]
MCKindOf == <<"design", "api-design", "adr">>

MCLifecycles ==
  [k \in {"design", "adr"} |->
     IF k = "design" THEN [initial |-> "draft", moves |-> DesignMoves]
     ELSE [initial |-> "proposed", moves |-> DecisionMoves]]

MCRelation == {"supersedes"}

(* No edge, an edge to either design, an edge of a document to itself.     *)
MCNewEdges == {{}} \cup {{<<"supersedes", d>>} : d \in {1, 2}}

Req(k, statuses, n) ==
  [kind |-> k, status |-> statuses, atLeast |-> n, fresh |-> TRUE, relation |-> {}]

MCRequirements ==
  {Req("design", {"approved"}, 1), Req("design", {}, 2), Req("api-design", {"approved"}, 1),
   [Req("adr", {"accepted"}, 1) EXCEPT
      !.relation = {[relation |-> "supersedes", target |-> {"design"}]}]}

(* A person approves the design the other documents may replace.           *)
MCReviews ==
  [subject : {1}, subjectKind : {{}}, human : {TRUE}, blocking : {FALSE},
   disposition : {"approved"}, version : 1 .. MaxRevision \cup {NoVersion}]
=============================================================================
