--------------------------- MODULE MCPlanningStore ---------------------------
(* Two epics and a story: written, related either way and moved, while a   *)
(* driver reads.                                                           *)
EXTENDS PlanningStore, TLC

MCArtifactId == {1, 2, 3}
MCKind == {"epic", "story"}
MCParent == [k \in {} |-> "epic"]
MCKindOf == <<"epic", "epic", "story">>
MCRelation == {"derived_from"}

Moves(given) == [s \in Status |-> IF s \in DOMAIN given THEN given[s] ELSE {}]

MCLifecycles ==
  [k \in {"epic", "story"} |->
     [initial |-> "draft",
      moves |-> Moves([draft |-> {"proposed", "archived"}, proposed |-> {"draft", "active", "rejected"},
                       active |-> {"implemented", "archived"}, implemented |-> {"archived"},
                       rejected |-> {"archived"}])]]

New(d, edges) == [op |-> "new", doc |-> d, edges |-> edges]
MoveJob(d, to) == [op |-> "move", doc |-> d, to |-> to]
RelateJob(d, e) == [op |-> "relate", doc |-> d, edge |-> <<"derived_from", e>>]

MCJobs ==
  {New(1, {}), New(2, {}), New(3, {<<"derived_from", 1>>}),
   MoveJob(1, "proposed"), RelateJob(1, 2), RelateJob(2, 3), [op |-> "read"]}

(* Processes are interchangeable.                                          *)
Symmetry == Permutations(Process)
=============================================================================
