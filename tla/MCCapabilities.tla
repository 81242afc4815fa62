--------------------------- MODULE MCCapabilities ---------------------------
(* Two profiles, one extending the other, two principles, tasks that need  *)
(* a denied capability or drop a principle, and a state that grants        *)
(* deployment, one that denies it and one that gates it.                   *)
EXTENDS Capabilities

Cap(name, env) == [name |-> name, env |-> env]

Write == Cap("production.write", "none")
Staging == Cap("deployment.create", "staging")
Production == Cap("deployment.create", "production")
Anywhere == Cap("deployment.create", "*")

MCRequest == {Write, Staging, Production, Anywhere}
MCDeclared == {Write, Anywhere}
MCFloor == {Production}

Silent == Policy({}, {}, {})

Guarded ==
  [capabilities |-> Policy({Staging}, {}, {}), principles |-> <<"least">>, without |-> {}]
Plain == [capabilities |-> Policy({Staging, Write}, {}, {}), principles |-> <<>>, without |-> {}]
Wide == [capabilities |-> Policy({Write}, {Anywhere}, {}), principles |-> <<"gates">>, without |-> {}]
Loose == [capabilities |-> Policy({Anywhere}, {}, {}), principles |-> <<>>, without |-> {"least"}]

MCChains == {<<Guarded>>, <<Plain>>, <<Guarded, Wide>>, <<Guarded, Loose>>, <<Plain, Guarded>>}
MCPrinciple ==
  [p \in {"least", "gates"} |->
     IF p = "least"
     THEN [capabilities |-> Policy({}, {Write}, {}), applies |-> "true"]
     ELSE [capabilities |-> Policy({}, {}, {Write}), applies |-> "unknown"]]

Asks(needs, add, remove) ==
  [capabilities |-> Policy(needs, {}, {}), add |-> add, remove |-> remove]

MCTasks ==
  {Asks({}, <<>>, {}), Asks({Write}, <<"gates">>, {}), Asks({}, <<"gates">>, {}),
   Asks({Staging}, <<>>, {"least"})}
MCState ==
  [s \in {"build", "promote", "freeze"} |->
     CASE s = "build" -> Silent
       [] s = "promote" -> Policy({Anywhere, Write}, {}, {})
       [] s = "freeze" -> Policy({}, {}, {Staging})]

=============================================================================
