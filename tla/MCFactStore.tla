---------------------------- MODULE MCFactStore ----------------------------
(* Four facts read by the four forms of leaf, and composites that nest     *)
(* conjunction, disjunction and negation both ways.                        *)
EXTENDS FactStore

Fact(p) == [is |-> "fact", path |-> p]
Literal(v) == [is |-> "literal", value |-> v]

MCBody ==
  << [op |-> "compare", left |-> Fact("tests.failed"), cmp |-> "eq", right |-> Literal(Number(0))],
     [op |-> "compare", left |-> Fact("risk"), cmp |-> "ge", right |-> Literal(Text("medium"))],
     [op |-> "truthy", path |-> "diff.exists"],
     [op |-> "none_of", path |-> "scope", values |-> {Text("docs")}],
     [op |-> "defined", path |-> "diff.exists"],
     [op |-> "compare", left |-> Fact("tests.failed"), cmp |-> "lt", right |-> Fact("risk")],
     [op |-> "all", of |-> <<1, 3>>],
     [op |-> "any", of |-> <<2, 4>>],
     [op |-> "not", of |-> 7],
     [op |-> "not", of |-> 8],
     [op |-> "all", of |-> <<9, 8>>],
     [op |-> "any", of |-> <<7, 10>>],
     [op |-> "not", of |-> 12],
     [op |-> "never"],
     [op |-> "always"],
     [op |-> "any", of |-> <<3, 14>>],
     [op |-> "all", of |-> <<5, 15>>],
     [op |-> "not", of |-> 11] >>

MCScales == {<<"low", "medium", "high">>, <<"medium", "high", "critical">>}

MCObservable ==
  [p \in {"tests.failed", "risk", "diff.exists", "scope"} |->
     CASE p = "tests.failed" -> {Number(0), Number(2)}
       [] p = "risk" -> {Text("low"), Text("high"), Text("unheard of")}
       [] p = "diff.exists" -> {Bool(TRUE), Bool(FALSE)}
       [] p = "scope" -> {Text("docs"), Text("code")}]

=============================================================================
