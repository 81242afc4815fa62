----------------------------- MODULE Predicates -----------------------------
(***************************************************************************)
(* Conditions over facts: crates/aep-domain/src/predicate.rs, with the     *)
(* ordered scales of facts.rs.                                             *)
(*                                                                         *)
(* A document's predicates are the nodes of a table: Body[n] says what n   *)
(* is and names its children.  A table and a function over it stand for    *)
(* the recursive type and its recursive methods.                           *)
(***************************************************************************)
EXTENDS Naturals, Sequences, FiniteSets, Functions

CONSTANTS
  Node,    \* the predicates a document holds
  Body,    \* what each of them is
  Scales   \* the protocol's ordered scales: a set of sequences of texts

Truth == {"true", "false", "unknown"}

Composite == {"all", "any", "not"}

Leaf == {n \in Node : Body[n].op \notin Composite \cup {"always", "never"}}

(* Children are listed before their parents, so a table holds no cycle.    *)
Children(n) ==
  CASE Body[n].op \in {"all", "any"} -> Range(Body[n].of)
    [] Body[n].op = "not" -> {Body[n].of}
    [] OTHER -> {}

ASSUME TableAssumption ==
  /\ Node \subseteq Nat
  /\ \A n \in Node :
       Body[n].op \in Composite \cup {"always", "never", "compare", "truthy", "defined", "any_of", "none_of"}
  /\ \A n \in Node : \A c \in Children(n) : c \in Node /\ c < n
  /\ \A n \in Node : Body[n].op = "compare" =>
       {Body[n].left.is, Body[n].right.is} \subseteq {"fact", "literal"}

---------------------------------------------------------------------------
(* Kleene's connectives                                                    *)

FromBool(b) == IF b THEN "true" ELSE "false"

And(truths) ==
  IF "false" \in truths THEN "false"
  ELSE IF "unknown" \in truths THEN "unknown" ELSE "true"

Or(truths) ==
  IF "true" \in truths THEN "true"
  ELSE IF "unknown" \in truths THEN "unknown" ELSE "false"

Not(t) ==
  CASE t = "true" -> "false" [] t = "false" -> "true" [] OTHER -> "unknown"

---------------------------------------------------------------------------
(* A fact value is a type and a value; a fact source is a function whose   *)
(* domain is the paths that are bound.                                     *)

Number(k) == [type |-> "number", value |-> k]
Text(s)   == [type |-> "text", value |-> s]
Bool(b)   == [type |-> "bool", value |-> b]

Same(left, right) == left.type = right.type /\ left.value = right.value

IsTruthy(v) ==
  CASE v.type = "bool" -> v.value
    [] v.type = "number" -> v.value # 0
    [] v.type = "text" -> v.value \notin {"", "false"}

(* Mutant: a path nobody observed reads as a fact that does not hold.      *)
TruthyAbsentIsFalse(facts, path) ==
  IF path \notin DOMAIN facts THEN "false"
  ELSE FromBool(IsTruthy(facts[path]))

Truthy(facts, path) ==
  IF path \notin DOMAIN facts THEN "unknown"
  ELSE FromBool(IsTruthy(facts[path]))

(* Rank on a scale: the first position of a text.                          *)
Rank(scale, text) ==
  CHOOSE i \in DOMAIN scale : scale[i] = text /\ \A j \in 1 .. i - 1 : scale[j] # text

Order(i, j) == IF i < j THEN "less" ELSE IF i = j THEN "equal" ELSE "greater"

(* The orderings the scales that hold both texts give; one is an answer.   *)
Orderings(left, right) ==
  {Order(Rank(s, left), Rank(s, right)) :
     s \in {s \in Scales : left \in Range(s) /\ right \in Range(s)}}

Accepts(cmp, order) ==
  CASE cmp = "eq" -> order = "equal"
    [] cmp = "ne" -> order # "equal"
    [] cmp = "lt" -> order = "less"
    [] cmp = "le" -> order # "greater"
    [] cmp = "gt" -> order = "greater"
    [] cmp = "ge" -> order # "less"

(* evaluate_compare, once both sides are resolved.                         *)
CompareValues(left, cmp, right) ==
  CASE left.type = "number" /\ right.type = "number" ->
         FromBool(Accepts(cmp, Order(left.value, right.value)))
    [] cmp \in {"eq", "ne"} /\ ~(left.type = "number" /\ right.type = "number") ->
         FromBool((cmp = "eq") = Same(left, right))
    [] left.type = "text" /\ right.type = "text" /\ cmp \notin {"eq", "ne"} ->
         IF Cardinality(Orderings(left.value, right.value)) = 1
         THEN FromBool(Accepts(cmp, CHOOSE o \in Orderings(left.value, right.value) : TRUE))
         ELSE "unknown"
    [] OTHER -> "unknown"

(* Operand::resolve: a fact or a literal, as a set of at most one value.   *)
Resolve(facts, operand) ==
  IF operand.is = "literal" THEN {operand.value}
  ELSE IF operand.path \in DOMAIN facts THEN {facts[operand.path]} ELSE {}

Compare(facts, left, cmp, right) ==
  LET answers == {CompareValues(l, cmp, r) : l \in Resolve(facts, left),
                                             r \in Resolve(facts, right)}
  IN IF answers = {} THEN "unknown" ELSE CHOOSE t \in answers : TRUE

Defined(facts, path) == FromBool(path \in DOMAIN facts)

Member(facts, path, values) ==
  IF path \notin DOMAIN facts THEN "unknown" ELSE FromBool(\E v \in values : Same(facts[path], v))

LeafTruth(facts, n) ==
  LET b == Body[n] IN
  CASE b.op = "compare" -> Compare(facts, b.left, b.cmp, b.right)
    [] b.op = "truthy"  -> Truthy(facts, b.path)
    [] b.op = "defined" -> Defined(facts, b.path)
    [] b.op = "any_of"  -> Member(facts, b.path, b.values)
    [] b.op = "none_of" -> Not(Member(facts, b.path, b.values))

(* fact_paths: what a predicate reads.                                     *)
LeafPaths(n) ==
  LET b == Body[n] IN
  IF b.op = "compare"
  THEN {o.path : o \in {o \in {b.left, b.right} : o.is = "fact"}}
  ELSE {b.path}

Paths[n \in Node] ==
  IF n \in Leaf THEN LeafPaths(n) ELSE UNION {Paths[c] : c \in Children(n)}

---------------------------------------------------------------------------
(* Predicate::evaluate, over what the leaves say                           *)

Verdict(leaf, truth, n) ==
  CASE Body[n].op = "always" -> "true"
    [] Body[n].op = "never" -> "false"
    [] Body[n].op = "all" -> And({truth[c] : c \in Children(n)})
    [] Body[n].op = "any" -> Or({truth[c] : c \in Children(n)})
    [] Body[n].op = "not" -> Not(truth[Body[n].of])
    [] OTHER -> leaf[n]

Evaluate(leaf) ==
  LET truth[n \in Node] == Verdict(leaf, truth, n)
  IN truth

Leaves(facts) == [n \in Leaf |-> LeafTruth(facts, n)]

TruthIn(facts) == Evaluate(Leaves(facts))

(* Whether a truth satisfies what is asked of a node, under a negation or  *)
(* not.                                                                    *)
Satisfied(truth, negated) == truth = IF negated THEN "false" ELSE "true"

(* Mutant: a negated leaf is taken as satisfied when it holds.             *)
CausesIgnoreNegation(leaf) ==
  LET truth == Evaluate(leaf)
      causes[n \in Node] == [negated \in BOOLEAN |->
        CASE Body[n].op \in {"all", "any"} ->
               IF Satisfied(truth[n], negated) THEN {}
               ELSE UNION {causes[c][negated] :
                             c \in {c \in Children(n) :
                                      (Body[n].op = "all") # negated
                                        => ~Satisfied(truth[c], negated)}}
          [] Body[n].op = "not" -> causes[Body[n].of][~negated]
          [] Body[n].op = "always" -> {}
          [] Body[n].op = "never" -> IF Satisfied("false", negated) THEN {} ELSE {<<n, negated>>}
          [] OTHER -> IF Satisfied(truth[n], FALSE) THEN {} ELSE {<<n, negated>>}]
  IN causes

(* collect_causes: the leaves responsible for a result that is not         *)
(* satisfied, each with the polarity it is asked in.                       *)
Causes(leaf) ==
  LET truth == Evaluate(leaf)
      causes[n \in Node] == [negated \in BOOLEAN |->
        CASE Body[n].op \in {"all", "any"} ->
               IF Satisfied(truth[n], negated) THEN {}
               ELSE UNION {causes[c][negated] :
                             c \in {c \in Children(n) :
                                      (Body[n].op = "all") # negated
                                        => ~Satisfied(truth[c], negated)}}
          [] Body[n].op = "not" -> causes[Body[n].of][~negated]
          [] Body[n].op = "always" -> {}
          [] Body[n].op = "never" -> IF Satisfied("false", negated) THEN {} ELSE {<<n, negated>>}
          [] OTHER -> IF Satisfied(truth[n], negated) THEN {} ELSE {<<n, negated>>}]
  IN causes

=============================================================================
