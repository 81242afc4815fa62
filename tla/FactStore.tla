----------------------------- MODULE FactStore -----------------------------
(***************************************************************************)
(* A fact store while facts are observed, observed again with another      *)
(* value, and withheld once the record behind them has lapsed              *)
(* (crates/aep-domain/src/facts.rs, crates/aep-engine/src/execution.rs),   *)
(* and what a document's predicates say of it.  Its definitions are named  *)
(* for the facts, to be read beside those of Engine.                       *)
(***************************************************************************)
EXTENDS Predicates

CONSTANTS
  Observable   \* the values each path may be observed with

VARIABLES
  facts        \* the paths that are bound, with their values

Path == DOMAIN Observable

FactsInit == facts = <<>>

(* FactStore::set: binds, replacing any previous binding.                  *)
Observe(p, v) == facts' = [q \in DOMAIN facts \cup {p} |-> IF q = p THEN v ELSE facts[q]]

(* refresh_facts, without a record that has lapsed: its fact is absent.    *)
Withhold(p) ==
  /\ p \in DOMAIN facts
  /\ facts' = [q \in DOMAIN facts \ {p} |-> facts[q]]

FactsNext ==
  \/ \E p \in Path : \E v \in Observable[p] : Observe(p, v)
  \/ \E p \in Path : Withhold(p)

FactsSpec == FactsInit /\ [][FactsNext]_facts

---------------------------------------------------------------------------
(* Every binding is an observable value, and every predicate has one of    *)
(* the three truths.                                                       *)
FactsTypeOK ==
  /\ DOMAIN facts \subseteq Path
  /\ \A p \in DOMAIN facts : facts[p] \in Observable[p]
  /\ TruthIn(facts) \in [Node -> Truth]

(* The nodes no `defined` is in: the ones that read values only.           *)
ReadsValues[n \in Node] ==
  Body[n].op # "defined" /\ \A c \in Children(n) : ReadsValues[c]

Looked   == DOMAIN facts \subseteq DOMAIN facts' /\ DOMAIN facts # DOMAIN facts'
Withheld == DOMAIN facts' \subseteq DOMAIN facts /\ DOMAIN facts # DOMAIN facts'

(* Observing a path for the first time only ever settles a predicate, and  *)
(* withholding it only unsettles: no truth is reversed by looking or by    *)
(* not looking.  It is what makes a lapse a refusal for want of knowledge. *)
InformationNeverReverses ==
  [][\A n \in Node : ReadsValues[n] =>
       /\ Looked =>
            TruthIn(facts)[n] \in {"unknown", TruthIn(facts')[n]}
       /\ Withheld =>
            TruthIn(facts')[n] \in {"unknown", TruthIn(facts)[n]}]_facts

(* The predicates whose leaves are all distinct, so that what is asked of  *)
(* one leaf never contradicts what is asked of another, and that hold a    *)
(* leaf in every branch.                                                   *)
LeavesBelow[n \in Node] ==
  IF n \in Leaf THEN {n} ELSE UNION {LeavesBelow[c] : c \in Children(n)}

Repairable[n \in Node] ==
  \/ n \in Leaf
  \/ /\ Body[n].op \in Composite /\ Children(n) # {}
     /\ \A c \in Children(n) : Repairable[c]
     /\ \A c, d \in Children(n) : c # d => LeavesBelow[c] \cap LeavesBelow[d] = {}

(* The causes an outcome names are enough to act on: were each of them to  *)
(* become what is asked of it, and nothing else to change, the predicate   *)
(* would hold (predicate.rs, outcome).                                     *)
RepairingTheCausesSatisfies ==
  \A n \in Node : Repairable[n] =>
    LET leaf == Leaves(facts)
        causes == Causes(leaf)[n][FALSE]
        repaired == [l \in Leaf |->
                       IF <<l, FALSE>> \in causes THEN "true"
                       ELSE IF <<l, TRUE>> \in causes THEN "false" ELSE leaf[l]]
    IN Evaluate(repaired)[n] = "true"

(* "A withheld fact is absent, and an absent fact evaluates to Unknown -   *)
(* never False" (execution.rs 383-385).                                    *)
WithheldIsNeverFalse ==
  [][\A n \in Leaf : Withheld /\ TruthIn(facts)[n] # "false"
       => TruthIn(facts')[n] # "false"]_facts

=============================================================================
