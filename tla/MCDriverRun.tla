---------------------------- MODULE MCDriverRun ----------------------------
(* A three-state plan: `work` runs an llm step and a suite, `review` waits *)
(* for a person and goes back to `work`, `done` ends.                      *)
EXTENDS DriverRun

PlanStates == {"work", "review", "done"}

PlanTransitions ==
  << [from |-> "work",   to |-> "review", guard |-> {}],
     [from |-> "review", to |-> "done",   guard |-> {<<"artifact", "present">>}],
     [from |-> "review", to |-> "work",   guard |-> {<<"test", "fail">>}] >>

PlanCompletion == {<<"test", "pass">>}

PlanSteps ==
  [s \in PlanStates |->
     CASE s = "work"   -> << [type |-> "llm", retry |-> 0],
                             [type |-> "command", kind |-> "test", retry |-> 1] >>
       [] s = "review" -> << [type |-> "operator", retry |-> 0] >>
       [] s = "done"   -> << >>]

PlanVisits == [s \in PlanStates |-> IF s = "work" THEN 2 ELSE 1]

(* One state that re-enters itself until its suite passes.                 *)
LoopStates == {"work", "done"}

LoopTransitions ==
  << [from |-> "work", to |-> "done", guard |-> {<<"test", "pass">>}],
     [from |-> "work", to |-> "work", guard |-> {<<"test", "fail">>}] >>

LoopSteps ==
  [s \in LoopStates |->
     IF s = "work" THEN << [type |-> "command", kind |-> "test", retry |-> 0] >> ELSE << >>]

LoopVisits == [s \in LoopStates |-> 1]

=============================================================================
