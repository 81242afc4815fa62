---------------------------- MODULE MCEventStream ----------------------------
(* Two calls, three results, and a document per severity and order.        *)
EXTENDS EventStream

None == [at_least |-> Absent, at_most |-> Absent, exactly |-> Absent]
AtLeast(n) == [None EXCEPT !.at_least = n]
AtMost(n) == [None EXCEPT !.at_most = n]
Exactly(n) == [None EXCEPT !.exactly = n]
Between(a, b) == [None EXCEPT !.at_least = a, !.at_most = b]

Bash == [tool |-> "Bash", arg |-> Absent]
Skill == [tool |-> "Skill", arg |-> "planning"]
AnyTool == [tool |-> Absent, arg |-> Absent]

AllCalls == {[tool |-> "Bash", arg |-> "ls"], Skill}

SomeResults ==
  {[is_error |-> FALSE, says |-> "yes", bytes |-> 1, took |-> 1],
   [is_error |-> TRUE, says |-> "no", bytes |-> 3, took |-> Absent],
   [is_error |-> Absent, says |-> Absent, bytes |-> 0, took |-> 3]}

About(kind, selector, bound, severity, on_unknown) ==
  [kind |-> kind, selector |-> selector, bound |-> bound,
   severity |-> severity, on_unknown |-> on_unknown]

Gate(kind, selector, bound) == About(kind, selector, bound, "gate", "unk")

Finished ==
  [kind |-> "record", record |-> "outcome", field |-> "is_error", equals |-> FALSE,
   severity |-> "gate", on_unknown |-> "gap"]

Bytes(per, bound) ==
  [kind |-> "tool.result_bytes", selector |-> AnyTool, bound |-> bound, per |-> per,
   severity |-> "gate", on_unknown |-> "unk"]

(* Every kind that counts.                                                 *)
Counted ==
  <<Gate("tool.called", AnyTool, AtLeast(1)), Gate("tool.called", Bash, Between(0, 1)),
    Gate("tool.failed", AnyTool, AtMost(0)), Gate("skill.completed", Skill, Exactly(1)),
    Gate("tool.repeated", AnyTool, AtMost(0)), Bytes("total", AtMost(2))>>

Strict ==
  <<Gate("skill.invoked", Skill, Exactly(1)), Finished, Gate("tool.absent", Bash, None)>>

Lenient ==
  <<About("tool.absent", Bash, None, "advisory", "unk"), Gate("skill.completed", Skill, AtLeast(1)),
    Gate("tool.called", AnyTool, AtMost(2))>>

(* A total alone, so that nothing beside it decides the report.            *)
Measured == <<Bytes("total", AtMost(2)), Bytes("total", AtLeast(1))>>

CountingDocuments == {Measured, Counted, Strict, Lenient}

(* The kinds that read what is there.                                      *)
Reading ==
  <<Gate("tool.result", AnyTool, None), Gate("tool.error_rate", AnyTool, AtMost(50)),
    Gate("step.exec_time", AnyTool, AtMost(2)), Bytes("each", AtMost(2)),
    [kind |-> "order", selector |-> Skill, before |-> Bash, severity |-> "gate", on_unknown |-> "unk"],
    [kind |-> "record", record |-> "text", field |-> "says", equals |-> "asked for",
     severity |-> "gate", on_unknown |-> "unk"],
    [kind |-> "record", record |-> "rate_limit", field |-> "status", equals |-> "allowed",
     severity |-> "gate", on_unknown |-> "unk"],
    [kind |-> "count", record |-> "outcome", field |-> "permission_denials", bound |-> AtMost(0),
     severity |-> "gate", on_unknown |-> "unk"]>>

ReadingDocuments == {Reading}
AllDocuments == CountingDocuments \cup ReadingDocuments
=============================================================================
