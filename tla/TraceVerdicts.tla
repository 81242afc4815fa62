---------------------------- MODULE TraceVerdicts ----------------------------
(***************************************************************************)
(* The verdict of a trace specification on one run                         *)
(* (crates/trace-spec/src/check.rs and report.rs over trace-domain's ir.rs *)
(* and matcher.rs).  A run is a sequence of events as an adapter left      *)
(* them; an event it could not read is there as an opaque record.          *)
(*                                                                         *)
(* Citations and reasons are left out: an outcome is "ok", "gap" or "unk". *)
(* A call carries one argument and a result one matched field, which is    *)
(* what a selector and a result matcher ask of them.                       *)
(***************************************************************************)
EXTENDS Integers, FiniteSets, FiniteSetsExt, SequencesExt

CONSTANT Absent   \* a field nobody wrote, a side a bound does not state

-----------------------------------------------------------------------------
(* CountBound.                                                             *)

HoldsFor(bound, n) ==
  IF bound.exactly # Absent THEN n = bound.exactly
  ELSE /\ bound.at_least = Absent \/ n >= bound.at_least
       /\ bound.at_most = Absent \/ n <= bound.at_most

Ceiling(bound) == IF bound.exactly # Absent THEN bound.exactly ELSE bound.at_most

Said(condition) == IF condition THEN "ok" ELSE "gap"

(* Mutant: the count that was read is the count.                           *)
DecideAsRead(bound, observed, may_grow) == Said(HoldsFor(bound, observed))

(* Mutant: a bound that holds now holds, whatever its ceiling.             *)
DecideTooSoon(bound, observed, may_grow) ==
  CASE HoldsFor(bound, observed) -> "ok"
    [] ~may_grow -> "gap"
    [] OTHER -> "unk"

(* decide_count: a count that may still be larger decides a bound only     *)
(* when no larger value would decide it otherwise.                         *)
DecideCount(bound, observed, may_grow) ==
  CASE ~may_grow -> Said(HoldsFor(bound, observed))
    [] may_grow /\ HoldsFor(bound, observed) /\ Ceiling(bound) = Absent -> "ok"
    [] may_grow /\ Ceiling(bound) # Absent /\ observed > Ceiling(bound) -> "gap"
    [] OTHER -> "unk"

-----------------------------------------------------------------------------
(* TraceIr: events are found by position.                                  *)

EventsOf(ir, kind) == {i \in DOMAIN ir : ir[i].kind = kind}

HasUnread(ir) == EventsOf(ir, "opaque") # {}

(* An argument the call does not carry is not matched.                     *)
Selects(selector, call) ==
  /\ selector.tool = Absent \/ call.tool = selector.tool
  /\ selector.arg = Absent \/ call.arg = selector.arg

Selected(ir, selector) == {i \in EventsOf(ir, "call") : Selects(selector, ir[i])}

(* The first result that names the call; none for a call without an id.    *)
ResultOf(ir, call) ==
  LET results == {i \in EventsOf(ir, "result") : ir[i].call = ir[call].id}
  IN IF results = {} THEN {} ELSE {Min(results)}

Answered(ir, calls) == {c \in calls : ResultOf(ir, c) # {}}

Result(ir, call) == ir[Min(ResultOf(ir, call))]

RepetitionKey(call) == <<call.tool, call.arg>>

-----------------------------------------------------------------------------
(* The expectations over calls.                                            *)

ToolCalled(x, ir) ==
  DecideCount(x.bound, Cardinality(Selected(ir, x.selector)), HasUnread(ir))

ToolAbsent(x, ir) ==
  CASE Selected(ir, x.selector) # {} -> "gap"
    [] HasUnread(ir) -> "unk"
    [] OTHER -> "ok"

(* A skill's own result says in one field whether it completed.            *)
SkillCompleted(x, ir) ==
  LET calls == Selected(ir, x.selector)
      read == {c \in Answered(ir, calls) : Result(ir, c).says # Absent}
      completed == {c \in read : Result(ir, c).says = "yes"}
  IN DecideCount(x.bound, Cardinality(completed), HasUnread(ir) \/ read # calls)

(* failures.                                                               *)
Flagged(ir, calls) == {c \in Answered(ir, calls) : Result(ir, c).is_error # Absent}
Failed(ir, calls) == {c \in Flagged(ir, calls) : Result(ir, c).is_error}

ToolFailed(x, ir) ==
  LET calls == Selected(ir, x.selector)
  IN IF calls = {} THEN "unk"
     ELSE DecideCount(x.bound, Cardinality(Failed(ir, calls)),
                      HasUnread(ir) \/ Flagged(ir, calls) # calls)

(* Here the bound is a rate in parts of a hundred.                         *)
ToolErrorRate(x, ir) ==
  LET calls == Selected(ir, x.selector)
  IN IF calls = {} \/ Flagged(ir, calls) # calls THEN "unk"
     ELSE Said(HoldsFor(x.bound, (100 * Cardinality(Failed(ir, calls))) \div Cardinality(calls)))

ToolRepeated(x, ir) ==
  LET calls == Selected(ir, x.selector)
      groups == {RepetitionKey(ir[c]) : c \in calls}
      repeated == {k \in groups : Cardinality({c \in calls : RepetitionKey(ir[c]) = k}) > 1}
  IN DecideCount(x.bound, Cardinality(repeated), HasUnread(ir))

ToolResultMatches(x, ir) ==
  LET calls == Selected(ir, x.selector)
      says == {Result(ir, c).says : c \in Answered(ir, calls)}
  IN CASE calls = {} -> "unk"
       [] "no" \in says -> "gap"
       [] Answered(ir, calls) # calls \/ Absent \in says -> "unk"
       [] OTHER -> "ok"

ToolResultBytes(x, ir) ==
  LET calls == Selected(ir, x.selector)
      size(c) == Result(ir, c).bytes
  IN CASE calls = {} \/ Answered(ir, calls) # calls -> "unk"
       [] x.per = "total" /\ calls # {} /\ Answered(ir, calls) = calls ->
            DecideCount(x.bound, MapThenSumSet(size, calls), HasUnread(ir))
       [] OTHER -> Said(\A c \in calls : HoldsFor(x.bound, size(c)))

(* step_time: from a call to its result.  A time that cannot be stated     *)
(* ends the reading, whatever the other steps took.                        *)
StepExecTime(x, ir) ==
  LET calls == Selected(ir, x.selector)
      took(c) == IF ResultOf(ir, c) = {} THEN Absent ELSE Result(ir, c).took
  IN IF calls = {} \/ \E c \in calls : took(c) = Absent THEN "unk"
     ELSE Said(\A c \in calls : HoldsFor(x.bound, took(c)))

Order(x, ir) ==
  LET first == Selected(ir, x.selector)
      before == Selected(ir, x.before)
  IN IF first = {} \/ before = {} THEN "unk" ELSE Said(Min(first) < Min(before))

-----------------------------------------------------------------------------
(* The expectations over one record: the last text, the last rate-limit    *)
(* state, the terminal record.                                             *)

LastOf(ir, kind) == LET at == EventsOf(ir, kind) IN IF at = {} THEN {} ELSE {ir[Max(at)]}

FieldOf(x, ir) ==
  {v \in {r[x.field] : r \in LastOf(ir, x.record)} : v # Absent}

RecordSays(x, ir) ==
  IF FieldOf(x, ir) = {} THEN "unk" ELSE Said(FieldOf(x, ir) = {x.equals})

OutcomeCount(x, ir) ==
  IF FieldOf(x, ir) = {} THEN "unk" ELSE Said(\A v \in FieldOf(x, ir) : HoldsFor(x.bound, v))

-----------------------------------------------------------------------------
(* evaluate, and the report it ends in.                                    *)

Verdict(x, ir) ==
  CASE x.kind \in {"tool.called", "skill.invoked"} -> ToolCalled(x, ir)
    [] x.kind = "tool.absent" -> ToolAbsent(x, ir)
    [] x.kind = "skill.completed" -> SkillCompleted(x, ir)
    [] x.kind = "tool.failed" -> ToolFailed(x, ir)
    [] x.kind = "tool.error_rate" -> ToolErrorRate(x, ir)
    [] x.kind = "tool.repeated" -> ToolRepeated(x, ir)
    [] x.kind = "tool.result" -> ToolResultMatches(x, ir)
    [] x.kind = "tool.result_bytes" -> ToolResultBytes(x, ir)
    [] x.kind = "step.exec_time" -> StepExecTime(x, ir)
    [] x.kind = "order" -> Order(x, ir)
    [] x.kind = "record" -> RecordSays(x, ir)
    [] x.kind = "count" -> OutcomeCount(x, ir)

(* ExpectationReport::new: silence may be declared the defect.             *)
RowVerdict(x, ir) ==
  LET verdict == Verdict(x, ir)
  IN IF verdict = "unk" /\ x.on_unknown = "gap" THEN "gap" ELSE verdict

(* Mutant: the last gating row that is not ok is the verdict.              *)
LastRow(verdict, x, row) ==
  IF x.severity = "gate" /\ row # "ok" THEN row ELSE verdict

(* CheckReport::new: a gating gap beats an unknown; an advisory row moves  *)
(* nothing.                                                                *)
Fold(verdict, x, row) ==
  CASE x.severity # "gate" \/ row = "ok" -> verdict
    [] x.severity = "gate" /\ row = "gap" -> "gap"
    [] OTHER -> IF verdict = "ok" THEN "unk" ELSE verdict

Report(document, ir) ==
  FoldLeft(LAMBDA verdict, x : Fold(verdict, x, RowVerdict(x, ir)), "ok", document)

(* evidence_status.                                                        *)
EvidenceStatus(verdict) ==
  CASE verdict = "ok" -> "passed"
    [] verdict = "gap" -> "failed"
    [] OTHER -> "inconclusive"
=============================================================================
