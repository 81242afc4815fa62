----------------------------- MODULE EventStream -----------------------------
(***************************************************************************)
(* A driven run, the event stream captured of it, and the verdict on the   *)
(* capture (crates/trace-spec/src/event_stream.rs).  The run does one      *)
(* thing after another; each is a line the reader understands, or one it   *)
(* does not and keeps as an opaque record.  The capture may stop anywhere: *)
(* every state is a transcript somebody may judge.                         *)
(*                                                                         *)
(* External: what a harness emits and in which order, modelled from what   *)
(* the reader accepts.  A call has one id of its own and at most one       *)
(* result; only decisions are written after the terminal record.           *)
(***************************************************************************)
EXTENDS TraceVerdicts

CONSTANTS
  Calls,       \* what the model may ask for: a tool and an argument
  Results,     \* what a result may say
  Documents,   \* trace specifications: sequences of expectations
  MaxEvents,   \* bound: length of the run
  MaxUnread,   \* bound: lines the reader does not understand
  MaxListed,   \* bound: entries of the vendor's list
  MaxLate      \* bound: refusals not written down when the run ends

ASSUME BoundAssumption ==
  MaxEvents \in Nat /\ MaxUnread \in Nat /\ MaxListed \in Nat /\ MaxLate \in Nat
ASSUME AbsentAssumption == Absent \notin Nat

Flag == BOOLEAN \cup {Absent}
Word == {"yes", "no", Absent}

ASSUME ResultAssumption ==
  Results \subseteq [is_error : Flag, says : Word, bytes : Nat, took : Nat \cup {Absent}]

(* A side a bound states is a number.                                      *)
Expectations == UNION {Range(d) : d \in Documents}
CountedByBound ==
  {"tool.called", "skill.invoked", "skill.completed", "tool.failed", "tool.repeated",
   "tool.result_bytes"}
Bound == [at_least : Nat \cup {Absent}, at_most : Nat \cup {Absent}, exactly : Nat \cup {Absent}]
ASSUME DocumentAssumption ==
  /\ \A d \in Documents : d \in Seq(Range(d))
  /\ \A x \in Expectations : x.kind \in CountedByBound => x.bound \in Bound

VARIABLES
  run,         \* what happened
  stream,      \* the captured lines
  late         \* calls the seam refused and had not written down at the end

vars == <<run, stream, late>>

Opaque == [kind |-> "opaque"]

(* The vendor's own list of refusals, if the terminal record has one: some *)
(* entries name their call and some do not.                                *)
Vendor == {Absent} \cup [named : SUBSET Nat, unnamed : SUBSET Nat]

(* What a line may be, once it is understood.                              *)
Event ==
  [kind : {"call"}, id : Nat, tool : {call.tool : call \in Calls}, arg : {call.arg : call \in Calls}]
  \cup [kind : {"decided"}, call : Nat, named : BOOLEAN, decision : {"allow", "deny"}]
  \cup [kind : {"result"}, call : Nat, is_error : Flag, says : Word, bytes : Nat,
        took : Nat \cup {Absent}]
  \cup [kind : {"text"}, says : {"asked for", "otherwise"}]
  \cup [kind : {"rate_limit"}, status : {"allowed", "rejected"}]
  \cup [kind : {"warning"}]
  \cup [kind : {"outcome"}, is_error : Flag, vendor : Vendor, census : Nat \cup {Absent}]

Init == run = <<>> /\ stream = <<>> /\ late = {}

-----------------------------------------------------------------------------
(* The run.                                                                *)

Ended == EventsOf(run, "outcome") # {}
Asked == {run[i].id : i \in EventsOf(run, "call")}
Decided == {run[i].call : i \in EventsOf(run, "decided")}
Answers == {run[i].call : i \in EventsOf(run, "result")}
DeniedInTheRun == {run[i].call : i \in {j \in EventsOf(run, "decided") : run[j].decision = "deny"}}
DeniedBySeam == DeniedInTheRun \cup late

(* read_event: one line, read or opaque.                                   *)
Emit(event) ==
  /\ Len(run) < MaxEvents
  /\ run' = Append(run, event)
  /\ \/ stream' = Append(stream, event)
     \/ /\ Cardinality(EventsOf(stream, "opaque")) < MaxUnread
        /\ stream' = Append(stream, Opaque)

Happens(event) == ~Ended /\ Emit(event) /\ UNCHANGED late

ToolRequested ==
  \E call \in Calls :
    Happens([kind |-> "call", id |-> Cardinality(Asked) + 1, tool |-> call.tool, arg |-> call.arg])

(* The seam decides a call before it runs; the line may not name the call. *)
ToolDecided ==
  \E call \in Asked \ (Decided \cup Answers), decision \in {"allow", "deny"}, named \in BOOLEAN :
    Happens([kind |-> "decided", call |-> call, named |-> named, decision |-> decision])

ToolResult ==
  \E call \in Asked \ Answers, result \in Results :
    Happens([kind |-> "result", call |-> call, is_error |-> result.is_error,
             says |-> result.says, bytes |-> result.bytes, took |-> result.took])

Text == \E says \in {"asked for", "otherwise"} : Happens([kind |-> "text", says |-> says])

RateLimit == \E status \in {"allowed", "rejected"} : Happens([kind |-> "rate_limit", status |-> status])

(* A control-plane event.                                                  *)
Warning == Happens([kind |-> "warning"])

(* The vendor lists what it refused, once; it may have no list, or refuse  *)
(* what the seam refused too.                                              *)
VendorLists ==
  {Absent} \cup {list \in [named : SUBSET Asked, unnamed : SUBSET Asked] :
                  /\ list.named \cap list.unnamed = {}
                  /\ Cardinality(list.named \cup list.unnamed) <= MaxListed}

(* The census counts what the seam refused, the decisions still to be      *)
(* written down among them.                                                *)
SessionEnded ==
  /\ ~Ended /\ Len(run) < MaxEvents
  /\ \E is_error \in Flag, vendor \in VendorLists, unwritten \in SUBSET (Asked \ Decided) :
       \E census \in {Cardinality(DeniedInTheRun \cup unwritten), Absent} :
         /\ Cardinality(unwritten) <= MaxLate
         /\ Emit([kind |-> "outcome", is_error |-> is_error, vendor |-> vendor, census |-> census])
         /\ late' = unwritten

(* A decision is recorded after the terminal record.                       *)
DecidedLate ==
  /\ Ended
  /\ \E call \in Asked \ Decided, named \in BOOLEAN :
       Emit([kind |-> "decided", call |-> call, named |-> named,
             decision |-> IF call \in late THEN "deny" ELSE "allow"])
  /\ UNCHANGED late

Next ==
  \/ ToolRequested \/ ToolDecided \/ ToolResult
  \/ Text \/ RateLimit \/ Warning \/ SessionEnded \/ DecidedLate

Spec == Init /\ [][Next]_vars

-----------------------------------------------------------------------------
(* The reader.                                                             *)

(* seam_ledger: every call the seam refused and named, and whether the     *)
(* lines hold any decision.                                                *)
Denied(lines) ==
  {lines[i].call : i \in {j \in EventsOf(lines, "decided") :
                             lines[j].decision = "deny" /\ lines[j].named}}

AnyDecided(lines) == EventsOf(lines, "decided") # {}

Larger(a, b) == IF a > b THEN a ELSE b

(* permission_denials: the seam's and the vendor's, joined by call.  An    *)
(* entry that names no call is always counted, and only counted.           *)
Listed(outcome) ==
  IF outcome.vendor = Absent THEN [named |-> {}, unnamed |-> {}] ELSE outcome.vendor

PermissionDenials(outcome, lines) ==
  LET census == IF outcome.census = Absent THEN 0 ELSE outcome.census
      by_seam == Larger(Cardinality(Denied(lines)), census)
  IN IF outcome.census = Absent /\ outcome.vendor = Absent /\ ~AnyDecided(lines) THEN Absent
     ELSE by_seam + Cardinality(Listed(outcome).named \ Denied(lines))
                  + Cardinality(Listed(outcome).unnamed)

ControlPlane == {"decided", "warning"}

(* Mutant: the denials are counted as the lines are read.                  *)
IrAsItGoes(lines) ==
  [i \in {j \in DOMAIN lines : lines[j].kind \notin ControlPlane} |->
     IF lines[i].kind = "outcome"
     THEN [kind |-> "outcome", is_error |-> lines[i].is_error,
           permission_denials |-> PermissionDenials(lines[i], SubSeq(lines, 1, i))]
     ELSE lines[i]]

(* read_text: control-plane lines leave no event; an event is at the       *)
(* position of its line.  A stream without a line is refused, not judged.  *)
Ir(lines) ==
  [i \in {j \in DOMAIN lines : lines[j].kind \notin ControlPlane} |->
     IF lines[i].kind = "outcome"
     THEN [kind |-> "outcome", is_error |-> lines[i].is_error,
           permission_denials |-> PermissionDenials(lines[i], lines)]
     ELSE lines[i]]

-----------------------------------------------------------------------------
(* Properties                                                              *)

(* The kinds the checker counts with, and the terminal record: there is at *)
(* most one of it.                                                         *)
Totals == {x \in Expectations : x.kind = "tool.result_bytes" /\ x.per = "total"}
Counting ==
  {x \in Expectations :
     \/ x.kind \in {"tool.called", "skill.invoked", "tool.absent", "skill.completed",
                    "tool.failed", "tool.repeated"}
     \/ x \in Totals
     \/ x.kind = "record" /\ x.record = "outcome" /\ x.field = "is_error"}

(* A verdict still stands on a larger part of the run.  A total is unknown *)
(* as soon as one of the calls has no result, even beside an excess.       *)
Stands(x, verdict, ir) ==
  \/ Verdict(x, ir) = verdict
  \/ x \in Totals /\ Verdict(x, ir) = "unk"

(* Type invariant, with the reader's promise that no line vanishes: the    *)
(* capture has a line for everything that happened, in its place.          *)
TypeOK ==
  /\ run \in Seq(Event) /\ stream \in Seq(Event \cup {Opaque})
  /\ Len(run) <= MaxEvents /\ Len(stream) = Len(run)
  /\ \A i \in DOMAIN run : stream[i] \in {run[i], Opaque}
  /\ late \subseteq Asked
  /\ LET ir == Ir(stream)
     IN \A x \in Counting : Verdict(x, ir) \in {"ok", "gap", "unk"}

(* What the checker decides on the lines it could read is what it would    *)
(* have decided had it read them all: an unread event may cost a verdict,  *)
(* never turn one.  check.rs, decide_count and the kinds built on it.      *)
UnreadNeverTurnsAVerdict ==
  LET read == Ir(stream)
      happened == Ir(run)
  IN \A x \in Counting : Verdict(x, read) # "unk" => Stands(x, Verdict(x, read), happened)

(* A verdict reached in spite of an unread line stands however the run     *)
(* goes on, so a truncated capture judged early agrees with the whole one  *)
(* judged late.                                                            *)
VerdictsUnderDoubtAreFinal ==
  [][HasUnread(stream) =>
       LET before == Ir(stream)
           after == Ir(stream')
       IN \A x \in Counting :
            Verdict(x, before) # "unk" => Stands(x, Verdict(x, before), after)]_vars

(* Evidence built from a report says passed only of a run that did satisfy *)
(* every gating expectation, and failed only where one was contradicted or *)
(* was silent and had declared silence the defect; a contradiction in the  *)
(* lines is never softened to inconclusive (report.rs, evidence.rs).  Of   *)
(* documents that gate on counting kinds only; a total that satisfied or   *)
(* was contradicted may be unknown of the whole run (Stands).              *)
EvidenceIsEarned ==
  LET read == Ir(stream)
      happened == Ir(run)
  IN \A document \in Documents :
       LET gating == {x \in Range(document) : x.severity = "gate"}
           status == EvidenceStatus(Report(document, read))
       IN stream # <<>> /\ gating \subseteq Counting =>
            /\ status = "passed" => \A x \in gating : Stands(x, "ok", happened)
            /\ status = "failed" =>
                 \E x \in gating :
                   \/ Verdict(x, read) = "gap" /\ Stands(x, "gap", happened)
                   \/ x.on_unknown = "gap" /\ Verdict(x, read) = "unk"
            /\ (\E x \in gating : Verdict(x, read) = "gap") => status = "failed"

(* How many refusals the capture reports, once it holds the terminal       *)
(* record; and what was refused.                                           *)
Reported == {o.permission_denials : o \in LastOf(Ir(stream), "outcome")}
Unattributed == UNION {Listed(run[i]).unnamed : i \in EventsOf(run, "outcome")}
RefusedByVendor ==
  Unattributed \cup UNION {Listed(run[i]).named : i \in EventsOf(run, "outcome")}
Refused == DeniedBySeam \cup RefusedByVendor
CensusTaken == \A i \in EventsOf(run, "outcome") : run[i].census # Absent
EveryDenialRead == Denied(stream) = DeniedBySeam

(* A capture that lost decisions does not read as a quieter run where the  *)
(* seam took a census.  One that lost none counts every refused call once, *)
(* whichever layers wrote it down and wherever in the stream, but for a    *)
(* call the seam refused and the vendor listed without naming it, which    *)
(* counts twice; and it is silent only where nothing was refused.          *)
DenialsAddUp ==
  \A n \in Reported :
    /\ CensusTaken => n # Absent /\ n >= Cardinality(Refused)
    /\ EveryDenialRead =>
         IF n = Absent THEN Refused = {}
         ELSE n = Cardinality(Refused) + Cardinality(Unattributed \cap DeniedBySeam)

(* The rules below are the documents' and do not hold.                     *)

(* transcript-conformance-design-v0.1.md, 2.9: an expectation whose truth  *)
(* would depend on an opaque event is unk.                                 *)
SoundFor(expectations) ==
  \A x \in expectations :
    Verdict(x, Ir(stream)) # "unk" => Verdict(x, Ir(run)) = Verdict(x, Ir(stream))

UnreadIsUnknown == SoundFor(Expectations)

(* check.rs: a bound that holds, or fails, for every larger count is       *)
(* decided whatever the unread event was.                                  *)
TotalsAreDecided == SoundFor(Totals)

(* event_stream.rs: one refused call is one denial however many layers     *)
(* wrote it down.                                                          *)
OneRefusalIsOneDenial == \A n \in Reported \ {Absent} : n <= Cardinality(Refused)

(* check.rs: where an expectation folds every selected step's duration, a  *)
(* gap beside an unknown is still a gap.                                   *)
GapBesideUnknown ==
  \A x \in {y \in Expectations : y.kind = "step.exec_time"} :
    LET ir == Ir(stream)
        timed == {c \in Answered(ir, Selected(ir, x.selector)) : Result(ir, c).took # Absent}
    IN (\E c \in timed : ~HoldsFor(x.bound, Result(ir, c).took)) => Verdict(x, ir) = "gap"
=============================================================================
