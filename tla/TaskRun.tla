------------------------------ MODULE TaskRun ------------------------------
(***************************************************************************)
(* What a run of the driver promises to whoever reads its records, however *)
(* many sessions and crashes it took: its history is one task's, in which  *)
(* the engine accepts one record of evidence at a time and passes one      *)
(* transition at a time, and never one the evidence on record did not open;*)
(* it goes on under the rules it started with; and it is reported complete *)
(* only on the evidence completion asks for.                               *)
(***************************************************************************)
EXTENDS Naturals

CONSTANTS State, Initial, Terminal, Transitions, Completion, Kind

VARIABLES
  record,  \* state, entries, latest verdicts and submissions, as persisted
  report,  \* the status a reader finds
  rules    \* the version of each document the record is made under; <<>>: none yet

vars == <<record, report, rules>>

Outcome == {"running", "completed", "blocked", "awaiting-operator",
            "budget-exhausted", "store-broken"}

(* The part of a guard that evidence answers; the rest is the artifact     *)
(* graph's, which the record does not hold.                                *)
Evidenced(guard) ==
  \A fact \in guard : fact[1] \in Kind => record.verdict[fact[1]] = fact[2]

Init ==
  /\ record = [state |-> Initial,
               entered |-> [s \in State |-> IF s = Initial THEN 1 ELSE 0],
               verdict |-> [k \in Kind |-> "none"],
               submitted |-> [k \in Kind |-> 0]]
  /\ report = "running"
  /\ rules = <<>>

Accept(k, v) ==
  /\ record' = [record EXCEPT !.verdict[k] = v, !.submitted[k] = @ + 1]
  /\ UNCHANGED report

Move(i) ==
  /\ Transitions[i].from = record.state /\ Evidenced(Transitions[i].guard)
  /\ record' = [record EXCEPT !.state = Transitions[i].to,
                              !.entered[Transitions[i].to] = @ + 1]
  /\ UNCHANGED report

Report(status) ==
  /\ status = "completed" => record.state \in Terminal /\ Evidenced(Completion)
  /\ report' = status
  /\ UNCHANGED record

(* The first record binds the run; a record that says nothing new is one.  *)
Keep == UNCHANGED <<record, report>>

Bound == rules # <<>> => rules' = rules

Next ==
  /\ Bound
  /\ \/ \E k \in Kind, v \in {"pass", "fail"} : Accept(k, v)
     \/ \E i \in DOMAIN Transitions : Move(i)
     \/ \E status \in Outcome : Report(status)
     \/ Keep

Spec == Init /\ [][Next]_vars

=============================================================================
