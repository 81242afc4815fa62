----------------------------- MODULE DriverRun -----------------------------
(***************************************************************************)
(* One run of the reference driver: the loop of crates/aep-driver/src/     *)
(* run.rs, which evaluates, runs the step the map names or asks the engine *)
(* to move, and persists the engine's snapshot and its own cursor after    *)
(* every iteration; the sessions that start and resume it; and the crashes *)
(* between any two of its file writes.                                     *)
(*                                                                         *)
(* StoreLock models how one session at a time is arranged; Engine models   *)
(* the engine in full.  Here the engine is what the loop sees of it: the   *)
(* current state, the entries, the latest verdict per kind of evidence and *)
(* how many records were submitted, and guards over those and the graph.   *)
(***************************************************************************)
EXTENDS Naturals, Sequences, FiniteSets, FiniteSetsExt

CONSTANTS
  State, Initial, Terminal,  \* the workflow's states
  Transitions,    \* the workflow's transitions, in document order
  Completion,     \* what completion requires, as a guard
  Kind,           \* the evidence kinds steps produce
  Steps,          \* the step map: a sequence of steps for every state
  VisitBudget,    \* the map's visit budget for every state
  MaxIterations,  \* --max-iterations
  Pausing,        \* the sessions given --pause-on-approval
  Editable,       \* the documents that may be edited while the run is stopped
  Nothing,        \* no document, no execution, no cursor
  MaxSessions, MaxCrashes, RanCap  \* bounds on sessions, crashes and a counter

Verdict == {"pass", "fail"}
Store == {"empty", "present", "broken"}

(* A guard is a set of facts that must hold: a kind's latest verdict, or   *)
(* whether the graph holds the artifact.                                   *)
Fact == (Kind \X Verdict) \cup ({"artifact"} \X {"empty", "present"})

(* What a resume depends on: the workflow's guards, and the three pins.    *)
Document == {"guards", "workflow", "map", "engine"}
Pinned == Document \ {"guards"}

StepKind == {"command", "llm", "operator"}

(* A command step says which evidence its verdict becomes.                 *)
StepRecord ==
  [type : {"command"}, kind : Kind, retry : Nat]
    \cup [type : StepKind \ {"command"}, retry : Nat]

ASSUME PlanAssumption ==
  /\ IsFiniteSet(State) /\ Initial \in State /\ Terminal \subseteq State
  /\ "artifact" \notin Kind
  /\ Transitions \in Seq([from : State \ Terminal, to : State, guard : SUBSET Fact])
  /\ Completion \subseteq Fact
  /\ VisitBudget \in [State -> Nat \ {0}]
  /\ Steps \in [State -> Seq(StepRecord)]
ASSUME BoundsAssumption ==
  MaxIterations \in Nat /\ MaxSessions \in Nat /\ MaxCrashes \in Nat /\ RanCap \in Nat
ASSUME DocumentAssumption == Editable \subseteq Document

VARIABLES
  snapshot,   \* snapshot.json
  cursor,     \* cursor.json
  store,      \* the planning store, as a load of it would find it
  docs,       \* the version of each document
  pc,         \* where the session is
  exec, cur,  \* the session's execution and cursor
  graph,      \* the artifact graph this iteration loaded
  streak,     \* consecutive attempts at one step with no verdict
  after,      \* whether the loop goes on or stops once both records are written
  using,      \* the documents this session resolved
  sessions, crashes,  \* how many there have been
  ran,        \* history: how often each step was executed, up to RanCap
  asked       \* history: the operator steps presented since the state was entered

disk == <<snapshot, cursor>>
world == <<store, docs>>
memory == <<exec, cur, graph, streak, after, using>>
counters == <<sessions, crashes>>
history == <<ran, asked>>
vars == <<disk, world, pc, memory, counters, history>>

StepKey == UNION {{s} \X DOMAIN Steps[s] : s \in State}

NoStreak == [at |-> Nothing, count |-> 0]

---------------------------------------------------------------------------
(* The engine, as the loop sees it                                         *)

NewExecution ==
  [state |-> Initial,
   entered |-> [s \in State |-> IF s = Initial THEN 1 ELSE 0],
   verdict |-> [k \in Kind |-> "none"],
   submitted |-> [k \in Kind |-> 0]]

Holds(guard, e, g) ==
  \A fact \in guard : IF fact[1] = "artifact" THEN g = fact[2] ELSE e.verdict[fact[1]] = fact[2]

IsComplete(e, g) == e.state \in Terminal /\ Holds(Completion, e, g)

Permitted(e, g) ==
  {i \in DOMAIN Transitions :
     Transitions[i].from = e.state /\ Holds(Transitions[i].guard, e, g)}

(* The first permitted transition in document order is the one taken.      *)
Enter(e, s) == [e EXCEPT !.state = s, !.entered[s] = @ + 1]

Submit(e, k, v) == [e EXCEPT !.verdict[k] = v, !.submitted[k] = @ + 1]

---------------------------------------------------------------------------
(* The driver's records                                                    *)

FreshCursor ==
  [state |-> Initial, step |-> 1,
   visits |-> [s \in State |-> IF s = Initial THEN 1 ELSE 0],
   attempts |-> [k \in StepKey |-> 0], iterations |-> 0, status |-> "running",
   pins |-> using]

ResumeRefused == \E d \in Pinned : cursor.pins[d] # docs[d]

---------------------------------------------------------------------------
Init ==
  /\ snapshot = Nothing /\ cursor = Nothing
  /\ store = "empty"
  /\ docs = [d \in Document |-> 1]
  /\ pc = "idle"
  /\ exec = Nothing /\ cur = Nothing /\ graph = "empty" /\ streak = NoStreak
  /\ after = "loop" /\ using = docs
  /\ sessions = 0 /\ crashes = 0
  /\ ran = [k \in StepKey |-> 0] /\ asked = {}

(* A session starts with whatever it read and no streak of its own.        *)
Begin(e, c) ==
  /\ pc = "idle" /\ sessions < MaxSessions
  /\ sessions' = sessions + 1
  /\ pc' = "loop"
  /\ exec' = e /\ cur' = c
  /\ using' = docs /\ streak' = NoStreak /\ after' = "loop"
  /\ UNCHANGED <<disk, world, graph, crashes, history>>

(* drive: `run` allocates a directory of its own, so there is no cursor.   *)
Drive ==
  /\ cursor = Nothing /\ snapshot = Nothing
  /\ Begin(Nothing, Nothing)

(* Mutant: the cursor is carried and the snapshot is not.                  *)
ResumeWithoutSnapshot ==
  /\ cursor # Nothing /\ snapshot # Nothing
  /\ ~ResumeRefused
  /\ Begin(Nothing, cursor)

(* resume: reads both records, checks the pins; otherwise it is refused    *)
(* and changes nothing.  It does not look at the status.                   *)
Resume ==
  /\ cursor # Nothing /\ snapshot # Nothing
  /\ ~ResumeRefused
  /\ Begin(snapshot.execution, cursor)

(* The session returns: its memory is gone, the two records are what stays.*)
End ==
  /\ pc' = "idle"
  /\ exec' = Nothing /\ cur' = Nothing /\ streak' = NoStreak /\ after' = "loop"
  /\ UNCHANGED <<graph, using>>

Persist(then) == pc' = "write_snapshot" /\ after' = then

(* Session::finish: the status goes into the cursor, both are persisted.   *)
Finish(c, status) ==
  /\ cur' = [c EXCEPT !.status = status]
  /\ Persist("stop")

---------------------------------------------------------------------------
(* One iteration of Session::run                                           *)

(* stop_broken_store: nothing is evaluated, and a run that had not started *)
(* yet has nothing to persist.                                             *)
BrokenStore ==
  /\ pc = "loop" /\ store = "broken"
  /\ IF exec = Nothing \/ cur = Nothing
     THEN End
     ELSE Finish(cur, "store-broken") /\ UNCHANGED <<exec, graph, streak, using>>
  /\ UNCHANGED <<disk, world, counters, history>>

(* Mutant: the cursor is built anew in every iteration.                    *)
LoadFreshCursor ==
  /\ pc = "loop" /\ store # "broken"
  /\ LET e == IF exec = Nothing THEN NewExecution ELSE exec
         c == FreshCursor
     IN IF c.state # e.state
        THEN End
        ELSE /\ exec' = e
             /\ cur' = [c EXCEPT !.iterations = @ + 1]
             /\ graph' = store
             /\ pc' = "route"
             /\ UNCHANGED <<streak, after, using>>
  /\ UNCHANGED <<disk, world, counters, history>>

(* Restore or initialise against the graph just loaded, refuse when the    *)
(* two records disagree about the state, and count the iteration.          *)
Load ==
  /\ pc = "loop" /\ store # "broken"
  /\ LET e == IF exec = Nothing THEN NewExecution ELSE exec
         c == IF cur = Nothing THEN FreshCursor ELSE cur
     IN IF c.state # e.state
        THEN End
        ELSE /\ exec' = e
             /\ cur' = [c EXCEPT !.iterations = @ + 1]
             /\ graph' = store
             /\ pc' = "route"
             /\ UNCHANGED <<streak, after, using>>
  /\ UNCHANGED <<disk, world, counters, history>>

IterationsSpent == cur.iterations > MaxIterations

(* Mutant: one entry more than the budget is let through.                  *)
VisitsSpentLate == cur.visits[cur.state] > VisitBudget[cur.state] + 1

VisitsSpent == cur.visits[cur.state] > VisitBudget[cur.state]

StepsLeft == cur.step <= Len(Steps[cur.state])

BudgetExhausted ==
  /\ pc = "route" /\ (IterationsSpent \/ VisitsSpent)
  /\ Finish(cur, "budget-exhausted")
  /\ UNCHANGED <<disk, world, exec, graph, streak, using, counters, history>>

(* advance, TransitionResult::Moved.                                       *)
Advance ==
  /\ pc = "route" /\ ~IterationsSpent /\ ~VisitsSpent /\ ~StepsLeft
  /\ Permitted(exec, graph) # {} /\ ~IsComplete(exec, graph)
  /\ LET to == Transitions[Min(Permitted(exec, graph))].to
     IN /\ exec' = Enter(exec, to)
        /\ cur' = [cur EXCEPT !.state = to, !.step = 1, !.visits[to] = @ + 1]
  /\ streak' = NoStreak /\ asked' = {}
  /\ Persist("loop")
  /\ UNCHANGED <<disk, world, graph, using, counters, ran>>

(* advance, TransitionResult::Completed and Blocked.                       *)
Conclude ==
  /\ pc = "route" /\ ~IterationsSpent /\ ~VisitsSpent /\ ~StepsLeft
  /\ IsComplete(exec, graph) \/ Permitted(exec, graph) = {}
  /\ Finish(cur, IF IsComplete(exec, graph) THEN "completed" ELSE "blocked")
  /\ UNCHANGED <<disk, world, exec, graph, streak, using, counters, history>>

---------------------------------------------------------------------------
(* Session::step                                                           *)

Key == <<cur.state, cur.step>>
Step == Steps[cur.state][cur.step]

(* The flag is each invocation's own: a resume need not repeat it.         *)
MayPause == sessions \in Pausing

(* The CLI is always headless: an operator step it may not pause on is an  *)
(* error, and the session ends without persisting.                         *)
RefuseOperator ==
  /\ pc = "route" /\ ~IterationsSpent /\ ~VisitsSpent /\ StepsLeft
  /\ Step.type = "operator" /\ ~MayPause
  /\ End
  /\ UNCHANGED <<disk, world, counters, history>>

(* Mutant: the attempt is not recorded.                                    *)
BeginStepUnrecorded ==
  /\ pc = "route" /\ ~IterationsSpent /\ ~VisitsSpent /\ StepsLeft
  /\ Step.type = "operator" => MayPause
  /\ ran' = [ran EXCEPT ![Key] = IF @ < RanCap THEN @ + 1 ELSE @]
  /\ asked' = IF Step.type = "operator" THEN asked \cup {Key} ELSE asked
  /\ pc' = "executing"
  /\ UNCHANGED <<disk, world, memory, counters>>

(* record_attempt, in memory, and the executor is called.                  *)
BeginStep ==
  /\ pc = "route" /\ ~IterationsSpent /\ ~VisitsSpent /\ StepsLeft
  /\ Step.type = "operator" => MayPause
  /\ cur' = [cur EXCEPT !.attempts[Key] = @ + 1]
  /\ ran' = [ran EXCEPT ![Key] = IF @ < RanCap THEN @ + 1 ELSE @]
  /\ asked' = IF Step.type = "operator" THEN asked \cup {Key} ELSE asked
  /\ pc' = "executing"
  /\ UNCHANGED <<disk, world, exec, graph, streak, after, using, counters>>

(* StepOutcome::Observed: the verdict of a command step becomes evidence.  *)
Observed ==
  /\ pc = "executing" /\ Step.type = "command"
  /\ \E v \in Verdict : exec' = Submit(exec, Step.kind, v)
  /\ cur' = [cur EXCEPT !.step = @ + 1]
  /\ streak' = NoStreak
  /\ Persist("loop")
  /\ UNCHANGED <<disk, world, graph, using, counters, history>>

(* The engine refuses the record, an observation in its future: the error  *)
(* ends the session before anything is persisted.                          *)
Rejected ==
  /\ pc = "executing" /\ Step.type = "command"
  /\ End
  /\ UNCHANGED <<disk, world, counters, history>>

(* StepOutcome::Nothing: an llm step has no evidence of its own.           *)
Succeeded ==
  /\ pc = "executing" /\ Step.type = "llm"
  /\ cur' = [cur EXCEPT !.step = @ + 1]
  /\ streak' = NoStreak
  /\ Persist("loop")
  /\ UNCHANGED <<disk, world, exec, graph, using, counters, history>>

(* StepOutcome::NoVerdict: nothing is submitted, and the step is retried   *)
(* until its consecutive failures exceed its budget.                       *)
NoVerdict ==
  /\ pc = "executing" /\ Step.type # "operator"
  /\ LET spent == IF streak.at = Key THEN streak.count + 1 ELSE 1
     IN /\ streak' = [at |-> Key, count |-> spent]
        /\ IF spent > Step.retry
           THEN Finish(cur, "budget-exhausted")
           ELSE Persist("loop") /\ UNCHANGED cur
  /\ UNCHANGED <<disk, world, exec, graph, using, counters, history>>

(* Mutant: the cursor is left pointing at the step that paused.            *)
PausedInPlace ==
  /\ pc = "executing" /\ Step.type = "operator"
  /\ Finish(cur, "awaiting-operator")
  /\ UNCHANGED <<disk, world, exec, graph, streak, using, counters, history>>

(* StepOutcome::Paused: the pause is the step's completion.                *)
Paused ==
  /\ pc = "executing" /\ Step.type = "operator"
  /\ Finish([cur EXCEPT !.step = @ + 1], "awaiting-operator")
  /\ UNCHANGED <<disk, world, exec, graph, streak, using, counters, history>>

---------------------------------------------------------------------------
(* RunDirectory::persist: two renames, the snapshot's first.  The history  *)
(* keeps the documents a snapshot was written under beside it.             *)
WriteSnapshot ==
  /\ pc = "write_snapshot"
  /\ snapshot' = [execution |-> exec, under |-> using]
  /\ pc' = "write_cursor"
  /\ UNCHANGED <<cursor, world, memory, counters, history>>

WriteCursor ==
  /\ pc = "write_cursor"
  /\ cursor' = cur
  /\ IF after = "stop" THEN End ELSE pc' = "loop" /\ UNCHANGED memory
  /\ UNCHANGED <<snapshot, world, counters, history>>

SessionStep ==
  \/ BrokenStore \/ Load \/ BudgetExhausted \/ Advance \/ Conclude
  \/ RefuseOperator \/ BeginStep
  \/ Observed \/ Rejected \/ Succeeded \/ NoVerdict \/ Paused
  \/ WriteSnapshot \/ WriteCursor

(* The process is killed, anywhere.                                        *)
Crash ==
  /\ pc # "idle" /\ crashes < MaxCrashes
  /\ crashes' = crashes + 1
  /\ End
  /\ UNCHANGED <<disk, world, sessions, history>>

(* People and llm steps edit the planning store at any time.               *)
EditStore ==
  /\ \E s \in Store \ {store} : store' = s
  /\ UNCHANGED <<disk, docs, pc, memory, counters, history>>

(* A document is revised once, or a newer engine is installed.             *)
EditDocument ==
  /\ \E d \in Editable : docs[d] = 1 /\ docs' = [docs EXCEPT ![d] = 2]
  /\ UNCHANGED <<disk, store, pc, memory, counters, history>>

Next == Drive \/ Resume \/ SessionStep \/ Crash \/ EditStore \/ EditDocument

Spec == Init /\ [][Next]_vars

(* Every step a session can take it eventually takes: its executors        *)
(* return and its file writes do not hang.                                 *)
FairSpec == Spec /\ WF_vars(SessionStep)

---------------------------------------------------------------------------
Status == {"running", "completed", "blocked", "awaiting-operator",
           "budget-exhausted", "store-broken"}

Executions ==
  [state : State, entered : [State -> Nat],
   verdict : [Kind -> Verdict \cup {"none"}], submitted : [Kind -> Nat]]

Cursors ==
  [state : State, step : Nat, visits : [State -> Nat], attempts : [StepKey -> Nat],
   iterations : Nat, status : Status, pins : [Document -> 1 .. 2]]

(* A snapshot, in the history's form: what is written and under what.      *)
Snapshots == [execution : Executions, under : [Document -> 1 .. 2]]

ASSUME SentinelAssumption == Nothing \notin Executions \cup Cursors \cup Snapshots

(* What the two records and the session's memory hold, wherever it is:     *)
(* nothing is executed or written before a session has loaded both, and a  *)
(* cursor never names a step beyond the one after the last.                *)
TypeOK ==
  /\ snapshot \in Snapshots \cup {Nothing}
  /\ cursor \in Cursors \cup {Nothing}
  /\ exec \in Executions \cup {Nothing} /\ cur \in Cursors \cup {Nothing}
  /\ \A c \in {cursor, cur} \ {Nothing} : c.step \in 1 .. Len(Steps[c.state]) + 1
  /\ pc \in {"idle", "loop", "route", "executing", "write_snapshot", "write_cursor"}
  /\ pc \in {"route", "executing", "write_snapshot", "write_cursor"}
       => exec # Nothing /\ cur # Nothing

(* No step of a state runs in an entry past its visit budget, counted by   *)
(* what the engine entered and over every session (route.rs 42-46).        *)
StepsWithinVisitBudget ==
  pc = "executing" => exec.entered[cur.state] <= VisitBudget[cur.state]

(* A record is submitted for an attempt the cursor counts; each crash may  *)
(* add one record more than the attempts say, and nothing else does.       *)
CommandKeys(k) ==
  {key \in StepKey : LET step == Steps[key[1]][key[2]]
                     IN step.type = "command" /\ step.kind = k}

Attempts(c, k) == MapThenSumSet(LAMBDA key : c.attempts[key], CommandKeys(k))

DuplicatesBoundedByCrashes ==
  pc = "idle" /\ cursor # Nothing =>
    \A k \in Kind : snapshot.execution.submitted[k] <= Attempts(cursor, k) + crashes

(* Without crashes, a person asked by an operator step is not asked again  *)
(* until the state is entered again (run.rs 652-660).                      *)
AskedOnce ==
  [][crashes = 0 => \A k \in asked : ran'[k] # ran[k] => asked' = {}]_vars

(* Whatever the steps do, a session ends: the budgets bound every loop.    *)
SessionEnds == pc # "idle" ~> pc = "idle"

(* What the two records say, before the first write included.              *)
Task == INSTANCE TaskRun WITH
  record <- IF snapshot = Nothing THEN NewExecution ELSE snapshot.execution,
  report <- IF cursor = Nothing THEN "running" ELSE cursor.status,
  rules <- IF snapshot = Nothing THEN <<>> ELSE [d \in Pinned |-> snapshot.under[d]]

(* Sessions, crashes, retries and edits of the store included, the records *)
(* on disk are the history of one task, step by step (run.rs 211-221): no  *)
(* resume restarts it, skips a guard, goes on under a workflow, a map or   *)
(* an engine the run was not pinned to (cursor.rs 9-20), loses evidence    *)
(* that was persisted, or reports complete what was not earned.            *)
ImplementsTask == Task!Spec

---------------------------------------------------------------------------
(* Statements of the documentation that the code does not keep             *)

(* "The cursor closes that": a workflow whose guards were rewritten does   *)
(* not re-govern a run in flight (cursor.rs 13-16, run.rs 329-331).        *)
NeverRegoverned ==
  [][snapshot # Nothing /\ snapshot' # snapshot =>
       snapshot'.under["guards"] = snapshot.under["guards"]]_vars

(* "The cursor counts every attempt at `<state>#<index>` for the life of   *)
(* the run" (run.rs 396-399).                                              *)
AttemptsCountEveryExecution ==
  pc = "idle" =>
    \A k \in StepKey : ran[k] > 0 => cursor # Nothing /\ cursor.attempts[k] >= ran[k]

(* A completed run is not resumable (the test at cursor.rs 389-394), so it *)
(* stays completed.                                                        *)
CompletedIsFinal ==
  [][cursor # Nothing /\ cursor.status = "completed"
       => cursor'.status = "completed"]_vars

(* `running` is "still going", so what is driven says so (cursor.rs 137).  *)
StatusIsCurrent ==
  pc = "executing" /\ cursor # Nothing => cursor.status = "running"

(* "True when the run can be picked up again where it stopped" (cursor.rs  *)
(* 168): is_resumable is true of `running`, which is what a crash leaves.  *)
InterruptedRunResumes ==
  pc = "idle" /\ cursor # Nothing /\ cursor.status = "running" =>
    cursor.state = snapshot.execution.state

(* The same of `budget-exhausted`: a state's spent visits stay spent.      *)
ExhaustedRunResumes ==
  pc = "idle" /\ cursor # Nothing /\ cursor.status = "budget-exhausted" =>
    cursor.visits[cursor.state] <= VisitBudget[cursor.state]

(* "A budget of `3` permits three entries and the fourth is refused"       *)
(* (route.rs 44-46): no more entries than the budget and the refused one.  *)
EntriesWithinBudget ==
  exec # Nothing => \A s \in State : exec.entered[s] <= VisitBudget[s] + 1

=============================================================================
