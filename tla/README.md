# Verification of engineering-protocols

TLA+ models of the executable core of this repository: the engine that decides what a task may do,
the capability policy it decides with, the driver that carries a task through its workflow, the lock
that keeps two drivers apart, the pre-flight that may refuse a launch, the plan of documents and its
store, the command backend and its seeding, and the checker that judges a transcript. TLC checks the
models on small instances; the proof modules hold theorems TLAPS checks for every value of the
constants.

Everything here is a translation of the Rust sources under `src/`. Where a document and the code
differ the model follows the code, and the difference is recorded (see *Disagreements*).

* [The system](#the-system): every component, its state, operations, interactions and hazards
* [Modules](#modules): which module models what, and what it abstracts
* [Runs](#runs): what TLC checks, under which bounds
* [Proofs](#proofs): what is proved, and from which invariant
* [Disagreements](#disagreements): where documents and code part
* [Not modelled](#not-modelled), and the [plan](#plan)

Running a check, from this directory:

    tlc -workers 2 -config Engine_log.cfg MCEngine
    tlapm StoreLockProofs.tla

`PROJECT.json` lists components, runs, mutants (for each property, a plausible bug of the code that
breaks it), the source lines of every definition, hazards, findings and theorems.

## The system

The workspace has 26 crates and about 208 000 lines of Rust, tests included. More than half of it
(`ess-*`, `infra-*`, `aep-render`, `aep-schema`) is batch tooling: documents in, documents out, nothing
kept between two calls. What carries state, order and failure is below.

### The protocol engine — `aep-engine`, over `aep-domain`

* **State.** An `Execution`: the current workflow state and the states entered, an append-only log of
  evidence records (each with the instant it was *observed* and the one it was submitted), the
  artifact graph, the instant of the last reading, and the facts derived from all of that.
* **Operations.** `initialize`, `submit_evidence`, `transition`, `evaluate`, `authorize`,
  `set_artifacts`, `snapshot` and `restore`. Every mutating one ends in `refresh_facts`, which rebuilds
  the fact store from the graph and from the records that have not lapsed, and adds the derived facts
  (`evidence.missing`, `evidence.lapsed`, `approvals.granted`...).
* **Hard behaviours.** Evidence decays: a requirement has a horizon, and a record past the *strictest*
  horizon of its kind stops binding facts while a requirement with a longer one still counts it.
  Submission order is not observation order. A snapshot carries neither clock nor graph. One
  requirement is read by two implementations (`EvidenceRequirement::evaluate` for reports and guards,
  `satisfies_evidence` for the count that guards read).
* **Correct when.** No gate is passed on a lapsed observation; waiting opens nothing; submitting an old
  observation again restores nothing; the two readings of a requirement agree.

### Predicates and facts — `aep-domain::{predicate, facts}`

* **State.** None but the fact store: paths bound to typed values, absent when nobody observed them.
* **Operations.** Three-valued evaluation, comparison across ordered scales, collection of the causes
  of an unmet predicate, `set`.
* **Correct when.** An unknown never settles a predicate, learning a fact never reverses a verdict, and
  the causes named are enough to repair it.

### Capability policy — `aep-domain::{capability, profile}`, `aep-engine::{resolve, policy}`

* **State.** A resolved plan (a policy with its rationale), the workflow state, the approvals recorded.
* **Operations.** Folding a chain of profiles (`extend`), restricting by principles and task, refusing a
  plan that reaches below the protocol's approval floor, then `authorize` in a state and `reason_for`.
* **Hard behaviours.** Five kinds of document speak about one capability in one order of composition;
  a wildcard environment on either side; a state may grant what no profile did.
* **Correct when.** A denial stays a denial, what anything gates needs an approval of exactly that
  capability, and the floor holds under every wildcard.

### The driver's run — `aep-driver`, `aep-driver-spec`

* **State.** Two files per run, `snapshot.json` (the engine's) and `cursor.json` (the driver's: step,
  visits, attempts, pins, status), and the session's memory of both.
* **Operations.** `drive` and `resume`, each a loop: load the store, evaluate, execute the step the map
  names or ask the engine to move, and persist both files one after the other.
* **Interactions.** Executors (programs, models, people) change the planning store while they run; the
  engine is called in process; a person edits documents between sessions.
* **Hard behaviours.** Crashes between any two writes, a store that stops parsing in mid-run, pauses,
  retries without verdict, budgets over every session, resumes under edited documents.
* **Correct when.** Two records with two owners agree, budgets bound every loop, evidence the engine
  accepted survives, completion is earned, the pins hold, and every session ends.

### The store lock — `protocol-cli::drive`, `aep-driver::lock`

* **State.** `.engineering/runs/lock.json`, the run directories and the file `current`.
* **Operations.** `take_lock` (create, else read, probe the holder's process, and with `--take-lock`
  overwrite), `allocate_run`, `record_run`, `release`.
* **Hard behaviours.** Every file-system call is a point where another process can run, fail or die; a
  pid may be another host's, or issued again.
* **Correct when.** One driver at a time, the lock names it and its run, only the dead lose their lock,
  no run directory is used twice, and a stale lock has a way out.

### Pre-flight — `aep-driver::{approval, coverage}`, `aep-engine::evaluate`

* **State.** None: a report made of plan and step map before a run's first step.
* **Operations.** `demanded_evidence` (what the plan can ask for and what that would block),
  `evidence_coverage` (what of it no step declares: the launch is refused), `reachable_approvals` (what
  only a person can give).
* **Hard behaviours.** It is a second reading of documents the evaluator reads again, step by step, with
  facts nobody has yet; conditions nest.
* **Correct when.** What it says blocks does block, it refuses nothing a run would get past, and it
  announces every approval that the facts known leave possible.

### The plan of documents — `aep-domain::{artifact, review, requirement}`, `aep-backend-markdown`, `protocol-cli::planning`

* **State.** A directory of markdown documents: kind, status, revision, relations; and the reviews an
  execution has on record, each of a revision.
* **Operations.** `artifact new`, `move`, `relate`; load, create and update over files, written through
  a temporary name and a rename; the graph, its validation, facts, artifact and review requirements.
* **Interactions.** A driver reads the whole directory in every iteration while people write to it, and
  nothing locks it.
* **Correct when.** Statuses stay inside the lifecycle of the kind; the two ways of asking whether a kind
  is approved agree; a contradiction needs new work; a review dies with the revision it is of; every
  command is atomic for whoever reads.

### The command backend — `aep-contract`, `aep-backend-memory`

* **State.** Entities with revisions, relations, history, events, the audit trail, and the answer given to
  each idempotency key.
* **Operations.** Nine commands behind `execute`; `from_manifest`, which issues a sequence of them under
  deterministic keys, so that seeding twice is a replay.
* **Hard behaviours.** Replays, reused keys, stale revisions, checks that come after changes, a seeding
  that fails half-way, other callers between its commands.
* **Correct when.** It answers as the contract says, history, audit and revisions tell one story, what
  was concluded is not reworded, and a seeding that succeeds has stored the manifest, once.

### Transcripts — `trace-domain`, `trace-spec`

* **State.** None: a captured event stream, with the seam's ledger of decisions beside it, becomes an IR;
  expectations over it become rows, rows a report, a report evidence.
* **Hard behaviours.** Lines the reader does not understand, captures cut off anywhere, two sources that
  tell of one denial, one of them without saying of which call, or after the run has ended.
* **Correct when.** A line that could not be read turns no verdict, a verdict given under that doubt is
  final, evidence is what the rows earned, and denials add up.

### The rest

| component | state and operations | what is hard, and what would make it correct |
|---|---|---|
| step executors (`drive.rs`, `executor.rs`, `tool.rs`) | spawn a program or a model, capture its output, derive a tool set | what it returns is any outcome; the driver must take each one |
| registry and loading (`aep-engine::{registry, load}`) | documents by id and version, cross-validated | extension chains that loop |
| claim scanner (`aep-backend-markdown::claim`) | a text scanner | characters |
| conformance suites (`aep-conformance`) | tests that drive the command contract | none of their own |
| vocabularies (`adp-domain`, `aop-domain`) | typed documents and commands | none of their own |
| ESS (`ess-*`) | compile, diff, generate, test a specification | determinism; conformance verdicts |
| infrastructure (`infra-*`) | snapshot to IR, diagnosis, drift, simulation | determinism; what a snapshot does not show |
| rendering, schemas, command line, `xtask` | output and argument parsing | none that a state model reaches |

**How they interact.** `protocol drive` takes the store lock, loads documents into a registry, resolves
a task into a plan (capabilities, obligations, workflow), asks the pre-flight, and hands plan and step map
to the driver. The driver owns an `Engine` and calls it; the engine evaluates predicates over facts and
requirements over the artifact graph, which the driver reads from the planning store in every iteration.
A step's transcript comes back as evidence. Everything is synchronous and in one process; the concurrency
is between *invocations* (the lock), between a session and the *store* people write to, and between a
process and its *death*. The command backend is what the same vocabulary looks like to several clients.

## Modules

    Predicates ── FactStore ─┬─ MCFactStore         StoreLock ─┬─ MCStoreLock
        │                    └────────────┐                    ├─ StoreLockProofs
        └─────── Engine ──┬─── MCEngine   ├─ EngineProofs      └┄ implements StoreMutex
                          └─── Preflight ─┤                DriverRun ─┬─ MCDriverRun
                                          └─ MCPreflight              │
    Capabilities ─┬─ MCCapabilities                                   ├─ DriverRunProofs
                  └─ CapabilitiesProofs                               └┄ implements TaskRun
    Artifacts ── PlanningDocument ─┬─ Plan ─┬─ MCPlan
                                   │        └─ PlanProofs ───────────┐
                                   └─ PlanningStore ─┬─ PlanningStoreProofs
                                                     └─ MCPlanningStore; implements Plan
    CommandBackend ─── Seeding ─┬─ MCCommandBackend; implements CommandContract
                                └─ CommandBackendProofs
    TraceVerdicts ── EventStream ─┬─ MCEventStream
                                  └─ EventStreamProofs

**StoreLock** — `drive.rs` 407–991. One action per file-system call; `fs::write` is an open that
truncates and a write through a handle that may name an unlinked inode, and a shorter body over a
longer one leaves bytes that do not parse. `pc` is the place in `start`, `resume` and `take_lock`; an
error between taking and driving leaves by `?` (`Fail`) and a process may die anywhere (`Crash`). A pid
is the invocation itself; `Liveness` answers what `/proc` could, including *alive* for a dead holder
whose pid was issued again. `AtomicTakeoverSpec` is `Spec` with one assumption added: nobody touches
the file between a take-over's read and its overwrite.

**DriverRun** — `run.rs`, `route.rs`, `cursor.rs`. One action per branch of the loop, and a separate
action for each of the two renames. The engine is what the loop sees of it: state, entries, the latest
verdict per kind of evidence and how many records were submitted; a guard is a set of those facts and
of the store's. Executors return every `StepOutcome`; the store is empty, holding the artifact or
broken. `asked` and `ran` are history, for the properties only.

**Predicates** — `predicate.rs`, `facts.rs`. A document's predicates are a table `Body` over `Node`
whose children precede their parents, so recursive methods are recursive *functions*. A fact is a type
and a value; comparisons, scales and causes are translated branch by branch.

**FactStore** — a store over which paths are observed, observed again and withheld.

**Engine** — `execution.rs`, `evaluate.rs`, `engine.rs`, `requirement.rs`. `exec` is the `Execution`
(`at` is the instant of its last reading, `None` before any), `clock` the engine's, in days; `saved` a
snapshot. The plan (workflow, requirement sets, obligations, principles) is constants; a requirement set
refers to others by number, smaller first. `Transition` reads the clock, then completes, takes the first
permitted transition in document order, or stays. Events are left out; an artifact or review requirement
is a bit of the graph (`met`).

**Capabilities** — `capability.rs`, `profile.rs`, `resolve.rs`, `policy.rs`. Policies are three sets; a
capability is a name and an environment (`"*"` covers all). `Resolve` folds a chain of profiles,
restricts by each principle in force and by the task, and refuses what `resolve` refuses about
capabilities. `Authorize` answers with its decision and the document named.

**StoreMutex** — what StoreLock promises: the store has one owner, or none, or one that is gone; only the
last passes to somebody who did not find it free. StoreLock maps its file and its processes to `owner`
and `gone` (`Owner`, `ImplementsMutex`).

**TaskRun** — what DriverRun promises a reader of its records: one record accepted or one transition
passed per step, none that the evidence on record did not open, `completed` only on the evidence
completion asks for, and the documents it started under for life. The mapping is `Task`: the record is
`snapshot.json`, the report `cursor.json`'s status, the rules its pins; so losing evidence in a crash or
a resume, or resuming under another workflow, is not a step of TaskRun.

**Preflight** — `evaluate.rs` 600–854, `coverage.rs`, `approval.rs`, over Engine: `Launch` makes the report
and refuses or starts, then the engine's own steps run, so report and evaluator are compared in one state.
What a person gives enters the log as a submission whose `by` is a person.

**Artifacts** — `artifact.rs`, `review.rs`, `requirement.rs` as operators over a graph: lineage of kinds,
lifecycles and which one governs, what a graph refuses to build, `facts`, the truth of an artifact and of
a review requirement. **PlanningDocument** is one document and what a command makes of it; **Plan** the
three commands, each one step, with the reviews an execution accepts of a revision. Its specification is
`PlanSpec`, so that the store's can be named beside it.

**PlanningStore** — `store.rs`, `planning.rs` and the driver's `graph`, one action per file-system call:
list, read one document at a time, look whether a path exists, open the temporary (truncating what
another has open under that name), write, rename, die. `Apart` says whether people keep their commands
from meeting; with it the commands implement **Plan** (`ImplementsPlan`), reads still meeting everything.

**CommandBackend** — `command.rs`, `store.rs`. A call holds the lock from end to end and is one action;
inside, checks and changes have the code's order and a check that fails late leaves changes behind. An
envelope may be sent any number of times: a retry, a late duplicate and a lost answer are the same
envelope again. `answer` is what the last caller was told. **CommandContract** is what `aep-contract` asks
of any `CommandService`. **Seeding** — `seed.rs`: the two passes of `from_manifest` command by command, stopped by
the first error and started again with the same graph or a corrected one. Other callers' commands run
between any two of them and between two runs: they revise what was seeded, cut its edge, add one like it,
or take an address it needs. `token` and `locator_key` are modelled by what they do, over names of a few
characters.

**TraceVerdicts** — `check.rs`, `ir.rs`, `matcher.rs`, `report.rs`, `evidence.rs` as operators: what each
expectation says of an IR, `DecideCount` under unread events, the fold. **EventStream** —
`event_stream.rs`: a run does one thing after another and each becomes a line, read or opaque; every
state is a capture somebody may judge, against what really happened. An event of the IR stands at the
position of its line, as `read_event` numbers it. Decisions may be written down after the terminal record,
which is why the reader counts denials in a pass of its own; `late` are the refusals among them, which the
census has counted already. The vendor's list may be absent, name its calls or not. What a harness emits,
and in which order, is external.

The MC modules hold the instances, and definitions marked *Mutant* beside the originals are the bugs each
property is shown to catch; no specification uses them.

## Runs

Twelve runs, one per question. All bounds are constants of the `.cfg`. Deadlock checking is off in each:
the bounds, a completed task or a process that has exited stop every model, as they stop the program.

| run | instance | states | shows |
|---|---|---|---|
| `lock_takeover` | 3 invocations, one resuming, two forcing, two hosts, one with no `/proc` | 7 417 | `OneDriver`, `LockNamesDriver`, `DirectoryNeverReused`, `StolenFromTheDead`, `ImplementsMutex`, all under `AtomicTakeoverSpec` |
| `run_sessions` | 3-state plan with a back-edge, an llm, a retried command and an operator step; 3 sessions, 1 crash, the workflow editable | 123 162 | `StepsWithinVisitBudget`, `DuplicatesBoundedByCrashes`, `AskedOnce`, `SessionEnds`, `ImplementsTask` |
| `facts_values` | 4 facts, 18 predicates nesting all connectives, two scales that disagree | 108 | `InformationNeverReverses`, `RepairingTheCausesSatisfies` over every partial assignment |
| `engine_log` | 3-state workflow, horizons of 1, 2 and 3 days, 2 records of 4 sorts in any order, 5 instants | 24 402 | `GatesStandOnLiveEvidence`, `MissingAgreesWithTheReport`, `TimeOpensNothing`, `ResubmissionRestoresNothing` |
| `engine_restore` | the same plan, 3 graphs, one snapshot and restore, one record | 18 582 | `EntryPointsReadTheClock` |
| `capability_compose` | 5 chains of profiles, 2 principles, 4 tasks, 3 states, 4 capabilities | 42 269 | `DeniedStaysDenied`, `NothingGatedWithoutApproval`, `PlanKeepsTheFloor`, `ApprovalOpensWhatItNames` |
| `preflight_plan` | a plan that asks a person on a transition, in an obligation and two conditions deep in completion, and may ask for a specification no step produces; 3 records | 7 174 | `DemandsBlock`, `RefusalsAreReal`, `ScanIsComplete` |
| `plan_documents` | a design, an api-design and a decision under the shipped lifecycles, revisions to 4, one review | 133 417 | `StatusesStayDeclared`, `FactsAgreeWithRequirements`, `ContradictionNeedsNewWork`, `ChangeEndsReview`, `OnlyNewBreaksThePlan` |
| `planning_writers` | 2 processes, 3 documents, 7 jobs, crashes at any call, commands kept apart from each other but not from reads | 56 475 | `BrokenReadsMissedADocument`, `ImplementsPlan` |
| `backend_commands` | 4 entities from the start, 13 callers' commands of every kind, 4 audit records; among them up to two seedings of three graphs: one with an edge to nothing, the same put right, one of two artifacts at one address | 529 664 | `HistoryAccountsForRevisions`, `AuditTellsTheHistory`, `SeededIsTheManifest`, `RecordsKeepTheirWords`, `ImplementsContract` |
| `trace_verdicts` | 2 sorts of call, 3 of result, decisions, text and records; 4 events, 1 of them unread; vendor lists of up to 2 entries, each naming its call or not, 1 refusal written down after the end; 4 documents of counting expectations, one of them of totals alone, and one of the others | 296 493 | `UnreadNeverTurnsAVerdict`, `EvidenceIsEarned`, `DenialsAddUp`, `VerdictsUnderDoubtAreFinal` |
| `lock_race` | as `lock_takeover` on one host, without the assumption | — | `OneDriver` violated: two drivers of one store |

Each component's `TypeOK` holds in the same instances (replace a cfg's properties by it); it is a theorem
for StoreLock, DriverRun, Engine, Capabilities, Plan (`PlanTypeOK`), PlanningStore, CommandBackend and
EventStream.

Why these bounds are enough for the cases that matter: three invocations are a holder, a taker and a
late-comer, and the second host is where a pid means nothing; two records are what it takes for one to
cover another, and five instants pass every horizon of the plan from either side, equality included;
three sessions are a start, a resume and a resume of a resume, the last without `--pause-on-approval`;
visit budgets of 2 and 1 are exhausted, and refused once more, inside them; the chains extend in both
directions so that a wider profile follows a narrower one and the reverse. In Preflight the conditions
nest two deep, one level more than any of the counts reads. Four revisions carry a design from draft to
approved and on to superseded, with a relation in between. Two processes are a writer and a reader, or a
writer and the temporary file its dead predecessor left; a third document is what a listing can miss. Four audit records hold
a command, its replay, a refusal and the command that follows; a replay leaves none, so they are also a
seeding of three commands, a caller who undoes one, and the seeding again. Two seedings are a failure and
its correction, a failure and its repeat, or a success and its replay, with callers in between. Four events
are a call, its decision, its answer and the record that ends the run, or two calls with something unread
between, or two calls, the end of the run and a decision written down after it. Two entries of the vendor's
list are one that names its call and one that does not, of calls the seam refused too or not. The checker
asks whether anything is unread, never how much, and one unread line is enough for that; the theorems are of
any number.

**Fairness.** Only `SessionEnds` needs it: `WF_vars(SessionStep)`, no more than that a session that can
take a step takes one. It stands for executors that return and file writes that do not hang (the drive loop
is a plain synchronous loop). Crashes, edits and new sessions are never required to happen.

**What the properties rest on.** `TimeOpensNothing` has a premise, that submissions are in the order of
observation; `LapseReadsUnknown` below is why. `AskedOnce` is about histories before the first crash;
`DuplicatesBoundedByCrashes` says what a crash does, and TaskRun is implemented through every crash.
`MissingAgreesWithTheReport` holds where no record attests a revision and fails where one does (see
below), which isolates the disagreement. `RefusalsAreReal` and `DemandsBlock` except what the facts of the
run refute, as the reports do. `ImplementsPlan` needs commands that do not meet (`Apart`): nothing in the
code keeps them apart, and the table below says what they do to each other. `ImplementsContract` holds for
callers that name what exists.

`SeededIsTheManifest` is of one seeder at a time, and of names that stay apart: of manifests whose ids
differ in more than a separator, in which one id has one body (a manifest whose body was edited is replayed,
with success and the old body), and of callers who use no command key a seeding makes. Success says that every artifact and every edge
was stored, by this run or by the one it replays; it does not say that they are there now. A caller who
cut an edge or revised a body between two seedings has had the last word, and the second seeding reports
success all the same. The property says so, and `SuccessPutsItThere` below is the statement that fails.
`DenialsAddUp` counts every refused call once, with one exception the reader makes: an entry of the
vendor's list that names no call can be joined with nothing and is always counted, so a call the seam
refused and the vendor lists that way counts twice.

`UnreadNeverTurnsAVerdict` is about the kinds that count, which are the ones `check.rs` decides under doubt.
The kinds that read one record are constrained by no property the runs check, since `EvidenceIsEarned` is of
documents that gate on counting kinds only; `UnreadIsUnknown` is what the design document says of all. Of a total of result bytes it promises less than of a count: such a total
is unknown as soon as one selected call has no result, so an unread line may hide a call whose missing result
would have made the whole total unknown. `Stands` says so, and `TotalsAreDecided` below is the stronger
statement the comments of `check.rs` suggest, which fails.

**Refinements.** `ImplementsMutex`, `ImplementsTask`, `ImplementsPlan` and `ImplementsContract` are
temporal properties: the abstract specification under `INSTANCE ... WITH`. None has fairness, so they say
what a step may do. StoreMutex's owner is read off file and processes together; TaskRun's record off the
renamed files, so that a crash is a stutter exactly when nothing reached the disk; Plan's step is the
rename; CommandContract's state is the store with its history and events, and the audit, which a refusal
does write, is outside it.

## Proofs

Eight modules of theorems, each about every value of its component's constants: any number of processes,
sessions, documents, plans of any shape, any workflow. `PROJECT.json` lists the theorems and the property
each states. A theorem named `TypeCorrect` is `Spec => []TypeOK` (the plan's is `PlanTypeCorrect`); the others
are below, with the invariant each rests on and the hypotheses that are not mere typing.

**StoreLockProofs.** `TypeOK` is not inductive (`record_run` writes `run[p]` into the lock), so
`RunAllocated` is carried along. `TakeoverIsExclusive` and `TheLockNamesItsDriver` are `OneDriver` and
`LockNamesDriver` under `AtomicTakeoverSpec`. The invariant `LockInv` adds, per invocation, that a forcing
reader's file is still the one it read (`ReadIsCurrent`), that who is about to overwrite read a dead
holder's lock (`StealsFromTheDead`), that a holder's file is there and its own (`HolderHasFile`), that
`record_run` rewrites its own body (`RecordsItself`) and that the ordinal it allocated is free
(`OrdinalIsFree`). `DirectoriesAreFresh` and `TheLivingKeepTheirLock` are action properties from it, and
`FilesImplementTheMutex` a step simulation: a creation is an acquisition, an overwrite a take-over of what
is lost, an error or a death leaves, and every other call is a stutter. The assumption in the name is the
one thing `take_lock` does not provide, and `lock_race` is what happens without it.

**DriverRunProofs.** `RunImplementsTask` is `ImplementsTask` for every plan, any number of sessions,
crashes, retries and edits. Its invariant `RecordsInv` says where memory and the two files agree
(`RecordsAgree`: a cursor never without a snapshot, what is in memory is what is on disk but between the
two renames), that what is loaded is pinned (`PinsHold`) and that `completed` was earned
(`CompletionEarned`). The theorem holds through every crash because a lost rename is a stutter.
`OperatorAskedOnce` adds `AskedBehind`: every operator step asked since the entry is behind the cursor on
disk. `VisitBudgetKept` adds `VisitsCounted`, which relates the entries in memory and in the snapshot to
the visits of the cursor, and assumes that no transition re-enters the state it leaves: a crash between the
renames of a self-loop leaves two files that agree on the state and not on how often it was entered.
`CrashesBoundEntries` says by how much without that assumption: by one entry per crash.
`DuplicatesBounded` (`DuplicatesBoundedByCrashes`, for every plan) adds `AttemptsCounted`: a command step
under way is counted and not yet submitted (`UnderWay`), and between the two renames the cursor on disk is at
most one attempt behind the snapshot beside it (`Ahead`), which is the one record a crash there duplicates.
The attempts of a kind are a sum over a finite set of steps; `TotalFacts` is what a fold gives of it.

**EngineProofs**, of Predicates, FactStore, Engine and Preflight. Verdicts, nested conditions and counts are
recursive; `RecursionHasASolution` is proved once, for a function by recursion on a well-founded order, and
each recursive definition gets its equation from it. `AnswersReadTheClock` (`EntryPointsReadTheClock`),
`OldNewsIsNoNews` (`ResubmissionRestoresNothing`) and `RequirementsStandAtGates` need no more than `TypeInv`,
which says of the log that nothing in it was observed after it was submitted, restored or not.
`TheScanIsComplete` (`ScanIsComplete`) compares the scan of the launch with the evaluator in every state,
by induction over the nesting of conditions. The others have hypotheses on the *plan*, each a definition of
Engine, and each evaluated by TLC on the instances of the runs (`ASSUME` in MCEngine and MCPreflight):

* `GatesNeedLiveEvidence` (`GatesStandOnLiveEvidence`): `GuardsConjoin` and `OnlyEvidenceBinds`. Under an
  `any` a guard may pass on its other alternative while a lapsed record is one it merely mentions; so the
  property is of conjunctions, and the transition of `workflows/development/default.yaml` line 124, whose
  guard is an `any`, is one it does not cover.
* `DemandsAlwaysBlock` (`DemandsBlock`), `RefusalsAreAlwaysReal` (`RefusalsAreReal`):
  `ConditionsReadObservations`, since the count of what is missing reads conditions *before* anything is
  derived, so a condition on a derived fact has two readings; and `CountIsAskedToBeNothing`, the form
  `evidence.missing == 0` in a conjunction that every shipped workflow and profile uses (a guard
  `evidence.missing < 2` lets a demand it reports through). `GateStep` is the heart: whatever passes a gate
  passed `Opens` at the reading of that step.
* `DemandsAlwaysBlock`, `TheCountAgreesWithTheReport` (`MissingAgreesWithTheReport`): `NothingIsUnbound`,
  because the count ignores which revision a record attests (the row of that name below).
* `WaitingOpensNothing` (`TimeOpensNothing`): `OnlyEvidenceBinds`; `OneKindBinds`, a name is bound by records
  of one kind, which decay alike (the kinds bind names under prefixes of their own, `evidence.rs` 1565, but
  for the bare name of a metric); and `LapsesOnlyUnsettle`. The argument is that facts only fade: a lapse
  makes a leaf `unknown` or leaves it (`LeavesFade`), Kleene's connectives keep that order
  (`ConnectivesFade`), the count of what is missing never falls back to nothing (`MissingFades`), and a
  condition refuted later was refuted before. Two things turn a truth instead of unsettling it, and the
  third hypothesis keeps them out: asking for missing evidence under a negation, and
  `defined(p)` of a `p` that lapses, which becomes *false*. The shipped approval gate is of that form
  (`governing/approval-gates.yaml` 22, `defined(deployment.production.status)`): no shipped requirement
  declares a horizon, so it is covered as shipped, and a horizon on deployments would have waiting open it.

FactStore is read beside Engine, over the same predicates (its specification is `FactsSpec` for that reason).
`InformationIsMonotone` (`InformationNeverReverses`) rests on the same lemma as the fading
above, `TruthsUnsettle`: where less is bound a predicate that reads values is as it was, or unknown.
`CausesAreEnough` (`RepairingTheCausesSatisfies`) needs an argument under negation, since what refutes a
conjunction is what a negated disjunction asks: `RepairsSatisfy` is for both polarities, by induction over the
table. `PartsAreAsked` says that what a composite asks of the leaves below a part is what the part asks, or
nothing; it is where the parts must share no leaf. Neither theorem has a hypothesis beyond
`TableAssumption`, and neither depends on how the store got its facts.

**CapabilitiesProofs.** `FloorHolds` (`PlanKeepsTheFloor`): `resolve` checks the *entries* of the allow
list and the property is about every capability they cover; `AllowedThroughAnEntry` is the step between.
`ApprovalsAreNarrow` (`ApprovalOpensWhatItNames`). `DenialsBind` and `GatesBind` (`DeniedStaysDenied`,
`NothingGatedWithoutApproval`) are about every document in force: `ComposeBinds` proves that the fold over
profiles, principles and task keeps what each of them denies and gates, and `AnswerBinds` that the answer
keeps what the resolved policy and the state do.

**PlanProofs** begins with lemmas on lifecycles, graphs and revisions that the store's proofs use too; `Gluing`
says that adding one edge between documents whose edges do not lead back leaves the graph acyclic.
The invariant is `DocumentsInv /\ ReviewsInv` (documents have the kind of their id and a
declared status; no review is of a revision not yet made). `StatusesDeclaredAlways`,
`FactsAndRequirementsAgree`, `ChangesEndReviews` and `PlansKeepBuilding` need nothing else;
`RetiredWorkStaysRetired` (`ContradictionNeedsNewWork`) assumes `RetirementIsFinal`, that no lifecycle in
force leads out of a retired status.

**PlanningStoreProofs**, under `Apart`: `StoreStaysWhole` (no torn path, no cycle),
`ReadsMissOnlyNewDocuments` (`BrokenReadsMissedADocument`) and `StoreImplementsPlan` (`ImplementsPlan`), a
step simulation in which the rename is the command. `Inv` says per process that what it has read is older
than the files and lost no edge (`ReadsHold`), that who relates reads a set its edges do not leave
(`EdgesHold`), that what is about to be written is what Plan's command would make of the document on disk
now (`NewHolds`, `MoveHolds`, `RelateHolds`), and whose the temporary file is (`TempHolds`).

**CommandBackendProofs.** `WordsAreKept` (`RecordsKeepTheirWords`) holds of whatever is sent.
`HistoryIsComplete`, `AuditAndHistoryAgree` and `ContractIsKept` (`HistoryAccountsForRevisions`,
`AuditTellsTheHistory`, `ImplementsContract`) assume `SupersededExists`, no acceptance of a decision
supersedes one that does not exist, because that refusal comes after the change (`command.rs` 302); the
last assumes `AssertsOfSubjects` too, since a revision asserted of what a command does not change is not
compared. Both are disagreements of the table below. `TypeInv` carries that the maps of the store agree on
what exists; `HistoryInv` and `AuditInv` tie revisions, events and audit together.
`SeedingIsFaithful` (`SeededIsTheManifest`) is of any number of runs over any set of graphs, with any
commands of other callers between their commands, under two conditions. `NamesApart`: artifacts that get one
command key, within a graph or in two, are one artifact (one id, body and address), and edges that get
one key are one edge. `CallersApart`: callers use none of those keys, nor one key and id for two commands.
`NothingIsShared` (`NoSilentSharing`) and `SeedingSendsCommands` (`SeedSpec => Spec`, which carries what is
proved of the backend over to a seeding) hold under the same. The conditions are what `seed.rs` counts on
without asking; without the first both properties fail (the row of `NoSilentSharing` below), and the
instance of the run meets both. `SeedInv` has three parts. What is stored under a seeding's key came from a
graph, whichever run stored it, and is still there with its address, its body if it is at revision 1, and its
edges but for those a caller had removed; every other relation is a caller's (`Holds`). The run knows its
artifacts by their own names (`IdentitiesHold`). Every step of the run under way is done or on its list,
creations first (`Progress`).
`FlattenIs` and `PassesAre` say what the two passes list.

**EventStreamProofs**, of TraceVerdicts and EventStream. `DecidedForAllLarger` is what `decide_count` is for:
decided of a count that may grow, decided of every larger one, whether that one may still grow or not. The
rest is that reading more only makes counts larger. `Covers` relates two readings of which the second has all
the first understood; under it the calls selected, answered, failed, completed or repeated of the first are
among those of the second (`CoveredCalls` and its companions) and a total of bytes is no smaller
(`SumsGrow`, by induction over finite sets, since the total is a fold). `VerdictStands` puts both together,
one case per kind of expectation. Both are used of a capture and the whole run (`UnreadTurnsNothing`,
`UnreadNeverTurnsAVerdict`) and of a capture and its next line (`DoubtIsSettled`,
`VerdictsUnderDoubtAreFinal`). The invariant `StreamInv` supplies what they need of a run: a line for every
event in its place (`LineForLine`), no call answered twice (`OneResultEach`), and one terminal record, whose
census is of all the seam refused, what it writes down later included (`OneOutcome`). Without the second an
unread first result would let a later one speak for the call. `EarnedEvidence` (`EvidenceIsEarned`) goes through the fold of the report: `ReportSays` shows, for a
document of any length, which rows decide it. `RefusalsAreCounted` (`DenialsAddUp`) is about cardinalities of
the seam's and the vendor's refusals: the larger of census and decision lines is no less than the seam's;
the vendor adds the calls it names and the lines do not, and every entry that names none, of which the
ones the seam refused are counted again (`JoinedByCall`).

**Assumptions on constants**, evaluated by TLC in every run of the module: `ProcAssumption`,
`OwnerAssumption`, `BoundAssumption`, `SentinelAssumption` (StoreLock); `PlanAssumption`,
`BoundsAssumption`, `DocumentAssumption`, `SentinelAssumption` (DriverRun); `TableAssumption` (Predicates);
`SetAssumption`, `PlanAssumption`, `HorizonAssumption`, `SubmissionAssumption`, `EngineBounds`, `SentinelAssumption` (Engine);
`MapAssumption` (Preflight); `CapabilityAssumption`, `StateAssumption` (Capabilities); `KindAssumption`,
`LifecycleAssumption` (Artifacts); `DocumentAssumption` (PlanningDocument); `PlanAssumption`,
`ReviewAssumption` (Plan); `StoreAssumption` (PlanningStore); `BackendAssumption`, `SentinelAssumption`
(CommandBackend); `SeedAssumption` (Seeding); `BoundAssumption`, `AbsentAssumption`, `ResultAssumption`,
`DocumentAssumption` (EventStream). They type the constants and say that the values standing for *nothing* are no values,
that a predicate's children and a set's conditions come before it, and that plans are finite.

**Only model-checked.** `SessionEnds` is liveness under fairness, which TLAPS does not do, like anything
about `ENABLED`. It is the one property of a run no theorem states. Recursive functions are within reach by
well-founded recursion, as above; `RECURSIVE` operators, and induction theorems that take an operator for a
parameter, are not.

## Disagreements

`lock_race` / `OneDriver`: between probing a stale lock and overwriting it another invocation can take or
release it, and two drivers hold one store. `PROJECT.json` quotes the statement (`drive.rs`, `lock.rs`).

### Further counterexamples

The modules state these too, each where a document, a comment or a test does. To reproduce one, replace the
property lines of the configuration by the statement and make the change named, if any. (`<-` names a
definition of the MC module.)

| statement | configuration, change | what the code does |
|---|---|---|
| `ReleasedOnEveryExit` | `StoreLock_takeover`, `SPECIFICATION Spec` | an error after the lock is taken and before the run is driven returns without `release` (`drive.rs` 869) |
| `TheftRecorded` | the same | the superseded holder never reaches the new run's cursor (`run.rs` 877) |
| `StaleLockHasRouteOut` | the same | a lock whose writer died before its content cannot be parsed, so not taken (`drive.rs` 942) |
| `InterruptedRunResumes` | `DriverRun_sessions` | a crash between the renames of snapshot and cursor leaves two states no later resume accepts (`run.rs` 218) |
| `AttemptsCountEveryExecution` | the same | the attempt is written only after the step (`run.rs` 582) |
| `CompletedIsFinal` | the same | `resume` does not ask `is_resumable` (`run.rs` 333) |
| `StatusIsCurrent` | the same | a resumed run keeps its last stop as its status |
| `ExhaustedRunResumes` | the same | spent visits are never given back (`route.rs` 52) |
| `NeverRegoverned` | the same, `Editable = {"guards"}` | the pin is the workflow's id and version, so guards rewritten under the same reference re-govern a run (`cursor.rs` 283) |
| `EntriesWithinBudget` | the same, `State`, `Transitions`, `Steps`, `VisitBudget` `<-` `LoopStates`, `LoopTransitions`, `LoopSteps`, `LoopVisits` | an entry persisted only in the snapshot is made again (`run.rs` 218) |
| `WithheldIsNeverFalse` | `FactStore_values` | `defined` of a withheld fact is false (`predicate.rs` 399) |
| `LapseReadsUnknown` | `Engine_log` | the lapse of a later record uncovers an earlier one (`execution.rs` 340) |
| `VerifierAndEvidenceAgree` | the same | a verifier is held to the strictest horizon of a kind, a requirement to its own (`evaluate.rs` 409) |
| `MissingCountsThePlan` | the same | what states and transitions require is not counted (`execution.rs` 556) |
| `MissingAgreesWithTheReport` | the same, `Submissions <- SpecRuns`, `Graphs <- Revisions` | the count ignores which revision a record attests, the requirement does not (`execution.rs` 605) |
| `PrinciplesHandOutNothing` | `Capabilities_compose` | a principle's approval list makes a capability nobody granted exercisable, once approved (`capability.rs` 630) |
| `ExtensionOnlyRestricts` | the same | a narrower profile's own grants are added (`profile.rs` 97) |
| `RefusalHasAnAddress` | the same | a refusal a state decides names no document (`policy.rs` 154) |
| `HeadlessMeetsNobody` | `Preflight_headless` | a condition false before the run, made true by the run's own evidence, asks a person the scan did not announce (`approval.rs` 75) |
| `PlanAlwaysBuilds` | `Plan_documents` | `new --relate` writes an edge to a document that is not there, and no graph is built any more (`planning.rs` 298) |
| `SupersessionEndsReview` | the same | `covers` reads revisions and freshness only: a review that names no revision covers an artifact another one supersedes (`review.rs` 244) |
| `ReadsBuild` | `PlanningStore_writers` | a listing made before a document appeared holds an edge to it: the driver stops on a broken store that never was (`run.rs` 764) |
| `NoCycles` | the same, `Apart = FALSE` | two `relate` commands checked against the same load close a cycle together (`planning.rs` 393) |
| `NewNeverOverwrites` | the same, `Apart = FALSE` | `exists` and the rename are apart: the second of two `new` replaces the first (`store.rs` 214) |
| `RevisionsAreContents` | the same, `Apart = FALSE` | two commands write one revision with two contents |
| `NothingTorn` | the same, `Apart = FALSE` | the temporary's name is the document's: one writer truncates what the other is about to rename (`store.rs` 250) |
| `AnswersNameTheirEvents` | `CommandBackend_commands` | a command that emits nothing answers with another's event (`command.rs` 386) |
| `ImplementsContract` | the same, `Callers <- WithMissing` | accepting a decision that supersedes a missing one is refused after the change was made (`command.rs` 302) |
| `ImplementsContract` | the same, `Callers <- WithStaleEdge` | the expected revision is compared where an entity is changed; `relate` and `unrelate` never ask (`command.rs` 180, 475) |
| `ApprovalsRestOnTheirReview` | the same, `Callers <- WithMistakes` | an approval asks that its review exists, not what it is of (`command.rs` 273) |
| `RecordsStopAtArchival` | the same, `Callers <- WithMistakes` | the typed commands do not ask `require_mutable`: approving a review sets its status |
| `SuccessPutsItThere` | the same | a seeding that replays an earlier one reports success with the edge missing, or the body revised, that a caller removed or changed since (`seed.rs` 76–116) |
| `NoSilentSharing` | the same, `Manifests <- AllManifests` | ids that differ in a separator share a command key: the second is answered by the replay of the first (`seed.rs` 218) |
| `UnreadIsUnknown` | `EventStream_verdicts` | counts are decided beside unread lines when those cannot turn them, and some kinds do not look (the design document, 2.9) |
| `TotalsAreDecided` | the same | a total is unknown as soon as one call has no result, even where its bound is exceeded already or holds for every larger total (`check.rs` 873) |
| `OneRefusalIsOneDenial` | the same | a refusal whose decision line was lost is counted by the census and, not being joined by call, once more by the vendor's list (`event_stream.rs` 429); so is, with every line read, one the vendor lists without its id (441) |
| `GapBesideUnknown` | the same | `step.exec_time` answers unknown beside an interval that already contradicts it (`check.rs` 1387) |

## Not modelled

* Parsing, formatting, rendering, digests, error texts: no property here is about them, except the token and
  the locator key of a seeding, which decide what meets what.
* Events and the trail of the engine: output no guard reads. The backend's events and audit are modelled.
* Engine keeps an artifact or review requirement as one bit of the graph; what makes the bit is Artifacts and
  Plan. They are not composed into one state space: the product adds no interaction, since the engine reads
  the graph between commands.
* Preflight: the approvals of gated capabilities (`approval.rs` 197–231), which are Capabilities' question.
* The memory backend's queries and change feed; the markdown backend's parser; the `artifact` commands that
  only print.
* Transcripts: the stream-json adapter of vendor formats; the token, cost, cache and environment
  expectations, which decide a number of one record as the modelled ones do; and the request count, which is
  of the whole transcript and, unlike the counts modelled, is decided without asking whether a line was unread
  (`whole_run_count`, `check.rs` 1149), so `UnreadIsUnknown` fails for it too.
* Removing a principle (`remove`, `without_principles`) is modelled and is the documented way to lose its
  denials; `DeniedStaysDenied` is about the documents in force.
* The pieces of `resolve` that are not about capabilities (obligations, workflow) enter Engine as constants.
* Batch tooling (`ess-*`, `infra-*`), which is more than half of the workspace: pure passes from documents to
  documents, with no state, order or failure between calls. Their golden tests fix them case by case, and a
  model of a compiler pass would be the pass written again.

## Plan

Every property the runs check is proved but `SessionEnds`. What would say more about the code, in this order:
the kinds of expectation that read one record or an interval (`record`, `step.exec_time`, `order`), for which
`UnreadIsUnknown` says what fails and no property says what does hold; the extension chains of the registry,
composed with Capabilities; and, of the tooling that is not modelled, the simulation of the infrastructure
pipeline, whose steps have an order.
