---------------------------- MODULE PlanningStore ----------------------------
(***************************************************************************)
(* The files under .engineering/planning and the processes that read and   *)
(* write them: MarkdownStore (crates/aep-backend-markdown/src/store.rs),   *)
(* the commands `new`, `move` and `relate` (crates/protocol-cli/src/       *)
(* planning.rs) and the driver's reading of the graph (run.rs, graph).     *)
(*                                                                         *)
(* A write goes through a temporary file whose name follows from the       *)
(* document's, and nothing locks the store: every file-system call is an   *)
(* action.  An open file is known by what names it now: its temporary      *)
(* name, the document's path, or nothing any more.                         *)
(***************************************************************************)
EXTENDS PlanningDocument

CONSTANTS
  Process,
  Jobs,     \* what a process may be asked to do
  Apart,    \* whether people keep their commands from meeting
  NoFile,   \* a name with no file behind it
  Torn      \* a file that holds less than a document, or pieces of two

VARIABLES
  path,   \* the file behind each document's path
  temp,   \* the file behind each document's temporary name
  proc    \* the processes

vars == <<path, temp, proc>>

(* What a process may be asked to do: the commands, and reading the graph. *)
Job ==
  [op : {"new"}, doc : ArtifactId, edges : SUBSET (Relation \X ArtifactId)]
    \cup [op : {"move"}, doc : ArtifactId, to : Status]
    \cup [op : {"relate"}, doc : ArtifactId, edge : Relation \X ArtifactId]
    \cup [op : {"read"}]

ASSUME StoreAssumption ==
  /\ Apart \in BOOLEAN
  /\ ArtifactId \subseteq Nat
  /\ Jobs \subseteq Job
  /\ Torn # NoFile /\ {Torn, NoFile} \cap Document = {}

NoJob == [op |-> "none"]

Idle == [at |-> "idle", job |-> NoJob, todo |-> {}, seen |-> [d \in {} |-> NoFile],
         doc |-> NoFile, handle |-> "closed"]

Init ==
  /\ path = [d \in ArtifactId |-> NoFile]
  /\ temp = [d \in ArtifactId |-> NoFile]
  /\ proc = [p \in Process |-> Idle]

OnDisk == {d \in ArtifactId : path[d] # NoFile}

(* What the store holds, when no file of it is torn.                       *)
Documents == [d \in OnDisk |-> path[d]]

Goto(p, label) == proc' = [proc EXCEPT ![p].at = label]

Done(p) == proc' = [proc EXCEPT ![p] = Idle]

Doing(p, ops) == proc[p].job.op \in ops

(* Documents are read in path order, which their numbers follow.           *)
IsNext(d, todo) == d \in todo /\ \A e \in todo : d <= e

---------------------------------------------------------------------------
(* Starting                                                                *)

(* People who keep apart do not work on one document, or on two edges, at  *)
(* a time, and give a new document edges to documents there are.           *)
KeptApart(job) ==
  /\ job.op # "read" =>
       \A q \in Process : Doing(q, {"new", "move", "relate"}) => proc[q].job.doc # job.doc
  /\ job.op = "relate" => \A q \in Process : ~Doing(q, {"relate"})
  /\ job.op = "new" => \A edge \in job.edges : edge[2] \in OnDisk

Start(p, job) ==
  /\ proc[p].at = "idle"
  /\ Apart => KeptApart(job)
  /\ proc' = [proc EXCEPT ![p].job = job,
                          ![p].at = IF job.op = "new" THEN "create" ELSE "list"]
  /\ UNCHANGED <<path, temp>>

---------------------------------------------------------------------------
(* MarkdownStore::load                                                     *)

List(p) ==
  /\ proc[p].at = "list"
  /\ proc' = [proc EXCEPT ![p].at = "read", ![p].todo = OnDisk]
  /\ UNCHANGED <<path, temp>>

ReadOne(p) ==
  /\ proc[p].at = "read" /\ proc[p].todo # {}
  /\ \E d \in ArtifactId :
       /\ IsNext(d, proc[p].todo)
       /\ proc' = [proc EXCEPT ![p].todo = @ \ {d}, ![p].seen = Put(@, d, path[d])]
  /\ UNCHANGED <<path, temp>>

Loaded(p) == proc[p].at = "read" /\ proc[p].todo = {}

(* StoreReport::is_clean.                                                  *)
Clean(p) == \A d \in DOMAIN proc[p].seen : proc[p].seen[d] # Torn

---------------------------------------------------------------------------
(* What the commands make of it                                            *)

(* The write of a document, or none: a set of at most one.                 *)
MoveWrites(p, job) ==
  LET seen == proc[p].seen IN
  {MovedTo(seen[d], job.to) :
     d \in {d \in {job.doc} \cap DOMAIN seen :
              job.to \in LifecycleOf(seen[d].kind).moves[seen[d].status]}}

(* Mutant: an edge is written when its two ends are there.                 *)
RelateUnchecked(p, job) ==
  LET seen == proc[p].seen IN
  {RelatedTo(seen[d], job.edge) :
     d \in {d \in {job.doc} \cap DOMAIN seen :
              job.edge[2] \in DOMAIN seen /\ job.edge \notin seen[d].relations}}

RelateWrites(p, job) ==
  LET seen == proc[p].seen IN
  {RelatedTo(seen[d], job.edge) :
     d \in {d \in {job.doc} \cap DOMAIN seen :
              /\ job.edge[2] \in DOMAIN seen
              /\ job.edge \notin seen[d].relations
              /\ Buildable(Graph(Put(seen, d, RelatedTo(seen[d], job.edge))))}}

(* A store that is not clean refuses the command; so do a lifecycle, a     *)
(* missing document and a graph that would not build.                      *)
Decide(p) ==
  /\ Loaded(p) /\ Doing(p, {"move", "relate"})
  /\ LET job == proc[p].job
         writes == IF ~Clean(p) THEN {}
                   ELSE IF job.op = "move" THEN MoveWrites(p, job) ELSE RelateWrites(p, job)
     IN IF writes = {} \/ \E w \in writes : w.revision > MaxRevision
        THEN Done(p)
        ELSE \E w \in writes :
               proc' = [proc EXCEPT ![p].at = "open", ![p].doc = w,
                                    ![p].seen = Idle.seen]
  /\ UNCHANGED <<path, temp>>

(* Mutant: `new` writes without asking whether the path is taken.          *)
CreateWithoutLooking(p) ==
  /\ proc[p].at = "create"
  /\ proc' = [proc EXCEPT ![p].at = "open", ![p].doc = Fresh(proc[p].job.doc, proc[p].job.edges)]
  /\ UNCHANGED <<path, temp>>

(* MarkdownStore::create refuses a path that exists.                       *)
Create(p) ==
  LET job == proc[p].job IN
  /\ proc[p].at = "create"
  /\ IF path[job.doc] # NoFile THEN Done(p)
     ELSE proc' = [proc EXCEPT ![p].at = "open", ![p].doc = Fresh(job.doc, job.edges)]
  /\ UNCHANGED <<path, temp>>

(* The driver has its graph, or stops on a broken store.                   *)
Answer(p) ==
  /\ Loaded(p) /\ Doing(p, {"read"})
  /\ Done(p)
  /\ UNCHANGED <<path, temp>>

---------------------------------------------------------------------------
(* MarkdownStore::write                                                    *)

(* fs::write opens the temporary file, emptying the one that is there.     *)
Open(p) ==
  /\ proc[p].at = "open"
  /\ temp' = [temp EXCEPT ![proc[p].job.doc] = Torn]
  /\ proc' = [proc EXCEPT ![p].at = "write", ![p].handle = "temp"]
  /\ UNCHANGED path

(* A file that two processes have open holds one document or a piece of    *)
(* each; it is whole once one process has written the whole of it alone.   *)
Shared(p) ==
  \E q \in Process \ {p} :
    proc[q].handle = proc[p].handle /\ proc[q].job.doc = proc[p].job.doc

Written(p, old) == IF old = Torn /\ ~Shared(p) THEN {proc[p].doc} ELSE {proc[p].doc, Torn}

Write(p) ==
  LET d == proc[p].job.doc IN
  /\ proc[p].at = "write"
  /\ \/ /\ proc[p].handle = "temp"
        /\ \E file \in Written(p, temp[d]) : temp' = [temp EXCEPT ![d] = file]
        /\ UNCHANGED path
     \/ /\ proc[p].handle = "path"
        /\ \E file \in Written(p, path[d]) : path' = [path EXCEPT ![d] = file]
        /\ UNCHANGED temp
     \/ /\ proc[p].handle = "gone"
        /\ UNCHANGED <<path, temp>>
  /\ proc' = [proc EXCEPT ![p].at = "rename", ![p].handle = "closed"]

(* What names q's open file once p has renamed its temporary.              *)
HandleAfterRename(p, q) ==
  IF proc[q].job = NoJob \/ Doing(q, {"read"}) THEN proc[q].handle
  ELSE IF proc[q].job.doc # proc[p].job.doc THEN proc[q].handle
  ELSE CASE proc[q].handle = "temp" -> "path"
         [] proc[q].handle = "path" -> "gone"
         [] OTHER -> proc[q].handle

(* Renaming a name another writer has already renamed is an error.         *)
Rename(p) ==
  LET d == proc[p].job.doc IN
  /\ proc[p].at = "rename"
  /\ IF temp[d] = NoFile
     THEN Done(p) /\ UNCHANGED <<path, temp>>
     ELSE /\ path' = [path EXCEPT ![d] = temp[d]]
          /\ temp' = [temp EXCEPT ![d] = NoFile]
          /\ proc' = [q \in Process |->
                        IF q = p THEN Idle
                        ELSE [proc[q] EXCEPT !.handle = HandleAfterRename(p, q)]]

(* A process ends between two calls; another may take its place.           *)
Crash(p) ==
  /\ proc[p].at # "idle"
  /\ Done(p)
  /\ UNCHANGED <<path, temp>>

Next ==
  \E p \in Process :
    \/ \E job \in Jobs : Start(p, job)
    \/ List(p) \/ ReadOne(p) \/ Decide(p) \/ Create(p) \/ Answer(p)
    \/ Open(p) \/ Write(p) \/ Rename(p) \/ Crash(p)

Spec == Init /\ [][Next]_vars

---------------------------------------------------------------------------
(* Properties                                                              *)

(* Files are documents or torn, and a process is in one of its steps.      *)
TypeOK ==
  /\ path \in [ArtifactId -> Document \cup {NoFile, Torn}]
  /\ temp \in [ArtifactId -> Document \cup {NoFile, Torn}]
  /\ \A p \in Process :
       /\ proc[p].at \in {"idle", "create", "list", "read", "open", "write", "rename"}
       /\ proc[p].job \in Jobs \cup {NoJob}
       /\ proc[p].todo \subseteq ArtifactId /\ DOMAIN proc[p].seen \subseteq ArtifactId
       /\ proc[p].handle \in {"closed", "temp", "path", "gone"}

(* Whatever crashes where, a path holds a whole document: an interrupted   *)
(* write leaves nothing the store will later try to parse (store.rs,       *)
(* write).                                                                 *)
NothingTorn == \A d \in ArtifactId : path[d] # Torn

(* `new` never writes over a document: once there is one at a path its     *)
(* revision only grows, and no two contents are ever published under one   *)
(* revision (store.rs, create and update), which is what a review of a     *)
(* revision relies on.                                                     *)
RevisionsAreContents ==
  [][\A d \in ArtifactId :
        path[d] \in Document /\ path'[d] \in Document /\ path'[d] # path[d]
        => path'[d].revision > path[d].revision]_path

(* `new` refuses a path that is taken rather than write over a document    *)
(* (store.rs, create).                                                     *)
NewNeverOverwrites ==
  [][\A d \in ArtifactId :
        path[d] # NoFile /\ path'[d] # path[d] /\ path'[d] \in Document
        => path'[d].revision > 1]_path

(* Edges are checked before they are written: the store never has to be    *)
(* repaired by hand because they close a cycle (planning.rs, relate).      *)
NoCycles == NothingTorn => \A r \in Relation : ~Cyclic(Graph(Documents), r)

(* A driver reads the documents one by one while people write.  When the   *)
(* graph it gets does not build, it is because an edge leads to a document *)
(* written after it listed the files: never a cycle, never a torn file     *)
(* (run.rs, graph; store.rs, load).                                        *)
BrokenReadsMissedADocument ==
  \A p \in Process :
    Loaded(p) /\ Doing(p, {"read"}) =>
      /\ Clean(p)
      /\ ~Buildable(Graph(proc[p].seen)) =>
           \E d \in DOMAIN proc[p].seen : \E edge \in proc[p].seen[d].relations :
              edge[2] \in OnDisk \ DOMAIN proc[p].seen

(* A driver never stops on a broken store because somebody was writing.    *)
ReadsBuild ==
  \A p \in Process :
    Loaded(p) /\ Doing(p, {"read"}) => Clean(p) /\ Buildable(Graph(proc[p].seen))

(* The commands of processes that keep apart are the plan's commands, each *)
(* happening at its rename; everything else a process does, a crash        *)
(* included, leaves the plan as it was.                                    *)
Abstract == INSTANCE Plan WITH
  plan <- Documents, reviews <- {}, NewEdges <- {job.edges : job \in {j \in Jobs : j.op = "new"}},
  Requirements <- {}, Reviews <- {}, MaxReviews <- 0

ImplementsPlan == Abstract!PlanSpec
=============================================================================
