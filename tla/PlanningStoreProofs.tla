------------------------- MODULE PlanningStoreProofs -------------------------
(***************************************************************************)
(* What the files keep, proved for any number of processes, documents and  *)
(* crashes: their types always, and while people keep their commands apart *)
(* one plan, changed by one command at a time.                             *)
(***************************************************************************)
EXTENDS PlanningStore, PlanProofs

Writers == {"new", "move", "relate"}

Publishing == {"open", "write", "rename"}

---------------------------------------------------------------------------
(* Types, for whatever the processes are asked to do.                      *)

Shape(x) ==
  /\ x = [at |-> x.at, job |-> x.job, todo |-> x.todo, seen |-> x.seen,
          doc |-> x.doc, handle |-> x.handle]
  /\ x.at \in {"idle", "create", "list", "read"} \cup Publishing
  /\ x.job \in Jobs \cup {NoJob}
  /\ x.todo \subseteq OnDisk /\ DOMAIN x.seen \subseteq OnDisk
  /\ \A d \in DOMAIN x.seen : x.seen[d] \in Document \cup {Torn}
  /\ x.doc \in Document \cup {NoFile}
  /\ x.handle \in {"closed", "temp", "path", "gone"}

(* Which job a step belongs to.                                            *)
JobFits(x) ==
  /\ x.at = "idle" => x.job = NoJob
  /\ x.at # "idle" => x.job \in Jobs
  /\ x.at = "create" => x.job.op = "new"
  /\ x.at \in {"list", "read"} => x.job.op \in {"move", "relate", "read"}
  /\ x.at \in Publishing => x.job.op \in Writers /\ x.doc \in Document
  /\ x.at # "read" => DOMAIN x.seen = {}
  /\ x.at = "idle" => x.handle = "closed"

TypeInv ==
  /\ path \in [ArtifactId -> Document \cup {NoFile, Torn}]
  /\ temp \in [ArtifactId -> Document \cup {NoFile, Torn}]
  /\ proc = [p \in Process |-> proc[p]]
  /\ \A p \in Process : Shape(proc[p]) /\ JobFits(proc[p])

---------------------------------------------------------------------------
(* While people keep apart.                                                *)

(* One writer of a document, one writer of edges.                          *)
KeepApart ==
  \A p, q \in Process : p # q /\ Doing(p, Writers) /\ Doing(q, Writers) =>
    /\ proc[p].job.doc # proc[q].job.doc
    /\ ~(Doing(p, {"relate"}) /\ Doing(q, {"relate"}))

(* What has been read is older than the files, and no edge was lost since. *)
ReadsHold(x) ==
  \A d \in DOMAIN x.seen :
    /\ x.seen[d] \in Document /\ path[d] \in Document
    /\ x.seen[d].relations \subseteq path[d].relations
    /\ x.job.op \in {"move", "relate"} /\ d = x.job.doc => x.seen[d] = path[d]

(* Who relates reads a set of documents that their edges do not leave.     *)
Listed(x) == x.todo \cup DOMAIN x.seen

EdgesHold(x) ==
  x.at = "read" /\ x.job.op = "relate" =>
    /\ \A d \in DOMAIN x.seen : x.seen[d].relations = path[d].relations
    /\ \A d \in Listed(x) : \A edge \in path[d].relations : edge[2] \in Listed(x)

(* What is about to be written is what the plan's command would make of    *)
(* the document on disk.                                                   *)
Changing(d) == path[d] \in Document /\ path[d].revision < MaxRevision

NewHolds(x) ==
  x.job.op = "new" =>
    /\ \A edge \in x.job.edges : edge[2] \in OnDisk
    /\ x.at \in Publishing => path[x.job.doc] = NoFile /\ x.doc = Fresh(x.job.doc, x.job.edges)

MoveHolds(x) ==
  x.job.op = "move" /\ x.at \in Publishing =>
    /\ Changing(x.job.doc) /\ x.doc = MovedTo(path[x.job.doc], x.job.to)
    /\ x.job.to \in LifecycleOf(path[x.job.doc].kind).moves[path[x.job.doc].status]

RelateHolds(x) ==
  x.job.op = "relate" /\ x.at \in Publishing =>
    /\ Changing(x.job.doc) /\ x.doc = RelatedTo(path[x.job.doc], x.job.edge)
    /\ x.job.edge[2] \in OnDisk /\ x.job.edge \notin path[x.job.doc].relations
    /\ Buildable(Graph(Put(Documents, x.job.doc, x.doc)))

TempHolds(x) ==
  /\ x.handle = IF x.at = "write" THEN "temp" ELSE "closed"
  /\ x.at = "write" => temp[x.job.doc] = Torn
  /\ x.at = "rename" => temp[x.job.doc] = x.doc

Holds(x) ==
  /\ ReadsHold(x) /\ EdgesHold(x)
  /\ NewHolds(x) /\ MoveHolds(x) /\ RelateHolds(x)
  /\ TempHolds(x)

Inv ==
  /\ \A d \in ArtifactId : path[d] # Torn
  /\ KeepApart
  /\ Buildable(Graph(Documents))
  /\ \A p \in Process : Holds(proc[p])

---------------------------------------------------------------------------
(* Jobs, and the steps written out.                                        *)

LEMMA Jobbed ==
  ASSUME NEW job \in Jobs
  PROVE  /\ job.op \in {"new", "move", "relate", "read"} /\ job # NoJob
         /\ job.op \in Writers => job.doc \in ArtifactId
         /\ job.op = "new" => job.edges \in SUBSET (Relation \X ArtifactId)
         /\ job.op = "move" => job.to \in Status
         /\ job.op = "relate" => job.edge \in Relation \X ArtifactId /\ job.edge[2] \in ArtifactId
<1>1. job \in Job
  BY StoreAssumption
<1> QED  BY <1>1 DEF Job, NoJob, Writers

LEMMA NoJobDoesNothing == NoJob.op \notin {"new", "move", "relate", "read"}
  BY DEF NoJob

(* One process steps; the others are as they were.                         *)
Becomes(p, x) ==
  /\ proc' = [q \in Process |-> proc'[q]]
  /\ proc'[p] = x
  /\ \A q \in Process : q # p => proc'[q] = proc[q]

Rec(at, job, todo, seen, doc, handle) ==
  [at |-> at, job |-> job, todo |-> todo, seen |-> seen, doc |-> doc, handle |-> handle]

LEMMA StartMakes ==
  ASSUME TypeInv, NEW p \in Process, NEW job \in Jobs, Start(p, job)
  PROVE  /\ Becomes(p, Rec(IF job.op = "new" THEN "create" ELSE "list", job,
                           proc[p].todo, proc[p].seen, proc[p].doc, "closed"))
         /\ proc[p].job = NoJob
<1>1. Shape(proc[p]) /\ JobFits(proc[p]) /\ proc = [q \in Process |-> proc[q]]
  BY DEF TypeInv
<1> DEFINE label == IF job.op = "new" THEN "create" ELSE "list"
<1>2. PICK mid : mid = [proc EXCEPT ![p].job = job]
  OBVIOUS
<1>3. proc' = [mid EXCEPT ![p].at = label]
  BY <1>2 DEF Start
<1>4. /\ mid = [q \in Process |-> mid[q]] /\ \A q \in Process : q # p => mid[q] = proc[q]
      /\ mid[p] = Rec(proc[p].at, job, proc[p].todo, proc[p].seen, proc[p].doc, "closed")
  BY <1>1, <1>2 DEF Shape, JobFits, Rec, Start
<1> HIDE DEF label
<1>5. Becomes(p, Rec(label, job, proc[p].todo, proc[p].seen, proc[p].doc, "closed"))
  BY <1>3, <1>4 DEF Becomes, Rec
<1> QED  BY <1>1, <1>5 DEF label, Start, JobFits

LEMMA DoneMakes ==
  ASSUME TypeInv, NEW p \in Process, Done(p)
  PROVE  Becomes(p, Idle)
  BY DEF TypeInv, Done, Becomes

LEMMA ListMakes ==
  ASSUME TypeInv, NEW p \in Process, List(p)
  PROVE  Becomes(p, Rec("read", proc[p].job, OnDisk, proc[p].seen, proc[p].doc, proc[p].handle))
<1>1. Shape(proc[p]) /\ proc = [q \in Process |-> proc[q]]
  BY DEF TypeInv
<1>2. PICK mid : mid = [proc EXCEPT ![p].at = "read"]
  OBVIOUS
<1>3. proc' = [mid EXCEPT ![p].todo = OnDisk]
  BY <1>2 DEF List
<1>4. /\ mid = [q \in Process |-> mid[q]] /\ \A q \in Process : q # p => mid[q] = proc[q]
      /\ mid[p] = Rec("read", proc[p].job, proc[p].todo, proc[p].seen, proc[p].doc, proc[p].handle)
  BY <1>1, <1>2 DEF Shape, Rec
<1> QED  BY <1>3, <1>4 DEF Becomes, Rec

LEMMA ReadMakes ==
  ASSUME TypeInv, NEW p \in Process, ReadOne(p)
  PROVE  /\ proc[p].at = "read"
         /\ \E d \in proc[p].todo :
              Becomes(p, Rec("read", proc[p].job, proc[p].todo \ {d}, Put(proc[p].seen, d, path[d]),
                             proc[p].doc, proc[p].handle))
<1>1. Shape(proc[p]) /\ proc = [q \in Process |-> proc[q]]
  BY DEF TypeInv
<1>2. PICK d \in proc[p].todo :
        proc' = [proc EXCEPT ![p].todo = @ \ {d}, ![p].seen = Put(@, d, path[d])]
  BY DEF ReadOne, IsNext
<1>3. PICK mid : mid = [proc EXCEPT ![p].todo = @ \ {d}]
  OBVIOUS
<1>4. proc' = [mid EXCEPT ![p].seen = Put(@, d, path[d])]
  BY <1>2, <1>3
<1>5. /\ mid = [q \in Process |-> mid[q]] /\ \A q \in Process : q # p => mid[q] = proc[q]
      /\ mid[p] = Rec(proc[p].at, proc[p].job, proc[p].todo \ {d}, proc[p].seen, proc[p].doc,
                      proc[p].handle)
  BY <1>1, <1>3 DEF Shape, Rec
<1>6. Becomes(p, Rec(proc[p].at, proc[p].job, proc[p].todo \ {d}, Put(proc[p].seen, d, path[d]),
                     proc[p].doc, proc[p].handle))
  BY <1>4, <1>5 DEF Becomes, Rec
<1> QED  BY <1>6 DEF ReadOne

LEMMA OpenMakes ==
  ASSUME TypeInv, NEW p \in Process, Open(p)
  PROVE  Becomes(p, Rec("write", proc[p].job, proc[p].todo, proc[p].seen, proc[p].doc, "temp"))
<1>1. Shape(proc[p]) /\ proc = [q \in Process |-> proc[q]]
  BY DEF TypeInv
<1>2. PICK mid : mid = [proc EXCEPT ![p].at = "write"]
  OBVIOUS
<1>3. proc' = [mid EXCEPT ![p].handle = "temp"]
  BY <1>2 DEF Open
<1>4. /\ mid = [q \in Process |-> mid[q]] /\ \A q \in Process : q # p => mid[q] = proc[q]
      /\ mid[p] = Rec("write", proc[p].job, proc[p].todo, proc[p].seen, proc[p].doc, proc[p].handle)
  BY <1>1, <1>2 DEF Shape, Rec
<1> QED  BY <1>3, <1>4 DEF Becomes, Rec

LEMMA WriteMakes ==
  ASSUME TypeInv, NEW p \in Process, Write(p)
  PROVE  Becomes(p, Rec("rename", proc[p].job, proc[p].todo, proc[p].seen, proc[p].doc, "closed"))
<1>1. Shape(proc[p]) /\ proc = [q \in Process |-> proc[q]]
  BY DEF TypeInv
<1>2. PICK mid : mid = [proc EXCEPT ![p].at = "rename"]
  OBVIOUS
<1>3. proc' = [mid EXCEPT ![p].handle = "closed"]
  BY <1>2 DEF Write
<1>4. /\ mid = [q \in Process |-> mid[q]] /\ \A q \in Process : q # p => mid[q] = proc[q]
      /\ mid[p] = Rec("rename", proc[p].job, proc[p].todo, proc[p].seen, proc[p].doc, proc[p].handle)
  BY <1>1, <1>2 DEF Shape, Rec
<1> QED  BY <1>3, <1>4 DEF Becomes, Rec

LEMMA CreateMakes ==
  ASSUME TypeInv, NEW p \in Process, Create(p)
  PROVE  /\ proc[p].at = "create" /\ proc[p].job \in Jobs /\ proc[p].job.op = "new"
         /\ \/ Becomes(p, Idle)
            \/ /\ path[proc[p].job.doc] = NoFile
               /\ Becomes(p, Rec("open", proc[p].job, proc[p].todo, proc[p].seen,
                                 Fresh(proc[p].job.doc, proc[p].job.edges), proc[p].handle))
<1>1. Shape(proc[p]) /\ JobFits(proc[p]) /\ proc = [q \in Process |-> proc[q]]
  BY DEF TypeInv
<1> DEFINE fresh == Fresh(proc[p].job.doc, proc[p].job.edges)
<1>2. CASE Done(p)
  BY <1>1, <1>2, DoneMakes DEF Create, JobFits
<1>3. CASE /\ path[proc[p].job.doc] = NoFile
           /\ proc' = [proc EXCEPT ![p].at = "open", ![p].doc = fresh]
  <2>1. PICK mid : mid = [proc EXCEPT ![p].at = "open"]
    OBVIOUS
  <2>2. proc' = [mid EXCEPT ![p].doc = fresh]
    BY <1>3, <2>1
  <2>3. /\ mid = [q \in Process |-> mid[q]] /\ \A q \in Process : q # p => mid[q] = proc[q]
        /\ mid[p] = Rec("open", proc[p].job, proc[p].todo, proc[p].seen, proc[p].doc, proc[p].handle)
    BY <1>1, <2>1 DEF Shape, Rec
  <2> HIDE DEF fresh
  <2>4. Becomes(p, Rec("open", proc[p].job, proc[p].todo, proc[p].seen, fresh, proc[p].handle))
    BY <2>2, <2>3 DEF Becomes, Rec
  <2> QED  BY <1>1, <1>3, <2>4 DEF fresh, Create, JobFits
<1> QED  BY <1>2, <1>3 DEF Create

(* What a command decides to write.                                        *)
Decided(p, w) ==
  LET job == proc[p].job
      old == proc[p].seen[job.doc]
  IN
  /\ job.doc \in DOMAIN proc[p].seen /\ old \in Document /\ old.revision < MaxRevision
  /\ w \in Document
  /\ job.op = "move" => w = MovedTo(old, job.to) /\ job.to \in LifecycleOf(old.kind).moves[old.status]
  /\ job.op = "relate" =>
       /\ w = RelatedTo(old, job.edge)
       /\ job.edge[2] \in DOMAIN proc[p].seen /\ job.edge \notin old.relations
       /\ Buildable(Graph(Put(proc[p].seen, job.doc, w)))

LEMMA DecisionIs ==
  ASSUME TypeInv, NEW p \in Process, proc[p].at = "read", Clean(p),
         Doing(p, {"move", "relate"}), NEW w, ~(w.revision > MaxRevision),
         w \in IF proc[p].job.op = "move" THEN MoveWrites(p, proc[p].job)
               ELSE RelateWrites(p, proc[p].job)
  PROVE  Decided(p, w)
<1> DEFINE job == proc[p].job
           old == proc[p].seen[job.doc]
<1>1. /\ job \in Jobs /\ Shape(proc[p]) /\ job.op \in {"move", "relate"}
      /\ job.op = "move" => job.to \in Status
      /\ job.op = "relate" => job.edge \in Relation \X ArtifactId
  BY Jobbed DEF TypeInv, JobFits, Doing
<1>2. /\ job.doc \in DOMAIN proc[p].seen
      /\ job.op = "move" => w = MovedTo(old, job.to) /\ job.to \in LifecycleOf(old.kind).moves[old.status]
      /\ job.op = "relate" =>
           /\ w = RelatedTo(old, job.edge)
           /\ job.edge[2] \in DOMAIN proc[p].seen /\ job.edge \notin old.relations
           /\ Buildable(Graph(Put(proc[p].seen, job.doc, w)))
  BY <1>1 DEF MoveWrites, RelateWrites
<1>3. old \in Document
  BY <1>1, <1>2 DEF Shape, Clean
<1> HIDE DEF job, old
<1>4. w.revision = old.revision + 1 /\ old.revision \in Nat
  BY <1>1, <1>2, <1>3, RevisionsGrow DEF Document
<1>5. old.revision < MaxRevision
  BY <1>4, DocumentAssumption
<1>6. w \in Document
  BY <1>1, <1>2, <1>3, <1>5, Moved, Related
<1> QED  BY <1>1, <1>2, <1>3, <1>5, <1>6 DEF job, old, Decided

LEMMA DecideMakes ==
  ASSUME TypeInv, NEW p \in Process, Decide(p)
  PROVE  /\ proc[p].at = "read" /\ proc[p].todo = {} /\ Doing(p, {"move", "relate"})
         /\ \/ Becomes(p, Idle)
            \/ \E w : /\ Decided(p, w)
                      /\ Becomes(p, Rec("open", proc[p].job, proc[p].todo, Idle.seen, w,
                                        proc[p].handle))
<1> DEFINE writes == IF ~Clean(p) THEN {}
                     ELSE IF proc[p].job.op = "move" THEN MoveWrites(p, proc[p].job)
                     ELSE RelateWrites(p, proc[p].job)
           Publish(w) == proc' = [proc EXCEPT ![p].at = "open", ![p].doc = w, ![p].seen = Idle.seen]
<1>1. Shape(proc[p]) /\ proc = [q \in Process |-> proc[q]]
  BY DEF TypeInv
<1>2. /\ proc[p].at = "read" /\ proc[p].todo = {} /\ Doing(p, {"move", "relate"})
      /\ IF writes = {} \/ \E w \in writes : w.revision > MaxRevision
         THEN Done(p) ELSE \E w \in writes : Publish(w)
  BY DEF Decide, Loaded
<1>3. CASE Done(p)
  BY <1>2, <1>3, DoneMakes
<1>4. ASSUME NEW w \in writes, ~(w.revision > MaxRevision), Publish(w)
      PROVE  /\ Decided(p, w)
             /\ Becomes(p, Rec("open", proc[p].job, proc[p].todo, Idle.seen, w, proc[p].handle))
  <2>1. Decided(p, w)
    BY <1>2, <1>4, DecisionIs
  <2>2. PICK first : first = [proc EXCEPT ![p].at = "open"]
    OBVIOUS
  <2>3. PICK second : second = [first EXCEPT ![p].doc = w]
    OBVIOUS
  <2>4. PICK none : none = Idle.seen
    OBVIOUS
  <2>5. proc' = [second EXCEPT ![p].seen = none]
    BY <1>4, <2>2, <2>3, <2>4
  <2>6. /\ first = [q \in Process |-> first[q]] /\ \A q \in Process : q # p => first[q] = proc[q]
        /\ first[p] = Rec("open", proc[p].job, proc[p].todo, proc[p].seen, proc[p].doc, proc[p].handle)
    BY <1>1, <2>2 DEF Shape, Rec
  <2>7. /\ second = [q \in Process |-> second[q]] /\ \A q \in Process : q # p => second[q] = proc[q]
        /\ second[p] = Rec("open", proc[p].job, proc[p].todo, proc[p].seen, w, proc[p].handle)
    BY <2>3, <2>6 DEF Rec
  <2>8. Becomes(p, Rec("open", proc[p].job, proc[p].todo, none, w, proc[p].handle))
    BY <2>5, <2>7 DEF Becomes, Rec
  <2> QED  BY <2>1, <2>4, <2>8
<1> HIDE DEF writes, Publish
<1> QED  BY <1>2, <1>3, <1>4

LEMMA RenameMakes ==
  ASSUME TypeInv, NEW p \in Process, Rename(p)
  PROVE  \/ temp[proc[p].job.doc] = NoFile /\ Becomes(p, Idle) /\ UNCHANGED <<path, temp>>
         \/ /\ temp[proc[p].job.doc] # NoFile
            /\ path' = [path EXCEPT ![proc[p].job.doc] = temp[proc[p].job.doc]]
            /\ temp' = [temp EXCEPT ![proc[p].job.doc] = NoFile]
            /\ proc' = [q \in Process |-> proc'[q]]
            /\ proc'[p] = Idle
            /\ \A q \in Process : q # p =>
                 proc'[q] = Rec(proc[q].at, proc[q].job, proc[q].todo, proc[q].seen, proc[q].doc,
                                HandleAfterRename(p, q))
<1>1. CASE temp[proc[p].job.doc] = NoFile
  BY <1>1, DoneMakes DEF Rename
<1>2. CASE temp[proc[p].job.doc] # NoFile
  <2>1. /\ path' = [path EXCEPT ![proc[p].job.doc] = temp[proc[p].job.doc]]
        /\ temp' = [temp EXCEPT ![proc[p].job.doc] = NoFile]
        /\ proc' = [q \in Process |->
                      IF q = p THEN Idle
                      ELSE [proc[q] EXCEPT !.handle = HandleAfterRename(p, q)]]
    BY <1>2 DEF Rename
  <2>2. ASSUME NEW q \in Process, NEW handle
        PROVE  [proc[q] EXCEPT !.handle = handle]
                 = Rec(proc[q].at, proc[q].job, proc[q].todo, proc[q].seen, proc[q].doc, handle)
    BY DEF TypeInv, Shape, Rec
  <2>3. ASSUME NEW q \in Process, q # p
        PROVE  proc'[q] = Rec(proc[q].at, proc[q].job, proc[q].todo, proc[q].seen, proc[q].doc,
                              HandleAfterRename(p, q))
    <3>1. proc'[q] = [proc[q] EXCEPT !.handle = HandleAfterRename(p, q)]
      BY <2>1, <2>3
    <3> QED  BY <2>2, <3>1
  <2>4. proc'[p] = Idle /\ proc' = [q \in Process |-> proc'[q]]
    BY <2>1
  <2> QED  BY <1>2, <2>1, <2>3, <2>4
<1> QED  BY <1>1, <1>2

---------------------------------------------------------------------------
(* The types hold.                                                         *)

Grown ==
  /\ path' \in [ArtifactId -> Document \cup {NoFile, Torn}]
  /\ temp' \in [ArtifactId -> Document \cup {NoFile, Torn}]
  /\ OnDisk \subseteq OnDisk'

LEMMA TypesKept ==
  ASSUME TypeInv, Grown, NEW p \in Process, NEW x, Becomes(p, x), Shape(x), JobFits(x)
  PROVE  TypeInv'
<1>1. ASSUME NEW q \in Process PROVE Shape(proc'[q]) /\ JobFits(proc'[q])
  BY DEF TypeInv, Becomes
<1>2. ASSUME NEW q \in Process PROVE Shape(proc[q])' /\ JobFits(proc[q])'
  <2>1. PICK y : y = proc'[q]
    OBVIOUS
  <2>2. Shape(y) /\ JobFits(y)
    BY <1>1, <2>1
  <2> QED  BY <2>1, <2>2 DEF Shape, JobFits, Grown
<1> QED  BY <1>2 DEF TypeInv, Becomes, Grown

LEMMA IdleFits == Shape(Idle) /\ JobFits(Idle)
  BY NoJobDoesNothing DEF Idle, Shape, JobFits, Publishing

LEMMA RecFields ==
  ASSUME NEW at, NEW job, NEW todo, NEW seen, NEW doc, NEW handle
  PROVE  LET x == Rec(at, job, todo, seen, doc, handle) IN
         /\ x.at = at /\ x.job = job /\ x.todo = todo /\ x.seen = seen
         /\ x.doc = doc /\ x.handle = handle
         /\ x = [at |-> x.at, job |-> x.job, todo |-> x.todo, seen |-> x.seen,
                 doc |-> x.doc, handle |-> x.handle]
  BY DEF Rec

LEMMA TypeInit == Init => TypeInv
<1> SUFFICES ASSUME Init PROVE TypeInv
  OBVIOUS
<1>1. \A p \in Process : proc[p] = Idle
  BY DEF Init
<1> QED  BY <1>1, IdleFits DEF Init, TypeInv

LEMMA Still == TypeInv /\ UNCHANGED <<path, temp>> => Grown
  BY DEF TypeInv, Grown, OnDisk

LEMMA TypeNext == TypeInv /\ [Next]_vars => TypeInv'
<1> SUFFICES ASSUME TypeInv, [Next]_vars PROVE TypeInv'
  OBVIOUS
<1>0. CASE UNCHANGED vars
  BY <1>0 DEF vars, TypeInv, Shape, JobFits, OnDisk
<1>a. ASSUME NEW p \in Process PROVE Shape(proc[p]) /\ JobFits(proc[p])
  BY DEF TypeInv
<1>b. ASSUME NEW p \in Process, UNCHANGED <<path, temp>>, NEW x, Becomes(p, x), Shape(x), JobFits(x)
      PROVE  TypeInv'
  BY <1>b, Still, TypesKept
<1>1. ASSUME NEW p \in Process, NEW job \in Jobs, Start(p, job) PROVE TypeInv'
  <2> DEFINE x == Rec(IF job.op = "new" THEN "create" ELSE "list", job,
                      proc[p].todo, proc[p].seen, proc[p].doc, "closed")
  <2>1. Becomes(p, x) /\ proc[p].at = "idle" /\ UNCHANGED <<path, temp>>
    BY <1>1, StartMakes DEF Start
  <2>2. /\ x.at = (IF job.op = "new" THEN "create" ELSE "list") /\ x.job = job /\ x.todo = proc[p].todo
        /\ x.seen = proc[p].seen /\ x.doc = proc[p].doc /\ x.handle = "closed"
        /\ x = [at |-> x.at, job |-> x.job, todo |-> x.todo, seen |-> x.seen,
                doc |-> x.doc, handle |-> x.handle]
    BY RecFields
  <2> HIDE DEF x
  <2>3. Shape(x) /\ JobFits(x)
    BY <1>a, <2>1, <2>2, Jobbed DEF Shape, JobFits, Publishing
  <2> QED  BY <1>b, <2>1, <2>3
<1>2. ASSUME NEW p \in Process, List(p) PROVE TypeInv'
  <2> DEFINE x == Rec("read", proc[p].job, OnDisk, proc[p].seen, proc[p].doc, proc[p].handle)
  <2>1. Becomes(p, x) /\ proc[p].at = "list" /\ UNCHANGED <<path, temp>>
    BY <1>2, ListMakes DEF List
  <2>2. /\ x.at = "read" /\ x.job = proc[p].job /\ x.todo = OnDisk
        /\ x.seen = proc[p].seen /\ x.doc = proc[p].doc /\ x.handle = proc[p].handle
        /\ x = [at |-> x.at, job |-> x.job, todo |-> x.todo, seen |-> x.seen,
                doc |-> x.doc, handle |-> x.handle]
    BY RecFields
  <2> HIDE DEF x
  <2>3. Shape(x) /\ JobFits(x)
    BY <1>a, <2>1, <2>2 DEF Shape, JobFits, Publishing
  <2> QED  BY <1>b, <2>1, <2>3
<1>3. ASSUME NEW p \in Process, ReadOne(p) PROVE TypeInv'
  <2>1. PICK d \in proc[p].todo :
          Becomes(p, Rec("read", proc[p].job, proc[p].todo \ {d}, Put(proc[p].seen, d, path[d]),
                         proc[p].doc, proc[p].handle))
    BY <1>3, ReadMakes
  <2> DEFINE seen == Put(proc[p].seen, d, path[d])
             x == Rec("read", proc[p].job, proc[p].todo \ {d}, seen, proc[p].doc, proc[p].handle)
  <2>2. /\ x.at = "read" /\ x.job = proc[p].job /\ x.todo = proc[p].todo \ {d}
        /\ x.seen = seen /\ x.doc = proc[p].doc /\ x.handle = proc[p].handle
        /\ x = [at |-> x.at, job |-> x.job, todo |-> x.todo, seen |-> x.seen,
                doc |-> x.doc, handle |-> x.handle]
    BY RecFields
  <2>3. d \in OnDisk /\ path[d] \in Document \cup {Torn}
    BY <1>a, <2>1 DEF Shape, OnDisk, TypeInv
  <2>4. /\ DOMAIN seen \subseteq OnDisk
        /\ \A e \in DOMAIN seen : seen[e] \in Document \cup {Torn}
    BY <1>a, <2>3 DEF Shape, Put
  <2>5. Becomes(p, x)
    BY <2>1
  <2>6. proc[p].at = "read" /\ UNCHANGED <<path, temp>>
    BY <1>3 DEF ReadOne
  <2> HIDE DEF x, seen
  <2>7. Shape(x) /\ JobFits(x)
    BY <1>a, <2>2, <2>4, <2>6 DEF Shape, JobFits, Publishing
  <2> QED  BY <1>b, <2>5, <2>6, <2>7
<1>4. ASSUME NEW p \in Process, Decide(p) PROVE TypeInv'
  <2>0. UNCHANGED <<path, temp>>
    BY <1>4 DEF Decide
  <2>1. CASE Becomes(p, Idle)
    BY <1>b, <2>0, <2>1, IdleFits
  <2>2. ASSUME NEW w, Decided(p, w),
               Becomes(p, Rec("open", proc[p].job, proc[p].todo, Idle.seen, w, proc[p].handle))
        PROVE  TypeInv'
    <3> DEFINE x == Rec("open", proc[p].job, proc[p].todo, Idle.seen, w, proc[p].handle)
    <3>1. /\ x.at = "open" /\ x.job = proc[p].job /\ x.todo = proc[p].todo
          /\ x.seen = Idle.seen /\ x.doc = w /\ x.handle = proc[p].handle
          /\ x = [at |-> x.at, job |-> x.job, todo |-> x.todo, seen |-> x.seen,
                  doc |-> x.doc, handle |-> x.handle]
      BY RecFields
    <3>2. Becomes(p, x)
      BY <2>2
    <3>3. proc[p].at = "read" /\ Doing(p, {"move", "relate"})
      BY <1>4, DecideMakes
    <3>4. w \in Document
      BY <2>2 DEF Decided
    <3>5. DOMAIN Idle.seen = {}
      BY DEF Idle
    <3> HIDE DEF x
    <3>6. Shape(x) /\ JobFits(x)
      BY <1>a, <3>1, <3>3, <3>4, <3>5 DEF Shape, JobFits, Publishing, Writers, Doing
    <3> QED  BY <1>b, <2>0, <3>2, <3>6
  <2> QED  BY <1>4, <2>1, <2>2, DecideMakes
<1>5. ASSUME NEW p \in Process, Create(p) PROVE TypeInv'
  <2>0. UNCHANGED <<path, temp>>
    BY <1>5 DEF Create
  <2>1. CASE Becomes(p, Idle)
    BY <1>b, <2>0, <2>1, IdleFits
  <2>2. CASE Becomes(p, Rec("open", proc[p].job, proc[p].todo, proc[p].seen,
                            Fresh(proc[p].job.doc, proc[p].job.edges), proc[p].handle))
    <3> DEFINE w == Fresh(proc[p].job.doc, proc[p].job.edges)
               x == Rec("open", proc[p].job, proc[p].todo, proc[p].seen, w, proc[p].handle)
    <3>1. /\ x.at = "open" /\ x.job = proc[p].job /\ x.todo = proc[p].todo
          /\ x.seen = proc[p].seen /\ x.doc = w /\ x.handle = proc[p].handle
          /\ x = [at |-> x.at, job |-> x.job, todo |-> x.todo, seen |-> x.seen,
                  doc |-> x.doc, handle |-> x.handle]
      BY RecFields
    <3>2. Becomes(p, x)
      BY <2>2
    <3>3. proc[p].at = "create" /\ proc[p].job \in Jobs /\ proc[p].job.op = "new"
      BY <1>5, CreateMakes
    <3>4. w \in Document
      BY <3>3, Jobbed, FreshIs DEF Writers
    <3> HIDE DEF x, w
    <3>5. Shape(x) /\ JobFits(x)
      BY <1>a, <3>1, <3>3, <3>4 DEF Shape, JobFits, Publishing, Writers
    <3> QED  BY <1>b, <2>0, <3>2, <3>5
  <2> QED  BY <1>5, <2>1, <2>2, CreateMakes
<1>6. ASSUME NEW p \in Process, Answer(p) \/ Crash(p) PROVE TypeInv'
  BY <1>6, <1>b, DoneMakes, IdleFits DEF Answer, Crash
<1>c. ASSUME NEW p \in Process, proc[p].at \in Publishing
      PROVE  proc[p].job.doc \in ArtifactId /\ proc[p].doc \in Document
  BY <1>a, <1>c, Jobbed DEF JobFits, Publishing
<1>7. ASSUME NEW p \in Process, Open(p) PROVE TypeInv'
  <2> DEFINE x == Rec("write", proc[p].job, proc[p].todo, proc[p].seen, proc[p].doc, "temp")
  <2>1. Becomes(p, x) /\ proc[p].at = "open"
    BY <1>7, OpenMakes DEF Open
  <2>2. /\ x.at = "write" /\ x.job = proc[p].job /\ x.todo = proc[p].todo
        /\ x.seen = proc[p].seen /\ x.doc = proc[p].doc /\ x.handle = "temp"
        /\ x = [at |-> x.at, job |-> x.job, todo |-> x.todo, seen |-> x.seen,
                doc |-> x.doc, handle |-> x.handle]
    BY RecFields
  <2> HIDE DEF x
  <2>3. Shape(x) /\ JobFits(x)
    BY <1>a, <2>1, <2>2 DEF Shape, JobFits, Publishing
  <2>4. Grown
    BY <1>7, <1>c, <2>1 DEF Open, Grown, TypeInv, OnDisk, Publishing
  <2> QED  BY <2>1, <2>3, <2>4, TypesKept
<1>8. ASSUME NEW p \in Process, Write(p) PROVE TypeInv'
  <2> DEFINE x == Rec("rename", proc[p].job, proc[p].todo, proc[p].seen, proc[p].doc, "closed")
  <2>1. Becomes(p, x) /\ proc[p].at = "write"
    BY <1>8, WriteMakes DEF Write
  <2>2. /\ x.at = "rename" /\ x.job = proc[p].job /\ x.todo = proc[p].todo
        /\ x.seen = proc[p].seen /\ x.doc = proc[p].doc /\ x.handle = "closed"
        /\ x = [at |-> x.at, job |-> x.job, todo |-> x.todo, seen |-> x.seen,
                doc |-> x.doc, handle |-> x.handle]
    BY RecFields
  <2> HIDE DEF x
  <2>3. Shape(x) /\ JobFits(x)
    BY <1>a, <2>1, <2>2 DEF Shape, JobFits, Publishing
  <2>4. \A old : Written(p, old) \subseteq Document \cup {Torn}
    BY <1>c, <2>1 DEF Written, Publishing
  <2>5. Torn # NoFile /\ NoFile \notin Document
    BY StoreAssumption
  <2>6. Grown
    BY <1>8, <1>c, <2>1, <2>4, <2>5 DEF Write, Grown, TypeInv, OnDisk, Publishing
  <2> QED  BY <2>1, <2>3, <2>6, TypesKept
<1>9. ASSUME NEW p \in Process, Rename(p) PROVE TypeInv'
  <2>1. CASE Becomes(p, Idle) /\ UNCHANGED <<path, temp>>
    BY <1>b, <2>1, IdleFits
  <2>2. CASE /\ temp[proc[p].job.doc] # NoFile
             /\ path' = [path EXCEPT ![proc[p].job.doc] = temp[proc[p].job.doc]]
             /\ temp' = [temp EXCEPT ![proc[p].job.doc] = NoFile]
             /\ proc' = [q \in Process |-> proc'[q]]
             /\ proc'[p] = Idle
             /\ \A q \in Process : q # p =>
                  proc'[q] = Rec(proc[q].at, proc[q].job, proc[q].todo, proc[q].seen, proc[q].doc,
                                 HandleAfterRename(p, q))
    <3>1. Grown
      BY <1>9, <1>c, <2>2 DEF Rename, Grown, TypeInv, OnDisk, Publishing
    <3>2. ASSUME NEW q \in Process, q # p
          PROVE  Shape(proc'[q]) /\ JobFits(proc'[q])
      <4> DEFINE handle == HandleAfterRename(p, q)
                 x == Rec(proc[q].at, proc[q].job, proc[q].todo, proc[q].seen, proc[q].doc, handle)
      <4>1. /\ x.at = proc[q].at /\ x.job = proc[q].job /\ x.todo = proc[q].todo
            /\ x.seen = proc[q].seen /\ x.doc = proc[q].doc /\ x.handle = handle
            /\ x = [at |-> x.at, job |-> x.job, todo |-> x.todo, seen |-> x.seen,
                    doc |-> x.doc, handle |-> x.handle]
        BY RecFields
      <4>2. /\ handle \in {"closed", "temp", "path", "gone"}
            /\ proc[q].job = NoJob => handle = proc[q].handle
        BY <1>a DEF HandleAfterRename, Shape
      <4>3. proc'[q] = x
        BY <2>2, <3>2
      <4> HIDE DEF handle, x
      <4>4. Shape(x) /\ JobFits(x)
        BY <1>a, <4>1, <4>2 DEF Shape, JobFits
      <4> QED  BY <4>3, <4>4
    <3>3. ASSUME NEW q \in Process PROVE Shape(proc[q])' /\ JobFits(proc[q])'
      <4>1. PICK y : y = proc'[q]
        OBVIOUS
      <4>2. Shape(y) /\ JobFits(y)
        BY <2>2, <3>2, <4>1, IdleFits
      <4> QED  BY <3>1, <4>1, <4>2 DEF Shape, JobFits, Grown
    <3> QED  BY <2>2, <3>1, <3>3 DEF TypeInv, Grown
  <2> QED  BY <1>9, <2>1, <2>2, RenameMakes
<1> QED
  BY <1>0, <1>1, <1>2, <1>3, <1>4, <1>5, <1>6, <1>7, <1>8, <1>9 DEF Next

LEMMA TypesHold == Spec => []TypeInv
<1> QED  BY TypeInit, TypeNext, PTL DEF Spec

(* Whatever the processes are asked to do and wherever they end, a file is *)
(* a whole document or pieces of one, and nobody has seen what was never   *)
(* there (store.rs, load and write).                                       *)
THEOREM TypeCorrect == Spec => []TypeOK
<1>1. TypeInv => TypeOK
  BY DEF TypeInv, TypeOK, Shape, OnDisk, Publishing
<1> QED  BY <1>1, TypesHold, PTL

---------------------------------------------------------------------------
(* Apart: the steps that publish nothing.                                  *)

LEMMA OnDiskIs ==
  /\ DOMAIN Documents = OnDisk /\ OnDisk \subseteq ArtifactId
  /\ \A d \in OnDisk : Documents[d] = path[d]
  BY DEF Documents, OnDisk

LEMMA DiskIsWhole ==
  ASSUME TypeInv, Inv, NEW d \in OnDisk
  PROVE  path[d] \in Document
  BY DEF TypeInv, Inv, OnDisk

LEMMA IdleHolds == Holds(Idle)
<1>1. Idle.at = "idle" /\ DOMAIN Idle.seen = {} /\ Idle.handle = "closed" /\ Idle.job = NoJob
  BY DEF Idle
<1> QED
  BY <1>1, NoJobDoesNothing
  DEF Holds, ReadsHold, EdgesHold, NewHolds, MoveHolds, RelateHolds, TempHolds, Publishing

LEMMA JobsKept ==
  ASSUME KeepApart, NEW p \in Process, NEW x, Becomes(p, x), x.job \in {proc[p].job, NoJob}
  PROVE  KeepApart'
<1>1. \A q \in Process : \A ops \in SUBSET Writers : Doing(q, ops)' => Doing(q, ops)
  BY NoJobDoesNothing DEF Becomes, Doing, Writers
<1>2. \A q \in Process : Doing(q, Writers)' => proc'[q].job = proc[q].job
  BY NoJobDoesNothing DEF Becomes, Doing, Writers
<1>3. {"relate"} \in SUBSET Writers /\ Writers \in SUBSET Writers
  BY DEF Writers
<1> QED  BY <1>1, <1>2, <1>3 DEF KeepApart

(* A step that touches no path, and no temporary but the process's own.    *)
LEMMA QuietStep ==
  ASSUME TypeInv, Inv, UNCHANGED path, NEW p \in Process, NEW x, Becomes(p, x),
         \A d \in ArtifactId : temp'[d] # temp[d] => Doing(p, Writers) /\ d = proc[p].job.doc,
         KeepApart', Holds(proc[p])'
  PROVE  Inv'
<1>1. OnDisk' = OnDisk /\ Documents' = Documents
  BY DEF OnDisk, Documents
<1>2. ASSUME NEW q \in Process, q # p PROVE Holds(proc[q])'
  <2>1. PICK y : y = proc[q]
    OBVIOUS
  <2>2. proc'[q] = y /\ Shape(y) /\ JobFits(y) /\ Holds(y)
    BY <1>2, <2>1 DEF Becomes, TypeInv, Inv
  <2>3. y.at \in Publishing => temp'[y.job.doc] = temp[y.job.doc]
    <3>1. SUFFICES ASSUME y.at \in Publishing, temp'[y.job.doc] # temp[y.job.doc] PROVE FALSE
      OBVIOUS
    <3>2. y.job \in Jobs /\ y.job.op \in Writers
      BY <2>2, <3>1 DEF JobFits, Publishing
    <3>3. y.job.doc \in ArtifactId /\ Doing(q, Writers)
      BY <2>1, <3>2, Jobbed DEF Doing
    <3>4. Doing(p, Writers) /\ y.job.doc = proc[p].job.doc
      BY <3>1, <3>3
    <3> QED  BY <1>2, <2>1, <3>3, <3>4 DEF Inv, KeepApart
  <2>4. TempHolds(y)'
    BY <2>2, <2>3 DEF Holds, TempHolds, Publishing
  <2>5. /\ ReadsHold(y)' /\ EdgesHold(y)' /\ NewHolds(y)' /\ MoveHolds(y)' /\ RelateHolds(y)'
    BY <1>1, <2>2
    DEF Holds, ReadsHold, EdgesHold, Listed, NewHolds, MoveHolds, RelateHolds, Changing
  <2> QED  BY <2>2, <2>4, <2>5 DEF Holds
<1> QED  BY <1>1, <1>2 DEF Inv

LEMMA LocalStep ==
  ASSUME TypeInv, Inv, UNCHANGED <<path, temp>>, NEW p \in Process, NEW x, Becomes(p, x),
         KeepApart', Holds(x)
  PROVE  Inv'
<1>1. OnDisk' = OnDisk /\ Documents' = Documents
  BY DEF OnDisk, Documents
<1>2. proc'[p] = x
  BY DEF Becomes
<1>3. Holds(proc[p])'
  BY <1>1, <1>2
  DEF Holds, ReadsHold, EdgesHold, Listed, NewHolds, MoveHolds, RelateHolds, Changing, TempHolds
<1> QED  BY <1>3, QuietStep

LEMMA IdleStep ==
  ASSUME TypeInv, Inv, UNCHANGED <<path, temp>>, NEW p \in Process, Becomes(p, Idle)
  PROVE  Inv'
<1>1. Idle.job = NoJob
  BY DEF Idle
<1>2. KeepApart'
  BY <1>1, JobsKept DEF Inv
<1> QED  BY <1>2, IdleHolds, LocalStep

LEMMA StartKeeps ==
  ASSUME Apart, TypeInv, Inv, NEW p \in Process, NEW job \in Jobs, Start(p, job)
  PROVE  Inv'
<1> DEFINE x == Rec(IF job.op = "new" THEN "create" ELSE "list", job,
                    proc[p].todo, proc[p].seen, proc[p].doc, "closed")
<1>1. Becomes(p, x) /\ proc[p].at = "idle" /\ proc[p].job = NoJob /\ KeptApart(job)
      /\ UNCHANGED <<path, temp>>
  BY StartMakes DEF Start
<1>2. /\ x.at = (IF job.op = "new" THEN "create" ELSE "list") /\ x.job = job
      /\ x.seen = proc[p].seen /\ x.handle = "closed"
  BY RecFields
<1> HIDE DEF x
<1>3. DOMAIN x.seen = {}
  BY <1>1, <1>2 DEF TypeInv, JobFits
<1>4. Holds(x)
  BY <1>1, <1>2, <1>3
  DEF Holds, ReadsHold, EdgesHold, NewHolds, MoveHolds, RelateHolds, TempHolds, Publishing, KeptApart
<1>5. ASSUME NEW q \in Process, q # p, Doing(q, Writers)', Doing(p, Writers)'
      PROVE  proc'[q].job.doc # job.doc /\ ~(Doing(p, {"relate"}) /\ Doing(q, {"relate"}))'
  <2>1. proc'[q] = proc[q] /\ proc'[p] = x
    BY <1>1, <1>5 DEF Becomes
  <2>2. Doing(q, Writers) /\ job.op \in Writers
    BY <1>2, <1>5, <2>1 DEF Doing
  <2> QED  BY <1>1, <1>2, <2>1, <2>2 DEF KeptApart, Doing, Writers
<1>6. proc'[p].job = job /\ \A q \in Process : q # p => proc'[q] = proc[q]
  BY <1>1, <1>2 DEF Becomes
<1>7. ASSUME NEW q \in Process, NEW r \in Process, q # r, Doing(q, Writers)', Doing(r, Writers)'
      PROVE  /\ proc'[q].job.doc # proc'[r].job.doc
             /\ ~(Doing(q, {"relate"}) /\ Doing(r, {"relate"}))'
  <2>1. CASE q = p
    BY <1>5, <1>6, <1>7, <2>1
  <2>2. CASE r = p
    BY <1>5, <1>6, <1>7, <2>2
  <2>3. CASE q # p /\ r # p
    BY <1>6, <1>7, <2>3 DEF Inv, KeepApart, Doing
  <2> QED  BY <2>1, <2>2, <2>3
<1>8. KeepApart'
  BY <1>7 DEF KeepApart
<1> QED  BY <1>1, <1>4, <1>8, LocalStep

LEMMA ListKeeps ==
  ASSUME TypeInv, Inv, NEW p \in Process, List(p)
  PROVE  Inv'
<1> DEFINE x == Rec("read", proc[p].job, OnDisk, proc[p].seen, proc[p].doc, proc[p].handle)
<1>1. Becomes(p, x) /\ proc[p].at = "list" /\ UNCHANGED <<path, temp>>
  BY ListMakes DEF List
<1>2. /\ x.at = "read" /\ x.job = proc[p].job /\ x.todo = OnDisk
      /\ x.seen = proc[p].seen /\ x.handle = proc[p].handle
  BY RecFields
<1> HIDE DEF x
<1>3. DOMAIN x.seen = {} /\ x.job.op # "new" /\ x.handle = "closed"
  BY <1>1, <1>2 DEF TypeInv, JobFits, Inv, Holds, TempHolds
<1>4. \A d \in OnDisk : \A edge \in path[d].relations : edge[2] \in OnDisk
  BY OnDiskIs, GraphIs DEF Inv, Buildable, Resolved
<1>5. EdgesHold(x)
  BY <1>2, <1>3, <1>4 DEF EdgesHold, Listed
<1>6. Holds(x)
  BY <1>2, <1>3, <1>5
  DEF Holds, ReadsHold, NewHolds, MoveHolds, RelateHolds, TempHolds, Publishing
<1>7. KeepApart'
  BY <1>1, <1>2, JobsKept DEF Inv
<1> QED  BY <1>1, <1>6, <1>7, LocalStep

LEMMA ReadKeeps ==
  ASSUME TypeInv, Inv, NEW p \in Process, ReadOne(p)
  PROVE  Inv'
<1>1. PICK d \in proc[p].todo :
        Becomes(p, Rec("read", proc[p].job, proc[p].todo \ {d}, Put(proc[p].seen, d, path[d]),
                       proc[p].doc, proc[p].handle))
  BY ReadMakes
<1> DEFINE seen == Put(proc[p].seen, d, path[d])
           x == Rec("read", proc[p].job, proc[p].todo \ {d}, seen, proc[p].doc, proc[p].handle)
<1>2. /\ x.at = "read" /\ x.job = proc[p].job /\ x.todo = proc[p].todo \ {d}
      /\ x.seen = seen /\ x.handle = proc[p].handle
  BY RecFields
<1>3. Becomes(p, x)
  BY <1>1
<1>4. proc[p].at = "read" /\ UNCHANGED <<path, temp>>
  BY DEF ReadOne
<1>5. /\ DOMAIN seen = DOMAIN proc[p].seen \cup {d} /\ seen[d] = path[d]
      /\ \A e \in DOMAIN proc[p].seen : e # d => seen[e] = proc[p].seen[e]
  BY DEF Put
<1>6. path[d] \in Document /\ d \in OnDisk
  BY <1>1, DiskIsWhole DEF TypeInv, Shape
<1> HIDE DEF x, seen
<1>7. Holds(proc[p]) /\ JobFits(proc[p])
  BY DEF Inv, TypeInv
<1>8. ReadsHold(x)
  BY <1>2, <1>5, <1>6, <1>7 DEF Holds, ReadsHold
<1>9. Listed(x) = Listed(proc[p])
  BY <1>1, <1>2, <1>5 DEF Listed
<1>10. EdgesHold(x)
  BY <1>2, <1>4, <1>5, <1>7, <1>9 DEF Holds, EdgesHold
<1>11. NewHolds(x) /\ MoveHolds(x) /\ RelateHolds(x) /\ TempHolds(x)
  BY <1>2, <1>4, <1>7
  DEF Holds, NewHolds, MoveHolds, RelateHolds, TempHolds, Publishing, JobFits
<1>12. KeepApart'
  BY <1>2, <1>3, JobsKept DEF Inv
<1> QED  BY <1>3, <1>4, <1>8, <1>10, <1>11, <1>12, LocalStep DEF Holds

LEMMA CreateKeeps ==
  ASSUME TypeInv, Inv, NEW p \in Process, Create(p)
  PROVE  Inv'
<1>0. UNCHANGED <<path, temp>>
  BY DEF Create
<1>1. CASE Becomes(p, Idle)
  BY <1>0, <1>1, IdleStep
<1>2. CASE /\ path[proc[p].job.doc] = NoFile
           /\ Becomes(p, Rec("open", proc[p].job, proc[p].todo, proc[p].seen,
                             Fresh(proc[p].job.doc, proc[p].job.edges), proc[p].handle))
  <2> DEFINE w == Fresh(proc[p].job.doc, proc[p].job.edges)
             x == Rec("open", proc[p].job, proc[p].todo, proc[p].seen, w, proc[p].handle)
  <2>1. /\ x.at = "open" /\ x.job = proc[p].job
        /\ x.seen = proc[p].seen /\ x.doc = w /\ x.handle = proc[p].handle
    BY RecFields
  <2>2. Becomes(p, x)
    BY <1>2
  <2>3. proc[p].at = "create" /\ proc[p].job.op = "new"
    BY CreateMakes
  <2>4. /\ Holds(proc[p]) /\ DOMAIN proc[p].seen = {}
    BY <2>3 DEF Inv, TypeInv, JobFits
  <2>5. w = Fresh(proc[p].job.doc, proc[p].job.edges)
    OBVIOUS
  <2> HIDE DEF x, w
  <2>6. NewHolds(x)
    BY <1>2, <2>1, <2>4, <2>5 DEF Holds, NewHolds
  <2>7. Holds(x)
    BY <2>1, <2>3, <2>4, <2>6 DEF Holds, ReadsHold, EdgesHold, MoveHolds, RelateHolds, TempHolds
  <2>8. KeepApart'
    BY <2>1, <2>2, JobsKept DEF Inv
  <2> QED  BY <1>0, <2>2, <2>7, <2>8, LocalStep
<1> QED  BY <1>1, <1>2, CreateMakes

(* The edge that was checked against what had been read builds on the      *)
(* files as they are: what has been written since is not led to.           *)
LEMMA CheckedBuilds ==
  ASSUME TypeInv, Inv, NEW p \in Process, proc[p].at = "read", proc[p].todo = {},
         Doing(p, {"relate"}), NEW w, Decided(p, w)
  PROVE  Buildable(Graph(Put(Documents, proc[p].job.doc, w)))
<1> DEFINE d == proc[p].job.doc
           seen == proc[p].seen
           inner == Graph(Put(seen, d, w))
           outer == Graph(Documents)
           h == Graph(Put(Documents, d, w))
<1>1. Buildable(inner) /\ d \in DOMAIN seen
  BY DEF Decided, Doing
<1>2. Buildable(outer)
  BY DEF Inv
<1>3. DOMAIN seen \subseteq OnDisk /\ d \in OnDisk
  BY <1>1 DEF TypeInv, Shape
<1>4. \A e \in DOMAIN seen : seen[e].relations = path[e].relations
  BY DEF Inv, Holds, EdgesHold, Doing
<1>5. /\ DOMAIN Put(seen, d, w) = DOMAIN seen /\ Put(seen, d, w)[d] = w
      /\ \A e \in DOMAIN seen : e # d => Put(seen, d, w)[e] = seen[e]
  BY <1>1 DEF Put
<1>6. /\ DOMAIN Put(Documents, d, w) = OnDisk /\ Put(Documents, d, w)[d] = w
      /\ \A e \in OnDisk : e # d => Put(Documents, d, w)[e] = path[e]
  BY <1>3, OnDiskIs DEF Put
<1> HIDE DEF d, seen
<1>7. /\ DOMAIN inner = DOMAIN seen /\ DOMAIN outer = OnDisk /\ DOMAIN h = OnDisk
  BY <1>5, <1>6, OnDiskIs, GraphIs
<1>8. \A a \in DOMAIN seen : inner[a].relations = Put(seen, d, w)[a].relations
  BY <1>5, GraphIs
<1>9. \A a \in OnDisk : outer[a].relations = path[a].relations
  BY OnDiskIs, GraphIs
<1>10. \A a \in OnDisk : h[a].relations = Put(Documents, d, w)[a].relations
  BY <1>6, GraphIs
<1> HIDE DEF inner, outer, h
<1>11. \A a \in DOMAIN inner : h[a].relations = inner[a].relations
  BY <1>3, <1>4, <1>5, <1>6, <1>7, <1>8, <1>10
<1>12. \A a \in DOMAIN outer \ DOMAIN inner : h[a].relations = outer[a].relations
  BY <1>1, <1>6, <1>7, <1>9, <1>10
<1>13. Buildable(h)
  BY <1>1, <1>2, <1>3, <1>7, <1>11, <1>12, Gluing
<1> QED  BY <1>13 DEF h, d

LEMMA DecideKeeps ==
  ASSUME TypeInv, Inv, NEW p \in Process, Decide(p)
  PROVE  Inv'
<1>0. /\ UNCHANGED <<path, temp>> /\ proc[p].at = "read" /\ proc[p].todo = {}
      /\ Doing(p, {"move", "relate"})
  BY DecideMakes DEF Decide
<1>1. CASE Becomes(p, Idle)
  BY <1>0, <1>1, IdleStep
<1>2. ASSUME NEW w, Decided(p, w),
             Becomes(p, Rec("open", proc[p].job, proc[p].todo, Idle.seen, w, proc[p].handle))
      PROVE  Inv'
  <2> DEFINE x == Rec("open", proc[p].job, proc[p].todo, Idle.seen, w, proc[p].handle)
             d == proc[p].job.doc
             seen == proc[p].seen
  <2>1. /\ x.at = "open" /\ x.job = proc[p].job
        /\ x.seen = Idle.seen /\ x.doc = w /\ x.handle = proc[p].handle
    BY RecFields
  <2>2. Becomes(p, x)
    BY <1>2
  <2>3. DOMAIN x.seen = {}
    BY <2>1 DEF Idle
  <2>4. Holds(proc[p])
    BY DEF Inv
  <2>5. proc[p].job.op \in {"move", "relate"}
    BY <1>0 DEF Doing
  <2>6. d \in DOMAIN seen /\ seen[d] = path[d] /\ path[d] \in Document
    BY <1>2, <2>4, <2>5 DEF Decided, Holds, ReadsHold
  <2>7. DOMAIN seen \subseteq OnDisk
    BY DEF TypeInv, Shape
  <2> HIDE DEF x
  <2>8. Changing(d)
    BY <1>2, <2>6 DEF Decided, Changing
  <2>9. MoveHolds(x)
    BY <1>2, <2>1, <2>6, <2>8 DEF Decided, MoveHolds
  <2>10. ASSUME proc[p].job.op = "relate"
         PROVE  /\ Buildable(Graph(Put(Documents, d, w)))
                /\ w = RelatedTo(path[d], x.job.edge)
                /\ x.job.edge[2] \in OnDisk /\ x.job.edge \notin path[d].relations
    <3>1. Buildable(Graph(Put(Documents, d, w)))
      BY <1>0, <1>2, <2>10, CheckedBuilds DEF Doing
    <3> QED  BY <1>2, <2>1, <2>6, <2>7, <2>10, <3>1 DEF Decided
  <2>11. RelateHolds(x)
    BY <2>1, <2>8, <2>10 DEF RelateHolds
  <2>12. Holds(x)
    BY <1>0, <2>1, <2>3, <2>4, <2>5, <2>9, <2>11 DEF Holds, ReadsHold, EdgesHold, NewHolds, TempHolds
  <2>13. KeepApart'
    BY <2>1, <2>2, JobsKept DEF Inv
  <2> QED  BY <1>0, <2>2, <2>12, <2>13, LocalStep
<1> QED  BY <1>1, <1>2, DecideMakes

---------------------------------------------------------------------------
(* Apart: the steps of a write.                                            *)

(* A process that is writing has a document of its own.                    *)
LEMMA OwnDocument ==
  ASSUME TypeInv, NEW p \in Process, proc[p].at \in Publishing
  PROVE  /\ proc[p].job \in Jobs /\ proc[p].job.op \in Writers /\ Doing(p, Writers)
         /\ proc[p].job.doc \in ArtifactId /\ proc[p].doc \in Document
  BY Jobbed DEF TypeInv, JobFits, Publishing, Doing

LEMMA OpenKeeps ==
  ASSUME TypeInv, Inv, NEW p \in Process, Open(p)
  PROVE  Inv'
<1>0. PICK x : x = Rec("write", proc[p].job, proc[p].todo, proc[p].seen, proc[p].doc, "temp")
  OBVIOUS
<1>1. Becomes(p, x) /\ proc[p].at = "open" /\ UNCHANGED path
      /\ temp' = [temp EXCEPT ![proc[p].job.doc] = Torn]
  BY <1>0, OpenMakes DEF Open
<1>2. /\ x.at = "write" /\ x.job = proc[p].job /\ x.seen = proc[p].seen
      /\ x.doc = proc[p].doc /\ x.handle = "temp"
  BY <1>0, RecFields
<1>3. proc[p].job.doc \in ArtifactId /\ Doing(p, Writers)
  BY <1>1, OwnDocument DEF Publishing
<1>4. DOMAIN proc[p].seen = {} /\ Holds(proc[p])
  BY <1>1 DEF TypeInv, JobFits, Inv
<1>5. OnDisk' = OnDisk /\ Documents' = Documents
  BY <1>1 DEF OnDisk, Documents
<1>6. TempHolds(x)'
  BY <1>1, <1>2, <1>3 DEF TempHolds, TypeInv
<1>7. NewHolds(x)' /\ MoveHolds(x)' /\ RelateHolds(x)'
  BY <1>1, <1>2, <1>4, <1>5 DEF Holds, NewHolds, MoveHolds, RelateHolds, Changing, Publishing
<1>8. ReadsHold(x)' /\ EdgesHold(x)'
  BY <1>2, <1>4 DEF ReadsHold, EdgesHold
<1>9. Holds(proc[p])'
  <2>1. proc'[p] = x
    BY <1>1 DEF Becomes
  <2> QED  BY <1>6, <1>7, <1>8, <2>1
      DEF Holds, ReadsHold, EdgesHold, Listed, NewHolds, MoveHolds, RelateHolds, TempHolds, Changing
<1>10. KeepApart'
  BY <1>1, <1>2, JobsKept DEF Inv
<1> QED  BY <1>1, <1>3, <1>9, <1>10, QuietStep

(* Nobody else has the temporary file open.                                *)
LEMMA Unshared ==
  ASSUME TypeInv, Inv, NEW p \in Process, proc[p].at = "write"
  PROVE  /\ proc[p].handle = "temp" /\ temp[proc[p].job.doc] = Torn
         /\ Written(p, temp[proc[p].job.doc]) = {proc[p].doc}
<1>1. proc[p].handle = "temp" /\ temp[proc[p].job.doc] = Torn
  BY DEF Inv, Holds, TempHolds
<1>2. Doing(p, Writers)
  BY OwnDocument DEF Publishing
<1>3. ASSUME NEW q \in Process, q # p, proc[q].handle = "temp"
      PROVE  proc[q].job.doc # proc[p].job.doc
  <2>1. proc[q].at = "write"
    BY <1>3 DEF Inv, Holds, TempHolds
  <2>2. Doing(q, Writers)
    BY <2>1, OwnDocument DEF Publishing
  <2> QED  BY <1>2, <1>3, <2>2 DEF Inv, KeepApart
<1>4. ~Shared(p)
  BY <1>1, <1>3 DEF Shared
<1> QED  BY <1>1, <1>4 DEF Written

LEMMA WriteKeeps ==
  ASSUME TypeInv, Inv, NEW p \in Process, Write(p)
  PROVE  Inv'
<1>0. PICK x : x = Rec("rename", proc[p].job, proc[p].todo, proc[p].seen, proc[p].doc, "closed")
  OBVIOUS
<1>1. Becomes(p, x) /\ proc[p].at = "write"
  BY <1>0, WriteMakes DEF Write
<1>2. /\ x.at = "rename" /\ x.job = proc[p].job /\ x.seen = proc[p].seen
      /\ x.doc = proc[p].doc /\ x.handle = "closed"
  BY <1>0, RecFields
<1>3. proc[p].job.doc \in ArtifactId /\ Doing(p, Writers)
  BY <1>1, OwnDocument DEF Publishing
<1>4. DOMAIN proc[p].seen = {} /\ Holds(proc[p])
  BY <1>1 DEF TypeInv, JobFits, Inv
<1>5. UNCHANGED path /\ temp' = [temp EXCEPT ![proc[p].job.doc] = proc[p].doc]
  BY <1>1, Unshared DEF Write
<1>6. OnDisk' = OnDisk /\ Documents' = Documents
  BY <1>5 DEF OnDisk, Documents
<1>7. TempHolds(x)'
  BY <1>2, <1>3, <1>5 DEF TempHolds, TypeInv
<1>8. NewHolds(x)' /\ MoveHolds(x)' /\ RelateHolds(x)'
  BY <1>1, <1>2, <1>4, <1>5, <1>6 DEF Holds, NewHolds, MoveHolds, RelateHolds, Changing, Publishing
<1>9. ReadsHold(x)' /\ EdgesHold(x)'
  BY <1>2, <1>4 DEF ReadsHold, EdgesHold
<1>10. Holds(proc[p])'
  <2>1. proc'[p] = x
    BY <1>1 DEF Becomes
  <2> QED  BY <1>7, <1>8, <1>9, <2>1
      DEF Holds, ReadsHold, EdgesHold, Listed, NewHolds, MoveHolds, RelateHolds, TempHolds, Changing
<1>11. KeepApart'
  BY <1>1, <1>2, JobsKept DEF Inv
<1> QED  BY <1>1, <1>3, <1>5, <1>10, <1>11, QuietStep

---------------------------------------------------------------------------
(* Apart: the rename, which is the command.                                *)

(* What a rename does to the edges of the plan.                            *)
Published(p) ==
  LET d == proc[p].job.doc
      w == proc[p].doc
  IN
  /\ proc[p].job \in Jobs /\ d \in ArtifactId /\ w \in Document /\ Doing(p, Writers)
  /\ Becomes(p, Idle)
  /\ path' = [path EXCEPT ![d] = w] /\ temp' = [temp EXCEPT ![d] = NoFile]
  /\ OnDisk' = OnDisk \cup {d} /\ Documents' = Put(Documents, d, w)
  /\ Doing(p, {"new"}) => d \notin OnDisk /\ \A edge \in w.relations : edge[2] \in OnDisk
  /\ ~Doing(p, {"new"}) => d \in OnDisk /\ path[d].relations \subseteq w.relations
  /\ Doing(p, {"move"}) => w.relations = path[d].relations
  /\ Doing(p, {"relate"}) => Buildable(Graph(Put(Documents, d, w)))

LEMMA RenamePublishes ==
  ASSUME TypeInv, Inv, NEW p \in Process, Rename(p)
  PROVE  Published(p)
<1> DEFINE d == proc[p].job.doc
           w == proc[p].doc
<1>1. proc[p].at = "rename"
  BY DEF Rename
<1>2. /\ proc[p].job \in Jobs /\ d \in ArtifactId /\ w \in Document /\ Doing(p, Writers)
  BY <1>1, OwnDocument DEF Publishing
<1>3. Holds(proc[p])
  BY DEF Inv
<1>4. temp[d] = w /\ w # NoFile
  BY <1>1, <1>2, <1>3, StoreAssumption DEF Holds, TempHolds
<1>5. /\ path' = [path EXCEPT ![d] = w] /\ temp' = [temp EXCEPT ![d] = NoFile]
      /\ proc' = [q \in Process |-> proc'[q]] /\ proc'[p] = Idle
      /\ \A q \in Process : q # p =>
           proc'[q] = Rec(proc[q].at, proc[q].job, proc[q].todo, proc[q].seen, proc[q].doc,
                          HandleAfterRename(p, q))
  <2>1. temp[proc[p].job.doc] # NoFile
    BY <1>4
  <2> QED  BY <1>4, <2>1, RenameMakes
<1>6. ASSUME NEW q \in Process, q # p PROVE proc'[q] = proc[q]
  <2>1. Shape(proc[q]) /\ JobFits(proc[q])
    BY DEF TypeInv
  <2>2. proc[q].job \in Jobs => proc[q].job.op \in {"new", "move", "relate", "read"}
    BY Jobbed
  <2>3. proc[q].job = NoJob \/ Doing(q, {"read"}) \/ Doing(q, Writers)
    BY <2>1, <2>2 DEF Shape, Doing, Writers
  <2>4. Doing(q, Writers) => proc[q].job.doc # proc[p].job.doc
    BY <1>2, <1>6 DEF Inv, KeepApart
  <2>5. HandleAfterRename(p, q) = proc[q].handle
    BY <2>3, <2>4 DEF HandleAfterRename
  <2> QED  BY <1>5, <1>6, <2>1, <2>5 DEF Shape, Rec
<1>7. Becomes(p, Idle)
  BY <1>5, <1>6 DEF Becomes
<1>8. path \in [ArtifactId -> Document \cup {NoFile, Torn}]
  BY DEF TypeInv
<1>9. OnDisk' = OnDisk \cup {d}
  BY <1>2, <1>4, <1>5, <1>8 DEF OnDisk
<1>10. Documents' = Put(Documents, d, w)
  <2>1. \A e \in OnDisk' : path'[e] = IF e = d THEN w ELSE Documents[e]
    BY <1>2, <1>5, <1>8, <1>9, OnDiskIs
  <2> QED  BY <1>9, <2>1, OnDiskIs DEF Documents, Put
<1>11. Doing(p, {"new"}) => d \notin OnDisk /\ \A edge \in w.relations : edge[2] \in OnDisk
  BY <1>1, <1>3 DEF Holds, NewHolds, Doing, Publishing, OnDisk, Fresh
<1>12. proc[p].job.op = "move" => d \in OnDisk /\ w.relations = path[d].relations
  <2> SUFFICES ASSUME proc[p].job.op = "move" PROVE d \in OnDisk /\ w.relations = path[d].relations
    OBVIOUS
  <2>1. Changing(d) /\ w = MovedTo(path[d], proc[p].job.to) /\ proc[p].job.to \in Status
    BY <1>1, <1>2, <1>3, Jobbed DEF Holds, MoveHolds, Publishing
  <2> QED  BY <1>2, <2>1, Moved, StoreAssumption DEF Changing, OnDisk
<1>13. proc[p].job.op = "relate" =>
         /\ d \in OnDisk /\ path[d].relations \subseteq w.relations
         /\ Buildable(Graph(Put(Documents, d, w)))
  <2> SUFFICES ASSUME proc[p].job.op = "relate"
               PROVE  /\ d \in OnDisk /\ path[d].relations \subseteq w.relations
                      /\ Buildable(Graph(Put(Documents, d, w)))
    OBVIOUS
  <2>1. /\ Changing(d) /\ w = RelatedTo(path[d], proc[p].job.edge)
        /\ proc[p].job.edge \in Relation \X ArtifactId
        /\ Buildable(Graph(Put(Documents, d, w)))
    BY <1>1, <1>2, <1>3, Jobbed DEF Holds, RelateHolds, Publishing
  <2> QED  BY <1>2, <2>1, Related, StoreAssumption DEF Changing, OnDisk
<1> QED
  BY <1>2, <1>5, <1>7, <1>9, <1>10, <1>11, <1>12, <1>13 DEF Published, Doing, Writers

(* The plan builds after a command, and so does whatever was about to be   *)
(* written to another document.                                            *)
LEMMA StillBuilds ==
  ASSUME TypeInv, Inv, NEW p \in Process, Published(p)
  PROVE  Buildable(Graph(Documents))'
<1> DEFINE d == proc[p].job.doc
           w == proc[p].doc
           g == Graph(Documents)
           h == Graph(Put(Documents, d, w))
<1>1. Documents' = Put(Documents, d, w) /\ Buildable(g)
  BY DEF Published, Inv
<1>2. /\ DOMAIN Put(Documents, d, w) = OnDisk \cup {d} /\ Put(Documents, d, w)[d] = w
      /\ \A e \in OnDisk : e # d => Put(Documents, d, w)[e] = Documents[e]
  BY OnDiskIs DEF Put
<1>3. /\ DOMAIN g = OnDisk /\ DOMAIN h = OnDisk \cup {d} /\ h[d].relations = w.relations
      /\ \A e \in OnDisk : g[e].relations = Documents[e].relations
      /\ \A e \in OnDisk : e # d => h[e].relations = g[e].relations
  BY <1>2, OnDiskIs, GraphIs
<1>4. CASE Doing(p, {"new"})
  <2>1. d \notin OnDisk /\ \A edge \in w.relations : edge[2] \in OnDisk
    BY <1>4 DEF Published
  <2> HIDE DEF d, w, g, h
  <2>2. Buildable(h)
    BY <1>1, <1>3, <2>1, SourcesAreHarmless
  <2> QED  BY <1>1, <2>2 DEF h
<1>5. CASE Doing(p, {"move"})
  <2>1. d \in OnDisk /\ w.relations = path[d].relations
    BY <1>5 DEF Published, Doing
  <2>2. g[d].relations = w.relations
    BY <1>3, <2>1, OnDiskIs
  <2> HIDE DEF d, w, g, h
  <2>3. SameEdges(g, h)
    BY <1>3, <2>1, <2>2 DEF SameEdges
  <2> QED  BY <1>1, <2>3, EdgesDecide DEF h
<1>6. CASE Doing(p, {"relate"})
  BY <1>1, <1>6 DEF Published
<1> QED  BY <1>4, <1>5, <1>6 DEF Published, Doing, Writers

LEMMA OthersStillBuild ==
  ASSUME TypeInv, Inv, NEW p \in Process, Published(p), ~Doing(p, {"relate"}),
         NEW n, NEW v, n \in OnDisk, n # proc[p].job.doc, Buildable(Graph(Put(Documents, n, v)))
  PROVE  Buildable(Graph(Put(Documents', n, v)))
<1> DEFINE d == proc[p].job.doc
           w == proc[p].doc
           g == Graph(Put(Documents, n, v))
           h == Graph(Put(Documents', n, v))
<1>1. Documents' = Put(Documents, d, w) /\ Buildable(g)
  BY DEF Published
<1>2. /\ DOMAIN Documents' = OnDisk \cup {d} /\ Documents'[d] = w
      /\ \A e \in OnDisk : e # d => Documents'[e] = Documents[e]
  BY <1>1, OnDiskIs DEF Put
<1>3. /\ DOMAIN Put(Documents, n, v) = OnDisk /\ Put(Documents, n, v)[n] = v
      /\ \A e \in OnDisk : e # n => Put(Documents, n, v)[e] = Documents[e]
  BY OnDiskIs DEF Put
<1>4. /\ DOMAIN Put(Documents', n, v) = OnDisk \cup {d} /\ Put(Documents', n, v)[n] = v
      /\ \A e \in OnDisk \cup {d} : e # n => Put(Documents', n, v)[e] = Documents'[e]
  BY <1>2 DEF Put
<1>5. /\ DOMAIN g = OnDisk /\ DOMAIN h = OnDisk \cup {d}
      /\ \A e \in OnDisk : g[e].relations = Put(Documents, n, v)[e].relations
      /\ \A e \in OnDisk \cup {d} : h[e].relations = Put(Documents', n, v)[e].relations
  BY <1>3, <1>4, GraphIs
<1>6. n # d
  OBVIOUS
<1>7. /\ h[d].relations = w.relations
      /\ \A e \in OnDisk : e # d => h[e].relations = g[e].relations
  BY <1>2, <1>3, <1>4, <1>5, <1>6
<1>8. CASE Doing(p, {"new"})
  <2>1. d \notin OnDisk /\ \A edge \in w.relations : edge[2] \in OnDisk
    BY <1>8 DEF Published
  <2> HIDE DEF d, w, g, h
  <2>2. Buildable(h)
    BY <1>1, <1>5, <1>7, <2>1, SourcesAreHarmless
  <2> QED  BY <2>2 DEF h
<1>9. CASE Doing(p, {"move"})
  <2>1. d \in OnDisk /\ w.relations = path[d].relations
    BY <1>9 DEF Published, Doing
  <2>2. g[d].relations = w.relations
    BY <1>3, <1>5, <1>6, <2>1, OnDiskIs
  <2> HIDE DEF d, w, g, h
  <2>3. SameEdges(g, h)
    BY <1>5, <1>7, <2>1, <2>2 DEF SameEdges
  <2> QED  BY <1>1, <2>3, EdgesDecide DEF h
<1> QED  BY <1>8, <1>9 DEF Published, Doing, Writers

LEMMA RenameKeeps ==
  ASSUME TypeInv, Inv, NEW p \in Process, Published(p)
  PROVE  Inv'
<1> DEFINE d == proc[p].job.doc
           w == proc[p].doc
<1>1. /\ d \in ArtifactId /\ w \in Document /\ Doing(p, Writers) /\ Becomes(p, Idle)
      /\ path' = [path EXCEPT ![d] = w] /\ temp' = [temp EXCEPT ![d] = NoFile]
      /\ OnDisk' = OnDisk \cup {d}
      /\ path \in [ArtifactId -> Document \cup {NoFile, Torn}]
      /\ temp \in [ArtifactId -> Document \cup {NoFile, Torn}]
  BY DEF Published, TypeInv
<1>2. /\ path'[d] = w
      /\ \A e \in ArtifactId : e # d => path'[e] = path[e] /\ temp'[e] = temp[e]
  BY <1>1
<1>3. d \in OnDisk => path[d].relations \subseteq w.relations
  BY DEF Published
<1>4. ASSUME NEW q \in Process, q # p, NEW y, y = proc[q]
      PROVE  Holds(y)'
  <2>1. Holds(y) /\ Shape(y) /\ JobFits(y)
    BY <1>4 DEF Inv, TypeInv
  <2>2. ASSUME y.job.op \in Writers
        PROVE  y.job.doc # d /\ y.job.doc \in ArtifactId
    <3>1. Doing(q, Writers)
      BY <1>4, <2>2 DEF Doing
    <3>2. y.job.doc # d
      BY <1>1, <1>4, <3>1 DEF Inv, KeepApart
    <3>3. y.job \in Jobs
      BY <2>1, <2>2, NoJobDoesNothing DEF Shape, Writers
    <3> QED  BY <2>2, <3>2, <3>3, Jobbed
  <2>3. ReadsHold(y)'
    <3>1. ASSUME NEW e \in DOMAIN y.seen
          PROVE  /\ y.seen[e] \in Document /\ path'[e] \in Document
                 /\ y.seen[e].relations \subseteq path'[e].relations
                 /\ y.job.op \in {"move", "relate"} /\ e = y.job.doc => y.seen[e] = path'[e]
      <4>1. e \in OnDisk /\ e \in ArtifactId
        BY <2>1 DEF Shape, OnDisk
      <4>2. /\ y.seen[e] \in Document /\ path[e] \in Document
            /\ y.seen[e].relations \subseteq path[e].relations
            /\ y.job.op \in {"move", "relate"} /\ e = y.job.doc => y.seen[e] = path[e]
        BY <2>1 DEF Holds, ReadsHold
      <4>3. path[e].relations \subseteq path'[e].relations /\ path'[e] \in Document
        BY <1>1, <1>2, <1>3, <4>1, <4>2
      <4>4. y.job.op \in {"move", "relate"} /\ e = y.job.doc => path'[e] = path[e]
        BY <1>2, <2>2, <4>1 DEF Writers
      <4> QED  BY <4>2, <4>3, <4>4
    <3> QED  BY <3>1 DEF ReadsHold
  <2>4. EdgesHold(y)'
    <3>1. SUFFICES ASSUME y.at = "read", y.job.op = "relate"
                   PROVE  \A e \in Listed(y) : path'[e].relations = path[e].relations
      BY <2>1 DEF Holds, EdgesHold, Listed
    <3>2. Doing(q, {"relate"}) /\ Doing(q, Writers)
      BY <1>4, <3>1 DEF Doing, Writers
    <3>3. ~Doing(p, {"relate"})
      BY <1>1, <1>4, <3>2 DEF Inv, KeepApart
    <3>4. Listed(y) \subseteq OnDisk /\ OnDisk \subseteq ArtifactId
      BY <2>1 DEF Listed, Shape, OnDisk
    <3>5. d \in OnDisk => w.relations = path[d].relations
      BY <3>3 DEF Published, Doing, Writers
    <3> QED  BY <1>2, <3>4, <3>5
  <2>5. NewHolds(y)'
    BY <1>1, <1>2, <2>1, <2>2 DEF Holds, NewHolds, Writers
  <2>6. MoveHolds(y)'
    BY <1>2, <2>1, <2>2 DEF Holds, MoveHolds, Changing, Writers
  <2>7. RelateHolds(y)'
    <3>1. SUFFICES ASSUME y.job.op = "relate", y.at \in Publishing PROVE RelateHolds(y)'
      BY DEF RelateHolds
    <3>2. Doing(q, {"relate"}) /\ Doing(q, Writers)
      BY <1>4, <3>1 DEF Doing, Writers
    <3>3. ~Doing(p, {"relate"})
      BY <1>1, <1>4, <3>2 DEF Inv, KeepApart
    <3>4. /\ Changing(y.job.doc) /\ y.doc = RelatedTo(path[y.job.doc], y.job.edge)
          /\ y.job.edge[2] \in OnDisk /\ y.job.edge \notin path[y.job.doc].relations
          /\ Buildable(Graph(Put(Documents, y.job.doc, y.doc)))
      BY <2>1, <3>1 DEF Holds, RelateHolds
    <3>5. y.job.doc # d /\ y.job.doc \in OnDisk /\ y.job.doc \in ArtifactId
      BY <2>2, <3>1, <3>4, StoreAssumption DEF Writers, Changing, OnDisk
    <3>6. Buildable(Graph(Put(Documents', y.job.doc, y.doc)))
      BY <3>3, <3>4, <3>5, OthersStillBuild
    <3> QED  BY <1>1, <1>2, <3>4, <3>5, <3>6 DEF RelateHolds, Changing
  <2>8. TempHolds(y)'
    BY <1>2, <2>1, <2>2 DEF Holds, TempHolds, JobFits, Publishing
  <2> QED  BY <2>3, <2>4, <2>5, <2>6, <2>7, <2>8 DEF Holds
<1>5. ASSUME NEW q \in Process PROVE Holds(proc[q])'
  <2>1. CASE q = p
    <3>1. proc'[q] = Idle
      BY <1>1, <2>1 DEF Becomes
    <3>2. Idle.at = "idle" /\ DOMAIN Idle.seen = {} /\ Idle.handle = "closed" /\ Idle.job = NoJob
      BY DEF Idle
    <3> QED
      BY <3>1, <3>2, NoJobDoesNothing
      DEF Holds, ReadsHold, EdgesHold, NewHolds, MoveHolds, RelateHolds, TempHolds, Publishing
  <2>2. CASE q # p
    <3>1. PICK y : y = proc[q]
      OBVIOUS
    <3>2. proc'[q] = y
      BY <1>1, <2>2, <3>1 DEF Becomes
    <3>3. Holds(y)'
      BY <1>4, <2>2, <3>1
    <3> QED  BY <3>2, <3>3
  <2> QED  BY <2>1, <2>2
<1>6. KeepApart'
  <2>1. Idle.job = NoJob
    BY DEF Idle
  <2> QED  BY <1>1, <2>1, JobsKept DEF Inv
<1>7. \A e \in ArtifactId : path'[e] # Torn
  BY <1>1, <1>2, StoreAssumption DEF Inv
<1> QED  BY <1>5, <1>6, <1>7, StillBuilds DEF Inv

---------------------------------------------------------------------------
(* What follows while people keep apart.                                   *)

LEMMA InvInit == Init => Inv
<1> SUFFICES ASSUME Init PROVE Inv
  OBVIOUS
<1>1. /\ OnDisk = {} /\ \A p \in Process : proc[p] = Idle
      /\ \A d \in ArtifactId : path[d] # Torn
  BY StoreAssumption DEF Init, OnDisk
<1>2. \A p \in Process : Holds(proc[p])
  BY <1>1, IdleHolds
<1>3. Idle.job = NoJob
  BY DEF Idle
<1>4. KeepApart
  BY <1>1, <1>3, NoJobDoesNothing DEF KeepApart, Doing, Writers
<1>5. DOMAIN Graph(Documents) = {}
  BY <1>1, OnDiskIs, GraphIs
<1>6. Buildable(Graph(Documents))
  BY <1>5 DEF Buildable, Resolved, SelfReferring, Cyclic
<1> QED  BY <1>1, <1>2, <1>4, <1>6 DEF Inv

LEMMA InvNext == ASSUME Apart PROVE TypeInv /\ Inv /\ [Next]_vars => Inv'
<1> SUFFICES ASSUME TypeInv, Inv, [Next]_vars PROVE Inv'
  OBVIOUS
<1>1. CASE UNCHANGED vars
  <2>1. UNCHANGED <<path, temp, proc>> /\ OnDisk' = OnDisk /\ Documents' = Documents
    BY <1>1 DEF vars, OnDisk, Documents
  <2>2. KeepApart'
    BY <2>1 DEF Inv, KeepApart, Doing
  <2>3. ASSUME NEW q \in Process PROVE Holds(proc[q])'
    <3>1. PICK y : y = proc[q]
      OBVIOUS
    <3>2. Holds(y)
      BY <3>1 DEF Inv
    <3>3. Holds(y)'
      BY <2>1, <3>2
      DEF Holds, ReadsHold, EdgesHold, Listed, NewHolds, MoveHolds, RelateHolds, Changing, TempHolds
    <3> QED  BY <2>1, <3>1, <3>3
  <2> QED  BY <2>1, <2>2, <2>3 DEF Inv
<1>2. ASSUME NEW p \in Process, NEW job \in Jobs, Start(p, job) PROVE Inv'
  BY <1>2, StartKeeps
<1>3. ASSUME NEW p \in Process, List(p) \/ ReadOne(p) \/ Decide(p) \/ Create(p) PROVE Inv'
  BY <1>3, ListKeeps, ReadKeeps, DecideKeeps, CreateKeeps
<1>4. ASSUME NEW p \in Process, Answer(p) \/ Crash(p) PROVE Inv'
  BY <1>4, DoneMakes, IdleStep DEF Answer, Crash
<1>5. ASSUME NEW p \in Process, Open(p) \/ Write(p) PROVE Inv'
  BY <1>5, OpenKeeps, WriteKeeps
<1>6. ASSUME NEW p \in Process, Rename(p) PROVE Inv'
  BY <1>6, RenamePublishes, RenameKeeps
<1> QED  BY <1>1, <1>2, <1>3, <1>4, <1>5, <1>6 DEF Next

LEMMA InvHolds == ASSUME Apart PROVE Spec => [](TypeInv /\ Inv)
<1> QED  BY TypeInit, TypeNext, InvInit, InvNext, PTL DEF Spec

(* While people keep their commands apart, a path always holds a whole     *)
(* document, whatever crashes where (store.rs, write), and no relation the *)
(* store holds closes a cycle (planning.rs, relate).                       *)
THEOREM StoreStaysWhole == ASSUME Apart PROVE Spec => [](NothingTorn /\ NoCycles)
<1>1. TypeInv /\ Inv => NothingTorn /\ NoCycles
  BY DEF Inv, NothingTorn, NoCycles, Buildable
<1> QED  BY <1>1, InvHolds, PTL

(* While people keep apart, a driver that reads the graph of documents one *)
(* by one sees no torn file, and when the graph does not build it is       *)
(* because an edge leads to a document written after it listed the files   *)
(* (run.rs, graph; store.rs, load).                                        *)
THEOREM ReadsMissOnlyNewDocuments == ASSUME Apart PROVE Spec => []BrokenReadsMissedADocument
<1>1. ASSUME TypeInv, Inv, NEW p \in Process, ~Buildable(Graph(proc[p].seen))
      PROVE  \E d \in DOMAIN proc[p].seen : \E edge \in proc[p].seen[d].relations :
               edge[2] \in OnDisk \ DOMAIN proc[p].seen
  <2> DEFINE seen == proc[p].seen
             g == Graph(seen)
             whole == Graph(Documents)
  <2>1. /\ DOMAIN seen \subseteq OnDisk
        /\ \A d \in DOMAIN seen : seen[d].relations \subseteq path[d].relations
    <3>1. Shape(proc[p]) /\ ReadsHold(proc[p])
      BY <1>1 DEF TypeInv, Inv, Holds
    <3> QED  BY <3>1 DEF Shape, ReadsHold
  <2>2. /\ DOMAIN whole = OnDisk /\ \A d \in OnDisk : whole[d].relations = path[d].relations
    BY OnDiskIs, GraphIs
  <2>3. /\ DOMAIN g = DOMAIN seen /\ \A d \in DOMAIN seen : g[d].relations = seen[d].relations
    BY GraphIs
  <2>4. Buildable(whole) /\ ~Buildable(g)
    BY <1>1 DEF Inv
  <2> HIDE DEF seen, g, whole
  <2>5. \A r, a, b : Edge(g, r, a, b) => Edge(whole, r, a, b)
    BY <2>1, <2>2, <2>3 DEF Edge
  <2>6. ~SelfReferring(g)
    BY <2>1, <2>2, <2>3, <2>4, <2>5 DEF SelfReferring, Buildable
  <2>7. ASSUME NEW r \in Relation, Cyclic(g, r) PROVE FALSE
    <3>1. Cyclic(whole, r)
      BY <2>1, <2>2, <2>3, <2>5, <2>7 DEF Cyclic
    <3> QED  BY <2>4, <3>1 DEF Buildable
  <2>8. ~Resolved(g)
    BY <2>4, <2>6, <2>7 DEF Buildable
  <2>9. PICK d \in DOMAIN seen : \E edge \in seen[d].relations : edge[2] \notin DOMAIN seen
    BY <2>3, <2>8 DEF Resolved
  <2>10. \A edge \in seen[d].relations : edge[2] \in OnDisk
    BY <2>1, <2>2, <2>4 DEF Buildable, Resolved
  <2>11. \E e \in DOMAIN seen : \E edge \in seen[e].relations : edge[2] \in OnDisk \ DOMAIN seen
    BY <2>9, <2>10
  <2> QED  BY <2>11 DEF seen
<1>2. ASSUME TypeInv, Inv, NEW p \in Process PROVE Clean(p)
  BY <1>2, StoreAssumption DEF Clean, Inv, Holds, ReadsHold
<1>3. TypeInv /\ Inv => BrokenReadsMissedADocument
  BY <1>1, <1>2 DEF BrokenReadsMissedADocument
<1> QED  BY <1>3, InvHolds, PTL

---------------------------------------------------------------------------
(* The store implements the plan.                                          *)

(* The plan's words for a document are the store's.                        *)
LEMMA SameWords ==
  /\ Abstract!Status = Status
  /\ \A k : Abstract!LifecycleOf(k) = LifecycleOf(k)
  /\ \A d, edges : Abstract!Fresh(d, edges) = Fresh(d, edges)
  /\ \A v, to : Abstract!MovedTo(v, to) = MovedTo(v, to)
  /\ \A v, edge : Abstract!RelatedTo(v, edge) = RelatedTo(v, edge)
  /\ \A documents, d, v : Abstract!Put(documents, d, v) = Put(documents, d, v)
  /\ \A documents : Abstract!Buildable(Abstract!Graph(documents)) = Buildable(Graph(documents))
<1>1. Abstract!Status = Status
  BY DEF Abstract!Status, Status
<1>2. \A k : Abstract!LifecycleOf(k) = LifecycleOf(k)
  <2>1. Abstract!Permissive = Permissive
    BY <1>1 DEF Abstract!Permissive, Permissive
  <2>2. \A k : Abstract!Lineage(k) = Lineage(k)
    BY DEF Abstract!Lineage, Lineage
  <2>3. \A k : Abstract!Governing(k) = Governing(k)
    BY <2>2 DEF Abstract!Governing, Governing
  <2> QED  BY <2>1, <2>3 DEF Abstract!LifecycleOf, LifecycleOf
<1>3. \A d, edges : Abstract!Fresh(d, edges) = Fresh(d, edges)
  BY <1>2 DEF Abstract!Fresh, Fresh
<1>4. \A v : Abstract!Bumped(v) = Bumped(v)
  BY DEF Abstract!Bumped, Bumped
<1>5. \A v, to : Abstract!MovedTo(v, to) = MovedTo(v, to)
  BY <1>4 DEF Abstract!MovedTo, MovedTo
<1>6. \A v, edge : Abstract!RelatedTo(v, edge) = RelatedTo(v, edge)
  BY <1>4 DEF Abstract!RelatedTo, RelatedTo
<1>7. \A documents, d, v : Abstract!Put(documents, d, v) = Put(documents, d, v)
  BY DEF Abstract!Put, Put
<1>8. \A documents : Abstract!Graph(documents) = Graph(documents)
  <2>1. \A v : Abstract!ToArtifact(v) = ToArtifact(v)
    BY DEF Abstract!ToArtifact, ToArtifact
  <2> QED  BY <2>1 DEF Abstract!Graph, Graph
<1>9. \A graph : Abstract!Buildable(graph) = Buildable(graph)
  <2>1. \A graph : Abstract!Resolved(graph) = Resolved(graph)
    BY DEF Abstract!Resolved, Resolved
  <2>2. \A graph, r, a, b : Abstract!Edge(graph, r, a, b) = Edge(graph, r, a, b)
    BY DEF Abstract!Edge, Edge
  <2>3. \A graph : Abstract!SelfReferring(graph) = SelfReferring(graph)
    BY <2>2 DEF Abstract!SelfReferring, SelfReferring
  <2>4. \A graph, r : Abstract!Cyclic(graph, r) = Cyclic(graph, r)
    BY <2>2 DEF Abstract!Cyclic, Cyclic
  <2> QED  BY <2>1, <2>3, <2>4 DEF Abstract!Buildable, Buildable
<1> QED  BY <1>1, <1>2, <1>3, <1>5, <1>6, <1>7, <1>8, <1>9

LEMMA RenameIsACommand ==
  ASSUME TypeInv, Inv, NEW p \in Process, Rename(p)
  PROVE  Abstract!PlanNext
<1> DEFINE d == proc[p].job.doc
           w == proc[p].doc
           job == proc[p].job
<1>1. Published(p) /\ Holds(proc[p]) /\ proc[p].at = "rename"
  BY RenamePublishes DEF Inv, Rename
<1>2. /\ job \in Jobs /\ d \in ArtifactId /\ Documents' = Put(Documents, d, w)
      /\ job.op \in Writers
  BY <1>1 DEF Published, Doing
<1>3. DOMAIN Documents = OnDisk /\ (d \in OnDisk => Documents[d] = path[d])
  BY OnDiskIs
<1>4. CASE job.op = "new"
  <2>1. d \notin OnDisk /\ w = Fresh(d, job.edges)
    BY <1>1, <1>4 DEF Holds, NewHolds, Publishing, OnDisk
  <2>2. job.edges \in {j.edges : j \in {j \in Jobs : j.op = "new"}}
    BY <1>2, <1>4
  <2>3. Abstract!New(d, job.edges)
    BY <1>2, <1>3, <2>1, SameWords DEF Abstract!New
  <2> QED  BY <1>2, <2>2, <2>3 DEF Abstract!PlanNext
<1>5. CASE job.op = "move"
  <2>1. /\ Changing(d) /\ w = MovedTo(path[d], job.to)
        /\ job.to \in LifecycleOf(path[d].kind).moves[path[d].status]
    BY <1>1, <1>5 DEF Holds, MoveHolds, Publishing
  <2>2. d \in OnDisk /\ path[d].revision < MaxRevision
    BY <1>2, <2>1, StoreAssumption DEF Changing, OnDisk
  <2>3. job.to \in Status
    BY <1>2, <1>5, Jobbed
  <2>4. Abstract!Move(d, job.to)
    BY <1>2, <1>3, <2>1, <2>2, SameWords DEF Abstract!Move
  <2> QED  BY <1>2, <2>3, <2>4, SameWords DEF Abstract!PlanNext
<1>6. CASE job.op = "relate"
  <2>1. /\ Changing(d) /\ w = RelatedTo(path[d], job.edge)
        /\ job.edge[2] \in OnDisk /\ job.edge \notin path[d].relations
        /\ Buildable(Graph(Put(Documents, d, w)))
    BY <1>1, <1>6 DEF Holds, RelateHolds, Publishing
  <2>2. d \in OnDisk /\ path[d].revision < MaxRevision
    BY <1>2, <2>1, StoreAssumption DEF Changing, OnDisk
  <2>3. PICK relation \in Relation, target \in ArtifactId : job.edge = <<relation, target>>
    BY <1>2, <1>6, Jobbed
  <2>4. Abstract!Relate(d, relation, target)
    BY <1>2, <1>3, <2>1, <2>2, <2>3, SameWords DEF Abstract!Relate
  <2> QED  BY <1>2, <2>4 DEF Abstract!PlanNext
<1> QED  BY <1>2, <1>4, <1>5, <1>6 DEF Writers

(* While people keep apart, the files and the processes are one plan,      *)
(* changed by one command at a time, each happening at its rename: torn    *)
(* writes, stale reads and crashes never show (store.rs, planning.rs).     *)
THEOREM StoreImplementsPlan == ASSUME Apart PROVE Spec => ImplementsPlan
<1>1. Init => Abstract!PlanInit
  <2> SUFFICES ASSUME Init PROVE Abstract!PlanInit
    OBVIOUS
  <2>1. OnDisk = {}
    BY DEF Init, OnDisk
  <2>2. Documents = [d \in {} |-> {}]
    BY <2>1 DEF Documents
  <2> QED  BY <2>2 DEF Abstract!PlanInit
<1>2. TypeInv /\ Inv /\ [Next]_vars => [Abstract!PlanNext]_(Abstract!planVars)
  <2> SUFFICES ASSUME TypeInv, Inv, [Next]_vars PROVE [Abstract!PlanNext]_(Abstract!planVars)
    OBVIOUS
  <2>1. CASE UNCHANGED path
    BY <2>1 DEF Abstract!planVars, Documents, OnDisk
  <2>2. ASSUME NEW p \in Process, Write(p) PROVE UNCHANGED path
    BY <2>2, Unshared DEF Write
  <2>3. ASSUME NEW p \in Process, Rename(p) PROVE Abstract!PlanNext
    BY <2>3, RenameIsACommand
  <2>4. ASSUME NEW p \in Process,
               \/ \E job \in Jobs : Start(p, job)
               \/ List(p) \/ ReadOne(p) \/ Decide(p) \/ Create(p) \/ Answer(p) \/ Open(p) \/ Crash(p)
        PROVE  UNCHANGED path
    BY <2>4 DEF Start, List, ReadOne, Decide, Create, Answer, Open, Crash
  <2> QED  BY <2>1, <2>2, <2>3, <2>4 DEF Next, vars
<1> QED  BY <1>1, <1>2, InvHolds, PTL DEF Spec, ImplementsPlan, Abstract!PlanSpec

=============================================================================
