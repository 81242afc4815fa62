------------------------------- MODULE Seeding -------------------------------
(***************************************************************************)
(* A manifest put into the reference backend as commands                   *)
(* (crates/aep-backend-memory/src/seed.rs, from_manifest): every artifact  *)
(* in id order, then every edge, under command ids made from the artifact  *)
(* ids so that seeding twice is a replay.  An error ends the run with what *)
(* was applied so far; it may be started again on the same backend, with   *)
(* the same graph or a corrected one.                                      *)
(*                                                                         *)
(* The backend is given one command at a time and serves its other callers *)
(* between any two of them, and between two runs.                          *)
(*                                                                         *)
(* Two conversions decide what meets what and are modelled by what they    *)
(* do, over names written as sequences of characters.                      *)
(***************************************************************************)
EXTENDS CommandBackend, SequencesExt

CONSTANTS
  Callers,     \* the commands of the other callers
  Manifests,   \* graphs: sequences of artifacts, in any order
  MaxRuns      \* bound: how often a manifest is seeded

VARIABLES
  manifest,    \* the graph of the last run
  by_id,       \* the identity each artifact was stored under
  todo,        \* the commands still to issue
  run          \* how often it was started, and how the last one ended

seeding == <<manifest, by_id, todo, run>>

Alphanumeric(c) == c \notin {"-", "_", ".", "/", ":"}

(* token: anything else is a separator, and separators collapse.           *)
Token(id) ==
  LET add(t, c) ==
        IF Alphanumeric(c) THEN Append(t, c)
        ELSE IF t = <<>> \/ Last(t) = "-" THEN t
        ELSE Append(t, "-")
      t == FoldLeft(add, <<>>, <<id.namespace, ":">> \o id.name)
  IN IF t # <<>> /\ Last(t) = "-" THEN Front(t) ELSE t

(* locator_key: what a locator cannot carry becomes a dash.                *)
LocatorKey(name) ==
  [i \in DOMAIN name |->
     IF Alphanumeric(name[i]) \/ name[i] \in {"-", "_", "."} THEN name[i] ELSE "-"]

(* create_entity and envelope: a command is known by the name made for it. *)
ArtifactName(id) == <<"seed">> \o Token(id)

EdgeName(id, edge) ==
  <<"seed-rel">> \o Token(id) \o <<"-", edge.kind, "-">> \o Token(edge.target)

Address(artifact) == <<artifact.kind, LocatorKey(artifact.id.name)>>

CreateCommand(artifact) ==
  [id |-> ArtifactName(artifact.id), key |-> ArtifactName(artifact.id), op |-> "create",
   target |-> {}, expected |-> {}, type |-> artifact.kind, locator |-> Address(artifact),
   data |-> artifact.body]

RelateCommand(artifact, edge, source, other) ==
  [id |-> EdgeName(artifact.id, edge), key |-> EdgeName(artifact.id, edge), op |-> "relate",
   target |-> {source}, expected |-> {}, kind |-> edge.kind, source |-> source, other |-> other]

(* What callers send, and what seeding sends for a graph, are commands;    *)
(* what there is from the start has addresses of its own.                  *)
IsSequence(s) == s \in Seq({s[i] : i \in DOMAIN s})

ASSUME SeedAssumption ==
  /\ MaxRuns \in Nat /\ Callers \subseteq Envelope
  /\ \A c, d \in DOMAIN Seeded : Seeded[c].locator = Seeded[d].locator => c = d
  /\ \A graph \in Manifests :
       /\ IsSequence(graph)
       /\ \A i \in DOMAIN graph :
            /\ IsSequence(graph[i].edges)
            /\ CreateCommand(graph[i]) \in Envelope
            /\ \A j \in DOMAIN graph[i].edges : \A t \in DOMAIN graph :
                 graph[t].id = graph[i].edges[j].target =>
                   RelateCommand(graph[i], graph[i].edges[j], ArtifactName(graph[i].id),
                                 ArtifactName(graph[t].id)) \in Envelope

(* The two passes of from_manifest.                                        *)
Passes(graph) ==
  [i \in DOMAIN graph |-> [op |-> "create", artifact |-> graph[i]]] \o
  FlattenSeq([i \in DOMAIN graph |->
    [j \in DOMAIN graph[i].edges |->
       [op |-> "relate", artifact |-> graph[i], edge |-> graph[i].edges[j]]]])

SeedInit ==
  /\ Init
  /\ manifest = <<>>
  /\ by_id = [a \in {} |-> NoAnswer]
  /\ todo = <<>>
  /\ run = [count |-> 0, ended |-> "idle"]

FromManifest ==
  /\ run.ended # "running" /\ run.count < MaxRuns
  /\ run' = [count |-> run.count + 1, ended |-> "running"]
  /\ manifest' \in Manifests
  /\ by_id' = [a \in {} |-> NoAnswer]
  /\ todo' = Passes(manifest')
  /\ UNCHANGED vars

Ends(how) == run' = [run EXCEPT !.ended = how]

CreateOne ==
  /\ todo # <<>> /\ Head(todo).op = "create"
  /\ Execute(CreateCommand(Head(todo).artifact))
  /\ IF answer'.outcome = "refused"
     THEN /\ Ends("failed") /\ todo' = <<>>
          /\ UNCHANGED by_id
     ELSE /\ by_id' = With(by_id, Head(todo).artifact.id, answer'.result.affected[1].entity)
          /\ todo' = Tail(todo)
          /\ UNCHANGED run
  /\ UNCHANGED manifest

Edged(command) ==
  /\ Execute(command)
  /\ IF answer'.outcome = "refused"
     THEN Ends("failed") /\ todo' = <<>>
     ELSE todo' = Tail(todo) /\ UNCHANGED run
  /\ UNCHANGED <<manifest, by_id>>

NextEdge ==
  RelateCommand(Head(todo).artifact, Head(todo).edge,
                by_id[Head(todo).artifact.id], by_id[Head(todo).edge.target])

Declared == todo # <<>> /\ Head(todo).op = "relate" /\ Head(todo).edge.target \in DOMAIN by_id

(* Mutant: every run names its edges anew.                                 *)
RelateAnew ==
  LET key == NextEdge.key \o <<ToString(run.count)>>
  IN Declared /\ Edged([NextEdge EXCEPT !.id = key, !.key = key])

RelateOne == Declared /\ Edged(NextEdge)

(* An edge to an artifact the manifest does not declare.                   *)
Undeclared ==
  /\ todo # <<>> /\ Head(todo).op = "relate" /\ Head(todo).edge.target \notin DOMAIN by_id
  /\ Ends("failed")
  /\ todo' = <<>>
  /\ UNCHANGED <<vars, manifest, by_id>>

Report ==
  /\ run.ended = "running" /\ todo = <<>>
  /\ Ends("seeded")
  /\ UNCHANGED <<vars, manifest, by_id, todo>>

Called ==
  /\ \E e \in Callers : Execute(e)
  /\ UNCHANGED seeding

SeedNext ==
  Called \/ FromManifest \/ CreateOne \/ RelateOne \/ Undeclared \/ Report

SeedSpec == SeedInit /\ [][SeedNext]_<<vars, seeding>>

---------------------------------------------------------------------------
(* Properties                                                              *)

(* The entity at an artifact's address is its own, and holds what the      *)
(* artifact says unless a caller has revised it.                           *)
Stored(artifact) ==
  LET d == by_id[artifact.id] IN
  /\ {x \in DOMAIN store.entities : store.entities[x].locator = Address(artifact)} = {d}
  /\ store.entities[d].revision = 1 => store.entities[d].data = artifact.body

(* A caller has had an edge removed.                                       *)
Removed(artifact, edge) ==
  \E e \in Callers :
    /\ e.op = "unrelate" /\ e.relation = EdgeName(artifact.id, edge)
    /\ e.key \in DOMAIN applied /\ applied[e.key].id = e.id

(* The relations there are of an edge, those callers made aside.           *)
Related(artifact, edge) ==
  {k \in DOMAIN store.relations \ {e.key : e \in Callers} :
     store.relations[k] = [kind |-> edge.kind, source |-> by_id[artifact.id],
                           target |-> by_id[edge.target]]}

(* A run that reports success has given every artifact its own entity and  *)
(* has stored every edge once, whatever callers did between its commands,  *)
(* and however earlier runs ended, of this graph or another; it undoes     *)
(* nothing a caller did: a revised body stays revised, and an edge that    *)
(* was removed stays away (from_manifest, and its test                     *)
(* seeding_twice_replays_rather_than_duplicating).                         *)
SeededIsTheManifest ==
  run.ended = "seeded" =>
    /\ \A i, k \in DOMAIN manifest :
         by_id[manifest[i].id] = by_id[manifest[k].id] => i = k
    /\ \A i \in DOMAIN manifest : Stored(manifest[i])
    /\ \A i \in DOMAIN manifest : \A j \in DOMAIN manifest[i].edges :
         Cardinality(Related(manifest[i], manifest[i].edges[j])) =
           IF Removed(manifest[i], manifest[i].edges[j]) THEN 0 ELSE 1

(* What success does not say: that the manifest is in the backend now.  A  *)
(* run that replays an earlier one answers with what that one made, and a  *)
(* caller may have removed it since (seed.rs 1-16 promises the replay).    *)
SuccessPutsItThere ==
  [][run.ended = "running" /\ run'.ended = "seeded" =>
       \A i \in DOMAIN manifest :
         /\ store.entities[by_id[manifest[i].id]].data = manifest[i].body
         /\ \A j \in DOMAIN manifest[i].edges :
              Related(manifest[i], manifest[i].edges[j]) # {}]_<<vars, seeding>>

(* locator_key: two artifacts that collide "are refused by the backend as  *)
(* a duplicate address rather than silently sharing one entity".           *)
NoSilentSharing ==
  \A a, b \in DOMAIN by_id : by_id[a] = by_id[b] => a = b
=============================================================================
