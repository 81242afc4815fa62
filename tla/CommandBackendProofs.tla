------------------------ MODULE CommandBackendProofs ------------------------
(***************************************************************************)
(* What the backend keeps of every entity, proved for every set of         *)
(* commands.  Each command makes one of three things of a store: it leaves *)
(* the entities and their history alone, it creates an entity, or it gives *)
(* one entity its next revision.  The lemmas say which, and the theorems   *)
(* look at the three and at what execute does around them.  The last part  *)
(* is about Seeding, a sequence of such commands from a manifest.          *)
(***************************************************************************)
EXTENDS Seeding, FiniteSetTheorems, WellFoundedInduction, TLAPS

(* A store as its type declares it: maps of entities and of relations, a   *)
(* history of every entity and events.                                     *)
EntityShape(x) ==
  x = [type |-> x.type, locator |-> x.locator, revision |-> x.revision, status |-> x.status,
       data |-> x.data, archived |-> x.archived]

StoreShape(s) ==
  s = [entities |-> s.entities, relations |-> s.relations, history |-> s.history,
       events |-> s.events]

Entry == [revision : Nat, by : Key]
Event == [by : CommandKey, entity : Key, revision : Nat]

EntitiesHold(s) ==
  /\ DOMAIN s.entities \subseteq Key
  /\ \A d \in DOMAIN s.entities : EntityShape(s.entities[d]) /\ s.entities[d].revision \in Nat

HistoryHolds(s) ==
  /\ DOMAIN s.history = DOMAIN s.entities
  /\ \A d \in DOMAIN s.entities : s.history[d] \in Seq(Entry)

RelationsHold(s) ==
  /\ DOMAIN s.relations \subseteq CommandKey
  /\ \A k \in DOMAIN s.relations :
       s.relations[k].source \in DOMAIN s.entities /\ s.relations[k].target \in DOMAIN s.entities

WellFormed(s) ==
  /\ StoreShape(s) /\ EntitiesHold(s) /\ HistoryHolds(s) /\ RelationsHold(s)
  /\ s.events \in Seq(Event)

(* What a change leaves alone of every other entity, and what it makes of  *)
(* its own.                                                                *)
Kept(s, t) == t.entities = s.entities /\ t.history = s.history

Besides(s, t, d) ==
  \A x \in DOMAIN s.entities \ {d} :
    t.entities[x] = s.entities[x] /\ t.history[x] = s.history[x]

NextRevision(s, t, e, d) ==
  /\ d \in DOMAIN s.entities
  /\ DOMAIN t.entities = DOMAIN s.entities
  /\ Besides(s, t, d)
  /\ t.history[d] = Append(s.history[d], [revision |-> s.entities[d].revision + 1, by |-> e.key])
  /\ t.entities[d].revision = s.entities[d].revision + 1
  /\ t.entities[d].type = s.entities[d].type
  /\ t.entities[d].locator = s.entities[d].locator

FirstRevision(s, t, e) ==
  /\ e.key \notin DOMAIN s.entities
  /\ DOMAIN t.entities = DOMAIN s.entities \cup {e.key}
  /\ Besides(s, t, e.key)
  /\ t.history[e.key] = <<[revision |-> 1, by |-> e.key]>>
  /\ t.entities[e.key].revision = 1
  /\ \A x \in DOMAIN s.entities : s.entities[x].locator # t.entities[e.key].locator

WordsKept(s, t) ==
  \A d \in DOMAIN s.entities :
    s.entities[d].type \in Immutable => t.entities[d].data = s.entities[d].data

---------------------------------------------------------------------------
(* The parts of a command.                                                 *)

LEMMA Mutation ==
  ASSUME NEW s, WellFormed(s), NEW e \in Envelope, NEW d \in DOMAIN s.entities, NEW n,
         EntityShape(n), n.revision = s.entities[d].revision, n.type = s.entities[d].type,
         n.locator = s.entities[d].locator
  PROVE  LET t == Mutate(s, e, d, n) IN
         /\ WellFormed(t)
         /\ NextRevision(s, t, e, d)
         /\ t.entities[d].data = n.data
         /\ t.relations = s.relations
<1> DEFINE m == [n EXCEPT !.revision = @ + 1]
           r == s.entities[d].revision + 1
           entry == [revision |-> r, by |-> e.key]
           ents == [s.entities EXCEPT ![d] = m]
           mid == [s EXCEPT !.entities = ents]
           hist == With(s.history, d, Append(s.history[d], entry))
           t == Mutate(s, e, d, n)
<1>1. /\ d \in DOMAIN s.history /\ d \in Key /\ s.history[d] \in Seq(Entry)
      /\ r \in Nat /\ entry \in Entry
  BY DEF WellFormed, HistoryHolds, EntitiesHold, Entry, Key, CommandKey
<1>2. m = [type |-> n.type, locator |-> n.locator, revision |-> r,
           status |-> n.status, data |-> n.data, archived |-> n.archived]
  BY DEF EntityShape
<1>3. /\ EntityShape(m) /\ m.revision = r /\ m.data = n.data /\ m.type = s.entities[d].type
      /\ m.locator = s.entities[d].locator
  BY <1>2 DEF EntityShape
<1> HIDE DEF m
<1>4. mid = [entities |-> ents, relations |-> s.relations, history |-> s.history,
             events |-> s.events]
  BY DEF WellFormed, StoreShape
<1>5. t = [entities |-> ents, relations |-> s.relations, history |-> hist, events |-> s.events]
  <2>1. t = Recorded(mid, e, d, r)
    BY DEF Mutate, m
  <2>2. Recorded(mid, e, d, r) = [mid EXCEPT !.history = hist]
    BY <1>1, <1>4 DEF Recorded
  <2> QED  BY <2>1, <2>2, <1>4
<1> HIDE DEF t, mid
<1>6. /\ DOMAIN ents = DOMAIN s.entities /\ ents[d] = m
      /\ \A x \in DOMAIN s.entities \ {d} : ents[x] = s.entities[x]
  OBVIOUS
<1>7. /\ DOMAIN hist = DOMAIN s.entities /\ hist[d] = Append(s.history[d], entry)
      /\ \A x \in DOMAIN s.entities \ {d} : hist[x] = s.history[x]
  BY <1>1 DEF With, WellFormed, HistoryHolds
<1> HIDE DEF ents, hist
<1>8. WellFormed(t)
  <2>1. StoreShape(t) /\ RelationsHold(t) /\ t.events \in Seq(Event)
    BY <1>5, <1>6 DEF StoreShape, RelationsHold, WellFormed
  <2>2. EntitiesHold(t)
    BY <1>1, <1>3, <1>5, <1>6 DEF EntitiesHold, WellFormed
  <2>3. HistoryHolds(t)
    <3>1. Append(s.history[d], entry) \in Seq(Entry)
      BY <1>1
    <3> QED  BY <3>1, <1>5, <1>6, <1>7 DEF HistoryHolds, WellFormed
  <2> QED  BY <2>1, <2>2, <2>3 DEF WellFormed
<1>9. NextRevision(s, t, e, d)
  BY <1>3, <1>5, <1>6, <1>7 DEF NextRevision, Besides
<1> QED  BY <1>3, <1>5, <1>6, <1>8, <1>9 DEF t

LEMMA Emission ==
  ASSUME NEW s, WellFormed(s), NEW e \in Envelope, NEW d \in DOMAIN s.entities
  PROVE  LET t == Emit(s, e, d) IN
         WellFormed(t) /\ Kept(s, t) /\ t.relations = s.relations
<1> DEFINE event == [by |-> e.key, entity |-> d, revision |-> s.entities[d].revision]
           t == Emit(s, e, d)
<1>1. event \in Event
  BY DEF WellFormed, EntitiesHold, Event, Key, CommandKey
<1>2. Append(s.events, event) \in Seq(Event)
  BY <1>1 DEF WellFormed
<1>3. t = [entities |-> s.entities, relations |-> s.relations, history |-> s.history,
           events |-> Append(s.events, event)]
  BY DEF Emit, WellFormed, StoreShape
<1> HIDE DEF t, event
<1>4. WellFormed(t)
  BY <1>2, <1>3 DEF WellFormed, StoreShape, EntitiesHold, HistoryHolds, RelationsHold
<1> QED  BY <1>3, <1>4 DEF Kept, t

LEMMA Relation ==
  ASSUME NEW s, WellFormed(s), NEW e \in Envelope, NEW kind,
         NEW source \in DOMAIN s.entities, NEW target \in DOMAIN s.entities
  PROVE  LET t == Relate(s, e, kind, source, target) IN
         /\ WellFormed(t) /\ Kept(s, t)
         /\ t.relations = With(s.relations, e.key,
                               [kind |-> kind, source |-> source, target |-> target])
<1> DEFINE edge == [kind |-> kind, source |-> source, target |-> target]
           rels == With(s.relations, e.key, edge)
           t == Relate(s, e, kind, source, target)
<1>1. t = [entities |-> s.entities, relations |-> rels, history |-> s.history,
           events |-> s.events]
  BY DEF Relate, WellFormed, StoreShape
<1>2. /\ DOMAIN rels = DOMAIN s.relations \cup {e.key}
      /\ \A k \in DOMAIN rels : rels[k] = IF k = e.key THEN edge ELSE s.relations[k]
  BY DEF With
<1>3. edge.source = source /\ edge.target = target
  OBVIOUS
<1> HIDE DEF t, rels, edge
<1>4. RelationsHold(t)
  BY <1>1, <1>2, <1>3 DEF RelationsHold, WellFormed, CommandKey
<1>5. WellFormed(t)
  BY <1>1, <1>4 DEF WellFormed, StoreShape, EntitiesHold, HistoryHolds
<1> QED  BY <1>1, <1>5 DEF Kept, t, rels, edge

---------------------------------------------------------------------------
(* The outcome of a command on a store.                                    *)

Leaves(s, o) == Kept(s, o.store) /\ o.affected = <<>>

Revises(s, e, o, d) ==
  /\ NextRevision(s, o.store, e, d)
  /\ Mutable(s, e, d)
  /\ o.ok => o.affected = Revised(d, s.entities[d].revision + 1)

Makes(s, e, o) ==
  /\ FirstRevision(s, o.store, e)
  /\ o.ok /\ o.affected = Revised(e.key, 1)

Outcome(s, e, o) ==
  /\ o.ok \in BOOLEAN
  /\ WellFormed(o.store)
  /\ WordsKept(s, o.store)
  /\ Leaves(s, o) \/ Makes(s, e, o) \/ \E d \in DOMAIN s.entities : Revises(s, e, o, d)

LEMMA Refusal ==
  ASSUME NEW s, WellFormed(s), NEW e
  PROVE  /\ Outcome(s, e, Refused(s)) /\ Leaves(s, Refused(s))
         /\ ~Refused(s).ok /\ Refused(s).store = s
BY DEF Outcome, Leaves, Refused, Kept, WordsKept

LEMMA Restatement ==
  ASSUME NEW s, WellFormed(s), NEW e \in Envelope, NEW d, NEW status
  PROVE  LET o == Restated(s, e, d, status) IN
         \/ o = Refused(s) /\ ~Mutable(s, e, d)
         \/ /\ d \in DOMAIN s.entities
            /\ o = Accepted(o.store, Revised(d, s.entities[d].revision + 1))
            /\ Revises(s, e, o, d) /\ WellFormed(o.store) /\ WordsKept(s, o.store)
<1> DEFINE n == Status(s, d, status)
           t == Mutate(s, e, d, n)
           o == Accepted(t, Revised(d, s.entities[d].revision + 1))
<1>1. CASE ~Mutable(s, e, d)
  BY <1>1 DEF Restated
<1>2. CASE Mutable(s, e, d)
  <2>1. d \in DOMAIN s.entities
    BY <1>2 DEF Mutable, Exists
  <2>2. EntityShape(s.entities[d])
    BY <2>1 DEF WellFormed, EntitiesHold
  <2>3. /\ EntityShape(n) /\ n.revision = s.entities[d].revision
        /\ n.type = s.entities[d].type /\ n.data = s.entities[d].data
        /\ n.locator = s.entities[d].locator
    BY <2>2 DEF EntityShape, Status
  <2> HIDE DEF n
  <2>4. /\ WellFormed(t) /\ NextRevision(s, t, e, d)
        /\ t.entities[d].data = n.data
    BY <2>1, <2>3, Mutation
  <2> HIDE DEF t
  <2>5. WordsKept(s, t)
    BY <2>3, <2>4 DEF WordsKept, NextRevision, Besides
  <2>6. o.store = t /\ o.affected = Revised(d, s.entities[d].revision + 1)
    BY DEF Accepted
  <2>7. Restated(s, e, d, status) = o
    BY <1>2 DEF Restated, t, n
  <2>8. o = Accepted(o.store, Revised(d, s.entities[d].revision + 1))
    BY <2>6
  <2>9. Revises(s, e, o, d)
    BY <1>2, <2>4, <2>6 DEF Revises
  <2> HIDE DEF o
  <2> QED  BY <2>1, <2>4, <2>5, <2>6, <2>7, <2>8, <2>9
<1> QED  BY <1>1, <1>2

LEMMA Creation ==
  ASSUME NEW s, WellFormed(s), NEW e \in Envelope, e.key \notin DOMAIN s.entities
  PROVE  LET o == Created(s, e) IN
         /\ Outcome(s, e, o)
         /\ o = Refused(s) \/ o.ok
         /\ o.ok => /\ o.store.entities = With(s.entities, e.key, Entity(e.type, e.locator, e.data))
                    /\ o.store.relations = s.relations
<1> DEFINE n == Entity(e.type, e.locator, e.data)
           ents == With(s.entities, e.key, n)
           entry == [revision |-> 1, by |-> e.key]
           hist == With(s.history, e.key, <<entry>>)
           mid == [s EXCEPT !.entities = ents]
           r == Recorded(mid, e, e.key, 1)
           t == Emit(r, e, e.key)
           o == Accepted(t, Revised(e.key, 1))
<1>1. CASE \E d \in DOMAIN s.entities : s.entities[d].locator = e.locator
  BY <1>1, Refusal DEF Created
<1>2. CASE ~\E d \in DOMAIN s.entities : s.entities[d].locator = e.locator
  <2>1. EntityShape(n) /\ n.revision = 1 /\ n.locator = e.locator
    BY DEF EntityShape, Entity
  <2> HIDE DEF n
  <2>2. /\ DOMAIN ents = DOMAIN s.entities \cup {e.key} /\ ents[e.key] = n
        /\ \A x \in DOMAIN s.entities : ents[x] = s.entities[x]
    BY DEF With
  <2>3. entry \in Entry /\ e.key \in Key
    BY DEF Entry, Key, CommandKey
  <2>4. /\ DOMAIN hist = DOMAIN s.entities \cup {e.key} /\ hist[e.key] = <<entry>>
        /\ \A x \in DOMAIN s.entities : hist[x] = s.history[x]
    BY DEF With, WellFormed, HistoryHolds
  <2> HIDE DEF ents
  <2>5. mid = [entities |-> ents, relations |-> s.relations, history |-> s.history,
               events |-> s.events]
    BY DEF WellFormed, StoreShape
  <2>6. r = [entities |-> ents, relations |-> s.relations, history |-> hist,
             events |-> s.events]
    <3>1. mid.history = s.history /\ e.key \notin DOMAIN mid.history
      BY <2>5 DEF WellFormed, HistoryHolds
    <3>2. Append(<<>>, entry) = <<entry>>
      OBVIOUS
    <3>3. r = [mid EXCEPT !.history = hist]
      BY <3>1, <3>2 DEF Recorded
    <3> QED  BY <2>5, <3>3
  <2> HIDE DEF mid, r, hist, entry
  <2>7. <<entry>> \in Seq(Entry)
    BY <2>3
  <2>8. EntitiesHold(r)
    BY <2>1, <2>2, <2>3, <2>6 DEF EntitiesHold, WellFormed
  <2>9. HistoryHolds(r)
    BY <2>2, <2>4, <2>6, <2>7 DEF HistoryHolds, WellFormed
  <2>10. RelationsHold(r)
    BY <2>2, <2>6 DEF RelationsHold, WellFormed
  <2>11. WellFormed(r)
    BY <2>6, <2>8, <2>9, <2>10 DEF WellFormed, StoreShape
  <2>12. WellFormed(t) /\ Kept(r, t) /\ t.relations = r.relations
    BY <2>2, <2>6, <2>11, Emission
  <2> HIDE DEF t
  <2>13. t.entities = ents /\ t.history = hist /\ t.relations = s.relations
    BY <2>6, <2>12 DEF Kept
  <2>14. FirstRevision(s, t, e)
    <3>1. e.key \notin DOMAIN s.entities /\ Besides(s, t, e.key)
      BY <2>2, <2>4, <2>13 DEF Besides
    <3>2. \A x \in DOMAIN s.entities : s.entities[x].locator # t.entities[e.key].locator
      BY <1>2, <2>1, <2>2, <2>13
    <3> QED  BY <2>1, <2>2, <2>4, <2>13, <3>1, <3>2 DEF FirstRevision, entry
  <2>15. WordsKept(s, t)
    BY <2>2, <2>13 DEF WordsKept
  <2>16. o.store = t /\ o.ok /\ o.ok \in BOOLEAN /\ o.affected = Revised(e.key, 1)
    BY DEF Accepted
  <2>17. Created(s, e) = o
    BY <1>2 DEF Created, t, r, mid, ents, n
  <2> HIDE DEF o
  <2>18. Outcome(s, e, o)
    BY <2>12, <2>14, <2>15, <2>16 DEF Outcome, Makes
  <2>19. t.entities = With(s.entities, e.key, Entity(e.type, e.locator, e.data))
    BY <2>13 DEF ents, n
  <2> QED  BY <2>13, <2>16, <2>17, <2>18, <2>19
<1> QED  BY <1>1, <1>2

(* A command does all of it or nothing.                                    *)
Whole(s, o) == o.ok \/ o.store = s

LEMMA Update ==
  ASSUME NEW s, WellFormed(s), NEW e \in Envelope
  PROVE  LET o == Updated(s, e) IN
         Outcome(s, e, o) /\ Whole(s, o) /\ (o.ok => Mutable(s, e, e.change.target))
<1> DEFINE d == e.change.target
           n == [s.entities[d] EXCEPT !.data = e.change.data]
           m == Mutate(s, e, d, n)
           t == Emit(m, e, d)
           o == Accepted(t, Revised(d, s.entities[d].revision + 1))
           bad == ~Exists(s, d) \/ s.entities[d].type \in Immutable \/ ~Mutable(s, e, d)
<1>1. CASE bad
  <2>1. Updated(s, e) = Refused(s)
    BY <1>1 DEF Updated
  <2> QED  BY <2>1, Refusal DEF Whole
<1>2. CASE ~bad
  <2>1. d \in DOMAIN s.entities /\ Mutable(s, e, d) /\ s.entities[d].type \notin Immutable
    BY <1>2 DEF Exists
  <2>2. EntityShape(s.entities[d])
    BY <2>1 DEF WellFormed, EntitiesHold
  <2>3. /\ EntityShape(n) /\ n.revision = s.entities[d].revision
        /\ n.type = s.entities[d].type /\ n.locator = s.entities[d].locator
    BY <2>2 DEF EntityShape
  <2> HIDE DEF n
  <2>4. WellFormed(m) /\ NextRevision(s, m, e, d)
    BY <2>1, <2>3, Mutation
  <2> HIDE DEF m
  <2>5. d \in DOMAIN m.entities
    BY <2>1, <2>4 DEF NextRevision
  <2>6. WellFormed(t) /\ Kept(m, t)
    BY <2>4, <2>5, Emission
  <2> HIDE DEF t
  <2>7. NextRevision(s, t, e, d)
    BY <2>4, <2>6 DEF NextRevision, Besides, Kept
  <2>8. WordsKept(s, t)
    BY <2>1, <2>7 DEF NextRevision, Besides, WordsKept
  <2>9. o.store = t /\ o.ok /\ o.ok \in BOOLEAN
        /\ o.affected = Revised(d, s.entities[d].revision + 1)
    BY DEF Accepted
  <2>10. Updated(s, e) = o
    BY <1>2 DEF Updated, t, m, n
  <2> HIDE DEF o
  <2> QED  BY <2>1, <2>6, <2>7, <2>8, <2>9, <2>10 DEF Outcome, Revises, Whole
<1> QED  BY <1>1, <1>2

LEMMA Linking ==
  ASSUME NEW s, WellFormed(s), NEW e \in Envelope
  PROVE  LET o == RelationCreated(s, e) IN
         /\ Outcome(s, e, o) /\ Whole(s, o)
         /\ o.ok => o.store.relations =
                      With(s.relations, e.key,
                           [kind |-> e.kind, source |-> e.source, target |-> e.other])
<1> DEFINE t == Relate(s, e, e.kind, e.source, e.other)
           o == Accepted(t, <<>>)
<1>1. CASE Exists(s, e.source) /\ Exists(s, e.other)
  <2>1. /\ WellFormed(t) /\ Kept(s, t)
        /\ t.relations = With(s.relations, e.key,
                              [kind |-> e.kind, source |-> e.source, target |-> e.other])
    BY <1>1, Relation DEF Exists
  <2>2. o.store = t /\ o.ok /\ o.ok \in BOOLEAN /\ o.affected = <<>>
    BY DEF Accepted
  <2>3. RelationCreated(s, e) = o
    BY <1>1 DEF RelationCreated
  <2> HIDE DEF t, o
  <2> QED  BY <2>1, <2>2, <2>3 DEF Outcome, Leaves, Whole, WordsKept, Kept
<1>2. CASE ~(Exists(s, e.source) /\ Exists(s, e.other))
  <2>1. RelationCreated(s, e) = Refused(s)
    BY <1>2 DEF RelationCreated
  <2> QED  BY <2>1, Refusal DEF Whole
<1> QED  BY <1>1, <1>2

LEMMA Cutting ==
  ASSUME NEW s, WellFormed(s), NEW e \in Envelope
  PROVE  LET o == RelationRemoved(s, e) IN Outcome(s, e, o) /\ Whole(s, o)
<1> DEFINE rels == [k \in DOMAIN s.relations \ {e.relation} |-> s.relations[k]]
           t == [s EXCEPT !.relations = rels]
           o == Accepted(t, <<>>)
<1>1. CASE e.relation \in DOMAIN s.relations
  <2>1. t = [entities |-> s.entities, relations |-> rels, history |-> s.history,
             events |-> s.events]
    BY DEF WellFormed, StoreShape
  <2>2. RelationsHold(t)
    BY <2>1 DEF RelationsHold, WellFormed
  <2> HIDE DEF rels
  <2>3. WellFormed(t) /\ Kept(s, t)
    BY <2>1, <2>2 DEF WellFormed, StoreShape, EntitiesHold, HistoryHolds, Kept
  <2>4. o.store = t /\ o.ok /\ o.ok \in BOOLEAN /\ o.affected = <<>>
    BY DEF Accepted
  <2>5. RelationRemoved(s, e) = o
    BY <1>1 DEF RelationRemoved, rels
  <2> HIDE DEF t, o
  <2> QED  BY <2>3, <2>4, <2>5 DEF Outcome, Leaves, Whole, WordsKept, Kept
<1>2. CASE e.relation \notin DOMAIN s.relations
  <2>1. RelationRemoved(s, e) = Refused(s)
    BY <1>2 DEF RelationRemoved
  <2> QED  BY <2>1, Refusal DEF Whole
<1> QED  BY <1>1, <1>2

LEMMA Shelved ==
  ASSUME NEW x, EntityShape(x), NEW archived, NEW status
  PROVE  [x EXCEPT !.archived = archived, !.status = status] =
           [type |-> x.type, locator |-> x.locator, revision |-> x.revision,
            status |-> status, data |-> x.data, archived |-> archived]
<1>1. PICK y : y = [x EXCEPT !.archived = archived]
  OBVIOUS
<1>2. y = [type |-> x.type, locator |-> x.locator, revision |-> x.revision,
           status |-> x.status, data |-> x.data, archived |-> archived]
  BY <1>1 DEF EntityShape
<1>3. [y EXCEPT !.status = status] =
        [type |-> x.type, locator |-> x.locator, revision |-> x.revision,
         status |-> status, data |-> x.data, archived |-> archived]
  BY <1>2
<1> QED  BY <1>1, <1>3

LEMMA Archival ==
  ASSUME NEW s, WellFormed(s), NEW e \in Envelope
  PROVE  LET o == Archived(s, e) IN
         Outcome(s, e, o) /\ Whole(s, o) /\ (o.ok => Mutable(s, e, e.entity))
<1> DEFINE d == e.entity
           n == [s.entities[d] EXCEPT !.archived = TRUE, !.status = "archived"]
           t == Mutate(s, e, d, n)
           o == Accepted(t, Revised(d, s.entities[d].revision + 1))
<1>1. CASE ~Mutable(s, e, d)
  <2>1. Archived(s, e) = Refused(s)
    BY <1>1 DEF Archived
  <2> QED  BY <2>1, Refusal DEF Whole
<1>2. CASE Mutable(s, e, d)
  <2>1. d \in DOMAIN s.entities
    BY <1>2 DEF Mutable, Exists
  <2>2. EntityShape(s.entities[d])
    BY <2>1 DEF WellFormed, EntitiesHold
  <2>3. /\ EntityShape(n) /\ n.revision = s.entities[d].revision
        /\ n.type = s.entities[d].type /\ n.data = s.entities[d].data
        /\ n.locator = s.entities[d].locator
    <3>1. n = [type |-> s.entities[d].type, locator |-> s.entities[d].locator,
               revision |-> s.entities[d].revision, status |-> "archived",
               data |-> s.entities[d].data, archived |-> TRUE]
      BY <2>2, Shelved
    <3> HIDE DEF n
    <3> QED  BY <3>1 DEF EntityShape
  <2> HIDE DEF n
  <2>4. WellFormed(t) /\ NextRevision(s, t, e, d) /\ t.entities[d].data = n.data
    BY <2>1, <2>3, Mutation
  <2> HIDE DEF t
  <2>5. WordsKept(s, t)
    BY <2>3, <2>4 DEF WordsKept, NextRevision, Besides
  <2>6. o.store = t /\ o.ok /\ o.ok \in BOOLEAN
        /\ o.affected = Revised(d, s.entities[d].revision + 1)
    BY DEF Accepted
  <2>7. Archived(s, e) = o
    BY <1>2 DEF Archived, t, n
  <2> HIDE DEF o
  <2> QED  BY <1>2, <2>1, <2>4, <2>5, <2>6, <2>7 DEF Outcome, Revises, Whole
<1> QED  BY <1>1, <1>2

LEMMA Restored ==
  ASSUME NEW o, NEW ok, NEW affected, NEW t,
         o = [ok |-> ok, store |-> o.store, affected |-> affected]
  PROVE  [o EXCEPT !.store = t] = [ok |-> ok, store |-> t, affected |-> affected]
<1>1. PICK b : b = o.store
  OBVIOUS
<1>2. o = [ok |-> ok, store |-> b, affected |-> affected]
  BY <1>1
<1> QED  BY <1>2

(* A change of status, and what follows it of relations and events.        *)
LEMMA Continuation ==
  ASSUME NEW s, WellFormed(s), NEW e \in Envelope, NEW status, NEW t,
         LET o == Restated(s, e, e.entity, status) IN
           o.ok /\ WellFormed(t) /\ Kept(o.store, t)
  PROVE  LET o == [Restated(s, e, e.entity, status) EXCEPT !.store = t] IN
         Outcome(s, e, o) /\ o.ok /\ Mutable(s, e, e.entity)
<1> DEFINE c == Restated(s, e, e.entity, status)
           affected == Revised(e.entity, s.entities[e.entity].revision + 1)
           o == [c EXCEPT !.store = t]
<1>1. /\ e.entity \in DOMAIN s.entities /\ c = Accepted(c.store, affected)
      /\ Revises(s, e, c, e.entity) /\ WordsKept(s, c.store)
  BY Restatement DEF Refused
<1> HIDE DEF c
<1>2. o = [ok |-> TRUE, store |-> t, affected |-> affected]
  <2> HIDE DEF affected
  <2>1. c = [ok |-> TRUE, store |-> c.store, affected |-> affected]
    BY <1>1 DEF Accepted
  <2> QED  BY <2>1, Restored
<1>3. WellFormed(t) /\ Kept(c.store, t)
  BY DEF c
<1>4. NextRevision(s, t, e, e.entity) /\ WordsKept(s, t)
  BY <1>1, <1>3 DEF Revises, NextRevision, Besides, Kept, WordsKept
<1> HIDE DEF affected, o
<1>5. Revises(s, e, o, e.entity)
  BY <1>1, <1>2, <1>4 DEF Revises, affected
<1>6. Outcome(s, e, o) /\ o.ok /\ Mutable(s, e, e.entity)
  BY <1>1, <1>2, <1>3, <1>4, <1>5 DEF Outcome, Revises
<1> QED  BY <1>6 DEF o, c

LEMMA Replacement ==
  ASSUME NEW s, WellFormed(s), NEW e \in Envelope
  PROVE  LET o == Superseded(s, e) IN
         Outcome(s, e, o) /\ Whole(s, o) /\ (o.ok => Mutable(s, e, e.entity))
<1> DEFINE c == Restated(s, e, e.entity, "superseded")
           t == Relate(c.store, e, "supersedes", e.successor, e.entity)
           o == [c EXCEPT !.store = t]
<1>1. CASE ~Exists(s, e.successor) \/ ~c.ok
  <2>1. Superseded(s, e) = Refused(s)
    BY <1>1, Restatement DEF Superseded, Accepted
  <2> QED  BY <2>1, Refusal DEF Whole
<1>2. CASE Exists(s, e.successor) /\ c.ok
  <2>1. e.entity \in DOMAIN s.entities /\ Revises(s, e, c, e.entity) /\ WellFormed(c.store)
    BY <1>2, Restatement DEF Refused
  <2>2. e.entity \in DOMAIN c.store.entities /\ e.successor \in DOMAIN c.store.entities
    BY <1>2, <2>1 DEF Revises, NextRevision, Exists
  <2> HIDE DEF c
  <2>3. WellFormed(t) /\ Kept(c.store, t)
    BY <2>1, <2>2, Relation
  <2>4. Superseded(s, e) = o
    BY <1>2 DEF Superseded, c
  <2> HIDE DEF t
  <2>5. Outcome(s, e, o) /\ o.ok /\ Mutable(s, e, e.entity)
    BY <1>2, <2>3, Continuation DEF c
  <2> HIDE DEF o
  <2> QED  BY <2>4, <2>5 DEF Whole
<1> QED  BY <1>1, <1>2

LEMMA Submission ==
  ASSUME NEW s, WellFormed(s), NEW e \in Envelope
  PROVE  LET o == Submitted(s, e) IN
         Outcome(s, e, o) /\ Whole(s, o) /\ (o.ok => Mutable(s, e, e.entity))
<1> DEFINE c == Restated(s, e, e.entity, "in_review")
           t == Emit(c.store, e, e.entity)
           o == [c EXCEPT !.store = t]
<1>1. CASE ~At(s, e.entity, e.at) \/ ~c.ok
  <2>1. Submitted(s, e) = Refused(s)
    BY <1>1, Restatement DEF Submitted, Accepted
  <2> QED  BY <2>1, Refusal DEF Whole
<1>2. CASE At(s, e.entity, e.at) /\ c.ok
  <2>1. e.entity \in DOMAIN s.entities /\ Revises(s, e, c, e.entity) /\ WellFormed(c.store)
    BY <1>2, Restatement DEF Refused
  <2>2. e.entity \in DOMAIN c.store.entities
    BY <2>1 DEF Revises, NextRevision
  <2> HIDE DEF c
  <2>3. WellFormed(t) /\ Kept(c.store, t)
    BY <2>1, <2>2, Emission
  <2>4. Submitted(s, e) = o
    BY <1>2 DEF Submitted, c
  <2> HIDE DEF t
  <2>5. Outcome(s, e, o) /\ o.ok /\ Mutable(s, e, e.entity)
    BY <1>2, <2>3, Continuation DEF c
  <2> HIDE DEF o
  <2> QED  BY <2>4, <2>5 DEF Whole
<1> QED  BY <1>1, <1>2

LEMMA Approval ==
  ASSUME NEW s, WellFormed(s), NEW e \in Envelope
  PROVE  LET o == Approved(s, e) IN
         Outcome(s, e, o) /\ Whole(s, o) /\ (o.ok => Mutable(s, e, e.entity))
<1> DEFINE c == Restated(s, e, e.entity, "approved")
           t == Emit(c.store, e, e.entity)
           o == [c EXCEPT !.store = t]
           fits == Exists(s, e.review) /\ At(s, e.entity, e.at)
<1>1. CASE ~fits \/ ~c.ok
  <2>1. Approved(s, e) = Refused(s)
    BY <1>1, Restatement DEF Approved, Accepted
  <2> QED  BY <2>1, Refusal DEF Whole
<1>2. CASE fits /\ c.ok
  <2>1. e.entity \in DOMAIN s.entities /\ Revises(s, e, c, e.entity) /\ WellFormed(c.store)
    BY <1>2, Restatement DEF Refused
  <2>2. e.entity \in DOMAIN c.store.entities
    BY <2>1 DEF Revises, NextRevision
  <2> HIDE DEF c
  <2>3. WellFormed(t) /\ Kept(c.store, t)
    BY <2>1, <2>2, Emission
  <2>4. Approved(s, e) = o
    BY <1>2 DEF Approved, c
  <2> HIDE DEF t
  <2>5. Outcome(s, e, o) /\ o.ok /\ Mutable(s, e, e.entity)
    BY <1>2, <2>3, Continuation DEF c
  <2> HIDE DEF o
  <2> QED  BY <2>4, <2>5 DEF Whole
<1> QED  BY <1>1, <1>2

(* The one command that is not whole: what it supersedes is missing after  *)
(* the decision has been changed.                                          *)
LEMMA Acceptance ==
  ASSUME NEW s, WellFormed(s), NEW e \in Envelope
  PROVE  LET o == AdrAccepted(s, e) IN
         /\ Outcome(s, e, o) /\ (o.ok => Mutable(s, e, e.entity))
         /\ (\A old \in e.supersedes : Exists(s, old)) => Whole(s, o)
<1> DEFINE c == Restated(s, e, e.entity, "accepted")
           old == CHOOSE x \in e.supersedes : TRUE
           u == IF e.supersedes = {} THEN c.store
                ELSE Relate(c.store, e, "supersedes", e.entity, old)
           t == Emit(u, e, e.entity)
           o == [c EXCEPT !.store = t]
           missing == \E x \in e.supersedes : ~Exists(s, x)
<1>1. CASE ~At(s, e.entity, e.at) \/ ~c.ok
  <2>1. AdrAccepted(s, e) = Refused(s)
    BY <1>1, Restatement DEF AdrAccepted
  <2> QED  BY <2>1, Refusal DEF Whole
<1>2. CASE At(s, e.entity, e.at) /\ c.ok
  <2>1. /\ e.entity \in DOMAIN s.entities /\ Revises(s, e, c, e.entity)
        /\ WellFormed(c.store) /\ WordsKept(s, c.store)
    BY <1>2, Restatement DEF Refused
  <2>2. /\ e.entity \in DOMAIN c.store.entities
        /\ DOMAIN c.store.entities = DOMAIN s.entities
    BY <2>1 DEF Revises, NextRevision
  <2>3. CASE missing
    <3> DEFINE late == Refused(c.store)
    <3>1. AdrAccepted(s, e) = late
      BY <1>2, <2>3 DEF AdrAccepted
    <3> HIDE DEF c
    <3>2. late.store = c.store /\ ~late.ok /\ late.ok \in BOOLEAN
      BY DEF Refused
    <3> HIDE DEF late
    <3>3. Revises(s, e, late, e.entity)
      BY <2>1, <3>2 DEF Revises
    <3>4. Outcome(s, e, late)
      BY <2>1, <3>2, <3>3 DEF Outcome
    <3> QED  BY <2>3, <3>1, <3>2, <3>4
  <2>4. CASE ~missing
    <3>1. AdrAccepted(s, e) = o
      BY <1>2, <2>4 DEF AdrAccepted
    <3> HIDE DEF c
    <3>2. WellFormed(u) /\ Kept(c.store, u)
      <4>1. CASE e.supersedes = {}
        BY <2>1, <4>1 DEF Kept
      <4>2. CASE e.supersedes # {}
        <5>1. old \in e.supersedes
          BY <4>2
        <5>2. old \in DOMAIN c.store.entities
          BY <2>2, <2>4, <5>1 DEF Exists
        <5> HIDE DEF old
        <5> QED  BY <2>1, <2>2, <4>2, <5>2, Relation
      <4> QED  BY <4>1, <4>2
    <3> HIDE DEF u
    <3>3. e.entity \in DOMAIN u.entities
      BY <2>2, <3>2 DEF Kept
    <3>4. WellFormed(t) /\ Kept(u, t)
      BY <3>2, <3>3, Emission
    <3> HIDE DEF t
    <3>5. Kept(c.store, t)
      BY <3>2, <3>4 DEF Kept
    <3>6. Outcome(s, e, o) /\ o.ok /\ Mutable(s, e, e.entity)
      BY <1>2, <3>4, <3>5, Continuation DEF c
    <3> HIDE DEF o
    <3> QED  BY <3>1, <3>6 DEF Whole
  <2> QED  BY <2>3, <2>4
<1> QED  BY <1>1, <1>2

---------------------------------------------------------------------------
(* execute, from outside.                                                  *)

ChangeRecord == [entity : Key, before : Int, after : Nat]

AuditRecord ==
  [id : {e.id : e \in Envelope}, by : CommandKey, accepted : BOOLEAN, change : Seq(ChangeRecord)]

TypeInv ==
  /\ WellFormed(store)
  /\ DOMAIN store.entities \subseteq DOMAIN Seeded \cup DOMAIN applied
  /\ DOMAIN applied \subseteq CommandKey
  /\ \A k \in DOMAIN applied : applied[k] \in ResultRecord
  /\ audit \in Seq(AuditRecord) /\ Len(audit) <= MaxAudit

Found(e) == \A old \in e.supersedes : Exists(store, old)

(* The entity a command changes, where it changes one there is.            *)
Subject(e) ==
  IF e.op = "update" THEN {e.change.target}
  ELSE IF e.op \in {"archive", "supersede", "submit", "approve", "accept"} THEN {e.entity}
  ELSE {}

(* An execution replays, is refused as a mismatch, or finishes with an     *)
(* outcome; only an acceptance may finish with less than the whole.        *)
Finishes(e, o) ==
  /\ Outcome(store, e, o) /\ Finish(e, o)
  /\ Whole(store, o) \/ (AcceptAdr(e) /\ ~Found(e))
  /\ o.ok => \A d \in Subject(e) : Mutable(store, e, d)

LEMMA Executions ==
  ASSUME TypeInv, NEW e \in Envelope, Execute(e)
  PROVE  Replay(e) \/ Mismatch(e) \/ \E o : Finishes(e, o)
<1> USE DEF TypeInv
<1>1. ASSUME Invalid(e)  PROVE Finishes(e, Refused(store))
  BY <1>1, Refusal DEF Invalid, Finishes, Whole
<1>2. ASSUME CreateEntity(e)  PROVE Finishes(e, Created(store, e))
  <2>1. e.key \notin DOMAIN applied /\ e.key \in CommandKey
    BY <1>2 DEF CreateEntity, Finish, CommandKey
  <2>2. e.key \notin DOMAIN store.entities
    BY <2>1, BackendAssumption
  <2>3. Outcome(store, e, Created(store, e)) /\ Whole(store, Created(store, e))
    BY <2>2, Creation, Refusal DEF Whole
  <2> QED  BY <1>2, <2>3 DEF CreateEntity, Finishes, Subject
<1>3. ASSUME UpdateEntity(e)  PROVE Finishes(e, Updated(store, e))
  BY <1>3, Update DEF UpdateEntity, Finishes, Subject
<1>4. ASSUME ArchiveEntity(e)  PROVE Finishes(e, Archived(store, e))
  BY <1>4, Archival DEF ArchiveEntity, Finishes, Subject
<1>5. ASSUME SupersedeEntity(e)  PROVE Finishes(e, Superseded(store, e))
  BY <1>5, Replacement DEF SupersedeEntity, Finishes, Subject
<1>6. ASSUME CreateRelation(e)  PROVE Finishes(e, RelationCreated(store, e))
  BY <1>6, Linking DEF CreateRelation, Finishes, Subject
<1>7. ASSUME RemoveRelation(e)  PROVE Finishes(e, RelationRemoved(store, e))
  BY <1>7, Cutting DEF RemoveRelation, Finishes, Subject
<1>8. ASSUME SubmitDesignReview(e)  PROVE Finishes(e, Submitted(store, e))
  BY <1>8, Submission DEF SubmitDesignReview, Finishes, Subject
<1>9. ASSUME ApproveDesign(e)  PROVE Finishes(e, Approved(store, e))
  BY <1>9, Approval DEF ApproveDesign, Finishes, Subject
<1>10. ASSUME AcceptAdr(e)  PROVE Finishes(e, AdrAccepted(store, e))
  BY <1>10, Acceptance DEF AcceptAdr, Finishes, Found, Subject
<1> QED  BY <1>1, <1>2, <1>3, <1>4, <1>5, <1>6, <1>7, <1>8, <1>9, <1>10 DEF Execute

(* What an answer carries.                                                 *)
LEMMA Affected ==
  ASSUME NEW s, WellFormed(s), NEW e \in Envelope, NEW o, Outcome(s, e, o), o.ok
  PROVE  o.affected \in Seq([entity : Key, revision : Nat])
<1> DEFINE A == [entity : Key, revision : Nat]
<1>1. ASSUME NEW d \in Key, NEW r \in Nat  PROVE Revised(d, r) \in Seq(A)
  BY DEF Revised
<1>2. ASSUME NEW d \in DOMAIN s.entities
      PROVE  d \in Key /\ s.entities[d].revision + 1 \in Nat
  BY DEF WellFormed, EntitiesHold
<1>3. e.key \in Key /\ 1 \in Nat /\ <<>> \in Seq(A)
  BY DEF Key, CommandKey
<1>4. CASE Leaves(s, o)  BY <1>3, <1>4 DEF Leaves
<1>5. CASE Makes(s, e, o)  BY <1>1, <1>3, <1>5 DEF Makes
<1>6. ASSUME NEW d \in DOMAIN s.entities, Revises(s, e, o, d)  PROVE o.affected \in Seq(A)
  BY <1>1, <1>2, <1>6 DEF Revises
<1> QED  BY <1>4, <1>5, <1>6 DEF Outcome

LEMMA Results ==
  ASSUME NEW s, WellFormed(s), NEW e \in Envelope, NEW o, Outcome(s, e, o), o.ok
  PROVE  Result(e, o) \in ResultRecord
<1> DEFINE events == o.store.events
           last == IF events = <<>> THEN <<>> ELSE <<events[Len(events)].by>>
<1>1. events \in Seq(Event)
  BY DEF Outcome, WellFormed
<1>2. last \in Seq(CommandKey)
  <2>1. CASE events = <<>>  BY <2>1
  <2>2. CASE events # <<>>
    <3>1. events[Len(events)] \in Event
      BY <1>1, <2>2
    <3> QED  BY <2>2, <3>1 DEF Event
  <2> QED  BY <2>1, <2>2
<1>3. o.affected \in Seq([entity : Key, revision : Nat]) /\ e.id \in {f.id : f \in Envelope}
  BY Affected
<1>4. Result(e, o) = [id |-> e.id, affected |-> o.affected, events |-> last]
  BY DEF Result
<1> HIDE DEF last, events
<1> QED  BY <1>2, <1>3, <1>4 DEF ResultRecord

(* A record of what an outcome changed.                                    *)
LEMMA Changes ==
  ASSUME NEW s, WellFormed(s), NEW e \in Envelope, NEW o, Outcome(s, e, o), o.ok
  PROVE  Change(o.affected) \in Seq(ChangeRecord)
<1> DEFINE A == [entity : Key, revision : Nat]
           c == [entity |-> o.affected[1].entity, before |-> o.affected[1].revision - 1,
                 after |-> o.affected[1].revision]
<1>1. o.affected \in Seq(A)
  BY Affected
<1>2. CASE o.affected = <<>>  BY <1>2 DEF Change
<1>3. CASE o.affected # <<>>
  <2>1. o.affected[1] \in A
    <3> HIDE DEF A
    <3>1. Len(o.affected) \in Nat /\ Len(o.affected) # 0
      BY <1>1, <1>3
    <3> QED  BY <1>1, <3>1
  <2>2. c \in ChangeRecord
    BY <2>1 DEF ChangeRecord
  <2>3. Change(o.affected) = <<c>>
    BY <1>3 DEF Change
  <2> HIDE DEF c
  <2> QED  BY <2>2, <2>3
<1> QED  BY <1>2, <1>3

---------------------------------------------------------------------------
(* Types.                                                                  *)

LEMMA InitialTypes == Init => TypeInv
<1> SUFFICES ASSUME Init PROVE TypeInv
  OBVIOUS
<1>1. /\ store.entities = Seeded /\ store.relations = [k \in {} |-> NoAnswer]
      /\ store.history = [d \in DOMAIN Seeded |-> <<[revision |-> 1, by |-> d]>>]
      /\ store.events = <<>> /\ StoreShape(store)
  BY DEF Init, StoreShape
<1>2. EntitiesHold(store)
  <2>1. ASSUME NEW d \in DOMAIN Seeded
        PROVE  EntityShape(Seeded[d]) /\ Seeded[d].revision = 1
    BY BackendAssumption DEF EntityShape, Entity
  <2> QED  BY <1>1, <2>1 DEF EntitiesHold, Key
<1>3. HistoryHolds(store)
  <2>1. ASSUME NEW d \in DOMAIN Seeded  PROVE store.history[d] \in Seq(Entry)
    <3>1. [revision |-> 1, by |-> d] \in Entry
      BY DEF Entry, Key
    <3> QED  BY <1>1, <3>1
  <2> QED  BY <1>1, <2>1 DEF HistoryHolds
<1>4. RelationsHold(store) /\ store.events \in Seq(Event)
  BY <1>1 DEF RelationsHold
<1>5. DOMAIN store.entities \subseteq DOMAIN Seeded /\ WellFormed(store)
  BY <1>1, <1>2, <1>3, <1>4 DEF WellFormed
<1>6. DOMAIN applied = {} /\ audit = <<>>
  BY DEF Init
<1>7. audit \in Seq(AuditRecord) /\ Len(audit) <= MaxAudit
  BY <1>6, BackendAssumption
<1> QED  BY <1>5, <1>6, <1>7 DEF TypeInv

(* A record of the audit trail, and the trail with one more.               *)
LEMMA Auditing ==
  ASSUME TypeInv, NEW e \in Envelope, NEW accepted \in BOOLEAN,
         NEW change \in Seq(ChangeRecord),
         Len(audit) < MaxAudit, Audited(e, accepted, change)
  PROVE  audit' \in Seq(AuditRecord) /\ Len(audit') <= MaxAudit
<1> DEFINE record == [id |-> e.id, by |-> e.key, accepted |-> accepted, change |-> change]
<1>1. record \in AuditRecord
  BY DEF AuditRecord, CommandKey
<1>2. audit' = Append(audit, record)
  BY DEF Audited
<1> HIDE DEF record
<1>3. audit' \in Seq(AuditRecord) /\ Len(audit') = Len(audit) + 1
  BY <1>1, <1>2 DEF TypeInv
<1> QED  BY <1>3, BackendAssumption DEF TypeInv

(* What a command that finishes leaves behind, by its answer.              *)
LEMMA Accepting ==
  ASSUME NEW e, NEW o, Finish(e, o), o.ok
  PROVE  /\ store' = o.store /\ applied' = With(applied, e.key, Result(e, o))
         /\ Audited(e, TRUE, Change(o.affected)) /\ Len(audit) < MaxAudit
         /\ answer' = [outcome |-> "accepted", result |-> Result(e, o)]
         /\ e.key \notin DOMAIN applied
         /\ DOMAIN applied' = DOMAIN applied \cup {e.key}
<1>1. /\ applied' = With(applied, e.key, Result(e, o)) /\ store' = o.store
      /\ Audited(e, TRUE, Change(o.affected)) /\ Len(audit) < MaxAudit
      /\ answer' = [outcome |-> "accepted", result |-> Result(e, o)]
      /\ e.key \notin DOMAIN applied
  BY DEF Finish
<1> QED  BY <1>1 DEF With

LEMMA Declining ==
  ASSUME NEW e, NEW o, Finish(e, o), ~o.ok
  PROVE  /\ store' = o.store /\ UNCHANGED applied
         /\ Audited(e, FALSE, <<>>) /\ Len(audit) < MaxAudit
         /\ answer' = [outcome |-> "refused", result |-> NoAnswer]
         /\ e.key \notin DOMAIN applied
BY DEF Finish, Reject

LEMMA TypesKept ==
  TypeInv /\ [Next]_vars => TypeInv'
<1> SUFFICES ASSUME TypeInv, [Next]_vars PROVE TypeInv'
  OBVIOUS
<1>1. CASE UNCHANGED vars
  BY <1>1 DEF vars, TypeInv, WellFormed, StoreShape, EntitiesHold, HistoryHolds, RelationsHold
<1>2. ASSUME NEW e \in Envelope, Replay(e)  PROVE TypeInv'
  BY <1>2 DEF Replay, TypeInv, WellFormed, StoreShape, EntitiesHold, HistoryHolds,
              RelationsHold
<1>3. ASSUME NEW e \in Envelope, Mismatch(e)  PROVE TypeInv'
  <2>1. audit' \in Seq(AuditRecord) /\ Len(audit') <= MaxAudit
    <3>1. <<>> \in Seq(ChangeRecord) /\ FALSE \in BOOLEAN
      OBVIOUS
    <3>2. Audited(e, FALSE, <<>>) /\ Len(audit) < MaxAudit
      BY <1>3 DEF Mismatch, Reject
    <3> QED  BY <3>1, <3>2, Auditing
  <2>2. UNCHANGED <<store, applied>>
    BY <1>3 DEF Mismatch
  <2> QED
    BY <2>1, <2>2 DEF TypeInv, WellFormed, StoreShape, EntitiesHold, HistoryHolds, RelationsHold
<1>4. ASSUME NEW e \in Envelope, NEW o, Finishes(e, o)  PROVE TypeInv'
  <2>1. WellFormed(store) /\ Outcome(store, e, o) /\ Finish(e, o) /\ o.ok \in BOOLEAN
    BY <1>4 DEF Finishes, Outcome, TypeInv
  <2>2. WellFormed(o.store)
    BY <2>1 DEF Outcome
  <2>3. DOMAIN o.store.entities \subseteq DOMAIN store.entities \cup
                                            (IF o.ok THEN {e.key} ELSE {})
    BY <2>1 DEF Outcome, Leaves, Kept, Makes, FirstRevision, Revises, NextRevision
  <2>4. CASE o.ok
    <3>1. /\ store' = o.store /\ DOMAIN applied' = DOMAIN applied \cup {e.key}
          /\ applied' = With(applied, e.key, Result(e, o))
          /\ Audited(e, TRUE, Change(o.affected)) /\ Len(audit) < MaxAudit
      BY <2>1, <2>4, Accepting
    <3>2. audit' \in Seq(AuditRecord) /\ Len(audit') <= MaxAudit
      BY <2>1, <2>4, <3>1, Changes, Auditing
    <3>3. \A k \in DOMAIN applied' : applied'[k] \in ResultRecord
      BY <2>1, <2>4, <3>1, Results DEF With, TypeInv
    <3>4. WellFormed(store)'
      BY <2>2, <3>1 DEF WellFormed, StoreShape, EntitiesHold, HistoryHolds, RelationsHold
    <3> QED  BY <2>3, <2>4, <3>1, <3>2, <3>3, <3>4 DEF TypeInv, CommandKey
  <2>5. CASE ~o.ok
    <3>1. /\ store' = o.store /\ UNCHANGED applied
          /\ Audited(e, FALSE, <<>>) /\ Len(audit) < MaxAudit
      BY <2>1, <2>5, Declining
    <3>2. audit' \in Seq(AuditRecord) /\ Len(audit') <= MaxAudit
      <4>1. <<>> \in Seq(ChangeRecord) /\ FALSE \in BOOLEAN
        OBVIOUS
      <4> QED  BY <3>1, <4>1, Auditing
    <3>3. WellFormed(store)'
      BY <2>2, <3>1 DEF WellFormed, StoreShape, EntitiesHold, HistoryHolds, RelationsHold
    <3> QED  BY <2>3, <2>5, <3>1, <3>2, <3>3 DEF TypeInv
  <2> QED  BY <2>1, <2>4, <2>5
<1>5. CASE Next
  BY <1>2, <1>3, <1>4, <1>5, Executions DEF Next
<1> QED  BY <1>1, <1>5

LEMMA TypesHold == Spec => []TypeInv
<1>1. Init => TypeInv  BY InitialTypes
<1>2. TypeInv /\ [Next]_vars => TypeInv'  BY TypesKept
<1> QED  BY <1>1, <1>2, PTL DEF Spec

(* Maps of the store name entities that exist, whatever is sent and        *)
(* however it ends (store.rs).                                             *)
THEOREM TypeCorrect == Spec => []TypeOK
<1>1. TypeInv => TypeOK
  BY DEF TypeInv, WellFormed, HistoryHolds, RelationsHold, TypeOK, CommandKey
<1> QED  BY <1>1, TypesHold, PTL

---------------------------------------------------------------------------
(* What an entity says once it is a record, and the refinement, need the   *)
(* types alone.                                                            *)

(* What somebody concluded is never edited, whatever commands there are    *)
(* and however they end (command.rs, require_mutable).                     *)
THEOREM WordsAreKept == Spec => RecordsKeepTheirWords
<1>1. ASSUME TypeInv, [Next]_vars, store' # store
      PROVE  WordsKept(store, store')
  <2>1. PICK e \in Envelope : Execute(e)
    BY <1>1 DEF Next, vars
  <2>2. ~Replay(e) /\ ~Mismatch(e)
    BY <1>1 DEF Replay, Mismatch
  <2>3. PICK o : Finishes(e, o)
    BY <1>1, <2>1, <2>2, Executions
  <2>4. WordsKept(store, o.store) /\ store' = o.store
    BY <2>3 DEF Finishes, Outcome, Finish
  <2> QED  BY <2>4
<1>2. TypeInv /\ [Next]_vars =>
        [\A d \in DOMAIN store.entities :
           store.entities[d].type \in Immutable =>
             store'.entities[d].data = store.entities[d].data]_store
  BY <1>1 DEF WordsKept
<1> QED  BY <1>2, TypesHold, PTL DEF Spec, RecordsKeepTheirWords

---------------------------------------------------------------------------
(* The history.                                                            *)

(* An acceptance that names a decision nobody has created leaves a         *)
(* revision of a command that was refused; without it every revision is    *)
(* accounted for.                                                          *)
SupersededExists ==
  [][\A e \in Envelope : AcceptAdr(e) => Found(e)]_vars

Accounted(d) ==
  /\ Len(store.history[d]) = store.entities[d].revision
  /\ \A i \in DOMAIN store.history[d] :
       /\ store.history[d][i].revision = i
       /\ store.history[d][i].by \in DOMAIN applied \cup DOMAIN Seeded
       /\ \A j \in 1 .. i - 1 : store.history[d][j].by # store.history[d][i].by

HistoryInv == \A d \in DOMAIN store.entities : Accounted(d)

LEMMA HistoryAccounts == HistoryInv <=> HistoryAccountsForRevisions
BY DEF HistoryInv, Accounted, HistoryAccountsForRevisions

LEMMA InitialHistory == Init => HistoryInv
<1> SUFFICES ASSUME Init, NEW d \in DOMAIN Seeded PROVE Accounted(d)
  BY DEF Init, HistoryInv
<1>1. /\ store.history[d] = <<[revision |-> 1, by |-> d]>>
      /\ store.entities[d] = Entity(Seeded[d].type, Seeded[d].locator, Seeded[d].data)
  BY BackendAssumption DEF Init
<1>2. store.entities[d].revision = 1
  BY <1>1 DEF Entity
<1> QED  BY <1>1, <1>2 DEF Accounted

(* A step that finishes changes one entity at most, and what it adds is    *)
(* its own.                                                                *)
LEMMA HistoryKept ==
  ASSUME TypeInv, HistoryInv, NEW e \in Envelope, NEW o, Finishes(e, o), Whole(store, o)
  PROVE  HistoryInv'
<1>1. /\ Outcome(store, e, o) /\ Finish(e, o) /\ o.ok \in BOOLEAN /\ store' = o.store
      /\ e.key \in CommandKey
  BY DEF Finishes, Outcome, Finish, CommandKey
<1>2. CASE ~o.ok
  <2>1. UNCHANGED <<store, applied>>
    BY <1>1, <1>2, Declining DEF Whole
  <2> QED  BY <2>1 DEF HistoryInv, Accounted
<1>3. CASE o.ok
  <2>1. DOMAIN applied' = DOMAIN applied \cup {e.key} /\ e.key \notin DOMAIN applied
    BY <1>1, <1>3, Accepting
  <2>2. e.key \notin DOMAIN Seeded
    BY <1>1, BackendAssumption
  <2>3. ASSUME NEW d \in DOMAIN store.entities,
               store'.entities[d] = store.entities[d], store'.history[d] = store.history[d]
        PROVE  Accounted(d)'
    <3>1. Accounted(d)
      BY DEF HistoryInv
    <3> QED  BY <2>1, <2>3, <3>1 DEF Accounted
  <2>4. CASE Leaves(store, o)
    BY <1>1, <2>3, <2>4 DEF Leaves, Kept, HistoryInv
  <2>5. CASE Makes(store, e, o)
    <3>1. FirstRevision(store, store', e)
      BY <1>1, <2>5 DEF Makes
    <3>2. Accounted(e.key)'
      BY <2>1, <3>1 DEF FirstRevision, Accounted
    <3> QED  BY <2>3, <3>1, <3>2 DEF FirstRevision, Besides, HistoryInv
  <2>6. ASSUME NEW d \in DOMAIN store.entities, Revises(store, e, o, d)
        PROVE  HistoryInv'
    <3>1. NextRevision(store, store', e, d)
      BY <1>1, <2>6 DEF Revises
    <3>2. Accounted(d)'
      <4> DEFINE past == store.history[d]
                 r == store.entities[d].revision
                 entry == [revision |-> r + 1, by |-> e.key]
      <4>1. /\ Accounted(d) /\ past \in Seq(Entry) /\ r \in Nat
        BY DEF HistoryInv, TypeInv, WellFormed, HistoryHolds, EntitiesHold
      <4>2. Len(past) = r
        BY <4>1 DEF Accounted
      <4>3. entry \in Entry /\ entry.revision = r + 1 /\ entry.by = e.key
        BY <1>1, <4>1 DEF Entry, Key
      <4>4. store'.history[d] = Append(past, entry) /\ store'.entities[d].revision = r + 1
        BY <3>1 DEF NextRevision
      <4> HIDE DEF entry
      <4>5. /\ Len(store'.history[d]) = r + 1
            /\ DOMAIN store'.history[d] = 1 .. r + 1
            /\ \A i \in 1 .. r : store'.history[d][i] = past[i]
            /\ store'.history[d][r + 1] = entry
        BY <4>1, <4>2, <4>3, <4>4
      <4>6. \A i \in 1 .. r :
              /\ past[i].revision = i
              /\ past[i].by \in DOMAIN applied \cup DOMAIN Seeded
              /\ \A j \in 1 .. i - 1 : past[j].by # past[i].by
        BY <4>1, <4>2 DEF Accounted
      <4>7. \A i \in 1 .. r : past[i].by # e.key
        BY <2>1, <2>2, <4>6
      <4> HIDE DEF past, r
      <4>8. ASSUME NEW i \in 1 .. r + 1
            PROVE  /\ store'.history[d][i].revision = i
                   /\ store'.history[d][i].by \in DOMAIN applied' \cup DOMAIN Seeded
                   /\ \A j \in 1 .. i - 1 : store'.history[d][j].by # store'.history[d][i].by
        <5>1. CASE i \in 1 .. r
          BY <2>1, <4>1, <4>5, <4>6, <5>1
        <5>2. CASE i = r + 1
          BY <2>1, <4>1, <4>3, <4>5, <4>7, <5>2
        <5> QED  BY <4>1, <5>1, <5>2
      <4> QED  BY <4>4, <4>5, <4>8 DEF Accounted
    <3> QED  BY <2>3, <3>1, <3>2 DEF NextRevision, Besides, HistoryInv
  <2> QED  BY <1>1, <2>4, <2>5, <2>6 DEF Outcome
<1> QED  BY <1>1, <1>2, <1>3

LEMMA HistoryStep ==
  ASSUME TypeInv, HistoryInv, [Next]_vars,
         [\A e \in Envelope : AcceptAdr(e) => Found(e)]_vars
  PROVE  HistoryInv'
<1>1. CASE UNCHANGED vars
  BY <1>1 DEF vars, HistoryInv, Accounted
<1>2. ASSUME NEW e \in Envelope, Replay(e) \/ Mismatch(e)  PROVE HistoryInv'
  BY <1>2 DEF Replay, Mismatch, HistoryInv, Accounted
<1>3. ASSUME NEW e \in Envelope, NEW o, Finishes(e, o), ~UNCHANGED vars  PROVE HistoryInv'
  <2>1. Whole(store, o)
    BY <1>3 DEF Finishes
  <2> QED  BY <1>3, <2>1, HistoryKept
<1> QED  BY <1>1, <1>2, <1>3, Executions DEF Next

(* The history of an entity accounts for each of its revisions, in order,  *)
(* each by a command that was accepted and by no command twice             *)
(* (command.rs, mutate and record_history), as long as an accepted         *)
(* decision supersedes one that exists.                                    *)
THEOREM HistoryIsComplete ==
  Spec /\ SupersededExists => []HistoryAccountsForRevisions
<1> DEFINE NextFound == \A e \in Envelope : AcceptAdr(e) => Found(e)
<1>1. Init => HistoryInv  BY InitialHistory
<1>2. TypeInv /\ HistoryInv /\ [Next]_vars /\ [NextFound]_vars => HistoryInv'
  BY HistoryStep
<1>3. Spec /\ SupersededExists => []HistoryInv
  BY <1>1, <1>2, TypesHold, PTL DEF Spec, SupersededExists
<1> QED  BY <1>3, HistoryAccounts, PTL

---------------------------------------------------------------------------
(* The audit trail.                                                        *)

(* A record of a change points at a revision there is, and a revision      *)
(* somebody made has one record.                                           *)
Telling(record) ==
  /\ record.change # <<>> => record.accepted
  /\ \A j \in DOMAIN record.change :
       LET c == record.change[j] IN
       /\ c.after = c.before + 1
       /\ c.entity \in DOMAIN store.history /\ c.after \in DOMAIN store.history[c.entity]
       /\ store.history[c.entity][c.after].by = record.by

ChangeTo(d, r) == <<[entity |-> d, before |-> r - 1, after |-> r]>>

Recording(d, r) == {i \in DOMAIN audit : audit[i].change = ChangeTo(d, r)}

Told(d, r) ==
  store.history[d][r].by \notin DOMAIN Seeded => \E i \in DOMAIN audit : Recording(d, r) = {i}

AuditInv ==
  /\ \A i \in DOMAIN audit : Telling(audit[i])
  /\ \A d \in DOMAIN store.history : \A r \in DOMAIN store.history[d] : Told(d, r)

LEMMA AuditTells == AuditInv => AuditTellsTheHistory
<1> SUFFICES ASSUME AuditInv PROVE AuditTellsTheHistory
  OBVIOUS
<1>1. ASSUME NEW i \in DOMAIN audit
      PROVE  /\ audit[i].change # <<>> => audit[i].accepted
             /\ \A c \in {audit[i].change[j] : j \in DOMAIN audit[i].change} :
                  /\ c.after = c.before + 1
                  /\ store.history[c.entity][c.after].by = audit[i].by
  BY DEF AuditInv, Telling
<1>2. ASSUME NEW d \in DOMAIN store.history, NEW r \in DOMAIN store.history[d],
             store.history[d][r].by \notin DOMAIN Seeded
      PROVE  Cardinality({i \in DOMAIN audit :
               audit[i].change = <<[entity |-> d, before |-> r - 1, after |-> r]>>}) = 1
  <2>1. PICK i \in DOMAIN audit : Recording(d, r) = {i}
    BY <1>2 DEF AuditInv, Told
  <2>2. Cardinality(Recording(d, r)) = 1
    BY <2>1, FS_Singleton
  <2> QED  BY <2>2 DEF Recording, ChangeTo
<1> QED  BY <1>1, <1>2 DEF AuditTellsTheHistory

LEMMA InitialAudit == Init => AuditInv
<1> SUFFICES ASSUME Init PROVE AuditInv
  OBVIOUS
<1>1. DOMAIN audit = {}
  BY DEF Init
<1>2. ASSUME NEW d \in DOMAIN store.history, NEW r \in DOMAIN store.history[d]
      PROVE  store.history[d][r].by \in DOMAIN Seeded
  BY DEF Init
<1> QED  BY <1>1, <1>2 DEF AuditInv, Told

(* A record without a change disturbs nothing.                             *)
LEMMA SilentRecord ==
  ASSUME TypeInv, AuditInv, NEW e \in Envelope, NEW accepted, Audited(e, accepted, <<>>),
         UNCHANGED store.history
  PROVE  AuditInv'
<1> DEFINE record == [id |-> e.id, by |-> e.key, accepted |-> accepted, change |-> <<>>]
<1>1. audit' = Append(audit, record) /\ audit \in Seq(AuditRecord)
  BY DEF Audited, TypeInv
<1>2. record.change = <<>>
  OBVIOUS
<1> HIDE DEF record
<1>3. /\ DOMAIN audit' = 1 .. Len(audit) + 1 /\ DOMAIN audit = 1 .. Len(audit)
      /\ Len(audit) \in Nat
      /\ \A i \in DOMAIN audit : audit'[i] = audit[i]
      /\ audit'[Len(audit) + 1] = record
  BY <1>1
<1>4. ASSUME NEW i \in DOMAIN audit'  PROVE Telling(audit[i])'
  <2>1. CASE i \in DOMAIN audit
    <3>1. Telling(audit[i])
      BY <2>1 DEF AuditInv
    <3>2. audit'[i] = audit[i] /\ store'.history = store.history
      BY <1>3, <2>1
    <3> QED  BY <3>1, <3>2 DEF Telling
  <2>2. CASE i = Len(audit) + 1
    BY <1>2, <1>3, <2>2 DEF Telling
  <2> QED  BY <1>3, <2>1, <2>2
<1>5. ASSUME NEW d, NEW r  PROVE Recording(d, r)' = Recording(d, r)
  <2>1. record.change # ChangeTo(d, r)
    BY <1>2 DEF ChangeTo
  <2> QED  BY <1>3, <2>1 DEF Recording
<1>6. ASSUME NEW d \in DOMAIN store.history, NEW r \in DOMAIN store.history[d]
      PROVE  Told(d, r)'
  <2>1. Told(d, r)
    BY DEF AuditInv
  <2> QED  BY <1>3, <1>5, <2>1 DEF Told
<1> QED  BY <1>4, <1>6 DEF AuditInv

(* A record of the next revision of one entity: no record was of it        *)
(* before, and every other one stays as it was told.                       *)
NextEntry(d, r, by) ==
  /\ DOMAIN store'.history = DOMAIN store.history \cup {d}
  /\ \A x \in DOMAIN store.history \ {d} : store'.history[x] = store.history[x]
  /\ DOMAIN store'.history[d] = 1 .. r /\ store'.history[d][r].by = by
  /\ IF d \in DOMAIN store.history
     THEN /\ DOMAIN store.history[d] = 1 .. r - 1
          /\ \A i \in 1 .. r - 1 : store'.history[d][i] = store.history[d][i]
     ELSE r = 1

LEMMA ChangeToFields ==
  ASSUME NEW d, NEW r \in Nat, NEW x, NEW q \in Nat
  PROVE  /\ DOMAIN ChangeTo(d, r) = {1} /\ ChangeTo(d, r) # <<>>
         /\ ChangeTo(d, r)[1].entity = d /\ ChangeTo(d, r)[1].after = r
         /\ ChangeTo(d, r)[1].before + 1 = r
         /\ ChangeTo(x, q) = ChangeTo(d, r) => x = d /\ q = r
<1>1. /\ DOMAIN ChangeTo(d, r) = {1} /\ ChangeTo(d, r) # <<>>
      /\ ChangeTo(d, r)[1].entity = d /\ ChangeTo(d, r)[1].after = r
      /\ ChangeTo(d, r)[1].before + 1 = r
  BY DEF ChangeTo
<1>2. ChangeTo(x, q)[1].entity = x /\ ChangeTo(x, q)[1].after = q
  BY DEF ChangeTo
<1> QED  BY <1>1, <1>2

LEMMA ChangeRecorded ==
  ASSUME TypeInv, AuditInv, NEW e \in Envelope, NEW d, NEW r \in Nat, r # 0,
         Audited(e, TRUE, ChangeTo(d, r)), NextEntry(d, r, e.key)
  PROVE  AuditInv'
<1> DEFINE record == [id |-> e.id, by |-> e.key, accepted |-> TRUE, change |-> ChangeTo(d, r)]
           n == Len(audit) + 1
<1>1. audit' = Append(audit, record) /\ audit \in Seq(AuditRecord)
  BY DEF Audited, TypeInv
<1>2. record.change = ChangeTo(d, r) /\ record.accepted /\ record.by = e.key
  OBVIOUS
<1> HIDE DEF record
<1>3. /\ DOMAIN audit' = 1 .. n /\ DOMAIN audit = 1 .. n - 1 /\ n \in Nat /\ n # 0
      /\ \A i \in 1 .. n - 1 : audit'[i] = audit[i]
      /\ audit'[n] = record
  BY <1>1
<1>4. ASSUME NEW x \in DOMAIN store.history, NEW q \in DOMAIN store.history[x]
      PROVE  /\ x \in DOMAIN store'.history /\ q \in DOMAIN store'.history[x]
             /\ store'.history[x][q] = store.history[x][q]
  BY DEF NextEntry
<1> HIDE DEF n
<1>5. ASSUME NEW i \in DOMAIN audit'  PROVE Telling(audit[i])'
  <2>1. CASE i \in 1 .. n - 1
    <3>1. Telling(audit[i]) /\ audit'[i] = audit[i]
      BY <1>3, <2>1 DEF AuditInv
    <3> QED  BY <1>4, <3>1 DEF Telling
  <2>2. CASE i = n
    <3>1. /\ d \in DOMAIN store'.history /\ r \in DOMAIN store'.history[d]
          /\ store'.history[d][r].by = e.key
      BY DEF NextEntry
    <3>2. audit'[i] = record
      BY <1>3, <2>2
    <3> QED  BY <1>2, <3>1, <3>2, ChangeToFields DEF Telling
  <2> QED  BY <1>3, <2>1, <2>2
<1>6. ASSUME NEW i \in DOMAIN audit  PROVE audit[i].change # ChangeTo(d, r)
  <2>1. SUFFICES ASSUME audit[i].change = ChangeTo(d, r) PROVE FALSE
    OBVIOUS
  <2>2. d \in DOMAIN store.history /\ r \in DOMAIN store.history[d]
    BY <2>1, ChangeToFields DEF AuditInv, Telling
  <2> QED  BY <2>2 DEF NextEntry
<1>7. Recording(d, r)' = {n}
  BY <1>2, <1>3, <1>6 DEF Recording
<1>8. ASSUME NEW x, NEW q \in Nat, ~(x = d /\ q = r)
      PROVE  Recording(x, q)' = Recording(x, q)
  <2>1. record.change # ChangeTo(x, q)
    BY <1>2, <1>8, ChangeToFields
  <2> QED  BY <1>3, <2>1 DEF Recording
<1>9. ASSUME NEW x \in DOMAIN store'.history, NEW q \in DOMAIN store'.history[x]
      PROVE  Told(x, q)'
  <2>1. CASE x = d /\ q = r
    <3>1. n \in DOMAIN audit' /\ Recording(x, q)' = {n}
      BY <1>3, <1>7, <2>1
    <3> QED  BY <3>1 DEF Told
  <2>2. CASE ~(x = d /\ q = r)
    <3>1. x \in DOMAIN store.history /\ q \in DOMAIN store.history[x] /\ q \in Nat
      <4>1. CASE x = d
        BY <2>2, <4>1 DEF NextEntry
      <4>2. CASE x # d
        <5>1. x \in DOMAIN store.history /\ store'.history[x] = store.history[x]
          BY <4>2 DEF NextEntry
        <5>2. store.history[x] \in Seq(Entry)
          BY <5>1 DEF TypeInv, WellFormed, HistoryHolds
        <5> QED  BY <5>1, <5>2
      <4> QED  BY <4>1, <4>2
    <3>2. Told(x, q) /\ store'.history[x][q] = store.history[x][q]
      BY <1>4, <3>1 DEF AuditInv
    <3>3. Recording(x, q)' = Recording(x, q)
      BY <1>8, <2>2, <3>1
    <3>4. DOMAIN audit \subseteq DOMAIN audit'
      BY <1>3
    <3> QED  BY <3>2, <3>3, <3>4 DEF Told
  <2> QED  BY <2>1, <2>2
<1> QED  BY <1>5, <1>9 DEF AuditInv

LEMMA AuditKept ==
  ASSUME TypeInv, HistoryInv, AuditInv, NEW e \in Envelope, NEW o, Finishes(e, o),
         Whole(store, o)
  PROVE  AuditInv'
<1>1. /\ Outcome(store, e, o) /\ Finish(e, o) /\ o.ok \in BOOLEAN /\ store' = o.store
      /\ DOMAIN store.history = DOMAIN store.entities
  BY DEF Finishes, Outcome, Finish, TypeInv, WellFormed, HistoryHolds
<1>2. CASE ~o.ok
  <2>1. UNCHANGED store /\ Audited(e, FALSE, <<>>)
    BY <1>1, <1>2, Declining DEF Whole
  <2> QED  BY <2>1, SilentRecord
<1>3. CASE o.ok
  <2>1. Audited(e, TRUE, Change(o.affected))
    BY <1>1, <1>3, Accepting
  <2>2. CASE Leaves(store, o)
    <3>1. UNCHANGED store.history /\ Audited(e, TRUE, <<>>)
      BY <1>1, <2>1, <2>2 DEF Leaves, Kept, Change
    <3> QED  BY <3>1, SilentRecord
  <2>3. ASSUME NEW d, NEW r, o.affected = Revised(d, r)
        PROVE  Audited(e, TRUE, ChangeTo(d, r))
    <3>1. Change(o.affected) = ChangeTo(d, r)
      BY <2>3 DEF Change, ChangeTo, Revised
    <3> QED  BY <2>1, <3>1
  <2>4. CASE Makes(store, e, o)
    <3>1. FirstRevision(store, store', e) /\ Audited(e, TRUE, ChangeTo(e.key, 1))
      BY <1>1, <2>3, <2>4 DEF Makes
    <3>2. DOMAIN store'.history = DOMAIN store'.entities
      BY <1>1 DEF Outcome, WellFormed, HistoryHolds
    <3>3. NextEntry(e.key, 1, e.key)
      BY <1>1, <3>1, <3>2 DEF FirstRevision, Besides, NextEntry
    <3>4. 1 \in Nat /\ 1 # 0
      OBVIOUS
    <3> QED  BY <3>1, <3>3, <3>4, ChangeRecorded
  <2>5. ASSUME NEW d \in DOMAIN store.entities, Revises(store, e, o, d)
        PROVE  AuditInv'
    <3> DEFINE past == store.history[d]
               r == store.entities[d].revision
               entry == [revision |-> r + 1, by |-> e.key]
    <3>1. NextRevision(store, store', e, d) /\ Audited(e, TRUE, ChangeTo(d, r + 1))
      BY <1>1, <1>3, <2>3, <2>5 DEF Revises
    <3>2. DOMAIN store'.history = DOMAIN store'.entities
      BY <1>1 DEF Outcome, WellFormed, HistoryHolds
    <3>3. past \in Seq(Entry) /\ r \in Nat /\ Len(past) = r
      BY DEF TypeInv, WellFormed, HistoryHolds, EntitiesHold, HistoryInv, Accounted
    <3>4. store'.history[d] = Append(past, entry) /\ entry.by = e.key
      BY <3>1 DEF NextRevision
    <3>5. DOMAIN past = 1 .. r
      BY <3>3
    <3>6. /\ DOMAIN store'.history[d] = 1 .. r + 1 /\ store'.history[d][r + 1] = entry
          /\ \A i \in 1 .. r : store'.history[d][i] = past[i]
      <4> HIDE DEF entry, past, r
      <4> QED  BY <3>3, <3>4
    <3>7. NextEntry(d, r + 1, e.key)
      <4>1. /\ DOMAIN store'.history = DOMAIN store.history \cup {d}
            /\ \A x \in DOMAIN store.history \ {d} : store'.history[x] = store.history[x]
            /\ d \in DOMAIN store.history
        BY <1>1, <3>1, <3>2 DEF NextRevision, Besides
      <4>2. /\ DOMAIN store'.history[d] = 1 .. r + 1
            /\ store'.history[d][r + 1].by = e.key
        BY <3>4, <3>6
      <4>3. /\ DOMAIN store.history[d] = 1 .. (r + 1) - 1
            /\ \A i \in 1 .. (r + 1) - 1 : store'.history[d][i] = store.history[d][i]
        BY <3>3, <3>5, <3>6
      <4> HIDE DEF r, entry, past
      <4> QED  BY <4>1, <4>2, <4>3 DEF NextEntry
    <3>8. r + 1 \in Nat /\ r + 1 # 0
      BY <3>3
    <3> HIDE DEF r, entry, past
    <3> QED  BY <3>1, <3>7, <3>8, ChangeRecorded
  <2> QED  BY <1>1, <2>2, <2>4, <2>5 DEF Outcome
<1> QED  BY <1>1, <1>2, <1>3

LEMMA AuditStep ==
  ASSUME TypeInv, HistoryInv, AuditInv, [Next]_vars,
         [\A e \in Envelope : AcceptAdr(e) => Found(e)]_vars
  PROVE  AuditInv'
<1>1. CASE UNCHANGED vars
  BY <1>1 DEF vars, AuditInv, Telling, Told, Recording
<1>2. ASSUME NEW e \in Envelope, Replay(e)  PROVE AuditInv'
  BY <1>2 DEF Replay, AuditInv, Telling, Told, Recording
<1>3. ASSUME NEW e \in Envelope, Mismatch(e)  PROVE AuditInv'
  <2>1. Audited(e, FALSE, <<>>) /\ UNCHANGED store
    BY <1>3 DEF Mismatch, Reject
  <2> QED  BY <2>1, SilentRecord
<1>4. ASSUME NEW e \in Envelope, NEW o, Finishes(e, o), ~UNCHANGED vars  PROVE AuditInv'
  <2>1. Whole(store, o)
    BY <1>4 DEF Finishes
  <2> QED  BY <1>4, <2>1, AuditKept
<1> QED  BY <1>1, <1>2, <1>3, <1>4, Executions DEF Next

(* The audit trail and the history tell one story: a record of a change    *)
(* names the revision its command made, every revision a command made is   *)
(* in one record, and a refusal never carries a change (command.rs,        *)
(* execute and record_history), under the same condition.                  *)
THEOREM AuditAndHistoryAgree ==
  Spec /\ SupersededExists => []AuditTellsTheHistory
<1> DEFINE NextFound == \A e \in Envelope : AcceptAdr(e) => Found(e)
<1>1. Init => HistoryInv /\ AuditInv  BY InitialHistory, InitialAudit
<1>2. TypeInv /\ HistoryInv /\ AuditInv /\ [Next]_vars /\ [NextFound]_vars
        => HistoryInv' /\ AuditInv'
  BY HistoryStep, AuditStep
<1>3. Spec /\ SupersededExists => []AuditInv
  BY <1>1, <1>2, TypesHold, PTL DEF Spec, SupersededExists
<1> QED  BY <1>3, AuditTells, PTL

---------------------------------------------------------------------------
(* The contract.                                                           *)

(* A revision is compared where an entity is changed and nowhere else: a   *)
(* command that asserts one must be of the entity it changes, or nobody    *)
(* looks.                                                                  *)
AssertsOfSubjects == \A e \in Envelope : e.expected # {} => e.target \subseteq Subject(e)

LEMMA Answered ==
  ASSUME NEW result \in ResultRecord \cup {NoAnswer},
         NEW outcome \in {"accepted", "replayed", "refused"}
  PROVE  [outcome |-> outcome, result |-> result] # NoAnswer
BY SentinelAssumption DEF Answers

LEMMA ContractStep ==
  ASSUME TypeInv, [Next]_vars, AssertsOfSubjects,
         [\A e \in Envelope : AcceptAdr(e) => Found(e)]_vars
  PROVE  [Contract!Next]_(Contract!vars)
<1> DEFINE now == [d \in DOMAIN store.entities |-> store.entities[d].revision]
<1>1. CASE UNCHANGED vars
  BY <1>1 DEF vars, Contract!vars
<1>2. ASSUME NEW e \in Envelope, Replay(e)  PROVE Contract!Next
  <2>1. applied[e.key] \in ResultRecord
    BY <1>2 DEF Replay, TypeInv
  <2>2. answer' # NoAnswer
    BY <1>2, <2>1, Answered DEF Replay
  <2>3. Contract!Replay(e)
    BY <1>2 DEF Replay, Contract!Replay
  <2> QED  BY <2>2, <2>3 DEF Contract!Next
<1>3. ASSUME answer' = [outcome |-> "refused", result |-> NoAnswer],
             UNCHANGED <<store, applied>>
      PROVE  Contract!Next
  <2>1. answer' # NoAnswer
    BY <1>3, Answered
  <2>2. Contract!Refuse
    BY <1>3 DEF Contract!Refuse
  <2> QED  BY <2>1, <2>2 DEF Contract!Next
<1>4. ASSUME NEW e \in Envelope, Mismatch(e)  PROVE Contract!Next
  BY <1>3, <1>4 DEF Mismatch, Reject
<1>5. ASSUME NEW e \in Envelope, NEW o, Finishes(e, o), ~UNCHANGED vars
      PROVE  Contract!Next
  <2>1. /\ Outcome(store, e, o) /\ Finish(e, o) /\ o.ok \in BOOLEAN
        /\ Whole(store, o) /\ WellFormed(store)
    BY <1>5 DEF Finishes, Outcome, TypeInv
  <2>2. CASE ~o.ok
    BY <1>3, <2>1, <2>2, Declining DEF Whole
  <2>3. CASE o.ok
    <3> DEFINE result == Result(e, o)
    <3>1. /\ applied' = With(applied, e.key, result) /\ e.key \notin DOMAIN applied
          /\ answer' = [outcome |-> "accepted", result |-> result]
      BY <2>1, <2>3, Accepting
    <3>2. result \in ResultRecord /\ result.id = e.id
      BY <2>1, <2>3, Results DEF Result
    <3> HIDE DEF result
    <3>3. answer' # NoAnswer /\ answer'.result = result
      BY <3>1, <3>2, Answered
    <3>4. Contract!Asserts(e, now)
      <4>1. ASSUME NEW d \in e.target, e.expected # {}
            PROVE  d \in DOMAIN now /\ now[d] \in e.expected
        <5>1. Mutable(store, e, d)
          BY <1>5, <2>3, <4>1 DEF AssertsOfSubjects, Finishes
        <5> QED  BY <4>1, <5>1 DEF Mutable, Exists
      <4> HIDE DEF now
      <4> QED  BY <4>1 DEF Contract!Asserts
    <3>5. applied' = [key \in DOMAIN applied \cup {e.key} |->
                        IF key = e.key THEN result ELSE applied[key]]
      BY <3>1 DEF With
    <3>6. Contract!Apply(e)
      BY <3>1, <3>2, <3>3, <3>4, <3>5 DEF Contract!Apply
    <3> QED  BY <3>3, <3>6 DEF Contract!Next
  <2> QED  BY <2>1, <2>2, <2>3
<1> QED  BY <1>1, <1>2, <1>4, <1>5, Executions DEF Next

(* Whatever is sent, resent, late or mistaken, the backend does what the   *)
(* contract asks (contract, CommandService), where what an acceptance      *)
(* supersedes exists and revisions are asserted of what is changed.        *)
THEOREM ContractIsKept ==
  ASSUME AssertsOfSubjects
  PROVE  Spec /\ SupersededExists => ImplementsContract
<1> DEFINE NextFound == \A e \in Envelope : AcceptAdr(e) => Found(e)
<1>1. Init => Contract!Init
  BY DEF Init, Contract!Init
<1>2. TypeInv /\ [Next]_vars /\ [NextFound]_vars => [Contract!Next]_(Contract!vars)
  BY ContractStep
<1> QED
  BY <1>1, <1>2, TypesHold, PTL DEF Spec, SupersededExists, ImplementsContract, Contract!Spec

---------------------------------------------------------------------------
(* Sequences of sequences.                                                 *)

(* Induction over the naturals, as a set of them.                          *)
LEMMA Induction ==
  ASSUME NEW S, 0 \in S, \A n \in Nat : n \in S => n + 1 \in S
  PROVE  Nat \subseteq S
<1> DEFINE Rest == Nat \ S
           R == OpToRel(<, Nat)
<1> SUFFICES ASSUME Rest # {} PROVE FALSE
  OBVIOUS
<1>1. PICK n \in Rest : \A m \in Rest : <<m, n>> \notin R
  <2>1. Rest \subseteq Nat /\ IsWellFoundedOn(R, Nat)
    BY NatLessThanWellFounded
  <2> HIDE DEF Rest, R
  <2> QED  BY <2>1, WFMin
<1>2. n \in Nat /\ n # 0 /\ n - 1 \in Nat /\ (n - 1) + 1 = n
  OBVIOUS
<1>3. <<n - 1, n>> \in R
  BY <1>2, SMT DEF OpToRel
<1>4. n - 1 \in S
  BY <1>1, <1>2, <1>3
<1> QED  BY <1>2, <1>4

LEMMA Concatenation ==
  ASSUME NEW T, NEW s \in Seq(T), NEW t \in Seq(T)
  PROVE  /\ s \o t \in Seq(T) /\ Len(s \o t) = Len(s) + Len(t)
         /\ \A q \in 1 .. Len(s) : (s \o t)[q] = s[q]
         /\ \A q \in 1 .. Len(t) : (s \o t)[Len(s) + q] = t[q]
         /\ Len(s) \in Nat /\ Len(t) \in Nat
  OBVIOUS

(* What a sequence holds, and that a concatenation holds what its parts do. *)
Element(s, x) == \E q \in 1 .. Len(s) : s[q] = x

LEMMA ElementOf ==
  ASSUME NEW T, NEW s \in Seq(T), NEW t \in Seq(T), NEW x, Element(s, x) \/ Element(t, x)
  PROVE  Element(s \o t, x)
<1> USE DEF Element
<1>1. CASE Element(s, x)
  <2>1. PICK q \in 1 .. Len(s) : s[q] = x
    BY <1>1
  <2>2. (s \o t)[q] = x /\ q \in 1 .. Len(s \o t)
    BY <2>1, Concatenation
  <2> QED  BY <2>2
<1>2. CASE Element(t, x)
  <2>1. PICK q \in 1 .. Len(t) : t[q] = x
    BY <1>2
  <2>2. (s \o t)[Len(s) + q] = x /\ Len(s) + q \in 1 .. Len(s \o t)
    BY <2>1, Concatenation
  <2> QED  BY <2>2
<1> QED  BY <1>1, <1>2

(* What FlattenSeq builds from the left.                                   *)
Joins(f, seqs, n) ==
  \A i \in 1 .. n : f[i] = IF i = 1 THEN seqs[i] ELSE f[i - 1] \o seqs[i]

LEMMA JoinsExist ==
  ASSUME NEW T, NEW seqs \in Seq(Seq(T))
  PROVE  \E f \in [1 .. Len(seqs) -> Seq(T)] : Joins(f, seqs, Len(seqs))
<1> DEFINE S == {n \in Nat : n <= Len(seqs) =>
                   \E f \in [1 .. n -> Seq(T)] : Joins(f, seqs, n)}
<1>1. 0 \in S
  <2>1. [i \in 1 .. 0 |-> <<>>] \in [1 .. 0 -> Seq(T)]
    OBVIOUS
  <2>2. Joins([i \in 1 .. 0 |-> <<>>], seqs, 0)
    BY DEF Joins
  <2> QED  BY <2>1, <2>2
<1>2. ASSUME NEW n \in Nat, n \in S PROVE n + 1 \in S
  <2> SUFFICES ASSUME n + 1 <= Len(seqs)
               PROVE  \E f \in [1 .. n + 1 -> Seq(T)] : Joins(f, seqs, n + 1)
    OBVIOUS
  <2>1. PICK f \in [1 .. n -> Seq(T)] : Joins(f, seqs, n)
    BY <1>2
  <2> DEFINE last == IF n = 0 THEN seqs[n + 1] ELSE f[n] \o seqs[n + 1]
             g == [i \in 1 .. n + 1 |-> IF i = n + 1 THEN last ELSE f[i]]
  <2>2. last \in Seq(T)
    <3>1. seqs[n + 1] \in Seq(T) /\ (n # 0 => f[n] \in Seq(T))
      OBVIOUS
    <3> QED  BY <3>1, Concatenation
  <2>3. g \in [1 .. n + 1 -> Seq(T)]
    BY <2>2
  <2>4. ASSUME NEW i \in 1 .. n + 1
        PROVE  g[i] = IF i = 1 THEN seqs[i] ELSE g[i - 1] \o seqs[i]
    <3>1. CASE i = n + 1
      <4>1. n # 0 => g[n] = f[n]
        OBVIOUS
      <4> QED  BY <3>1, <4>1
    <3>2. CASE i # n + 1
      <4>1. g[i] = f[i] /\ i \in 1 .. n /\ (i # 1 => g[i - 1] = f[i - 1])
        BY <3>2
      <4> HIDE DEF g
      <4> QED  BY <2>1, <4>1 DEF Joins
    <3> QED  BY <3>1, <3>2
  <2> HIDE DEF g
  <2> QED  BY <2>3, <2>4 DEF Joins
<1>3. Nat \subseteq S
  <2> HIDE DEF S
  <2> QED  BY <1>1, <1>2, Induction
<1> QED  BY <1>3

(* A flattened sequence of sequences holds what each of them does.         *)
LEMMA FlattenIs ==
  ASSUME NEW T, NEW seqs \in Seq(Seq(T))
  PROVE  /\ FlattenSeq(seqs) \in Seq(T)
         /\ \A i \in 1 .. Len(seqs) : \A x :
              Element(seqs[i], x) => Element(FlattenSeq(seqs), x)
<1>1. CASE Len(seqs) = 0
  <2>1. FlattenSeq(seqs) = seqs /\ seqs = <<>>
    BY <1>1 DEF FlattenSeq
  <2> QED  BY <1>1, <2>1
<1>2. CASE Len(seqs) # 0
  <2> DEFINE N == Len(seqs)
             Eq(f, i) == IF i = 1 THEN seqs[i] ELSE f[i - 1] \o seqs[i]
             F == CHOOSE f : f = [i \in 1 .. N |-> Eq(f, i)]
  <2>1. PICK f \in [1 .. N -> Seq(T)] : Joins(f, seqs, N)
    BY JoinsExist
  <2>2. \A i \in 1 .. N : f[i] = Eq(f, i)
    BY <2>1 DEF Joins
  <2>3. FlattenSeq(seqs) = F[N]
    BY <1>2 DEF FlattenSeq
  <2>n. N \in Nat /\ N # 0
    BY <1>2
  <2> HIDE DEF Eq, N
  <2>4. f = [i \in 1 .. N |-> Eq(f, i)]
    BY <2>2
  <2>5. F = [i \in 1 .. N |-> Eq(F, i)]
    BY <2>4
  <2> HIDE DEF F
  <2>6. \A i \in 1 .. N : F[i] = Eq(F, i)
    BY <2>5
  <2> DEFINE Covers(n) ==
               F[n] \in Seq(T) /\ \A i \in 1 .. n : \A x : Element(seqs[i], x) => Element(F[n], x)
             S == {n \in Nat : n \in 1 .. N => Covers(n)}
  <2>7. 0 \in S
    OBVIOUS
  <2>8. ASSUME NEW n \in Nat, n \in S, n + 1 \in 1 .. N PROVE Covers(n + 1)
    <3>1. seqs[n + 1] \in Seq(T)
      BY <2>8, <2>n DEF N
    <3>2. CASE n = 0
      <4>1. F[1] = seqs[1]
        BY <2>6, <2>8, <3>2 DEF Eq
      <4> QED  BY <3>1, <3>2, <4>1
    <3>3. CASE n # 0
      <4>1. F[n + 1] = F[n] \o seqs[n + 1]
        <5>1. n + 1 # 1 /\ (n + 1) - 1 = n
          BY <3>3
        <5>2. F[n + 1] = Eq(F, n + 1)
          BY <2>6, <2>8
        <5> QED  BY <5>1, <5>2 DEF Eq
      <4>2. n \in 1 .. N /\ Covers(n)
        <5>1. n \in 1 .. N
          BY <2>8, <2>n, <3>3
        <5> HIDE DEF Covers
        <5> QED  BY <2>8, <5>1
      <4>3. F[n + 1] \in Seq(T)
        BY <3>1, <4>1, <4>2, Concatenation
      <4>4. ASSUME NEW i \in 1 .. n + 1, NEW x, Element(seqs[i], x)
            PROVE  Element(F[n + 1], x)
        <5>1. Element(F[n], x) \/ Element(seqs[n + 1], x)
          BY <4>2, <4>4
        <5> QED  BY <3>1, <4>1, <4>2, <5>1, ElementOf
      <4> QED  BY <4>3, <4>4
    <3> QED  BY <3>2, <3>3
  <2>9. \A n \in Nat : n \in S => n + 1 \in S
    <3> HIDE DEF Covers
    <3> QED  BY <2>8
  <2>10. Nat \subseteq S
    <3> HIDE DEF S
    <3> QED  BY <2>7, <2>9, Induction
  <2>11. Covers(N)
    <3> HIDE DEF Covers
    <3> QED  BY <2>10, <2>n
  <2> QED  BY <2>3, <2>11 DEF N
<1> QED  BY <1>1, <1>2

---------------------------------------------------------------------------
(* Seeding.                                                                *)

CreateStep(artifact) == [op |-> "create", artifact |-> artifact]
RelateStep(artifact, edge) == [op |-> "relate", artifact |-> artifact, edge |-> edge]

CreateSteps(graph) == {CreateStep(graph[i]) : i \in DOMAIN graph}
RelateSteps(graph) ==
  UNION {{RelateStep(graph[i], graph[i].edges[j]) : j \in DOMAIN graph[i].edges} :
           i \in DOMAIN graph}
Steps(graph) == CreateSteps(graph) \cup RelateSteps(graph)

ArtifactKey(graph, i) == ArtifactName(graph[i].id)
EdgeKey(graph, i, j) == EdgeName(graph[i].id, graph[i].edges[j])

(* The entities are created before anything is related.                    *)
CreatesFirst(steps) ==
  \A q \in 1 .. Len(steps) :
    steps[q].op = "create" => \A r \in 1 .. q : steps[r].op = "create"

LEMMA StepFields ==
  ASSUME NEW graph, NEW s \in Steps(graph)
  PROVE  \/ s.op = "create" /\ \E i \in DOMAIN graph : s = CreateStep(graph[i])
         \/ /\ s.op = "relate"
            /\ \E i \in DOMAIN graph : \E j \in DOMAIN graph[i].edges :
                 s = RelateStep(graph[i], graph[i].edges[j])
BY DEF Steps, CreateSteps, RelateSteps, CreateStep, RelateStep

(* What seeding sends for a manifest: every artifact, and then every edge. *)
LEMMA PassesAre ==
  ASSUME NEW graph \in Manifests
  PROVE  /\ Passes(graph) \in Seq(Steps(graph))
         /\ CreatesFirst(Passes(graph))
         /\ \A s \in Steps(graph) : Element(Passes(graph), s)
<1> DEFINE n == Len(graph)
           creates == [i \in DOMAIN graph |-> CreateStep(graph[i])]
           edges(i) == [j \in DOMAIN graph[i].edges |-> RelateStep(graph[i], graph[i].edges[j])]
           relates == [i \in DOMAIN graph |-> edges(i)]
           flat == FlattenSeq(relates)
           RS == RelateSteps(graph)
           S == Steps(graph)
<1>1. n \in Nat /\ DOMAIN graph = 1 .. n
  BY SeedAssumption DEF IsSequence
<1>2. Passes(graph) = creates \o flat
  BY DEF Passes, CreateStep, RelateStep
<1>3. creates \in Seq(S) /\ Len(creates) = n /\ \A i \in 1 .. n : creates[i] = CreateStep(graph[i])
  <2>1. \A i \in 1 .. n : CreateStep(graph[i]) \in S
    BY <1>1 DEF Steps, CreateSteps
  <2> HIDE DEF S, n
  <2> QED  BY <1>1, <2>1
<1>4. ASSUME NEW i \in 1 .. n
      PROVE  /\ edges(i) \in Seq(RS)
             /\ \A j \in DOMAIN graph[i].edges :
                  Element(edges(i), RelateStep(graph[i], graph[i].edges[j]))
  <2>1. IsSequence(graph[i].edges)
    BY <1>1, SeedAssumption
  <2>2. PICK m \in Nat : DOMAIN graph[i].edges = 1 .. m
    BY <2>1 DEF IsSequence
  <2>3. \A j \in 1 .. m : RelateStep(graph[i], graph[i].edges[j]) \in RS
    BY <1>1, <2>2 DEF RelateSteps
  <2> HIDE DEF RS
  <2>4. edges(i) \in Seq(RS) /\ Len(edges(i)) = m
    BY <2>2, <2>3
  <2> QED  BY <2>2, <2>4 DEF Element
<1>5. relates \in Seq(Seq(RS)) /\ Len(relates) = n /\ \A i \in 1 .. n : relates[i] = edges(i)
  <2> HIDE DEF RS, edges, n
  <2> QED  BY <1>1, <1>4
<1>6. /\ flat \in Seq(RS)
      /\ \A i \in 1 .. n : \A x : Element(edges(i), x) => Element(flat, x)
  <2> HIDE DEF RS, edges, n, relates
  <2> QED  BY <1>5, FlattenIs
<1> HIDE DEF flat, creates, relates, edges, n
<1>7. flat \in Seq(S)
  <2>1. RS \subseteq S
    BY DEF Steps
  <2> HIDE DEF RS, S
  <2> QED  BY <1>6, <2>1
<1>8. /\ creates \o flat \in Seq(S) /\ Len(creates \o flat) = n + Len(flat) /\ Len(flat) \in Nat
      /\ \A q \in 1 .. n : (creates \o flat)[q] = creates[q]
      /\ \A q \in 1 .. Len(flat) : (creates \o flat)[n + q] = flat[q]
  <2> HIDE DEF S
  <2>1. creates \in Seq(S) /\ Len(creates) = n
    BY <1>3
  <2>2. /\ creates \o flat \in Seq(S) /\ Len(creates \o flat) = Len(creates) + Len(flat)
        /\ \A q \in 1 .. Len(creates) : (creates \o flat)[q] = creates[q]
        /\ \A q \in 1 .. Len(flat) : (creates \o flat)[Len(creates) + q] = flat[q]
        /\ Len(flat) \in Nat
    BY <1>7, <2>1
  <2> QED  BY <2>1, <2>2
<1>9. CreatesFirst(creates \o flat)
  <2>1. ASSUME NEW q \in 1 .. n  PROVE (creates \o flat)[q].op = "create"
    BY <1>3, <1>8, <2>1 DEF CreateStep
  <2>2. ASSUME NEW q \in n + 1 .. n + Len(flat)  PROVE (creates \o flat)[q].op = "relate"
    <3>1. q - n \in 1 .. Len(flat) /\ n + (q - n) = q
      BY <1>1, <1>8, <2>2
    <3>2. (creates \o flat)[q] = flat[q - n]
      BY <1>8, <3>1
    <3>3. flat[q - n] \in RS
      <4> HIDE DEF RS
      <4> QED  BY <1>6, <3>1
    <3>4. flat[q - n].op = "relate"
      <4>1. PICK x : x = flat[q - n]
        OBVIOUS
      <4>2. x \in RelateSteps(graph)
        BY <3>3, <4>1
      <4>3. \E i \in DOMAIN graph : \E j \in DOMAIN graph[i].edges :
              x = RelateStep(graph[i], graph[i].edges[j])
        BY <4>2 DEF RelateSteps
      <4> QED  BY <4>1, <4>3 DEF RelateStep
    <3> QED  BY <3>2, <3>4
  <2>3. \A q \in 1 .. n + Len(flat) : q \in 1 .. n \/ q \in n + 1 .. n + Len(flat)
    BY <1>1, <1>8
  <2>4. \A q \in 1 .. n : \A r \in 1 .. q : r \in 1 .. n
    BY <1>1
  <2> QED  BY <1>8, <2>1, <2>2, <2>3, <2>4 DEF CreatesFirst
<1>10. ASSUME NEW s \in Steps(graph)  PROVE Element(creates \o flat, s)
  <2>1. CASE s \in CreateSteps(graph)
    <3>1. PICK i \in 1 .. n : s = CreateStep(graph[i])
      BY <1>1, <2>1 DEF CreateSteps
    <3>2. Element(creates, s)
      BY <1>3, <3>1 DEF Element
    <3> HIDE DEF S
    <3> QED  BY <1>3, <1>7, <3>2, ElementOf
  <2>2. CASE s \in RelateSteps(graph)
    <3>1. PICK i \in 1 .. n : \E j \in DOMAIN graph[i].edges :
                                 s = RelateStep(graph[i], graph[i].edges[j])
      BY <1>1, <2>2 DEF RelateSteps
    <3>2. Element(flat, s)
      BY <1>4, <1>6, <3>1
    <3> HIDE DEF S
    <3> QED  BY <1>3, <1>7, <3>2, ElementOf
  <2> QED  BY <2>1, <2>2 DEF Steps
<1> QED  BY <1>2, <1>8, <1>9, <1>10

---------------------------------------------------------------------------
(* What any command, a caller's or seeding's, leaves of what there was: an *)
(* entity stays at its address and changes with its revision, and only a   *)
(* relation of the command's own key, or the one it removes, is touched.   *)
SameBut(f, g, k) ==
  \A x : x # k => /\ x \in DOMAIN f <=> x \in DOMAIN g
                  /\ x \in DOMAIN f => g[x] = f[x]

LEMMA RestatedRelations ==
  ASSUME NEW s, WellFormed(s), NEW e \in Envelope, NEW d, NEW status
  PROVE  Restated(s, e, d, status).store.relations = s.relations
<1> DEFINE n == Status(s, d, status)
<1>1. CASE ~Mutable(s, e, d)
  BY <1>1 DEF Restated, Refused
<1>2. CASE Mutable(s, e, d)
  <2>1. d \in DOMAIN s.entities /\ EntityShape(s.entities[d])
    BY <1>2 DEF Mutable, Exists, WellFormed, EntitiesHold
  <2>2. /\ EntityShape(n) /\ n.revision = s.entities[d].revision
        /\ n.type = s.entities[d].type /\ n.locator = s.entities[d].locator
    BY <2>1 DEF EntityShape, Status
  <2> HIDE DEF n
  <2>3. Mutate(s, e, d, n).relations = s.relations
    BY <2>1, <2>2, Mutation
  <2> QED  BY <1>2, <2>3 DEF Restated, Accepted, n
<1> QED  BY <1>1, <1>2

LEMMA UpdatedRelations ==
  ASSUME NEW s, WellFormed(s), NEW e \in Envelope
  PROVE  Updated(s, e).store.relations = s.relations
<1> DEFINE d == e.change.target
           n == [s.entities[d] EXCEPT !.data = e.change.data]
           m == Mutate(s, e, d, n)
           bad == ~Exists(s, d) \/ s.entities[d].type \in Immutable \/ ~Mutable(s, e, d)
<1>1. CASE bad
  BY <1>1 DEF Updated, Refused
<1>2. CASE ~bad
  <2>1. d \in DOMAIN s.entities /\ EntityShape(s.entities[d])
    BY <1>2 DEF Exists, WellFormed, EntitiesHold
  <2>2. /\ EntityShape(n) /\ n.revision = s.entities[d].revision
        /\ n.type = s.entities[d].type /\ n.locator = s.entities[d].locator
    BY <2>1 DEF EntityShape
  <2> HIDE DEF n
  <2>3. WellFormed(m) /\ NextRevision(s, m, e, d) /\ m.relations = s.relations
    BY <2>1, <2>2, Mutation
  <2> HIDE DEF m
  <2>4. Emit(m, e, d).relations = s.relations
    BY <2>1, <2>3, Emission DEF NextRevision
  <2> QED  BY <1>2, <2>4 DEF Updated, Accepted, m, n
<1> QED  BY <1>1, <1>2

LEMMA ArchivedRelations ==
  ASSUME NEW s, WellFormed(s), NEW e \in Envelope
  PROVE  Archived(s, e).store.relations = s.relations
<1> DEFINE d == e.entity
           n == [s.entities[d] EXCEPT !.archived = TRUE, !.status = "archived"]
<1>1. CASE ~Mutable(s, e, d)
  BY <1>1 DEF Archived, Refused
<1>2. CASE Mutable(s, e, d)
  <2>1. d \in DOMAIN s.entities /\ EntityShape(s.entities[d])
    BY <1>2 DEF Mutable, Exists, WellFormed, EntitiesHold
  <2>2. /\ EntityShape(n) /\ n.revision = s.entities[d].revision
        /\ n.type = s.entities[d].type /\ n.locator = s.entities[d].locator
    <3>1. n = [type |-> s.entities[d].type, locator |-> s.entities[d].locator,
               revision |-> s.entities[d].revision, status |-> "archived",
               data |-> s.entities[d].data, archived |-> TRUE]
      BY <2>1, Shelved
    <3> HIDE DEF n
    <3> QED  BY <3>1 DEF EntityShape
  <2> HIDE DEF n
  <2>3. Mutate(s, e, d, n).relations = s.relations
    BY <2>1, <2>2, Mutation
  <2> QED  BY <1>2, <2>3 DEF Archived, Accepted, n
<1> QED  BY <1>1, <1>2

(* A change of status, and a relation or an event after it.                *)
LEMMA ContinuedRelations ==
  ASSUME NEW s, WellFormed(s), NEW e \in Envelope, NEW status, NEW t,
         LET o == Restated(s, e, e.entity, status) IN
           o.ok /\ SameBut(o.store.relations, t.relations, e.key)
  PROVE  LET o == [Restated(s, e, e.entity, status) EXCEPT !.store = t] IN
         SameBut(s.relations, o.store.relations, e.key)
<1> DEFINE c == Restated(s, e, e.entity, status)
           affected == Revised(e.entity, s.entities[e.entity].revision + 1)
           o == [c EXCEPT !.store = t]
<1>1. c = Accepted(c.store, affected) /\ c.store.relations = s.relations
  BY Restatement, RestatedRelations DEF Refused
<1>2. SameBut(c.store.relations, t.relations, e.key)
  OBVIOUS
<1> HIDE DEF c, affected
<1>3. o = [ok |-> TRUE, store |-> t, affected |-> affected]
  <2>1. c = [ok |-> TRUE, store |-> c.store, affected |-> affected]
    BY <1>1 DEF Accepted
  <2> QED  BY <2>1, Restored
<1>4. o.store = t
  BY <1>3
<1>5. SameBut(s.relations, t.relations, e.key)
  BY <1>1, <1>2
<1>6. SameBut(s.relations, o.store.relations, e.key)
  BY <1>4, <1>5
<1> QED  BY <1>6 DEF c

LEMMA RelatedBut ==
  ASSUME NEW s, NEW e, NEW kind, NEW a, NEW b, NEW d, WellFormed(s)
  PROVE  /\ SameBut(s.relations, Relate(s, e, kind, a, b).relations, e.key)
         /\ SameBut(s.relations, s.relations, e.key)
         /\ Emit(s, e, d).relations = s.relations
<1>1. Relate(s, e, kind, a, b).relations =
        With(s.relations, e.key, [kind |-> kind, source |-> a, target |-> b])
  BY DEF Relate, WellFormed, StoreShape
<1>2. Emit(s, e, d).relations = s.relations
  BY DEF Emit, WellFormed, StoreShape
<1> QED  BY <1>1, <1>2 DEF SameBut, With

LEMMA SupersededRelations ==
  ASSUME NEW s, WellFormed(s), NEW e \in Envelope
  PROVE  SameBut(s.relations, Superseded(s, e).store.relations, e.key)
<1> DEFINE c == Restated(s, e, e.entity, "superseded")
           t == Relate(c.store, e, "supersedes", e.successor, e.entity)
<1>1. CASE ~Exists(s, e.successor)
  BY <1>1, RelatedBut DEF Superseded, Refused
<1>2. CASE Exists(s, e.successor) /\ ~c.ok
  <2>1. Superseded(s, e) = c /\ c.store.relations = s.relations
    BY <1>2, RestatedRelations DEF Superseded
  <2> QED  BY <2>1, RelatedBut
<1>3. CASE Exists(s, e.successor) /\ c.ok
  <2>1. WellFormed(c.store)
    BY <1>3, Restatement DEF Refused
  <2>2. SameBut(c.store.relations, t.relations, e.key)
    <3> HIDE DEF c
    <3> QED  BY <2>1, RelatedBut
  <2>3. Superseded(s, e) = [c EXCEPT !.store = t]
    BY <1>3 DEF Superseded
  <2> HIDE DEF t
  <2> QED  BY <1>3, <2>2, <2>3, ContinuedRelations
<1> QED  BY <1>1, <1>2, <1>3

LEMMA ReviewedRelations ==
  ASSUME NEW s, WellFormed(s), NEW e \in Envelope
  PROVE  /\ SameBut(s.relations, Submitted(s, e).store.relations, e.key)
         /\ SameBut(s.relations, Approved(s, e).store.relations, e.key)
<1>1. ASSUME NEW status, NEW o, NEW bad,
             LET c == Restated(s, e, e.entity, status) IN
               o = IF bad THEN Refused(s)
                   ELSE IF c.ok THEN [c EXCEPT !.store = Emit(@, e, e.entity)] ELSE c
      PROVE  SameBut(s.relations, o.store.relations, e.key)
  <2> DEFINE c == Restated(s, e, e.entity, status)
             t == Emit(c.store, e, e.entity)
  <2>1. CASE bad
    BY <1>1, <2>1, RelatedBut DEF Refused
  <2>2. CASE ~bad /\ ~c.ok
    <3>1. o = c /\ c.store.relations = s.relations
      BY <1>1, <2>2, RestatedRelations
    <3> QED  BY <3>1, RelatedBut
  <2>3. CASE ~bad /\ c.ok
    <3>1. WellFormed(c.store)
      BY <2>3, Restatement DEF Refused
    <3>2. SameBut(c.store.relations, t.relations, e.key)
      <4> HIDE DEF c
      <4> QED  BY <3>1, RelatedBut
    <3>3. o = [c EXCEPT !.store = t]
      BY <1>1, <2>3
    <3> HIDE DEF t
    <3> QED  BY <2>3, <3>2, <3>3, ContinuedRelations
  <2> QED  BY <2>1, <2>2, <2>3
<1>2. SameBut(s.relations, Submitted(s, e).store.relations, e.key)
  BY <1>1 DEF Submitted
<1>3. SameBut(s.relations, Approved(s, e).store.relations, e.key)
  BY <1>1 DEF Approved
<1> QED  BY <1>2, <1>3

LEMMA AcceptedRelations ==
  ASSUME NEW s, WellFormed(s), NEW e \in Envelope
  PROVE  SameBut(s.relations, AdrAccepted(s, e).store.relations, e.key)
<1> DEFINE c == Restated(s, e, e.entity, "accepted")
           late == \E old \in e.supersedes : ~Exists(s, old)
           r == IF e.supersedes = {} THEN c.store
                ELSE Relate(c.store, e, "supersedes", e.entity, CHOOSE old \in e.supersedes : TRUE)
           t == Emit(r, e, e.entity)
<1>1. CASE ~At(s, e.entity, e.at) \/ ~c.ok
  BY <1>1, RelatedBut DEF AdrAccepted, Refused
<1>2. CASE At(s, e.entity, e.at) /\ c.ok /\ late
  <2>1. AdrAccepted(s, e) = Refused(c.store)
    BY <1>2 DEF AdrAccepted
  <2>2. AdrAccepted(s, e).store.relations = s.relations
    BY <2>1, RestatedRelations DEF Refused
  <2> QED  BY <2>2, RelatedBut
<1>3. CASE At(s, e.entity, e.at) /\ c.ok /\ ~late
  <2>1. WellFormed(c.store)
    BY <1>3, Restatement DEF Refused
  <2>2. SameBut(c.store.relations, r.relations, e.key)
    <3> HIDE DEF c
    <3> QED  BY <2>1, RelatedBut
  <2>3. t.relations = r.relations
    BY DEF Emit
  <2>4. SameBut(c.store.relations, t.relations, e.key)
    BY <2>2, <2>3
  <2>5. AdrAccepted(s, e) = [c EXCEPT !.store = t]
    BY <1>3 DEF AdrAccepted
  <2> HIDE DEF t
  <2> QED  BY <1>3, <2>4, <2>5, ContinuedRelations
<1> QED  BY <1>1, <1>2, <1>3

LEMMA Elsewhere ==
  ASSUME TypeInv, NEW e \in Envelope, Execute(e), e.op # "unrelate"
  PROVE  SameBut(store.relations, store'.relations, e.key)
<1>1. WellFormed(store)
  BY DEF TypeInv
<1>2. SameBut(store.relations, store.relations, e.key)
  BY DEF SameBut
<1>3. CASE Replay(e) \/ Mismatch(e)
  BY <1>2, <1>3 DEF Replay, Mismatch
<1>4. CASE Invalid(e)
  BY <1>2, <1>4 DEF Invalid, Finish, Refused
<1>5. CASE CreateEntity(e)
  <2>1. store' = Created(store, e).store /\ e.key \notin DOMAIN applied
    BY <1>5 DEF CreateEntity, Finish
  <2>2. e.key \notin DOMAIN store.entities
    BY <2>1, BackendAssumption DEF TypeInv, CommandKey
  <2>3. Created(store, e).store.relations = store.relations
    BY <1>1, <2>2, Creation DEF Refused
  <2> QED  BY <1>2, <2>1, <2>3
<1>6. CASE UpdateEntity(e) \/ ArchiveEntity(e) \/ SupersedeEntity(e)
  BY <1>1, <1>2, <1>6, UpdatedRelations, ArchivedRelations, SupersededRelations
     DEF UpdateEntity, ArchiveEntity, SupersedeEntity, Finish
<1>7. CASE CreateRelation(e)
  BY <1>1, <1>2, <1>7, RelatedBut DEF CreateRelation, Finish, RelationCreated, Accepted, Refused
<1>8. CASE SubmitDesignReview(e) \/ ApproveDesign(e) \/ AcceptAdr(e)
  BY <1>1, <1>8, ReviewedRelations, AcceptedRelations
     DEF SubmitDesignReview, ApproveDesign, AcceptAdr, Finish
<1> QED  BY <1>3, <1>4, <1>5, <1>6, <1>7, <1>8 DEF Execute, RemoveRelation

(* A relation that is removed is removed by a command that is remembered.  *)
Forgets(e) ==
  /\ e.key \notin DOMAIN applied /\ DOMAIN applied' = DOMAIN applied \cup {e.key}
  /\ e.relation \in DOMAIN store.relations
  /\ DOMAIN store'.relations = DOMAIN store.relations \ {e.relation}
  /\ \A k \in DOMAIN store'.relations : store'.relations[k] = store.relations[k]

LEMMA Removal ==
  ASSUME TypeInv, NEW e \in Envelope, Execute(e), e.op = "unrelate"
  PROVE  Forgets(e) \/ UNCHANGED <<store, applied>>
<1>1. Replay(e) \/ Mismatch(e) \/ RemoveRelation(e)
  BY DEF Execute, Invalid, Malformed, CreateEntity, UpdateEntity, CreateRelation,
     RemoveRelation, ArchiveEntity, SupersedeEntity, SubmitDesignReview, ApproveDesign, AcceptAdr
<1>2. CASE Replay(e) \/ Mismatch(e)
  BY <1>2 DEF Replay, Mismatch
<1>3. CASE RemoveRelation(e) /\ e.relation \notin DOMAIN store.relations
  BY <1>3 DEF RemoveRelation, RelationRemoved, Finish, Refused, Reject
<1>4. CASE RemoveRelation(e) /\ e.relation \in DOMAIN store.relations
  <2> DEFINE t == [store EXCEPT !.relations = [k \in DOMAIN @ \ {e.relation} |-> @[k]]]
             o == Accepted(t, <<>>)
  <2>1. Finish(e, o)
    BY <1>4 DEF RemoveRelation, RelationRemoved
  <2>2. o.ok /\ o.store = t
    BY DEF Accepted
  <2>3. t.relations = [k \in DOMAIN store.relations \ {e.relation} |-> store.relations[k]]
    BY DEF TypeInv, WellFormed, StoreShape
  <2> HIDE DEF o, t
  <2>4. /\ store' = t /\ e.key \notin DOMAIN applied
        /\ DOMAIN applied' = DOMAIN applied \cup {e.key}
    BY <2>1, <2>2, Accepting
  <2> QED  BY <1>4, <2>3, <2>4 DEF Forgets
<1> QED  BY <1>1, <1>2, <1>3, <1>4

(* Nothing that was remembered is forgotten, and a command is remembered   *)
(* under its id.                                                           *)
Notes(e) ==
  \/ UNCHANGED applied
  \/ /\ e.key \notin DOMAIN applied /\ DOMAIN applied' = DOMAIN applied \cup {e.key}
     /\ \A k \in DOMAIN applied : applied'[k] = applied[k]
     /\ applied'[e.key].id = e.id

(* An entity stays at its address, where no other comes, and changes with  *)
(* its revision.                                                           *)
StaysAt(d) ==
  /\ d \in DOMAIN store'.entities /\ store'.entities[d].locator = store.entities[d].locator
  /\ \/ store'.entities[d] = store.entities[d]
     \/ store'.entities[d].revision = store.entities[d].revision + 1

Arrives(d, e) ==
  /\ d = e.key
  /\ \A x \in DOMAIN store.entities : store.entities[x].locator # store'.entities[d].locator

LEMMA Executed ==
  ASSUME TypeInv, NEW e \in Envelope, Execute(e)
  PROVE  /\ Notes(e)
         /\ \A d \in DOMAIN store.entities : StaysAt(d)
         /\ \A d \in DOMAIN store'.entities \ DOMAIN store.entities : Arrives(d, e)
<1>1. CASE Replay(e) \/ Mismatch(e)
  BY <1>1 DEF Replay, Mismatch, Notes, StaysAt
<1>2. ASSUME NEW o, Finishes(e, o)
      PROVE  /\ Notes(e)
             /\ \A d \in DOMAIN store.entities : StaysAt(d)
             /\ \A d \in DOMAIN store'.entities \ DOMAIN store.entities : Arrives(d, e)
  <2>1. Outcome(store, e, o) /\ Finish(e, o) /\ o.ok \in BOOLEAN /\ store' = o.store
    BY <1>2 DEF Finishes, Outcome, Finish
  <2>2. Notes(e)
    <3>1. CASE o.ok
      <4>1. applied' = With(applied, e.key, Result(e, o)) /\ e.key \notin DOMAIN applied
        BY <2>1, <3>1, Accepting
      <4>2. Result(e, o).id = e.id
        BY DEF Result
      <4>3. /\ DOMAIN applied' = DOMAIN applied \cup {e.key} /\ applied'[e.key] = Result(e, o)
            /\ \A k \in DOMAIN applied : applied'[k] = applied[k]
        BY <4>1 DEF With
      <4> QED  BY <4>1, <4>2, <4>3 DEF Notes
    <3>2. CASE ~o.ok
      BY <2>1, <3>2, Declining DEF Notes
    <3> QED  BY <2>1, <3>1, <3>2
  <2>3. CASE Leaves(store, o)
    BY <2>1, <2>2, <2>3 DEF Leaves, Kept, StaysAt
  <2>4. CASE Makes(store, e, o)
    BY <2>1, <2>2, <2>4 DEF Makes, FirstRevision, Besides, StaysAt, Arrives
  <2>5. CASE \E d \in DOMAIN store.entities : Revises(store, e, o, d)
    <3>1. PICK d \in DOMAIN store.entities : Revises(store, e, o, d)
      BY <2>5
    <3>2. /\ DOMAIN store'.entities = DOMAIN store.entities
          /\ \A x \in DOMAIN store.entities \ {d} : store'.entities[x] = store.entities[x]
          /\ store'.entities[d].revision = store.entities[d].revision + 1
          /\ store'.entities[d].locator = store.entities[d].locator
      BY <2>1, <3>1 DEF Revises, NextRevision, Besides
    <3> QED  BY <2>2, <3>2 DEF StaysAt
  <2> QED  BY <2>1, <2>3, <2>4, <2>5 DEF Outcome
<1> QED  BY <1>1, <1>2, Executions

(* What execute makes of a command of seeding: it replays it, refuses it   *)
(* and changes nothing, or remembers it with what it did.                  *)
Replays(k) ==
  /\ k \in DOMAIN applied
  /\ answer'.outcome = "replayed" /\ answer'.result = applied[k]
  /\ UNCHANGED <<store, applied>>

Refuses == answer'.outcome = "refused" /\ UNCHANGED <<store, applied>>

Remembers(k) ==
  /\ k \notin DOMAIN applied /\ DOMAIN applied' = DOMAIN applied \cup {k}
  /\ \A x \in DOMAIN applied : applied'[x] = applied[x]
  /\ answer'.outcome = "accepted" /\ answer'.result = applied'[k]

CreatesArtifact(artifact) ==
  LET k == ArtifactName(artifact.id) IN
  /\ Remembers(k) /\ applied'[k].affected[1].entity = k
  /\ k \notin DOMAIN store.entities
  /\ DOMAIN store'.entities = DOMAIN store.entities \cup {k}
  /\ \A x \in DOMAIN store.entities : store'.entities[x] = store.entities[x]
  /\ store'.entities[k].data = artifact.body /\ store'.entities[k].locator = Address(artifact)
  /\ store'.entities[k].revision = 1
  /\ \A x \in DOMAIN store.entities : store.entities[x].locator # Address(artifact)
  /\ store'.relations = store.relations

RelatesEntities(k, kind, source, target) ==
  /\ Remembers(k)
  /\ store'.entities = store.entities
  /\ DOMAIN store'.relations = DOMAIN store.relations \cup {k}
  /\ \A x \in DOMAIN store.relations \ {k} : store'.relations[x] = store.relations[x]
  /\ store'.relations[k] = [kind |-> kind, source |-> source, target |-> target]

LEMMA Remembered ==
  ASSUME NEW e, NEW o, Finish(e, o), o.ok
  PROVE  Remembers(e.key) /\ applied'[e.key].affected = o.affected
<1>1. /\ applied' = With(applied, e.key, Result(e, o)) /\ e.key \notin DOMAIN applied
      /\ answer' = [outcome |-> "accepted", result |-> Result(e, o)]
  BY Accepting
<1>2. /\ DOMAIN applied' = DOMAIN applied \cup {e.key} /\ applied'[e.key] = Result(e, o)
      /\ \A x \in DOMAIN applied : applied'[x] = applied[x]
  BY <1>1 DEF With
<1>3. answer'.outcome = "accepted" /\ answer'.result = Result(e, o)
  BY <1>1
<1>4. Result(e, o).affected = o.affected
  BY DEF Result
<1> QED  BY <1>1, <1>2, <1>3, <1>4 DEF Remembers

LEMMA ReplayedOrNot ==
  ASSUME NEW e, Replay(e) \/ Mismatch(e)
  PROVE  Replays(e.key) \/ Refuses
<1>1. CASE Replay(e)
  <2>1. answer' = [outcome |-> "replayed", result |-> applied[e.key]]
    BY <1>1 DEF Replay
  <2>2. answer'.outcome = "replayed" /\ answer'.result = applied[e.key]
    BY <2>1
  <2> QED  BY <1>1, <2>2 DEF Replay, Replays
<1>2. CASE Mismatch(e)
  <2>1. answer' = [outcome |-> "refused", result |-> NoAnswer]
    BY <1>2 DEF Mismatch, Reject
  <2> QED  BY <1>2, <2>1 DEF Mismatch, Refuses
<1> QED  BY <1>1, <1>2

LEMMA Declined ==
  ASSUME NEW e, NEW o, Finish(e, o), Whole(store, o), ~o.ok
  PROVE  Refuses
<1>1. /\ answer' = [outcome |-> "refused", result |-> NoAnswer]
      /\ UNCHANGED <<store, applied>>
  BY Declining DEF Whole
<1> QED  BY <1>1 DEF Refuses

LEMMA CreateExecuted ==
  ASSUME TypeInv, NEW artifact, CreateCommand(artifact) \in Envelope,
         Execute(CreateCommand(artifact))
  PROVE  \/ Replays(ArtifactName(artifact.id)) \/ Refuses
         \/ CreatesArtifact(artifact)
<1> DEFINE e == CreateCommand(artifact)
           k == ArtifactName(artifact.id)
           o == Created(store, e)
<1>1. /\ e.op = "create" /\ e.key = k /\ e.type = artifact.kind
      /\ e.locator = Address(artifact) /\ e.data = artifact.body /\ e \in Envelope
  BY DEF CreateCommand
<1> HIDE DEF e
<1>2. Replay(e) \/ Mismatch(e) \/ CreateEntity(e)
  BY <1>1 DEF Execute, Invalid, Malformed, CreateEntity, UpdateEntity, CreateRelation,
     RemoveRelation, ArchiveEntity, SupersedeEntity, SubmitDesignReview, ApproveDesign,
     AcceptAdr, e
<1>3. CASE Replay(e) \/ Mismatch(e)
  BY <1>1, <1>3, ReplayedOrNot
<1>4. CASE CreateEntity(e)
  <2>1. Finish(e, o) /\ e.key \notin DOMAIN applied
    BY <1>4 DEF CreateEntity, Finish
  <2>2. e.key \notin DOMAIN store.entities
    BY <1>1, <2>1, BackendAssumption DEF TypeInv, CommandKey
  <2>3. /\ o = Refused(store) \/ o.ok
        /\ o.ok => /\ o.store.entities = With(store.entities, e.key,
                                              Entity(e.type, e.locator, e.data))
                   /\ o.store.relations = store.relations
        /\ Outcome(store, e, o)
    BY <1>1, <2>2, Creation DEF TypeInv
  <2> HIDE DEF o
  <2>4. CASE ~o.ok
    <3>1. Whole(store, o)
      BY <2>3, <2>4 DEF Whole, Refused
    <3> QED  BY <2>1, <2>4, <3>1, Declined
  <2>5. CASE o.ok
    <3>1. Remembers(k) /\ applied'[k].affected = o.affected /\ store' = o.store
      BY <1>1, <2>1, <2>5, Remembered, Accepting
    <3>2. o.affected = Revised(k, 1)
      <4>1. e.key \in DOMAIN o.store.entities
        BY <2>3, <2>5 DEF With
      <4>2. ~Leaves(store, o)
        BY <2>2, <4>1 DEF Leaves, Kept
      <4>3. \A d \in DOMAIN store.entities : ~Revises(store, e, o, d)
        BY <2>2, <4>1 DEF Revises, NextRevision
      <4> QED  BY <1>1, <2>3, <4>2, <4>3 DEF Outcome, Makes
    <3>3. Revised(k, 1)[1].entity = k
      BY DEF Revised
    <3>4. /\ DOMAIN store'.entities = DOMAIN store.entities \cup {k}
          /\ store'.entities[k] = Entity(artifact.kind, Address(artifact), artifact.body)
          /\ \A x \in DOMAIN store.entities : store'.entities[x] = store.entities[x]
      BY <1>1, <2>2, <2>3, <2>5, <3>1 DEF With
    <3>5. /\ store'.entities[k].data = artifact.body
          /\ store'.entities[k].locator = Address(artifact)
          /\ store'.entities[k].revision = 1
      BY <3>4 DEF Entity
    <3>6. \A x \in DOMAIN store.entities : store.entities[x].locator # Address(artifact)
      <4>1. Execute(e)
        BY <1>4 DEF Execute
      <4>2. k \in DOMAIN store'.entities \ DOMAIN store.entities
        BY <1>1, <2>2, <3>4
      <4>3. Arrives(k, e)
        BY <1>1, <4>1, <4>2, Executed
      <4> QED  BY <3>5, <4>3 DEF Arrives
    <3> QED
      BY <1>1, <2>2, <2>3, <2>5, <3>1, <3>2, <3>3, <3>4, <3>5, <3>6 DEF CreatesArtifact
  <2> QED  BY <2>4, <2>5
<1> QED  BY <1>2, <1>3, <1>4

LEMMA RelateExecuted ==
  ASSUME TypeInv, NEW artifact, NEW edge, NEW source, NEW target,
         RelateCommand(artifact, edge, source, target) \in Envelope,
         Execute(RelateCommand(artifact, edge, source, target))
  PROVE  LET k == EdgeName(artifact.id, edge) IN
         Replays(k) \/ Refuses \/ RelatesEntities(k, edge.kind, source, target)
<1> DEFINE e == RelateCommand(artifact, edge, source, target)
           k == EdgeName(artifact.id, edge)
           o == RelationCreated(store, e)
           entry == [kind |-> edge.kind, source |-> source, target |-> target]
<1>1. /\ e.op = "relate" /\ e.key = k /\ e.kind = edge.kind
      /\ e.source = source /\ e.other = target /\ e \in Envelope
  BY DEF RelateCommand
<1> HIDE DEF e
<1>2. Replay(e) \/ Mismatch(e) \/ Invalid(e) \/ CreateRelation(e)
  BY <1>1 DEF Execute, CreateEntity, UpdateEntity, CreateRelation,
     RemoveRelation, ArchiveEntity, SupersedeEntity, SubmitDesignReview, ApproveDesign,
     AcceptAdr, e
<1>3. CASE Replay(e) \/ Mismatch(e)
  BY <1>1, <1>3, ReplayedOrNot
<1>4. CASE Invalid(e)
  <2>1. Finish(e, Refused(store)) /\ Whole(store, Refused(store)) /\ ~Refused(store).ok
    BY <1>4 DEF Invalid, Whole, Refused
  <2> QED  BY <2>1, Declined
<1>5. CASE CreateRelation(e)
  <2>1. Finish(e, o)
    BY <1>5 DEF CreateRelation
  <2>2. /\ Whole(store, o) /\ Outcome(store, e, o)
        /\ o.ok => o.store.relations = With(store.relations, e.key,
                           [kind |-> e.kind, source |-> e.source, target |-> e.other])
    BY <1>1, Linking DEF TypeInv
  <2>3. o.ok => o.store.entities = store.entities
    <3>1. ASSUME NEW kind, NEW a, NEW b
          PROVE  Relate(store, e, kind, a, b).entities = store.entities
      BY DEF Relate
    <3>2. o = Refused(store) \/ o.store = Relate(store, e, e.kind, e.source, e.other)
      BY DEF RelationCreated, Accepted
    <3> QED  BY <3>1, <3>2 DEF Refused
  <2> HIDE DEF o
  <2>4. CASE ~o.ok
    BY <2>1, <2>2, <2>4, Declined
  <2>5. CASE o.ok
    <3>1. Remembers(k) /\ store' = o.store
      BY <1>1, <2>1, <2>5, Remembered, Accepting
    <3>2. store'.relations = With(store.relations, k, entry)
      BY <1>1, <2>2, <2>5, <3>1
    <3>3. /\ DOMAIN store'.relations = DOMAIN store.relations \cup {k}
          /\ \A x \in DOMAIN store.relations \ {k} : store'.relations[x] = store.relations[x]
          /\ store'.relations[k] = entry
      BY <3>2 DEF With
    <3> QED  BY <2>3, <2>5, <3>1, <3>3 DEF RelatesEntities
  <2> QED  BY <2>4, <2>5
<1> QED  BY <1>2, <1>3, <1>4, <1>5

---------------------------------------------------------------------------
(* What a graph's names say.  One artifact is declared once by a manifest  *)
(* and by every manifest alike but for its edges, and nothing else that is *)
(* declared is named like it: names are made of tokens, where separators   *)
(* collapse, so manifests with design:a-b and design:a.b are not of this   *)
(* kind (NoSilentSharing says what becomes of them).                       *)
SameArtifact(a, b) == a.id = b.id /\ a.body = b.body /\ Address(a) = Address(b)

NamesApart ==
  \A g, h \in Manifests : \A i \in DOMAIN g : \A k \in DOMAIN h :
    /\ ArtifactKey(g, i) = ArtifactKey(h, k) => SameArtifact(g[i], h[k]) /\ (g = h => i = k)
    /\ \A j \in DOMAIN g[i].edges :
         /\ EdgeKey(g, i, j) # ArtifactKey(h, k)
         /\ \A l \in DOMAIN h[k].edges :
              EdgeKey(g, i, j) = EdgeKey(h, k, l) =>
                /\ g[i].id = h[k].id /\ g[i].edges[j].kind = h[k].edges[l].kind
                /\ g[i].edges[j].target = h[k].edges[l].target

(* Callers name their commands apart from seeding's, and never two of them *)
(* alike.                                                                  *)
CallerKey == {e.key : e \in Callers}

CallersApart ==
  /\ \A g \in Manifests : \A i \in DOMAIN g :
       /\ ArtifactKey(g, i) \notin CallerKey
       /\ \A j \in DOMAIN g[i].edges : EdgeKey(g, i, j) \notin CallerKey
  /\ \A e, f \in Callers : e.key = f.key /\ e.id = f.id => e = f

(* An artifact that was created is there under its name, at its address    *)
(* and with its body, if nobody has revised it; no other is at an address  *)
(* of something.                                                           *)
HeldArtifact(artifact) ==
  LET k == ArtifactName(artifact.id) IN
  /\ k \in DOMAIN store.entities /\ applied[k].affected[1].entity = k
  /\ store.entities[k].locator = Address(artifact)
  /\ store.entities[k].revision \in Nat \ {0}
  /\ store.entities[k].revision = 1 => store.entities[k].data = artifact.body

ArtifactsHeld ==
  \A g \in Manifests : \A i \in DOMAIN g :
    ArtifactKey(g, i) \in DOMAIN applied => HeldArtifact(g[i])

AddressesDiffer ==
  \A c, d \in DOMAIN store.entities :
    store.entities[c].locator = store.entities[d].locator => c = d

(* An edge that was stored is there under its name, unless a caller has    *)
(* had it removed; what callers have not made is an edge.                  *)
Cut(k) ==
  \E e \in Callers :
    e.op = "unrelate" /\ e.relation = k /\ e.key \in DOMAIN applied /\ applied[e.key].id = e.id

HeldEdge(k) ==
  /\ Cut(k) => k \in DOMAIN applied
  /\ k \in DOMAIN store.relations <=> k \in DOMAIN applied /\ ~Cut(k)

EdgesHeld ==
  \A g \in Manifests : \A i \in DOMAIN g : \A j \in DOMAIN g[i].edges : HeldEdge(EdgeKey(g, i, j))

IsEdge(k, g, i, j, t) ==
  /\ k = EdgeKey(g, i, j) /\ g[t].id = g[i].edges[j].target
  /\ store.relations[k] = [kind |-> g[i].edges[j].kind, source |-> ArtifactKey(g, i),
                           target |-> ArtifactKey(g, t)]

SomeEdge(k) ==
  \E g \in Manifests : \E i \in DOMAIN g : \E t \in DOMAIN g :
    \E j \in DOMAIN g[i].edges : IsEdge(k, g, i, j, t)

RelationsAreEdges == \A k \in DOMAIN store.relations \ CallerKey : SomeEdge(k)

Holds == ArtifactsHeld /\ AddressesDiffer /\ EdgesHeld /\ RelationsAreEdges

(* The run knows the artifacts it has created by their names, ...          *)
Identified(a, i) ==
  /\ a = manifest[i].id /\ by_id[a] = ArtifactKey(manifest, i)
  /\ by_id[a] \in DOMAIN applied

IdentitiesHold == \A a \in DOMAIN by_id : \E i \in DOMAIN manifest : Identified(a, i)

(* ... and every step of it is done or still to do.                        *)
Done(s) ==
  IF s.op = "create" THEN s.artifact.id \in DOMAIN by_id
  ELSE EdgeName(s.artifact.id, s.edge) \in DOMAIN applied /\ s.edge.target \in DOMAIN by_id

Progress ==
  /\ run = [count |-> run.count, ended |-> run.ended]
  /\ manifest \in Manifests \/ (manifest = <<>> /\ run.ended = "idle")
  /\ run.ended # "running" => todo = <<>>
  /\ todo \in Seq(Steps(manifest)) /\ CreatesFirst(todo)
  /\ run.ended = "running" => \A s \in Steps(manifest) : Done(s) \/ Element(todo, s)
  /\ run.ended = "seeded" => \A s \in Steps(manifest) : Done(s)

SeedInv == TypeInv /\ Holds /\ IdentitiesHold /\ Progress

LEMMA InitialSeeds == SeedInit => SeedInv
<1> SUFFICES ASSUME SeedInit PROVE SeedInv
  OBVIOUS
<1>1. TypeInv
  BY InitialTypes DEF SeedInit
<1>2. /\ DOMAIN by_id = {} /\ todo = <<>> /\ run = [count |-> 0, ended |-> "idle"]
  BY DEF SeedInit
<1>3. /\ store.entities = Seeded /\ DOMAIN store.relations = {} /\ DOMAIN applied = {}
  BY DEF SeedInit, Init
<1>4. Progress
  <2>1. todo \in Seq(Steps(manifest)) /\ Len(todo) = 0
    BY <1>2
  <2>2. run = [count |-> run.count, ended |-> run.ended] /\ run.ended = "idle"
    BY <1>2
  <2>3. manifest = <<>>
    BY DEF SeedInit
  <2> QED  BY <1>2, <2>1, <2>2, <2>3 DEF Progress, CreatesFirst
<1>5. ArtifactsHeld /\ RelationsAreEdges /\ IdentitiesHold
  BY <1>2, <1>3 DEF ArtifactsHeld, RelationsAreEdges, IdentitiesHold
<1>6. AddressesDiffer
  BY <1>3, SeedAssumption DEF AddressesDiffer
<1>7. EdgesHeld
  <2>1. \A k : HeldEdge(k)
    BY <1>3 DEF HeldEdge, Cut
  <2> QED  BY <2>1 DEF EdgesHeld
<1> QED  BY <1>1, <1>4, <1>5, <1>6, <1>7 DEF SeedInv, Holds

LEMMA HeadIs ==
  ASSUME NEW S, NEW s \in Seq(S), s # <<>>
  PROVE  /\ Head(s) \in S /\ Tail(s) \in Seq(S)
         /\ \A x : Element(s, x) => x = Head(s) \/ Element(Tail(s), x)
         /\ CreatesFirst(s) => CreatesFirst(Tail(s))
         /\ CreatesFirst(s) /\ Head(s).op = "relate" =>
              \A x : Element(s, x) => x.op # "create"
<1> DEFINE n == Len(s)
<1>1. /\ n \in Nat /\ n # 0 /\ Head(s) = s[1] /\ Len(Tail(s)) = n - 1
      /\ Tail(s) \in Seq(S) /\ Head(s) \in S
      /\ \A q \in 1 .. n - 1 : Tail(s)[q] = s[q + 1]
  OBVIOUS
<1> HIDE DEF n
<1>2. ASSUME NEW q \in 1 .. n, q # 1
      PROVE  q - 1 \in 1 .. n - 1 /\ (q - 1) + 1 = q
  <2>1. n \in Nat
    BY <1>1
  <2> QED  BY <1>2, <2>1
<1>3. ASSUME NEW x, Element(s, x)  PROVE x = Head(s) \/ Element(Tail(s), x)
  <2>1. PICK q \in 1 .. n : s[q] = x
    BY <1>3 DEF Element, n
  <2>2. CASE q = 1
    BY <1>1, <2>1, <2>2
  <2>3. CASE q # 1
    <3>1. q - 1 \in 1 .. n - 1 /\ (q - 1) + 1 = q
      BY <1>2, <2>3
    <3>2. Tail(s)[q - 1] = x
      BY <1>1, <2>1, <3>1
    <3> QED  BY <1>1, <3>1, <3>2 DEF Element
  <2> QED  BY <2>2, <2>3
<1>4. ASSUME CreatesFirst(s)  PROVE CreatesFirst(Tail(s))
  <2>1. ASSUME NEW q \in 1 .. n - 1, Tail(s)[q].op = "create", NEW r \in 1 .. q
        PROVE  Tail(s)[r].op = "create"
    <3>1. /\ q + 1 \in 1 .. n /\ r + 1 \in 1 .. q + 1 /\ r \in 1 .. n - 1
      BY <1>1
    <3>2. s[q + 1].op = "create"
      BY <1>1, <2>1
    <3>3. s[r + 1].op = "create"
      BY <1>4, <3>1, <3>2 DEF CreatesFirst, n
    <3> QED  BY <1>1, <3>1, <3>3
  <2> QED  BY <1>1, <2>1 DEF CreatesFirst
<1>5. ASSUME CreatesFirst(s), Head(s).op = "relate", NEW x, Element(s, x)
      PROVE  x.op # "create"
  <2>1. PICK q \in 1 .. n : s[q] = x
    BY <1>5 DEF Element, n
  <2>2. 1 \in 1 .. q
    BY <1>1, <2>1
  <2>3. s[1].op # "create"
    BY <1>1, <1>5
  <2> QED  BY <1>5, <2>1, <2>2, <2>3 DEF CreatesFirst, n
<1> QED  BY <1>1, <1>3, <1>4, <1>5

(* The names of a manifest are no names of what was there before.          *)
LEMMA KeysAreCommands ==
  ASSUME NEW graph \in Manifests, NEW i \in DOMAIN graph
  PROVE  /\ CreateCommand(graph[i]) \in Envelope
         /\ ArtifactKey(graph, i) \in CommandKey /\ ArtifactKey(graph, i) \notin DOMAIN Seeded
<1>1. CreateCommand(graph[i]) \in Envelope /\ CreateCommand(graph[i]).key = ArtifactKey(graph, i)
  BY SeedAssumption DEF CreateCommand, ArtifactKey
<1>2. ArtifactKey(graph, i) \in CommandKey
  BY <1>1 DEF CommandKey
<1> QED  BY <1>1, <1>2, BackendAssumption

---------------------------------------------------------------------------
(* What holds of the store stays so with every command.                    *)
Grows == DOMAIN applied \subseteq DOMAIN applied'

LEMMA HeldStill ==
  ASSUME Holds, UNCHANGED <<store, applied>>
  PROVE  Holds' /\ Grows
<1>1. \A k : Cut(k)' <=> Cut(k)
  BY DEF Cut
<1>2. EdgesHeld'
  BY <1>1 DEF Holds, EdgesHeld, HeldEdge
<1>3. RelationsAreEdges'
  BY DEF Holds, RelationsAreEdges, SomeEdge, IsEdge
<1>4. ArtifactsHeld' /\ AddressesDiffer'
  BY DEF Holds, ArtifactsHeld, HeldArtifact, AddressesDiffer
<1> QED  BY <1>2, <1>3, <1>4 DEF Holds, Grows

LEMMA EdgeStays ==
  ASSUME NEW k, SomeEdge(k), store'.relations[k] = store.relations[k]
  PROVE  SomeEdge(k)'
BY DEF SomeEdge, IsEdge

LEMMA ArtifactStays ==
  ASSUME NEW artifact, HeldArtifact(artifact), StaysAt(ArtifactName(artifact.id)),
         applied'[ArtifactName(artifact.id)] = applied[ArtifactName(artifact.id)]
  PROVE  HeldArtifact(artifact)'
<1> DEFINE k == ArtifactName(artifact.id)
<1>1. /\ k \in DOMAIN store.entities /\ applied[k].affected[1].entity = k
      /\ store.entities[k].locator = Address(artifact)
      /\ store.entities[k].revision \in Nat \ {0}
      /\ store.entities[k].revision = 1 => store.entities[k].data = artifact.body
  BY DEF HeldArtifact
<1>2. /\ k \in DOMAIN store'.entities /\ store'.entities[k].locator = store.entities[k].locator
      /\ \/ store'.entities[k] = store.entities[k]
         \/ store'.entities[k].revision = store.entities[k].revision + 1
  BY DEF StaysAt
<1>3. applied'[k] = applied[k]
  OBVIOUS
<1> HIDE DEF k
<1>4. /\ store'.entities[k].revision \in Nat \ {0}
      /\ store'.entities[k].revision = 1 => store'.entities[k].data = artifact.body
  BY <1>1, <1>2
<1> QED  BY <1>1, <1>2, <1>3, <1>4 DEF HeldArtifact, k

(* Only a command that removes a relation cuts an edge, and only that one. *)
LEMMA CutBy ==
  ASSUME NEW e, Notes(e), CallersApart, NEW k, e \in Callers \/ e.key \notin CallerKey
  PROVE  /\ Cut(k) => Cut(k)'
         /\ Cut(k)' => Cut(k) \/ (e.op = "unrelate" /\ e.relation = k /\ e.key \in DOMAIN applied')
<1>1. ASSUME Cut(k)  PROVE Cut(k)'
  BY <1>1 DEF Cut, Notes
<1>2. ASSUME Cut(k)', ~Cut(k)
      PROVE  e.op = "unrelate" /\ e.relation = k /\ e.key \in DOMAIN applied'
  <2>1. PICK f \in Callers : /\ f.op = "unrelate" /\ f.relation = k
                             /\ f.key \in DOMAIN applied' /\ applied'[f.key].id = f.id
    BY <1>2 DEF Cut
  <2>2. ~(f.key \in DOMAIN applied /\ applied[f.key].id = f.id)
    BY <1>2, <2>1 DEF Cut
  <2>3. f.key \notin DOMAIN applied /\ f.key = e.key /\ applied'[e.key].id = e.id
    BY <2>1, <2>2 DEF Notes
  <2>4. e \in Callers
    BY <2>3 DEF CallerKey
  <2>5. f = e
    BY <2>1, <2>3, <2>4 DEF CallersApart
  <2> QED  BY <2>1, <2>5
<1> QED  BY <1>1, <1>2

LEMMA AddressesStill ==
  ASSUME TypeInv, AddressesDiffer, NEW e \in Envelope, Execute(e)
  PROVE  AddressesDiffer'
<1>1. /\ \A d \in DOMAIN store.entities : StaysAt(d)
      /\ \A d \in DOMAIN store'.entities \ DOMAIN store.entities : Arrives(d, e)
  BY Executed
<1>2. ASSUME NEW c \in DOMAIN store'.entities, NEW d \in DOMAIN store'.entities,
             store'.entities[c].locator = store'.entities[d].locator
      PROVE  c = d
  <2>1. CASE c \in DOMAIN store.entities /\ d \in DOMAIN store.entities
    <3>1. StaysAt(c) /\ StaysAt(d)
      BY <1>1, <2>1
    <3>2. store.entities[c].locator = store.entities[d].locator
      BY <1>2, <3>1 DEF StaysAt
    <3> QED  BY <2>1, <3>2 DEF AddressesDiffer
  <2>2. CASE c \notin DOMAIN store.entities /\ d \notin DOMAIN store.entities
    <3>1. Arrives(c, e) /\ Arrives(d, e)
      BY <1>1, <2>2
    <3> QED  BY <3>1 DEF Arrives
  <2>3. CASE c \notin DOMAIN store.entities /\ d \in DOMAIN store.entities
    <3>1. Arrives(c, e) /\ StaysAt(d)
      BY <1>1, <2>3
    <3> QED  BY <1>2, <2>3, <3>1 DEF Arrives, StaysAt
  <2>4. CASE c \in DOMAIN store.entities /\ d \notin DOMAIN store.entities
    <3>1. Arrives(d, e) /\ StaysAt(c)
      BY <1>1, <2>4
    <3> QED  BY <1>2, <2>4, <3>1 DEF Arrives, StaysAt
  <2> QED  BY <2>1, <2>2, <2>3, <2>4
<1> QED  BY <1>2 DEF AddressesDiffer

(* A caller may revise what was seeded, and cut its edges.                 *)
LEMMA HeldByCaller ==
  ASSUME TypeInv, Holds, CallersApart, NEW e \in Callers, Execute(e)
  PROVE  Holds' /\ Grows
<1>1. e \in Envelope /\ e.key \in CallerKey
  BY SeedAssumption DEF CallerKey
<1>2. /\ Notes(e) /\ \A d \in DOMAIN store.entities : StaysAt(d)
  BY <1>1, Executed
<1>3. \/ SameBut(store.relations, store'.relations, e.key) /\ e.op # "unrelate"
      \/ Forgets(e) /\ e.op = "unrelate"
      \/ UNCHANGED <<store, applied>>
  BY <1>1, Elsewhere, Removal
<1>4. /\ Grows
      /\ \A k : k \notin CallerKey => (k \in DOMAIN applied' <=> k \in DOMAIN applied)
      /\ \A k \in DOMAIN applied : applied'[k] = applied[k]
  BY <1>1, <1>2 DEF Notes, Grows
<1>5. ArtifactsHeld'
  <2>1. ASSUME NEW g \in Manifests, NEW i \in DOMAIN g, ArtifactKey(g, i) \in DOMAIN applied'
        PROVE  HeldArtifact(g[i])'
    <3>1. ArtifactKey(g, i) \in DOMAIN applied
      BY <1>4, <2>1 DEF CallersApart
    <3>2. HeldArtifact(g[i]) /\ applied'[ArtifactKey(g, i)] = applied[ArtifactKey(g, i)]
      BY <1>4, <3>1 DEF Holds, ArtifactsHeld
    <3>3. StaysAt(ArtifactName(g[i].id))
      BY <1>2, <3>2 DEF HeldArtifact
    <3> QED  BY <3>2, <3>3, ArtifactStays DEF ArtifactKey
  <2> QED  BY <2>1 DEF ArtifactsHeld, ArtifactKey
<1>6. AddressesDiffer'
  BY <1>1, AddressesStill DEF Holds
<1>7. ASSUME NEW k, k \notin CallerKey, HeldEdge(k)  PROVE HeldEdge(k)'
  <2>1. /\ Cut(k) => Cut(k)'
        /\ Cut(k)' => Cut(k) \/ (e.op = "unrelate" /\ e.relation = k /\ e.key \in DOMAIN applied')
    BY <1>2, CutBy
  <2>2. k \in DOMAIN applied' <=> k \in DOMAIN applied
    BY <1>4, <1>7
  <2>3. CASE SameBut(store.relations, store'.relations, e.key) /\ e.op # "unrelate"
    <3>1. k \in DOMAIN store'.relations <=> k \in DOMAIN store.relations
      BY <1>1, <1>7, <2>3 DEF SameBut
    <3> QED  BY <1>7, <2>1, <2>2, <2>3, <3>1 DEF HeldEdge
  <2>4. CASE Forgets(e) /\ e.op = "unrelate" /\ e.relation = k
    <3>1. k \in DOMAIN applied /\ k \notin DOMAIN store'.relations
      BY <1>7, <2>4 DEF Forgets, HeldEdge
    <3>2. Cut(k)'
      <4>1. e.key \in DOMAIN applied' /\ applied'[e.key].id = e.id
        BY <1>2, <2>4 DEF Forgets, Notes
      <4> QED  BY <2>4, <4>1 DEF Cut
    <3> QED  BY <2>2, <3>1, <3>2 DEF HeldEdge
  <2>5. CASE Forgets(e) /\ e.op = "unrelate" /\ e.relation # k
    <3>1. k \in DOMAIN store'.relations <=> k \in DOMAIN store.relations
      BY <2>5 DEF Forgets
    <3> QED  BY <1>7, <2>1, <2>2, <2>5, <3>1 DEF HeldEdge
  <2>6. CASE UNCHANGED <<store, applied>>
    <3>1. Cut(k)' <=> Cut(k)
      BY <2>6 DEF Cut
    <3> QED  BY <1>7, <2>6, <3>1 DEF HeldEdge
  <2> QED  BY <1>3, <2>3, <2>4, <2>5, <2>6
<1>8. EdgesHeld'
  <2>1. ASSUME NEW g \in Manifests, NEW i \in DOMAIN g, NEW j \in DOMAIN g[i].edges
        PROVE  HeldEdge(EdgeKey(g, i, j))'
    <3>1. EdgeKey(g, i, j) \notin CallerKey /\ HeldEdge(EdgeKey(g, i, j))
      BY DEF CallersApart, Holds, EdgesHeld
    <3> QED  BY <1>7, <3>1
  <2> QED  BY <2>1 DEF EdgesHeld, EdgeKey
<1>9. RelationsAreEdges'
  <2>1. ASSUME NEW k \in DOMAIN store'.relations \ CallerKey  PROVE SomeEdge(k)'
    <3>1. k \in DOMAIN store.relations /\ store'.relations[k] = store.relations[k]
      BY <1>1, <1>3 DEF SameBut, Forgets
    <3>2. SomeEdge(k)
      BY <3>1 DEF Holds, RelationsAreEdges
    <3> QED  BY <3>1, <3>2, EdgeStays
  <2> QED  BY <2>1 DEF RelationsAreEdges
<1> QED  BY <1>4, <1>5, <1>6, <1>8, <1>9 DEF Holds

LEMMA CutStill ==
  ASSUME CallersApart, NEW k, k \notin CallerKey, Remembers(k)
  PROVE  \A x : Cut(x)' <=> Cut(x)
<1>1. \A e \in Callers : e.key # k
  BY DEF CallerKey
<1> QED  BY <1>1 DEF Cut, Remembers

LEMMA HeldByCreation ==
  ASSUME TypeInv, Holds, NamesApart, CallersApart, NEW h \in Manifests, NEW c \in DOMAIN h,
         CreateCommand(h[c]) \in Envelope, Execute(CreateCommand(h[c])), CreatesArtifact(h[c])
  PROVE  Holds' /\ Grows
<1> DEFINE k == ArtifactKey(h, c)
<1>1. /\ Remembers(k) /\ applied'[k].affected[1].entity = k
      /\ k \notin DOMAIN store.entities
      /\ DOMAIN store'.entities = DOMAIN store.entities \cup {k}
      /\ \A x \in DOMAIN store.entities : store'.entities[x] = store.entities[x]
      /\ store'.entities[k].data = h[c].body /\ store'.entities[k].locator = Address(h[c])
      /\ store'.entities[k].revision = 1
      /\ store'.relations = store.relations
  BY DEF CreatesArtifact, ArtifactKey
<1>2. k \notin CallerKey
  BY DEF CallersApart
<1> HIDE DEF k
<1>3. /\ DOMAIN applied' = DOMAIN applied \cup {k} /\ k \notin DOMAIN applied
      /\ \A x \in DOMAIN applied : applied'[x] = applied[x]
  BY <1>1 DEF Remembers
<1>4. ArtifactsHeld'
  <2>1. ASSUME NEW g \in Manifests, NEW i \in DOMAIN g, ArtifactKey(g, i) \in DOMAIN applied'
        PROVE  HeldArtifact(g[i])'
    <3>1. CASE ArtifactKey(g, i) = k
      <4>1. SameArtifact(g[i], h[c])
        BY <3>1 DEF NamesApart, k
      <4>2. g[i].body = h[c].body /\ Address(g[i]) = Address(h[c])
        BY <4>1 DEF SameArtifact
      <4>3. ArtifactName(g[i].id) = k
        BY <3>1 DEF ArtifactKey
      <4> QED  BY <1>1, <4>2, <4>3 DEF HeldArtifact
    <3>2. CASE ArtifactKey(g, i) # k
      <4>1. ArtifactKey(g, i) \in DOMAIN applied
        BY <1>3, <2>1, <3>2
      <4>2. HeldArtifact(g[i]) /\ applied'[ArtifactKey(g, i)] = applied[ArtifactKey(g, i)]
        BY <1>3, <4>1 DEF Holds, ArtifactsHeld
      <4>3. StaysAt(ArtifactName(g[i].id))
        BY <1>1, <4>2 DEF HeldArtifact, StaysAt
      <4> QED  BY <4>2, <4>3, ArtifactStays DEF ArtifactKey
    <3> QED  BY <3>1, <3>2
  <2> QED  BY <2>1 DEF ArtifactsHeld, ArtifactKey
<1>5. AddressesDiffer'
  BY AddressesStill DEF Holds
<1>6. EdgesHeld'
  <2>1. \A x : Cut(x)' <=> Cut(x)
    BY <1>1, <1>2, CutStill
  <2>2. ASSUME NEW x, HeldEdge(x), x # k  PROVE HeldEdge(x)'
    BY <1>1, <1>3, <2>1, <2>2 DEF HeldEdge
  <2>3. ASSUME NEW g \in Manifests, NEW i \in DOMAIN g, NEW j \in DOMAIN g[i].edges
        PROVE  HeldEdge(EdgeKey(g, i, j)) /\ EdgeKey(g, i, j) # k
    BY DEF Holds, EdgesHeld, NamesApart, k
  <2> QED  BY <2>2, <2>3 DEF EdgesHeld, EdgeKey
<1>7. RelationsAreEdges'
  BY <1>1, EdgeStays DEF Holds, RelationsAreEdges
<1> QED  BY <1>3, <1>4, <1>5, <1>6, <1>7 DEF Holds, Grows

LEMMA HeldByRelation ==
  ASSUME Holds, NamesApart, CallersApart, NEW h \in Manifests, NEW c \in DOMAIN h,
         NEW d \in DOMAIN h[c].edges, NEW u \in DOMAIN h, h[u].id = h[c].edges[d].target,
         RelatesEntities(EdgeKey(h, c, d), h[c].edges[d].kind, ArtifactKey(h, c),
                         ArtifactKey(h, u))
  PROVE  Holds' /\ Grows
<1> DEFINE k == EdgeKey(h, c, d)
           entry == [kind |-> h[c].edges[d].kind, source |-> ArtifactKey(h, c),
                     target |-> ArtifactKey(h, u)]
<1>1. /\ Remembers(k)
      /\ store'.entities = store.entities
      /\ DOMAIN store'.relations = DOMAIN store.relations \cup {k}
      /\ \A x \in DOMAIN store.relations \ {k} : store'.relations[x] = store.relations[x]
      /\ store'.relations[k] = entry
  BY DEF RelatesEntities
<1>2. k \notin CallerKey /\ HeldEdge(k)
  BY DEF CallersApart, Holds, EdgesHeld
<1>3. IsEdge(k, h, c, d, u)'
  BY <1>1 DEF IsEdge, ArtifactKey, EdgeKey
<1>4. \A g \in Manifests : \A i \in DOMAIN g : ArtifactKey(g, i) # k
  BY DEF NamesApart
<1> HIDE DEF k, entry
<1>5. /\ DOMAIN applied' = DOMAIN applied \cup {k} /\ k \notin DOMAIN applied
      /\ \A x \in DOMAIN applied : applied'[x] = applied[x]
  BY <1>1 DEF Remembers
<1>6. ArtifactsHeld'
  <2>1. ASSUME NEW g \in Manifests, NEW i \in DOMAIN g, ArtifactKey(g, i) \in DOMAIN applied'
        PROVE  HeldArtifact(g[i])'
    <3>1. ArtifactKey(g, i) \in DOMAIN applied
      BY <1>4, <1>5, <2>1
    <3>2. HeldArtifact(g[i]) /\ applied'[ArtifactKey(g, i)] = applied[ArtifactKey(g, i)]
      BY <1>5, <3>1 DEF Holds, ArtifactsHeld
    <3>3. StaysAt(ArtifactName(g[i].id))
      BY <1>1, <3>2 DEF HeldArtifact, StaysAt
    <3> QED  BY <3>2, <3>3, ArtifactStays DEF ArtifactKey
  <2> QED  BY <2>1 DEF ArtifactsHeld, ArtifactKey
<1>7. AddressesDiffer'
  BY <1>1 DEF Holds, AddressesDiffer
<1>8. EdgesHeld'
  <2>1. \A x : Cut(x)' <=> Cut(x)
    BY <1>1, <1>2, CutStill
  <2>2. ASSUME NEW x, HeldEdge(x)  PROVE HeldEdge(x)'
    BY <1>1, <1>2, <1>5, <2>1, <2>2 DEF HeldEdge
  <2>3. ASSUME NEW g \in Manifests, NEW i \in DOMAIN g, NEW j \in DOMAIN g[i].edges
        PROVE  HeldEdge(EdgeKey(g, i, j))
    BY DEF Holds, EdgesHeld
  <2> QED  BY <2>2, <2>3 DEF EdgesHeld, EdgeKey
<1>9. RelationsAreEdges'
  <2>1. ASSUME NEW x \in DOMAIN store'.relations \ CallerKey  PROVE SomeEdge(x)'
    <3>1. CASE x = k
      BY <1>3, <3>1 DEF SomeEdge
    <3>2. CASE x # k
      <4>1. x \in DOMAIN store.relations \ CallerKey /\ store'.relations[x] = store.relations[x]
        BY <1>1, <3>2
      <4> QED  BY <4>1, EdgeStays DEF Holds, RelationsAreEdges
    <3> QED  BY <3>1, <3>2
  <2> QED  BY <2>1 DEF RelationsAreEdges
<1> QED  BY <1>5, <1>6, <1>7, <1>8, <1>9 DEF Holds, Grows

(* A step that is done stays done, and one taken off the list is done.     *)
LEMMA DoneStays ==
  ASSUME Grows, DOMAIN by_id \subseteq DOMAIN by_id', NEW s, Done(s)
  PROVE  Done(s)'
BY DEF Done, Grows

LEMMA ProgressStep ==
  ASSUME Progress, Grows, DOMAIN by_id \subseteq DOMAIN by_id', todo # <<>>,
         todo' = Tail(todo), UNCHANGED <<manifest, run>>, NEW step, step = Head(todo), Done(step)'
  PROVE  Progress'
<1>1. /\ Tail(todo) \in Seq(Steps(manifest)) /\ CreatesFirst(Tail(todo))
      /\ \A x : Element(todo, x) => x = Head(todo) \/ Element(Tail(todo), x)
  BY HeadIs DEF Progress
<1>2. ASSUME NEW s \in Steps(manifest), run.ended = "running"
      PROVE  Done(s)' \/ Element(todo', s)
  <2>1. Done(s) \/ s = step \/ Element(Tail(todo), s)
    BY <1>1, <1>2 DEF Progress
  <2>2. CASE Done(s)
    BY <2>2, DoneStays
  <2> QED  BY <2>1, <2>2
<1>3. ASSUME NEW s \in Steps(manifest), run.ended = "seeded"  PROVE Done(s)'
  BY <1>3, DoneStays DEF Progress
<1>4. run.ended = "running" /\ manifest \in Manifests
  BY DEF Progress
<1>5. run = [count |-> run.count, ended |-> run.ended]
  BY DEF Progress
<1> QED  BY <1>1, <1>2, <1>3, <1>4, <1>5 DEF Progress

LEMMA ProgressStill ==
  ASSUME Progress, Grows, UNCHANGED seeding
  PROVE  Progress'
<1>1. UNCHANGED <<manifest, by_id, todo, run>>
  BY DEF seeding
<1>2. \A s : Done(s) => Done(s)'
  BY <1>1, DoneStays
<1> QED  BY <1>1, <1>2 DEF Progress

LEMMA FailedRun ==
  ASSUME Progress, Ends("failed"), todo # <<>>, todo' = <<>>, UNCHANGED manifest
  PROVE  Progress'
<1>1. run' = [count |-> run.count, ended |-> "failed"]
  BY DEF Progress, Ends
<1>2. run' = [count |-> run'.count, ended |-> run'.ended] /\ run'.ended = "failed"
  BY <1>1
<1>3. todo' \in Seq(Steps(manifest')) /\ Len(todo') = 0
  OBVIOUS
<1>4. CreatesFirst(todo')
  BY <1>3 DEF CreatesFirst
<1>5. manifest \in Manifests
  BY DEF Progress
<1> QED  BY <1>2, <1>3, <1>4, <1>5 DEF Progress

LEMMA IdentitiesStay ==
  ASSUME IdentitiesHold, Grows, UNCHANGED <<manifest, by_id>>
  PROVE  IdentitiesHold'
<1>1. ASSUME NEW a \in DOMAIN by_id'
      PROVE  \E i \in DOMAIN manifest' : Identified(a, i)'
  <2>1. PICK i \in DOMAIN manifest : Identified(a, i)
    BY DEF IdentitiesHold
  <2>2. Identified(a, i)'
    BY <2>1 DEF Identified, Grows, ArtifactKey
  <2> QED  BY <2>2
<1> QED  BY <1>1 DEF IdentitiesHold

LEMMA CreateOneStep ==
  ASSUME SeedInv, NamesApart, CallersApart, CreateOne
  PROVE  Holds' /\ IdentitiesHold' /\ Progress'
<1>1. Holds /\ IdentitiesHold /\ Progress /\ TypeInv
  BY DEF SeedInv
<1>2. /\ todo # <<>> /\ Head(todo).op = "create" /\ manifest' = manifest
      /\ Execute(CreateCommand(Head(todo).artifact))
  BY DEF CreateOne
<1>3. manifest \in Manifests
  BY <1>1, <1>2 DEF Progress
<1>4. PICK i \in DOMAIN manifest : Head(todo) = CreateStep(manifest[i])
  <2>1. Head(todo) \in Steps(manifest)
    BY <1>1, <1>2, HeadIs DEF Progress
  <2> QED  BY <1>2, <2>1, StepFields
<1>5. Head(todo).artifact = manifest[i]
  BY <1>4 DEF CreateStep
<1> DEFINE k == ArtifactKey(manifest, i)
<1>6. CreateCommand(manifest[i]) \in Envelope /\ Execute(CreateCommand(manifest[i]))
  BY <1>2, <1>3, <1>5, KeysAreCommands
<1>7. Replays(k) \/ Refuses \/ CreatesArtifact(manifest[i])
  BY <1>1, <1>6, CreateExecuted DEF ArtifactKey
<1>8. CASE Refuses
  <2>1. /\ Ends("failed") /\ todo' = <<>> /\ by_id' = by_id
        /\ UNCHANGED <<store, applied>>
    BY <1>8 DEF CreateOne, Refuses
  <2>2. Holds' /\ Grows
    BY <1>1, <2>1, HeldStill
  <2> QED  BY <1>1, <1>2, <2>1, <2>2, IdentitiesStay, FailedRun
<1>9. CASE ~Refuses
  <2>1. /\ Holds' /\ Grows /\ k \in DOMAIN applied'
        /\ answer'.result.affected[1].entity = k /\ answer'.outcome # "refused"
    <3>1. CASE Replays(k)
      <4>1. HeldArtifact(manifest[i])
        BY <1>1, <1>3, <3>1 DEF Replays, Holds, ArtifactsHeld
      <4>2. Holds' /\ Grows
        BY <1>1, <3>1, HeldStill DEF Replays
      <4> QED  BY <3>1, <4>1, <4>2 DEF Replays, HeldArtifact, ArtifactKey
    <3>2. CASE CreatesArtifact(manifest[i])
      <4>1. Holds' /\ Grows
        BY <1>1, <1>3, <1>6, <3>2, HeldByCreation
      <4> QED  BY <3>2, <4>1 DEF CreatesArtifact, Remembers, ArtifactKey
    <3> QED  BY <1>7, <1>9, <3>1, <3>2
  <2>2. /\ by_id' = With(by_id, manifest[i].id, k)
        /\ todo' = Tail(todo) /\ run' = run
    BY <1>5, <2>1 DEF CreateOne
  <2>3. /\ DOMAIN by_id' = DOMAIN by_id \cup {manifest[i].id}
        /\ by_id'[manifest[i].id] = k
        /\ \A a \in DOMAIN by_id \ {manifest[i].id} : by_id'[a] = by_id[a]
    BY <2>2 DEF With
  <2>4. ASSUME NEW a \in DOMAIN by_id'
        PROVE  \E x \in DOMAIN manifest' : Identified(a, x)'
    <3>1. CASE a = manifest[i].id
      <4>1. Identified(a, i)'
        BY <1>2, <2>1, <2>3, <3>1 DEF Identified, ArtifactKey
      <4> QED  BY <1>2, <4>1
    <3>2. CASE a # manifest[i].id
      <4>1. a \in DOMAIN by_id /\ by_id'[a] = by_id[a]
        BY <2>3, <3>2
      <4>2. PICK x \in DOMAIN manifest : Identified(a, x)
        BY <1>1, <4>1 DEF IdentitiesHold
      <4>3. Identified(a, x)'
        BY <1>2, <2>1, <4>1, <4>2 DEF Identified, Grows, ArtifactKey
      <4> QED  BY <1>2, <4>3
    <3> QED  BY <3>1, <3>2
  <2>5. PICK step : step = Head(todo)
    OBVIOUS
  <2>6. Done(step)'
    <3>1. step.op = "create" /\ step.artifact.id \in DOMAIN by_id'
      BY <1>2, <1>5, <2>3, <2>5
    <3> QED  BY <3>1 DEF Done
  <2>7. Progress'
    BY <1>1, <1>2, <2>1, <2>2, <2>3, <2>5, <2>6, ProgressStep
  <2>8. IdentitiesHold'
    BY <2>4 DEF IdentitiesHold
  <2> QED  BY <2>1, <2>7, <2>8
<1> QED  BY <1>8, <1>9

(* An identity the run has is that of the artifact of that id.             *)
LEMMA IdentityOf ==
  ASSUME IdentitiesHold, NEW i \in DOMAIN manifest, manifest[i].id \in DOMAIN by_id
  PROVE  /\ by_id[manifest[i].id] = ArtifactKey(manifest, i)
         /\ ArtifactKey(manifest, i) \in DOMAIN applied
<1>1. PICK x \in DOMAIN manifest : Identified(manifest[i].id, x)
  BY DEF IdentitiesHold
<1>2. ArtifactKey(manifest, x) = ArtifactKey(manifest, i)
  BY <1>1 DEF Identified, ArtifactKey
<1> QED  BY <1>1, <1>2 DEF Identified

(* The edge to be stored next, by name.                                    *)
LEMMA NextEdgeIs ==
  ASSUME SeedInv, Declared
  PROVE  /\ manifest \in Manifests
         /\ \E i \in DOMAIN manifest : \E t \in DOMAIN manifest :
              \E j \in DOMAIN manifest[i].edges :
                /\ Head(todo) = RelateStep(manifest[i], manifest[i].edges[j])
                /\ manifest[t].id = manifest[i].edges[j].target
                /\ NextEdge = RelateCommand(manifest[i], manifest[i].edges[j],
                                            ArtifactKey(manifest, i), ArtifactKey(manifest, t))
                /\ NextEdge \in Envelope
<1>1. /\ IdentitiesHold /\ Progress
      /\ todo # <<>> /\ Head(todo).op = "relate" /\ Head(todo).edge.target \in DOMAIN by_id
  BY DEF SeedInv, Declared
<1>2. run.ended = "running" /\ manifest \in Manifests
  BY <1>1 DEF Progress
<1>3. Head(todo) \in Steps(manifest)
  BY <1>1, HeadIs DEF Progress
<1>4. PICK i \in DOMAIN manifest :
        \E j \in DOMAIN manifest[i].edges :
          Head(todo) = RelateStep(manifest[i], manifest[i].edges[j])
  BY <1>1, <1>3, StepFields
<1>5. PICK j \in DOMAIN manifest[i].edges :
        Head(todo) = RelateStep(manifest[i], manifest[i].edges[j])
  BY <1>4
<1>6. Head(todo).artifact = manifest[i] /\ Head(todo).edge = manifest[i].edges[j]
  BY <1>5 DEF RelateStep
<1>7. by_id[manifest[i].id] = ArtifactKey(manifest, i)
  <2> DEFINE s == CreateStep(manifest[i])
  <2>1. s \in Steps(manifest) /\ s.op = "create" /\ s.artifact = manifest[i]
    BY DEF Steps, CreateSteps, CreateStep
  <2>2. \A x : Element(todo, x) => x.op # "create"
    BY <1>1, HeadIs DEF Progress
  <2> HIDE DEF s
  <2>3. Done(s)
    BY <1>1, <1>2, <2>1, <2>2 DEF Progress
  <2>4. manifest[i].id \in DOMAIN by_id
    BY <2>1, <2>3 DEF Done
  <2> QED  BY <1>1, <2>4, IdentityOf
<1>8. PICK t \in DOMAIN manifest : Identified(manifest[i].edges[j].target, t)
  BY <1>1, <1>6 DEF IdentitiesHold
<1>9. /\ manifest[t].id = manifest[i].edges[j].target
      /\ by_id[manifest[i].edges[j].target] = ArtifactKey(manifest, t)
  BY <1>8 DEF Identified
<1>10. NextEdge = RelateCommand(manifest[i], manifest[i].edges[j],
                                ArtifactKey(manifest, i), ArtifactKey(manifest, t))
  BY <1>6, <1>7, <1>9 DEF NextEdge
<1>11. RelateCommand(manifest[i], manifest[i].edges[j],
                     ArtifactKey(manifest, i), ArtifactKey(manifest, t)) \in Envelope
  BY <1>2, <1>9, SeedAssumption DEF ArtifactKey
<1> QED  BY <1>2, <1>5, <1>9, <1>10, <1>11

LEMMA RelateOneStep ==
  ASSUME SeedInv, NamesApart, CallersApart, RelateOne
  PROVE  Holds' /\ IdentitiesHold' /\ Progress'
<1>1. Holds /\ IdentitiesHold /\ Progress /\ TypeInv
  BY DEF SeedInv
<1>2. /\ Declared /\ todo # <<>> /\ manifest' = manifest /\ by_id' = by_id
      /\ Execute(NextEdge) /\ Head(todo).edge.target \in DOMAIN by_id
  BY DEF RelateOne, Declared, Edged
<1>3. PICK i \in DOMAIN manifest, t \in DOMAIN manifest :
        \E j \in DOMAIN manifest[i].edges :
             /\ Head(todo) = RelateStep(manifest[i], manifest[i].edges[j])
             /\ manifest[t].id = manifest[i].edges[j].target
             /\ NextEdge = RelateCommand(manifest[i], manifest[i].edges[j],
                                         ArtifactKey(manifest, i), ArtifactKey(manifest, t))
             /\ NextEdge \in Envelope
  BY <1>2, NextEdgeIs
<1>4. PICK j \in DOMAIN manifest[i].edges :
             /\ Head(todo) = RelateStep(manifest[i], manifest[i].edges[j])
             /\ manifest[t].id = manifest[i].edges[j].target
             /\ NextEdge = RelateCommand(manifest[i], manifest[i].edges[j],
                                         ArtifactKey(manifest, i), ArtifactKey(manifest, t))
             /\ NextEdge \in Envelope
  BY <1>3
<1> DEFINE k == EdgeKey(manifest, i, j)
<1>5. \/ Replays(k) \/ Refuses
      \/ RelatesEntities(k, manifest[i].edges[j].kind, ArtifactKey(manifest, i),
                         ArtifactKey(manifest, t))
  BY <1>1, <1>2, <1>4, RelateExecuted DEF EdgeKey
<1>6. CASE Refuses
  <2>1. Ends("failed") /\ todo' = <<>> /\ UNCHANGED <<store, applied>>
    BY <1>6 DEF RelateOne, Edged, Refuses
  <2>2. Holds' /\ Grows
    BY <1>1, <2>1, HeldStill
  <2> QED  BY <1>1, <1>2, <2>1, <2>2, IdentitiesStay, FailedRun
<1>7. CASE ~Refuses
  <2>1. Holds' /\ Grows /\ k \in DOMAIN applied' /\ answer'.outcome # "refused"
    <3>1. CASE Replays(k)
      <4>1. Holds' /\ Grows
        BY <1>1, <3>1, HeldStill DEF Replays
      <4> QED  BY <3>1, <4>1 DEF Replays
    <3>2. CASE RelatesEntities(k, manifest[i].edges[j].kind, ArtifactKey(manifest, i),
                               ArtifactKey(manifest, t))
      <4>1. manifest \in Manifests
        BY <1>2, NextEdgeIs
      <4>2. Holds' /\ Grows
        BY <1>1, <1>4, <3>2, <4>1, HeldByRelation
      <4> QED  BY <3>2, <4>2 DEF RelatesEntities, Remembers
    <3> QED  BY <1>5, <1>7, <3>1, <3>2
  <2>2. todo' = Tail(todo) /\ run' = run
    BY <2>1 DEF RelateOne, Edged
  <2>3. PICK step : step = Head(todo)
    OBVIOUS
  <2>4. Done(step)'
    <3>1. /\ step.op = "relate" /\ step.artifact = manifest[i]
          /\ step.edge = manifest[i].edges[j]
      BY <1>4, <2>3 DEF RelateStep
    <3>2. step.edge.target \in DOMAIN by_id'
      BY <1>2, <2>3
    <3> QED  BY <2>1, <3>1, <3>2 DEF Done, EdgeKey
  <2>5. Progress'
    BY <1>1, <1>2, <2>1, <2>2, <2>3, <2>4, ProgressStep
  <2>6. IdentitiesHold'
    BY <1>1, <1>2, <2>1, IdentitiesStay
  <2> QED  BY <2>1, <2>5, <2>6
<1> QED  BY <1>6, <1>7

(* The steps of a run that are no command.                                 *)
LEMMA OtherSteps ==
  ASSUME SeedInv, FromManifest \/ Undeclared \/ Report
  PROVE  Holds' /\ IdentitiesHold' /\ Progress'
<1>1. Holds /\ IdentitiesHold /\ Progress
  BY DEF SeedInv
<1>2. UNCHANGED <<store, applied>>
  BY DEF FromManifest, Undeclared, Report, vars
<1>3. Holds' /\ Grows
  BY <1>1, <1>2, HeldStill
<1>4. CASE FromManifest
  <2>1. /\ run' = [count |-> run.count + 1, ended |-> "running"]
        /\ manifest' \in Manifests
        /\ DOMAIN by_id' = {} /\ todo' = Passes(manifest')
    BY <1>4 DEF FromManifest
  <2>2. IdentitiesHold'
    BY <2>1 DEF IdentitiesHold
  <2>3. PICK graph \in Manifests : graph = manifest'
    BY <2>1
  <2>4. /\ Passes(graph) \in Seq(Steps(graph)) /\ CreatesFirst(Passes(graph))
        /\ \A s \in Steps(graph) : Element(Passes(graph), s)
    BY PassesAre
  <2>5. run' = [count |-> run'.count, ended |-> run'.ended] /\ run'.ended = "running"
    BY <2>1
  <2>6. /\ todo' \in Seq(Steps(manifest')) /\ CreatesFirst(todo')
        /\ \A s \in Steps(manifest') : Element(todo', s)
    BY <2>1, <2>3, <2>4
  <2>7. Progress'
    BY <2>1, <2>5, <2>6 DEF Progress
  <2> QED  BY <1>3, <2>2, <2>7
<1>5. CASE Undeclared
  <2>1. /\ Ends("failed") /\ todo # <<>> /\ todo' = <<>>
        /\ by_id' = by_id /\ manifest' = manifest
    BY <1>5 DEF Undeclared
  <2>2. IdentitiesHold' /\ Progress'
    BY <1>1, <1>3, <2>1, IdentitiesStay, FailedRun
  <2> QED  BY <1>3, <2>2
<1>6. CASE Report
  <2>1. /\ run.ended = "running" /\ todo = <<>> /\ todo' = <<>> /\ by_id' = by_id
        /\ run' = [run EXCEPT !.ended = "seeded"] /\ manifest' = manifest
    BY <1>6 DEF Report, Ends
  <2>2. run' = [count |-> run.count, ended |-> "seeded"]
    BY <1>1, <2>1 DEF Progress
  <2>3. run' = [count |-> run'.count, ended |-> run'.ended] /\ run'.ended = "seeded"
    BY <2>2
  <2>4. ASSUME NEW s \in Steps(manifest)  PROVE Done(s)'
    <3>1. ~Element(todo, s)
      BY <2>1 DEF Element
    <3>2. Done(s)
      BY <1>1, <2>1, <3>1 DEF Progress
    <3> QED  BY <1>3, <2>1, <3>2, DoneStays
  <2>5. Progress'
    BY <1>1, <2>1, <2>3, <2>4 DEF Progress
  <2>6. IdentitiesHold'
    BY <1>1, <1>3, <2>1, IdentitiesStay
  <2> QED  BY <1>3, <2>5, <2>6
<1> QED  BY <1>4, <1>5, <1>6

(* Seeding does nothing to the backend but send it commands.               *)
LEMMA SeedingExecutes ==
  ASSUME SeedInv, SeedNext
  PROVE  [Next]_vars
<1>1. ASSUME NEW e \in Envelope, Execute(e)  PROVE Next
  BY <1>1 DEF Next
<1>2. CASE Called
  <2>1. PICK e \in Callers : Execute(e)
    BY <1>2 DEF Called
  <2> QED  BY <1>1, <2>1, SeedAssumption
<1>3. CASE CreateOne
  <2>1. todo # <<>> /\ Head(todo).op = "create" /\ Execute(CreateCommand(Head(todo).artifact))
    BY <1>3 DEF CreateOne
  <2>2. todo \in Seq(Steps(manifest)) /\ manifest \in Manifests
    BY <2>1 DEF SeedInv, Progress
  <2>3. Head(todo) \in Steps(manifest)
    BY <2>1, <2>2, HeadIs
  <2>4. PICK i \in DOMAIN manifest : Head(todo) = CreateStep(manifest[i])
    BY <2>1, <2>3, StepFields
  <2>5. Head(todo).artifact = manifest[i]
    BY <2>4 DEF CreateStep
  <2> QED  BY <1>1, <2>1, <2>2, <2>5, KeysAreCommands
<1>4. CASE RelateOne
  <2>1. Declared /\ Execute(NextEdge)
    BY <1>4 DEF RelateOne, Edged
  <2>2. NextEdge \in Envelope
    BY <2>1, NextEdgeIs
  <2> QED  BY <1>1, <2>1, <2>2
<1>5. CASE FromManifest \/ Undeclared \/ Report
  BY <1>5 DEF FromManifest, Undeclared, Report
<1> QED  BY <1>2, <1>3, <1>4, <1>5 DEF SeedNext

LEMMA SeedStep ==
  ASSUME SeedInv, NamesApart, CallersApart, [SeedNext]_<<vars, seeding>>
  PROVE  SeedInv'
<1>1. TypeInv'
  <2>1. [Next]_vars
    BY SeedingExecutes
  <2> QED  BY <2>1, TypesKept DEF SeedInv
<1>2. TypeInv /\ Holds /\ IdentitiesHold /\ Progress
  BY DEF SeedInv
<1>3. ASSUME Holds', Grows, UNCHANGED seeding  PROVE SeedInv'
  <2>1. UNCHANGED <<manifest, by_id>>
    BY <1>3 DEF seeding
  <2> QED  BY <1>1, <1>2, <1>3, <2>1, IdentitiesStay, ProgressStill DEF SeedInv
<1>4. CASE UNCHANGED <<vars, seeding>>
  <2>1. UNCHANGED <<store, applied>> /\ UNCHANGED seeding
    BY <1>4 DEF vars
  <2> QED  BY <1>2, <1>3, <2>1, HeldStill
<1>5. CASE Called
  <2>1. PICK e \in Callers : Execute(e)
    BY <1>5 DEF Called
  <2>2. Holds' /\ Grows
    BY <1>2, <2>1, HeldByCaller
  <2> QED  BY <1>3, <1>5, <2>2 DEF Called
<1>6. CASE CreateOne \/ RelateOne \/ FromManifest \/ Undeclared \/ Report
  BY <1>1, <1>6, CreateOneStep, RelateOneStep, OtherSteps DEF SeedInv
<1> QED  BY <1>4, <1>5, <1>6 DEF SeedNext

---------------------------------------------------------------------------
(* What a run that reports success stands on.                              *)
LEMMA AllDone ==
  ASSUME SeedInv, run.ended = "seeded"
  PROVE  /\ manifest \in Manifests
         /\ \A i \in DOMAIN manifest :
              /\ by_id[manifest[i].id] = ArtifactKey(manifest, i)
              /\ HeldArtifact(manifest[i])
              /\ \A j \in DOMAIN manifest[i].edges :
                   /\ EdgeKey(manifest, i, j) \in DOMAIN applied
                   /\ by_id[manifest[i].edges[j].target] =
                        ArtifactName(manifest[i].edges[j].target)
                   /\ \E t \in DOMAIN manifest :
                        manifest[t].id = manifest[i].edges[j].target
<1>1. /\ Holds /\ IdentitiesHold /\ manifest \in Manifests
      /\ \A s \in Steps(manifest) : Done(s)
  BY DEF SeedInv, Progress
<1>2. ASSUME NEW i \in DOMAIN manifest
      PROVE  by_id[manifest[i].id] = ArtifactKey(manifest, i) /\ HeldArtifact(manifest[i])
  <2> DEFINE s == CreateStep(manifest[i])
  <2>1. s \in Steps(manifest) /\ s.op = "create" /\ s.artifact = manifest[i]
    BY DEF Steps, CreateSteps, CreateStep
  <2> HIDE DEF s
  <2>2. manifest[i].id \in DOMAIN by_id
    BY <1>1, <2>1 DEF Done
  <2>3. /\ by_id[manifest[i].id] = ArtifactKey(manifest, i)
        /\ ArtifactKey(manifest, i) \in DOMAIN applied
    BY <1>1, <2>2, IdentityOf
  <2> QED  BY <1>1, <2>3 DEF Holds, ArtifactsHeld
<1>3. ASSUME NEW i \in DOMAIN manifest, NEW j \in DOMAIN manifest[i].edges
      PROVE  /\ EdgeKey(manifest, i, j) \in DOMAIN applied
             /\ by_id[manifest[i].edges[j].target] = ArtifactName(manifest[i].edges[j].target)
             /\ \E t \in DOMAIN manifest : manifest[t].id = manifest[i].edges[j].target
  <2> DEFINE s == RelateStep(manifest[i], manifest[i].edges[j])
             target == manifest[i].edges[j].target
  <2>1. s \in Steps(manifest)
    BY DEF Steps, RelateSteps
  <2>2. /\ s.op = "relate" /\ s.artifact = manifest[i]
        /\ s.edge = manifest[i].edges[j]
    BY DEF RelateStep
  <2> HIDE DEF s
  <2>3. EdgeKey(manifest, i, j) \in DOMAIN applied /\ target \in DOMAIN by_id
    BY <1>1, <2>1, <2>2 DEF Done, EdgeKey
  <2>4. PICK t \in DOMAIN manifest : Identified(target, t)
    BY <1>1, <2>3 DEF IdentitiesHold
  <2>5. by_id[target] = ArtifactName(target) /\ manifest[t].id = target
    BY <2>4 DEF Identified, ArtifactKey
  <2> QED  BY <2>3, <2>5
<1> QED  BY <1>1, <1>2, <1>3

(* The entity at an artifact's address is its own.                         *)
LEMMA StoredAsItself ==
  ASSUME SeedInv, run.ended = "seeded", NEW i \in DOMAIN manifest
  PROVE  Stored(manifest[i])
<1> DEFINE d == ArtifactKey(manifest, i)
           there == {x \in DOMAIN store.entities :
                       store.entities[x].locator = Address(manifest[i])}
<1>1. /\ by_id[manifest[i].id] = d /\ HeldArtifact(manifest[i]) /\ AddressesDiffer
  BY AllDone DEF SeedInv, Holds
<1>2. /\ d \in DOMAIN store.entities /\ store.entities[d].locator = Address(manifest[i])
      /\ store.entities[d].revision = 1 => store.entities[d].data = manifest[i].body
  BY <1>1 DEF HeldArtifact, ArtifactKey
<1> HIDE DEF d
<1>3. there = {d}
  BY <1>1, <1>2 DEF AddressesDiffer
<1> QED  BY <1>1, <1>2, <1>3 DEF Stored

(* An edge is stored under its name and under no other.                    *)
LEMMA OneRelationEach ==
  ASSUME SeedInv, NamesApart, CallersApart, run.ended = "seeded",
         NEW i \in DOMAIN manifest, NEW j \in DOMAIN manifest[i].edges
  PROVE  Cardinality(Related(manifest[i], manifest[i].edges[j])) =
           IF Removed(manifest[i], manifest[i].edges[j]) THEN 0 ELSE 1
<1> DEFINE edge == manifest[i].edges[j]
           K == EdgeKey(manifest, i, j)
           source == ArtifactName(manifest[i].id)
           target == ArtifactName(edge.target)
           R == Related(manifest[i], edge)
           IsThis(x) == /\ x.kind = edge.kind /\ x.source = source /\ x.target = target
<1>1. /\ manifest \in Manifests /\ Holds /\ HeldEdge(K) /\ K \in DOMAIN applied
      /\ K \notin CallerKey
      /\ by_id[manifest[i].id] = source /\ by_id[edge.target] = target
  BY AllDone DEF SeedInv, Holds, EdgesHeld, CallersApart, ArtifactKey
<1>2. Removed(manifest[i], edge) <=> Cut(K)
  BY DEF Removed, Cut, EdgeKey
<1>3. K \in DOMAIN store.relations <=> ~Cut(K)
  BY <1>1 DEF HeldEdge
<1>4. R = {k \in DOMAIN store.relations \ CallerKey :
             store.relations[k] = [kind |-> edge.kind, source |-> source, target |-> target]}
  BY <1>1 DEF Related, CallerKey
<1>5. ASSUME K \in DOMAIN store.relations
      PROVE  store.relations[K] = [kind |-> edge.kind, source |-> source, target |-> target]
  <2>1. SomeEdge(K)
    BY <1>1, <1>5 DEF Holds, RelationsAreEdges
  <2>2. PICK g \in Manifests :
          \E a, t \in DOMAIN g : \E c \in DOMAIN g[a].edges : IsEdge(K, g, a, c, t)
    BY <2>1 DEF SomeEdge
  <2> PICK a \in DOMAIN g, t \in DOMAIN g : \E c \in DOMAIN g[a].edges : IsEdge(K, g, a, c, t)
    BY <2>2
  <2>3. PICK c \in DOMAIN g[a].edges : IsEdge(K, g, a, c, t)
    OBVIOUS
  <2>4. /\ g[a].id = manifest[i].id /\ g[a].edges[c].kind = edge.kind
        /\ g[a].edges[c].target = edge.target
    BY <1>1, <2>3 DEF IsEdge, NamesApart
  <2> QED  BY <2>3, <2>4 DEF IsEdge, ArtifactKey
<1>6. ASSUME NEW k \in R  PROVE k = K
  <2>1. k \in DOMAIN store.relations \ CallerKey
    BY <1>4
  <2>2. SomeEdge(k)
    BY <1>1, <2>1 DEF Holds, RelationsAreEdges
  <2>3. PICK g \in Manifests :
          \E b, u \in DOMAIN g : \E d \in DOMAIN g[b].edges : IsEdge(k, g, b, d, u)
    BY <2>2 DEF SomeEdge
  <2> PICK b \in DOMAIN g, u \in DOMAIN g : \E d \in DOMAIN g[b].edges : IsEdge(k, g, b, d, u)
    BY <2>3
  <2>4. PICK d \in DOMAIN g[b].edges : IsEdge(k, g, b, d, u)
    OBVIOUS
  <2> DEFINE other == g[b].edges[d]
  <2>5. IsThis(store.relations[k])
    BY <1>4
  <2>6. /\ store.relations[k].kind = other.kind
        /\ store.relations[k].source = ArtifactKey(g, b)
        /\ store.relations[k].target = ArtifactKey(g, u)
    BY <2>4 DEF IsEdge
  <2>7. /\ other.kind = edge.kind /\ ArtifactKey(g, b) = ArtifactKey(manifest, i)
        /\ ArtifactKey(g, u) = target
    BY <2>5, <2>6 DEF ArtifactKey
  <2>8. g[b].id = manifest[i].id
    BY <1>1, <2>7 DEF NamesApart, SameArtifact
  <2>9. other.target = edge.target
    <3>1. ArtifactName(other.target) = ArtifactName(edge.target)
      BY <2>4, <2>7 DEF IsEdge, ArtifactKey
    <3>2. PICK t \in DOMAIN manifest : manifest[t].id = edge.target
      BY <1>1, AllDone
    <3> QED  BY <1>1, <2>4, <3>1, <3>2 DEF IsEdge, ArtifactKey, NamesApart, SameArtifact
  <2>10. EdgeName(g[b].id, other) = EdgeName(manifest[i].id, edge)
    BY <2>7, <2>8, <2>9 DEF EdgeName
  <2> QED  BY <2>4, <2>10 DEF IsEdge, EdgeKey
<1> HIDE DEF R, K
<1>7. CASE Cut(K)
  <2>1. K \notin R
    BY <1>3, <1>4, <1>7
  <2>2. R = {}
    BY <1>6, <2>1
  <2>3. Cardinality(R) = 0
    BY <2>2, FS_EmptySet
  <2> QED  BY <1>2, <1>7, <2>3 DEF R
<1>8. CASE ~Cut(K)
  <2>1. K \in R
    BY <1>1, <1>3, <1>4, <1>5, <1>8
  <2>2. R = {K}
    BY <1>6, <2>1
  <2>3. Cardinality(R) = 1
    BY <2>2, FS_Singleton
  <2> QED  BY <1>2, <1>8, <2>3 DEF R
<1> QED  BY <1>7, <1>8

(* A run that reports success has given every artifact its own entity and  *)
(* stored every edge once, whatever callers did before, between and after  *)
(* its commands, however earlier runs ended and of which graphs, and has   *)
(* undone nothing a caller did (from_manifest), where the manifests' names *)
(* and the callers' stay apart.                                            *)
THEOREM SeedingIsFaithful ==
  ASSUME NamesApart, CallersApart
  PROVE  SeedSpec => []SeededIsTheManifest
<1>1. SeedInv /\ [SeedNext]_<<vars, seeding>> => SeedInv'
  BY SeedStep
<1>2. SeedInv => SeededIsTheManifest
  <2> SUFFICES ASSUME SeedInv, run.ended = "seeded"
               PROVE  /\ \A i, k \in DOMAIN manifest :
                           by_id[manifest[i].id] = by_id[manifest[k].id] => i = k
                      /\ \A i \in DOMAIN manifest : Stored(manifest[i])
                      /\ \A i \in DOMAIN manifest : \A j \in DOMAIN manifest[i].edges :
                           Cardinality(Related(manifest[i], manifest[i].edges[j])) =
                             IF Removed(manifest[i], manifest[i].edges[j]) THEN 0 ELSE 1
    BY DEF SeededIsTheManifest
  <2>1. ASSUME NEW i \in DOMAIN manifest, NEW k \in DOMAIN manifest,
               by_id[manifest[i].id] = by_id[manifest[k].id]
        PROVE  i = k
    <3>1. manifest \in Manifests /\ ArtifactKey(manifest, i) = ArtifactKey(manifest, k)
      BY <2>1, AllDone
    <3> QED  BY <3>1 DEF NamesApart
  <2> QED  BY <2>1, StoredAsItself, OneRelationEach
<1> QED  BY <1>1, <1>2, InitialSeeds, PTL DEF SeedSpec

(* Two artifacts are never given one entity (seed.rs, locator_key), for    *)
(* the same manifests: only names that meet make a run share one.          *)
THEOREM NothingIsShared ==
  ASSUME NamesApart, CallersApart
  PROVE  SeedSpec => []NoSilentSharing
<1>1. SeedInv /\ [SeedNext]_<<vars, seeding>> => SeedInv'
  BY SeedStep
<1>2. SeedInv => NoSilentSharing
  <2> SUFFICES ASSUME SeedInv, NEW a \in DOMAIN by_id, NEW b \in DOMAIN by_id,
                      by_id[a] = by_id[b]
               PROVE  a = b
    BY DEF NoSilentSharing
  <2>1. IdentitiesHold
    BY DEF SeedInv
  <2>2. PICK i \in DOMAIN manifest, k \in DOMAIN manifest : Identified(a, i) /\ Identified(b, k)
    BY <2>1 DEF IdentitiesHold
  <2>3. ArtifactKey(manifest, i) = ArtifactKey(manifest, k)
    BY <2>2 DEF Identified
  <2>4. manifest \in Manifests
    BY <2>2 DEF SeedInv, Progress
  <2> QED  BY <2>2, <2>3, <2>4 DEF Identified, NamesApart, SameArtifact
<1> QED  BY <1>1, <1>2, InitialSeeds, PTL DEF SeedSpec

(* Seeding goes through the command service and never writes to the store  *)
(* (seed.rs 1-6): what is proved of the backend holds while it seeds and   *)
(* others call.                                                            *)
THEOREM SeedingSendsCommands ==
  ASSUME NamesApart, CallersApart
  PROVE  SeedSpec => Spec
<1>1. SeedInv /\ [SeedNext]_<<vars, seeding>> => SeedInv'
  BY SeedStep
<1>2. SeedInv /\ [SeedNext]_<<vars, seeding>> => [Next]_vars
  BY SeedingExecutes
<1>3. SeedInit => Init
  BY DEF SeedInit
<1> QED  BY <1>1, <1>2, <1>3, InitialSeeds, PTL DEF SeedSpec, Spec

=============================================================================
