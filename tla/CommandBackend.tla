--------------------------- MODULE CommandBackend ---------------------------
(***************************************************************************)
(* The reference backend: crates/aep-backend-memory/src/command.rs over    *)
(* store.rs.  Every call holds the store's lock from end to end, so a call *)
(* is one action; inside it the checks and the changes have the code's     *)
(* order, and a check that fails late has changes behind it.               *)
(*                                                                         *)
(* Clients send an envelope as often as they like: a lost answer, a retry  *)
(* and a late duplicate are the same envelope once more.  An entity, a     *)
(* relation and an event are known by the idempotency key of the command   *)
(* that made them, where the code draws the next number.                   *)
(***************************************************************************)
EXTENDS Naturals, Sequences, FiniteSets

CONSTANTS
  Envelope,    \* the commands clients send
  Seeded,      \* the entities there are from the start, by key
  NoAnswer,
  MaxAudit     \* bound: audit records

VARIABLES
  store,    \* entities, relations, history and events
  applied,  \* what an idempotency key was first used for
  audit,    \* the audit trail
  answer    \* the last answer given

vars == <<store, applied, audit, answer>>

CommandKey == {e.key : e \in Envelope}
Key == DOMAIN Seeded \cup CommandKey

Immutable == {"review-result"}

Entity(type, locator, data) ==
  [type |-> type, locator |-> locator, revision |-> 1, status |-> "draft", data |-> data,
   archived |-> FALSE]

(* What there is from the start is as creation leaves it, and no command   *)
(* is given its name.                                                      *)
ASSUME BackendAssumption ==
  /\ MaxAudit \in Nat
  /\ \A e \in Envelope : e.target \subseteq Key
  /\ \A d \in DOMAIN Seeded :
       /\ d \notin CommandKey
       /\ Seeded[d] = Entity(Seeded[d].type, Seeded[d].locator, Seeded[d].data)

(* An answer, and that none is not one.                                    *)
ResultRecord ==
  [id : {e.id : e \in Envelope}, affected : Seq([entity : Key, revision : Nat]),
   events : Seq(CommandKey)]

Answers == [outcome : {"accepted", "replayed", "refused"}, result : ResultRecord \cup {NoAnswer}]

ASSUME SentinelAssumption == NoAnswer \notin Answers

With(f, k, v) == [x \in DOMAIN f \cup {k} |-> IF x = k THEN v ELSE f[x]]

Init ==
  /\ store = [entities |-> Seeded, relations |-> [k \in {} |-> NoAnswer],
              history |-> [d \in DOMAIN Seeded |-> <<[revision |-> 1, by |-> d]>>],
              events |-> <<>>]
  /\ applied = [k \in {} |-> NoAnswer]
  /\ audit = <<>>
  /\ answer = NoAnswer

---------------------------------------------------------------------------
(* What a command makes of a store: a new store and the revisions it       *)
(* changed, or an error and whatever was changed before it.                *)

Accepted(s, affected) == [ok |-> TRUE, store |-> s, affected |-> affected]
Refused(s) == [ok |-> FALSE, store |-> s, affected |-> <<>>]

Revised(d, r) == <<[entity |-> d, revision |-> r]>>

Exists(s, d) == d \in DOMAIN s.entities

At(s, d, revision) == Exists(s, d) /\ s.entities[d].revision = revision

(* mutate: existence, the asserted revision, then the change, the revision *)
(* and the history together.                                               *)
Mutable(s, e, d) ==
  Exists(s, d) /\ \A r \in e.expected : s.entities[d].revision = r

Recorded(s, e, d, r) ==
  LET entry == [revision |-> r, by |-> e.key]
      past == IF d \in DOMAIN s.history THEN s.history[d] ELSE <<>>
  IN [s EXCEPT !.history = With(@, d, Append(past, entry))]

Mutate(s, e, d, entity) ==
  Recorded([s EXCEPT !.entities[d] = [entity EXCEPT !.revision = @ + 1]], e, d,
           entity.revision + 1)

Status(s, d, status) == [s.entities[d] EXCEPT !.status = status]

Emit(s, e, d) ==
  [s EXCEPT !.events = Append(@, [by |-> e.key, entity |-> d,
                                  revision |-> s.entities[d].revision])]

Relate(s, e, kind, source, target) ==
  [s EXCEPT !.relations = With(@, e.key, [kind |-> kind, source |-> source, target |-> target])]

(* A change of one entity's status, if the entity can be changed.          *)
Restated(s, e, d, status) ==
  IF ~Mutable(s, e, d) THEN Refused(s)
  ELSE Accepted(Mutate(s, e, d, Status(s, d, status)), Revised(d, s.entities[d].revision + 1))

Created(s, e) ==
  IF \E d \in DOMAIN s.entities : s.entities[d].locator = e.locator THEN Refused(s)
  ELSE Accepted(Emit(Recorded([s EXCEPT !.entities =
                                 With(@, e.key, Entity(e.type, e.locator, e.data))], e, e.key, 1),
                     e, e.key),
                Revised(e.key, 1))

(* Mutant: any entity that exists may be patched.                          *)
UpdatedAnyType(s, e) ==
  LET d == e.change.target IN
  IF ~Mutable(s, e, d) THEN Refused(s)
  ELSE Accepted(Emit(Mutate(s, e, d, [s.entities[d] EXCEPT !.data = e.change.data]), e, d),
                Revised(d, s.entities[d].revision + 1))

Updated(s, e) ==
  LET d == e.change.target IN
  IF ~Exists(s, d) \/ s.entities[d].type \in Immutable \/ ~Mutable(s, e, d) THEN Refused(s)
  ELSE Accepted(Emit(Mutate(s, e, d, [s.entities[d] EXCEPT !.data = e.change.data]), e, d),
                Revised(d, s.entities[d].revision + 1))

RelationCreated(s, e) ==
  IF Exists(s, e.source) /\ Exists(s, e.other)
  THEN Accepted(Relate(s, e, e.kind, e.source, e.other), <<>>) ELSE Refused(s)

RelationRemoved(s, e) ==
  IF e.relation \notin DOMAIN s.relations THEN Refused(s)
  ELSE Accepted([s EXCEPT !.relations = [k \in DOMAIN @ \ {e.relation} |-> @[k]]], <<>>)

Archived(s, e) ==
  IF ~Mutable(s, e, e.entity) THEN Refused(s)
  ELSE Accepted(Mutate(s, e, e.entity,
                       [s.entities[e.entity] EXCEPT !.archived = TRUE, !.status = "archived"]),
                Revised(e.entity, s.entities[e.entity].revision + 1))

Superseded(s, e) ==
  LET changed == Restated(s, e, e.entity, "superseded") IN
  IF ~Exists(s, e.successor) THEN Refused(s)
  ELSE IF changed.ok
       THEN [changed EXCEPT !.store = Relate(@, e, "supersedes", e.successor, e.entity)]
       ELSE changed

Submitted(s, e) ==
  LET changed == Restated(s, e, e.entity, "in_review") IN
  IF ~At(s, e.entity, e.at) THEN Refused(s)
  ELSE IF changed.ok THEN [changed EXCEPT !.store = Emit(@, e, e.entity)] ELSE changed

Approved(s, e) ==
  LET changed == Restated(s, e, e.entity, "approved") IN
  IF ~Exists(s, e.review) \/ ~At(s, e.entity, e.at) THEN Refused(s)
  ELSE IF changed.ok THEN [changed EXCEPT !.store = Emit(@, e, e.entity)] ELSE changed

(* The decision it supersedes is looked for after the accepted one has     *)
(* been changed.                                                           *)
AdrAccepted(s, e) ==
  LET changed == Restated(s, e, e.entity, "accepted") IN
  IF ~At(s, e.entity, e.at) \/ ~changed.ok THEN Refused(s)
  ELSE IF \E old \in e.supersedes : ~Exists(s, old) THEN Refused(changed.store)
  ELSE [changed EXCEPT !.store =
          Emit(IF e.supersedes = {} THEN @
               ELSE Relate(@, e, "supersedes", e.entity, CHOOSE old \in e.supersedes : TRUE),
               e, e.entity)]

---------------------------------------------------------------------------
(* execute                                                                 *)

Audited(e, accepted, change) ==
  audit' = Append(audit, [id |-> e.id, by |-> e.key, accepted |-> accepted, change |-> change])

Reject(e) ==
  /\ Audited(e, FALSE, <<>>)
  /\ answer' = [outcome |-> "refused", result |-> NoAnswer]

(* Mutant: the audit names the revision after the change twice.            *)
ChangeAfterwards(affected) ==
  IF affected = <<>> THEN <<>>
  ELSE <<[entity |-> affected[1].entity, before |-> affected[1].revision,
          after |-> affected[1].revision]>>

(* The revision a change came from, one below the one it went to; none for *)
(* a creation.                                                             *)
Change(affected) ==
  IF affected = <<>> THEN <<>>
  ELSE <<[entity |-> affected[1].entity, before |-> affected[1].revision - 1,
          after |-> affected[1].revision]>>

(* The result names the last event of the store, where there is one.       *)
Result(e, outcome) ==
  LET events == outcome.store.events IN
  [id |-> e.id, affected |-> outcome.affected,
   events |-> IF events = <<>> THEN <<>> ELSE <<events[Len(events)].by>>]

Replay(e) ==
  /\ e.key \in DOMAIN applied /\ applied[e.key].id = e.id
  /\ answer' = [outcome |-> "replayed", result |-> applied[e.key]]
  /\ UNCHANGED <<store, applied, audit>>

(* The key of another command: a client's mistake.                         *)
Mismatch(e) ==
  /\ Len(audit) < MaxAudit
  /\ e.key \in DOMAIN applied /\ applied[e.key].id # e.id
  /\ Reject(e)
  /\ UNCHANGED <<store, applied>>

(* Mutant: a key is looked up and nothing is remembered under it.          *)
FinishUnremembered(e, outcome) ==
  /\ e.key \notin DOMAIN applied /\ Len(audit) < MaxAudit
  /\ store' = outcome.store
  /\ IF outcome.ok
     THEN /\ Audited(e, TRUE, Change(outcome.affected))
          /\ answer' = [outcome |-> "accepted", result |-> Result(e, outcome)]
     ELSE Reject(e)
  /\ UNCHANGED applied

Finish(e, outcome) ==
  /\ e.key \notin DOMAIN applied /\ Len(audit) < MaxAudit
  /\ store' = outcome.store
  /\ IF outcome.ok
     THEN /\ Audited(e, TRUE, Change(outcome.affected))
          /\ applied' = With(applied, e.key, Result(e, outcome))
          /\ answer' = [outcome |-> "accepted", result |-> Result(e, outcome)]
     ELSE Reject(e) /\ UNCHANGED applied

(* Refused before the store is read: an empty change, an edge from an      *)
(* entity to itself.                                                       *)
Malformed(e) ==
  \/ e.op = "update" /\ e.change.data = <<>>
  \/ e.op = "relate" /\ e.source = e.other
  \/ e.op = "supersede" /\ e.entity = e.successor

Invalid(e) == Malformed(e) /\ Finish(e, Refused(store))

CreateEntity(e)       == e.op = "create" /\ Finish(e, Created(store, e))
UpdateEntity(e)       == e.op = "update" /\ ~Malformed(e) /\ Finish(e, Updated(store, e))
CreateRelation(e)     == e.op = "relate" /\ ~Malformed(e) /\ Finish(e, RelationCreated(store, e))
RemoveRelation(e)     == e.op = "unrelate" /\ Finish(e, RelationRemoved(store, e))
ArchiveEntity(e)      == e.op = "archive" /\ Finish(e, Archived(store, e))
SupersedeEntity(e)    == e.op = "supersede" /\ ~Malformed(e) /\ Finish(e, Superseded(store, e))
SubmitDesignReview(e) == e.op = "submit" /\ Finish(e, Submitted(store, e))
ApproveDesign(e)      == e.op = "approve" /\ Finish(e, Approved(store, e))
AcceptAdr(e)          == e.op = "accept" /\ Finish(e, AdrAccepted(store, e))

Execute(e) ==
  \/ Replay(e) \/ Mismatch(e) \/ Invalid(e)
  \/ CreateEntity(e) \/ UpdateEntity(e) \/ ArchiveEntity(e) \/ SupersedeEntity(e)
  \/ CreateRelation(e) \/ RemoveRelation(e)
  \/ SubmitDesignReview(e) \/ ApproveDesign(e) \/ AcceptAdr(e)

Next == \E e \in Envelope : Execute(e)

Spec == Init /\ [][Next]_vars

---------------------------------------------------------------------------
(* Properties                                                              *)

(* The store's maps name entities that exist, and the trail is bounded.    *)
TypeOK ==
  /\ DOMAIN store.history = DOMAIN store.entities
  /\ DOMAIN store.relations \subseteq {e.key : e \in Envelope}
  /\ \A k \in DOMAIN store.relations :
       {store.relations[k].source, store.relations[k].target} \subseteq DOMAIN store.entities
  /\ DOMAIN applied \subseteq {e.key : e \in Envelope}
  /\ Len(audit) <= MaxAudit

(* The history of an entity accounts for each of its revisions, in order,  *)
(* each by a command that was accepted and by no command twice             *)
(* (command.rs, mutate and record_history).                                *)
HistoryAccountsForRevisions ==
  \A d \in DOMAIN store.entities :
    LET past == store.history[d] IN
    /\ Len(past) = store.entities[d].revision
    /\ \A i \in DOMAIN past :
         /\ past[i].revision = i
         /\ past[i].by \in DOMAIN applied \cup DOMAIN Seeded
         /\ \A j \in 1 .. i - 1 : past[j].by # past[i].by

(* The audit trail and the history tell one story: a record of a change    *)
(* names the revision its command made, every revision a command made is   *)
(* in one record, and a refusal never carries a change.                    *)
AuditTellsTheHistory ==
  /\ \A i \in DOMAIN audit :
       /\ audit[i].change # <<>> => audit[i].accepted
       /\ \A c \in {audit[i].change[j] : j \in DOMAIN audit[i].change} :
            /\ c.after = c.before + 1
            /\ store.history[c.entity][c.after].by = audit[i].by
  /\ \A d \in DOMAIN store.history : \A r \in DOMAIN store.history[d] :
       store.history[d][r].by \notin DOMAIN Seeded =>
         Cardinality({i \in DOMAIN audit :
           audit[i].change = <<[entity |-> d, before |-> r - 1, after |-> r]>>}) = 1

(* What somebody concluded is never edited, only archived or superseded    *)
(* (command.rs, require_mutable).                                          *)
RecordsKeepTheirWords ==
  [][\A d \in DOMAIN store.entities :
        store.entities[d].type \in Immutable =>
          store'.entities[d].data = store.entities[d].data]_store

(* query.rs of an immutable type: "the commands stop at archival".         *)
RecordsStopAtArchival ==
  [][\A d \in DOMAIN store.entities :
        /\ store.entities[d].type \in Immutable
        /\ store'.entities[d] # store.entities[d]
        => store'.entities[d].status \in {"archived", "superseded"}]_store

(* The events of an answer are the events of its command (contract,        *)
(* CommandResult: "events it emitted").                                    *)
AnswersNameTheirEvents ==
  \A k \in DOMAIN applied :
    \A i \in DOMAIN applied[k].events : applied[k].events[i] = k

(* command.rs of ApproveDesign: "the review must exist and must be about   *)
(* this exact revision".  A review's body is what it is about.             *)
ApprovalsRestOnTheirReview ==
  \A e \in Envelope :
    e.op = "approve" /\ e.key \in DOMAIN applied =>
      store.entities[e.review].data = <<e.entity, e.at>>

(* Whatever is sent, resent, late or mistaken, the backend does what the   *)
(* contract asks.                                                          *)
Contract == INSTANCE CommandContract WITH
  state <- store, done <- applied,
  revision <- [d \in DOMAIN store.entities |-> store.entities[d].revision]

ImplementsContract == Contract!Spec
=============================================================================
