--------------------------- MODULE CommandContract ---------------------------
(***************************************************************************)
(* What crates/aep-contract/src/command.rs asks of whoever implements      *)
(* CommandService::execute:                                                *)
(*   - a replay of an applied command returns what it returned, and        *)
(*     applies nothing;                                                    *)
(*   - a command that asserts a revision its target is not at is refused;  *)
(*   - a command that is refused leaves the state as it was.               *)
(* How a command changes the state is the implementation's business.       *)
(***************************************************************************)
EXTENDS Naturals

CONSTANTS
  Envelope,   \* the commands clients send, each any number of times
  NoAnswer

VARIABLES
  state,      \* everything a query can read
  revision,   \* the revision of every entity
  done,       \* by idempotency key: the command applied and its result
  answer      \* the last answer given

vars == <<state, revision, done, answer>>

Init ==
  /\ done = [key \in {} |-> NoAnswer]
  /\ answer = NoAnswer

Asserts(envelope, now) ==
  \A d \in envelope.target : envelope.expected # {} => d \in DOMAIN now /\ now[d] \in envelope.expected

Apply(envelope) ==
  /\ envelope.key \notin DOMAIN done
  /\ Asserts(envelope, revision)
  /\ \E result \in {answer'.result} :
       /\ answer' = [outcome |-> "accepted", result |-> result]
       /\ result.id = envelope.id
       /\ done' = [key \in DOMAIN done \cup {envelope.key} |->
                     IF key = envelope.key THEN result ELSE done[key]]

Replay(envelope) ==
  /\ envelope.key \in DOMAIN done
  /\ done[envelope.key].id = envelope.id
  /\ answer' = [outcome |-> "replayed", result |-> done[envelope.key]]
  /\ UNCHANGED <<state, revision, done>>

Refuse ==
  /\ answer'.outcome = "refused"
  /\ UNCHANGED <<state, revision, done>>

Next ==
  /\ answer' # NoAnswer
  /\ \/ \E envelope \in Envelope : Apply(envelope) \/ Replay(envelope)
     \/ Refuse

Spec == Init /\ [][Next]_vars
=============================================================================
