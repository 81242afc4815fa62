----------------------------- MODULE StoreMutex -----------------------------
(***************************************************************************)
(* What the store lock promises, without the files it is made of: one      *)
(* invocation at a time owns the planning store; a lock outlives an owner  *)
(* that dies or gives up; and only a lock that was lost that way passes to *)
(* somebody who did not find the store free.                               *)
(***************************************************************************)

CONSTANTS
  Proc,    \* invocations of `protocol drive`
  Nobody,  \* the store is free
  Lost     \* the store is locked by an invocation that is gone

VARIABLES
  owner,   \* who owns the store: an invocation, Nobody, or Lost
  gone     \* the invocations that are over

vars == <<owner, gone>>

Init == owner = Nobody /\ gone = {}

Acquire(p) ==
  /\ owner = Nobody /\ p \notin gone
  /\ owner' = p /\ UNCHANGED gone

(* The route out of a lock its owner left behind.                          *)
TakeOver(p) ==
  /\ owner = Lost /\ p \notin gone
  /\ owner' = p /\ UNCHANGED gone

Release(p) ==
  /\ owner = p /\ p \notin gone
  /\ owner' = Nobody /\ gone' = gone \cup {p}

(* Refused, failed or killed: what p owned is lost, not free.              *)
Leave(p) ==
  /\ p \notin gone
  /\ owner' = IF owner = p THEN Lost ELSE owner
  /\ gone' = gone \cup {p}

Next == \E p \in Proc : Acquire(p) \/ TakeOver(p) \/ Release(p) \/ Leave(p)

Spec == Init /\ [][Next]_vars

=============================================================================
