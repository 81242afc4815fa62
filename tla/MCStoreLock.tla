---------------------------- MODULE MCStoreLock ----------------------------
(* Three invocations, p1 a resume of run 1, on a host with a /proc.        *)
EXTENDS StoreLock

CONSTANTS p1, p2, p3

(* Everything on one host.                                                 *)
OneHost == [p \in Proc |-> "here"]

(* p3 runs on a second host: a lock it left is never stale to the others.  *)
TwoHosts == [p \in Proc |-> IF p = p3 THEN "there" ELSE "here"]

=============================================================================
