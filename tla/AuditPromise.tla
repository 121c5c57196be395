---------------------------- MODULE AuditPromise ----------------------------
(***************************************************************************)
(* What the audit record promises of each security decision (audit_log.rs, *)
(* its head comment): a decision is either refused, because it cannot be   *)
(* recorded, or accepted and then in the record once.  Only a process that *)
(* ends takes what it had accepted and not written with it, and even that  *)
(* may still arrive.                                                       *)
(***************************************************************************)
EXTENDS Naturals

CONSTANT Decision

VARIABLES
  fate,    \* "new", "refused", "accepted" or "abandoned"
  copies   \* how often the decision is in the record

promiseVars == <<fate, copies>>

PromiseInit ==
  /\ fate = [d \in Decision |-> "new"]
  /\ copies = [d \in Decision |-> 0]

Refuse(d) ==
  /\ fate[d] = "new"
  /\ fate' = [fate EXCEPT ![d] = "refused"]
  /\ UNCHANGED copies

Accept(d) ==
  /\ fate[d] = "new"
  /\ fate' = [fate EXCEPT ![d] = "accepted"]
  /\ UNCHANGED copies

\* One write: every decision in it is accepted, and none was in the record before.
WriteDown(D) ==
  /\ \A d \in D : fate[d] \in {"accepted", "abandoned"} /\ copies[d] = 0
  /\ copies' = [d \in Decision |-> IF d \in D THEN 1 ELSE copies[d]]
  /\ UNCHANGED fate

\* The process that accepted the decisions ends before they were written.
Abandon(D) ==
  /\ \A d \in D : fate[d] = "accepted" /\ copies[d] = 0
  /\ fate' = [d \in Decision |-> IF d \in D THEN "abandoned" ELSE fate[d]]
  /\ UNCHANGED copies

PromiseNext ==
  \/ \E d \in Decision : Refuse(d) \/ Accept(d)
  \/ \E D \in (SUBSET Decision) \ {{}} : WriteDown(D) \/ Abandon(D)

PromiseSpec == PromiseInit /\ [][PromiseNext]_promiseVars
=============================================================================
