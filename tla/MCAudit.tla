------------------------------ MODULE MCAudit ------------------------------
(* Small instances of AuditChain and AuditPrune. *)
EXTENDS AuditPrune

Bounds(D, f, r) == [decisions |-> D, faults |-> f, rounds |-> r]
Recording == {Bounds({1, 2}, 2, 0), Bounds({1}, 3, 0)}
Pruning   == {Bounds({}, 1, 2), Bounds({}, 0, 3), Bounds({1}, 0, 1)}
AllSetups == Recording \cup Pruning
LateSetup == {Bounds({1}, 2, 0)}
============================================================================
