------------------------------ MODULE MCLease ------------------------------
(* Lease on two processes, one that must be alone and one that shares.      *)
EXTENDS Lease, TLC

=============================================================================
