------------------------------ MODULE MCServe ------------------------------
(* Serve on one process that shares the database and may lose its lease,   *)
(* take another, restart and shut down.                                    *)
EXTENDS Serve, TLC

=============================================================================
