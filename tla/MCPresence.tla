------------------------------ MODULE MCPresence ------------------------------
(* Small instances of Presence. *)
EXTENDS Presence

NoLimit == [what \in Bounded |-> 0]
\* The Agent moves and changes, and an instance stops; or what the Agent left unread is
\* read late.
MoveLimit == [NoLimit EXCEPT !["conns"] = 2, !["together"] = 2, !["changes"] = 1,
                             !["stops"] = 1, !["aborts"] = 1]
LateLimit == [NoLimit EXCEPT !["conns"] = 2, !["together"] = 1, !["late"] = 1]
\* An instance loses its lease and takes another, and its sessions are aborted.
LeaseLimit == [NoLimit EXCEPT !["conns"] = 2, !["together"] = 3, !["losses"] = 1,
                              !["leases"] = 1, !["aborts"] = 1]
\* A call fails, and may reach the database later, while the Agent moves, or an instance
\* stops; or after another write.
FailLimit == [NoLimit EXCEPT !["conns"] = 2, !["together"] = 2, !["fails"] = 1,
                             !["landed"] = 1]
StopLimit == [NoLimit EXCEPT !["conns"] = 1, !["together"] = 3, !["stops"] = 1,
                             !["fails"] = 1, !["landed"] = 1]
WriteLimit == [NoLimit EXCEPT !["conns"] = 1, !["together"] = 3, !["changes"] = 1,
                              !["fails"] = 1, !["landed writes"] = 1]
\* The Agent falls silent and is forgotten; an instance dies.
ForgetLimit == [NoLimit EXCEPT !["conns"] = 2, !["together"] = 3, !["quiets"] = 1,
                               !["forgets"] = 1, !["crashes"] = 1]
\* It dies, and another process in its place takes a lease.
CrashLimit == [NoLimit EXCEPT !["conns"] = 2, !["together"] = 2, !["crashes"] = 1,
                              !["leases"] = 1]
AllLimits == {MoveLimit, LateLimit, LeaseLimit, FailLimit, StopLimit, WriteLimit,
              ForgetLimit, CrashLimit}
\* The bounds of the two runs that show what the code does otherwise.
OnlyLease == {LeaseLimit}
OnlyWrite == {WriteLimit}
===============================================================================
