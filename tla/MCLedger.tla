------------------------------- MODULE MCLedger --------------------------------
(* Small instances of Ledger: two enrolled certificates, a renewal of the first,   *)
(* the bootstrap certificate of both, and one an operator provisioned; these two   *)
(* are of a host as well.                                                          *)
EXTENDS Ledger

CONSTANTS sa, sb, near, far, boot, first, renewal, second, provisioned, ua, ub

Hosts == first :> near @@ renewal :> near @@ second :> far @@ boot :> far @@ provisioned :> near
Predecessors == first :> None @@ renewal :> first @@ second :> None @@ boot :> None @@ provisioned :> None
Bootstraps == first :> boot @@ renewal :> None @@ second :> boot @@ boot :> None @@ provisioned :> None
Ends == first :> 2 @@ renewal :> 3 @@ second :> 3 @@ boot :> 3 @@ provisioned :> 2

NoLimit == [what \in Bounded |-> 0]
ListLimit == [NoLimit EXCEPT !["records"] = 2, !["revokes"] = 2, !["lifts"] = 1, !["deaf"] = 1,
                             !["fails"] = 1, !["together"] = 3]
HostLimit == [NoLimit EXCEPT !["records"] = 1, !["reports"] = 2, !["agents"] = 2, !["marks"] = 1,
                             !["connects"] = 2, !["fails"] = 1, !["crashes"] = 1, !["together"] = 4]
RegisterLimit == [NoLimit EXCEPT !["records"] = 3, !["together"] = 3]
Alike == Permutations({sa, sb}) \cup Permutations({ua, ub})

AllLimits == {ListLimit, HostLimit, RegisterLimit}
===============================================================================
