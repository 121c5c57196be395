----------------------------- MODULE MCEnrolment ------------------------------
(* Small instances of Enrolment: two instances, two hosts and their bootstrap *)
(* certificates.                                                              *)
EXTENDS Enrolment, TLC

CONSTANTS s, t, g, h, a, b

Presents == g :> a @@ h :> b

NoLimit == [what \in Bounded |-> 0]
DecideLimit == [NoLimit EXCEPT !["opens"] = 1, !["connects"] = 1, !["approves"] = 2,
                               !["rejects"] = 1, !["fails"] = 1, !["lost"] = 1, !["crashes"] = 1,
                               !["together"] = 5]
WindowLimit == [NoLimit EXCEPT !["opens"] = 2, !["closes"] = 1, !["connects"] = 1,
                               !["crashes"] = 1, !["together"] = 4]
RevokeLimit == [NoLimit EXCEPT !["opens"] = 1, !["connects"] = 1, !["approves"] = 1,
                               !["revokes"] = 1, !["fails"] = 1, !["together"] = 5]
QueueLimit == [NoLimit EXCEPT !["opens"] = 1, !["connects"] = 2, !["drops"] = 1,
                              !["together"] = 4]
AllLimits == {DecideLimit, QueueLimit, WindowLimit, RevokeLimit}
===============================================================================
