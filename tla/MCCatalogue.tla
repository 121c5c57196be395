------------------------------ MODULE MCCatalogue ------------------------------
(* Small instances of Catalogue. *)
EXTENDS Catalogue

NoLimit == [what \in Bounded |-> 0]
\* Rollouts beside an act that may take away what one of them pins, an answer lost.
PinLimit == [NoLimit EXCEPT !["presses"] = 2, !["edits"] = 1, !["deletes"] = 1,
                            !["packages"] = 2, !["losses"] = 1, !["together"] = 3]
\* What is taken up: an Agent reports to an instance, and its record is released or
\* forgotten through it or another, the listening connection lost.
FollowLimit == [NoLimit EXCEPT !["presses"] = 2, !["edits"] = 1, !["forgets"] = 2, !["deaf"] = 1,
                               !["losses"] = 1, !["loads"] = 1, !["together"] = 2]
Symmetry == Permutations(Server)
AllLimits == {PinLimit, FollowLimit}
===============================================================================
