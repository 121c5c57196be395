------------------------------ MODULE MCSelfUpdate ------------------------------
(* Four versions of the Client: the one the host was installed with; one of any    *)
(* fate; one that can fail only once it runs; and the release the third is a       *)
(* pre-release of, which works and has the third's version directory.              *)
EXTENDS SelfUpdate

Versions == 1..4
Cores == <<1, 2, 3, 3>>
AnyFate == {<<"works", second, third, "works">> : second \in Fate, third \in {"works", "dies"}}
AllLimit == [crashes |-> 2, failures |-> 1, rollouts |-> 2, reinstalls |-> 1]

\* The second version ends by itself before the Server answers; nothing else fails.
SecondDies == {<<"works", "dies", "works", "works">>}
LoopLimit == [crashes |-> 0, failures |-> 0, rollouts |-> 1, reinstalls |-> 0]
===============================================================================
