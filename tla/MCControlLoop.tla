----------------------------- MODULE MCControlLoop -----------------------------
(* Small instances of ControlLoop. *)
EXTENDS ControlLoop

NoLimit == [what \in Happenings |-> 0]
Polled(limit) == [managed |-> TRUE, polling |-> TRUE, limit |-> limit]
Pushed(limit) == [managed |-> TRUE, polling |-> FALSE, limit |-> limit]
Own(limit) == [managed |-> FALSE, polling |-> FALSE, limit |-> limit]

\* Over HTTP: a rollout and a restart command; an exchange is lost or read late, either
\* side restarts; two rollouts with a lost and a throttled exchange. Over a WebSocket: a
\* rollout and a restart command while the second service is away; a restart command
\* while the connection breaks and the Server restarts; a rollout while the connection
\* breaks and the Client restarts. The Client's own Agent: two rollouts over a broken
\* connection and a restart of the Server.
AllSetups ==
    { Polled([NoLimit EXCEPT !["rollouts"] = 1, !["restarts"] = 1, !["losses"] = 1,
          !["late"] = 1, !["wire"] = 1, !["clientStarts"] = 1]),
      Polled([NoLimit EXCEPT !["rollouts"] = 2, !["losses"] = 1, !["throttled"] = 1,
          !["wire"] = 1]),
      Pushed([NoLimit EXCEPT !["rollouts"] = 1, !["restarts"] = 1, !["wire"] = 1,
          !["away"] = 1]),
      Pushed([NoLimit EXCEPT !["restarts"] = 1, !["losses"] = 1, !["wire"] = 1,
          !["serverStarts"] = 1]),
      Pushed([NoLimit EXCEPT !["rollouts"] = 1, !["losses"] = 1, !["wire"] = 1,
          !["clientStarts"] = 1]),
      Own([NoLimit EXCEPT !["rollouts"] = 2, !["losses"] = 1, !["wire"] = 1,
          !["serverStarts"] = 1]) }
================================================================================
