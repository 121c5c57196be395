------------------------------ MODULE ControlLoop ------------------------------
(***************************************************************************)
(* The control loop between one Agent and the Server: the Agent's protocol *)
(* state (opamp client/protocol.rs), its remote configuration (agent.rs,   *)
(* remote_config.rs, engine.rs), the adapter that applies it (process.rs,  *)
(* reconfigure.rs), the transport drivers (client/http.rs, client/ws.rs)   *)
(* and the Server's record of the Agent (fleet.rs).                        *)
(*                                                                         *)
(* Of everything a report may carry the remote configuration status stands *)
(* for the parts that are omitted while unchanged, and `full' for the      *)
(* description, which makes a report a full snapshot.                      *)
(***************************************************************************)
EXTENDS Integers, Sequences, FiniteSets, SequencesExt

CONSTANTS
    Hash,       \* the hashes of the Configurations an operator may roll out
    None,       \* no hash
    SeqSpan,    \* sequence numbers wrap here (2^64 in the code)
    Capacity,   \* of the command and the event channel (16 and 64)
    Setups      \* the pairings of an Agent and a transport, and what happens to them

ASSUME NoneAssumption == None \notin Hash
ASSUME SpanAssumption == SeqSpan \in Nat \ {0, 1} /\ Capacity \in Nat \ {0}
Happenings == {"rollouts", "restarts", "losses", "throttled", "late", "wire",
               "clientStarts", "serverStarts", "away"}
ASSUME SetupsAssumption ==
    Setups \subseteq [managed : BOOLEAN, polling : BOOLEAN, limit : [Happenings -> Nat]]

VARIABLES
    \* The Client's process
    seq,        \* AgentProtocol.sequence_num
    status,     \* AgentProtocol.remote_config_status
    sendFull,   \* AgentProtocol.send_full
    sendStatus, \* AgentProtocol.send_config_status
    owes,       \* SupervisedAgent.owes_report
    pending,    \* Engine.pending_self_config, while the session applies it
    cmds,       \* the commands queued for the adapter
    adapter,    \* what Runner::run does with the configuration in `owed'
    owed,       \* Supervision.owed: the configuration that awaits its verdict
    events,     \* the verdicts on their way back to the Engine
    \* The Client's disk
    stored,     \* AgentStorage: the stored remote configuration
    \* The connection
    link,       \* whether the WebSocket stands ("up" for a polling Client)
    up,         \* reports on their way to the Server
    down,       \* replies on their way to the Client
    late,       \* requests the Client gave up on and the Server may still read
    \* The Server
    rec,        \* AgentRecord, as held in memory
    store,      \* the same record in the Agent store
    desired,    \* the hash of what the record's assignment composes to
    wake,       \* this connection has not yet seen the last change of `push'
    carried,    \* Carrier.seen: this connection has reported the Agent
    \* What happened so far
    restarted,  \* restart commands the adapter carried out
    spent,      \* how much of Limit was used
    setup       \* the member of Setups this is, chosen at the start

protocol == <<seq, status, sendFull, sendStatus, owes>>
process == <<cmds, adapter, owed, events>>
wire == <<up, down, late>>
server == <<rec, store, desired>>
budget == <<spent, setup>>
vars == <<protocol, pending, process, stored, link, wire, server, wake, carried,
          restarted, budget>>

Managed == setup.managed    \* a Supervisor-backed Agent, or the Client's own
Polling == setup.polling    \* plain HTTP, or a WebSocket
Limit == setup.limit        \* how often each thing outside the loop happens

NoStatus == [hash |-> None, state |-> "UNSET"]
Statuses == [hash : Hash, state : {"APPLYING", "APPLIED", "FAILED"}] \cup {NoStatus}
Of(h, s) == [hash |-> h, state |-> s]
Verdict(h, ok) == Of(h, IF ok THEN "APPLIED" ELSE "FAILED")
Restart == None   \* a command is the hash to apply, or a restart
Seq0 == 0 .. SeqSpan - 1
Tick(n) == (n + 1) % SeqSpan
Reports == [seq : Seq0, full : BOOLEAN, status : Statuses]
Replies == [command : BOOLEAN, full : BOOLEAN, offer : Hash \cup {None}]
NoRecord == [known |-> FALSE, seq |-> 0, status |-> NoStatus, described |-> FALSE,
             restart |-> FALSE]

Spend(what) == /\ spent[what] < Limit[what]
               /\ spent' = [spent EXCEPT ![what] = @ + 1] /\ UNCHANGED setup

\* Mutant of Restored: the stored configuration is restored as one being applied.
RestoredApplying(h) == IF h = None THEN NoStatus ELSE Of(h, "APPLYING")

\* The Agent's status after a start: a stored configuration counts as applied.
Restored(h) == IF h = None THEN NoStatus ELSE Of(h, "APPLIED")

Init ==
    /\ setup \in Setups
    /\ seq = 0 /\ status = NoStatus /\ sendFull = TRUE /\ sendStatus = FALSE
    /\ owes = FALSE /\ pending = None
    /\ cmds = <<>> /\ adapter = "idle" /\ owed = None /\ events = <<>>
    /\ stored = None
    /\ link = IF Polling THEN "up" ELSE "down"
    /\ up = <<>> /\ down = <<>> /\ late = {}
    /\ rec = NoRecord /\ store = NoRecord /\ desired = None
    /\ wake = FALSE /\ carried = FALSE /\ restarted = 0
    /\ spent = [what \in Happenings |-> 0]

-------------------------------------------------------------------------------
(* The Client sends                                                        *)

\* A request the Client gave up on does not outlive SeqSpan reports.
Outlived == \E r \in late : Tick(Tick(seq)) = r.seq

\* The next report: a status not sent with it is not owed any more.
SendReport(st, full, withStatus) ==
    /\ ~Outlived
    /\ seq' = Tick(seq)
    /\ up' = Append(up, [seq |-> Tick(seq), full |-> full,
                         status |-> IF full \/ withStatus THEN st ELSE NoStatus])
    /\ sendFull' = FALSE /\ sendStatus' = FALSE /\ owes' = FALSE

\* What follows a handled reply or event: over a WebSocket the reports owed go
\* out at once; a polling Client sends them with its next exchange.
Flush(st, full, withStatus, owing) ==
    IF owing /\ ~Polling /\ link = "up"
    THEN SendReport(st, full, withStatus)
    ELSE /\ sendFull' = full /\ sendStatus' = withStatus /\ owes' = owing
         /\ UNCHANGED <<seq, up>>

\* The session's loop waits: it is not in an exchange, nor applying its own
\* configuration.
Listening == link = "up" /\ pending = None
Between == Listening /\ (Polling => up = <<>> /\ down = <<>>)

\* The routine report (poll or heartbeat), or, for a polling Client, the one owed.
Poll ==
    /\ Between
    /\ Len(up) + Len(down) < Limit["wire"]
    /\ SendReport(status, sendFull, sendStatus)
    /\ UNCHANGED <<status, pending, process, stored, link, down, late, server, wake,
                   carried, restarted, budget>>

\* A new WebSocket starts from a full snapshot.
Connect ==
    /\ ~Polling /\ link = "down" /\ pending = None
    /\ link' = "up" /\ carried' = FALSE /\ wake' = FALSE
    /\ SendReport(status, TRUE, sendStatus)
    /\ UNCHANGED <<status, pending, process, stored, down, late, server, restarted,
                   budget>>

-------------------------------------------------------------------------------
(* The Client handles a reply                                              *)

TakeReply(r) == /\ Listening /\ down # <<>> /\ r = Head(down)
                /\ down' = Tail(down)

\* Nothing but, perhaps, the demand for a full report.
HandlePlain(r) ==
    /\ TakeReply(r) /\ ~r.command /\ r.offer = None
    /\ Flush(status, sendFull \/ r.full, sendStatus, owes \/ r.full)
    /\ UNCHANGED <<status, pending, process, stored, link, late, server, wake, carried,
                   restarted, budget>>

\* A command is all its message carries; the adapter's queue may refuse it.
HandleCommand(r) ==
    /\ TakeReply(r) /\ r.command
    /\ cmds' = IF Managed /\ Len(cmds) < Capacity THEN Append(cmds, Restart) ELSE cmds
    /\ Flush(status, sendFull, sendStatus, owes)
    /\ UNCHANGED <<status, pending, adapter, owed, events, stored, link, late, server,
                   wake, carried, restarted, budget>>

Offered(r, s) == /\ status' = Of(r.offer, s)
                 /\ Flush(Of(r.offer, s), sendFull \/ r.full, TRUE, TRUE)

\* A Supervisor-backed Agent stores the configuration and queues it.
StoreAndQueue(r) ==
    \/ /\ Len(cmds) < Capacity
       /\ stored' = r.offer /\ cmds' = Append(cmds, r.offer)
       /\ Offered(r, "APPLYING")
    \/ /\ Len(cmds) = Capacity
       /\ stored' = r.offer /\ UNCHANGED cmds
       /\ Offered(r, "FAILED")
    \/ UNCHANGED <<stored, cmds>> /\ Offered(r, "FAILED")  \* it cannot be stored

HandleOffer(r) ==
    /\ TakeReply(r) /\ ~r.command /\ r.offer # None
    /\ \/ Managed /\ StoreAndQueue(r) /\ UNCHANGED pending
       \/ /\ ~Managed /\ pending' = r.offer
          /\ Offered(r, "APPLYING") /\ UNCHANGED <<stored, cmds>>
    /\ UNCHANGED <<adapter, owed, events, link, late, server, wake, carried, restarted,
                   budget>>

HandleReply == \E r \in ToSet(down) : HandlePlain(r) \/ HandleCommand(r) \/ HandleOffer(r)

\* The Client's own Agent applies its Supervisor set while its session waits; only
\* a set that was applied is stored, if it can be.
ApplySelf ==
    /\ pending # None /\ pending' = None
    /\ \E ok \in BOOLEAN :
          /\ stored' \in IF ok THEN {pending, stored} ELSE {stored}
          /\ status' = Verdict(pending, ok)
          /\ Flush(Verdict(pending, ok), sendFull, TRUE, TRUE)
    /\ UNCHANGED <<process, link, down, late, server, wake, carried, restarted, budget>>

\* A verdict of the adapter: reported at once, whatever was offered since.
Absorb ==
    /\ Between /\ events # <<>> /\ (Polling => ~owes)
    /\ events' = Tail(events) /\ status' = Head(events)
    /\ SendReport(Head(events), sendFull, TRUE)
    /\ UNCHANGED <<pending, cmds, adapter, owed, stored, link, down, late, server, wake,
                   carried, restarted, budget>>

-------------------------------------------------------------------------------
(* The adapter                                                             *)

\* A configuration still owed its verdict is superseded by the next; a restart
\* decides none.
TakeCommand ==
    /\ adapter \in {"idle", "waiting"} /\ cmds # <<>>
    /\ cmds' = Tail(cmds)
    /\ IF Head(cmds) = Restart
       THEN restarted' = restarted + 1 /\ UNCHANGED <<adapter, owed>>
       ELSE adapter' = "starting" /\ owed' = Head(cmds) /\ UNCHANGED restarted
    /\ UNCHANGED <<protocol, pending, events, stored, link, wire, server, wake, carried,
                   budget>>

\* The second service was not reached: the configuration stays owed.
ServiceAway ==
    /\ adapter = "starting" /\ adapter' = "waiting" /\ Spend("away")
    /\ UNCHANGED <<protocol, pending, cmds, owed, events, stored, link, wire, server,
                   wake, carried, restarted>>

Retry ==
    /\ adapter = "waiting" /\ adapter' = "starting"
    /\ UNCHANGED <<protocol, pending, cmds, owed, events, stored, link, wire, server,
                   wake, carried, restarted, budget>>

\* The program survived the apply grace, or did not.
Settle ==
    /\ adapter = "starting" /\ Len(events) < Capacity
    /\ \E ok \in BOOLEAN : events' = Append(events, Verdict(owed, ok))
    /\ adapter' = "idle" /\ owed' = None
    /\ UNCHANGED <<protocol, pending, cmds, stored, link, wire, server, wake, carried,
                   restarted, budget>>

-------------------------------------------------------------------------------
(* The Server                                                              *)

\* Mutant of Demands: a gap in the sequence numbers is not noticed.
DemandsUnknown(r) == ~r.full /\ ~rec.known

\* A compressed report is of use only where the record is current.
Demands(r) == ~r.full /\ (~rec.known \/ r.seq # Tick(rec.seq))

\* The record with what the report carries in it.
Heard(r) ==
    [rec EXCEPT !.known = TRUE, !.seq = r.seq, !.described = @ \/ r.full,
                !.status = IF r.status = NoStatus THEN @ ELSE r.status]

\* The queued restart is cleared in the store first, and delivered if it was there.
TakesRestart(r) == rec.restart /\ Managed /\ ~Demands(r)

OfferTo(st) == IF desired # None /\ st.hash # desired THEN desired ELSE None

\* Mutant of Persisted: the stored record keeps its queued restart.
PersistedKeeping(record) ==
    IF [record EXCEPT !.seq = 0] = [store EXCEPT !.seq = 0] THEN store
    ELSE [record EXCEPT !.restart = @ \/ store.restart]

\* A record is written when it changed in more than its sequence number.
Persisted(record) ==
    IF [record EXCEPT !.seq = 0] = [store EXCEPT !.seq = 0] THEN store ELSE record

Process(r) ==
    LET record == [Heard(r) EXCEPT !.restart = @ /\ ~TakesRestart(r)]
    IN  rec' = record /\ store' = Persisted(record)

Answer(r) ==
    LET command == TakesRestart(r) /\ store.restart
    IN  [command |-> command, full |-> ~command /\ Demands(r),
         offer |-> IF command THEN None ELSE OfferTo(Heard(r).status)]

OnMessage ==
    /\ link = "up" /\ up # <<>>
    /\ up' = Tail(up)
    /\ Process(Head(up))
    /\ down' = Append(down, Answer(Head(up)))
    /\ carried' = TRUE
    /\ UNCHANGED <<protocol, pending, process, stored, link, late, desired, wake,
                   restarted, budget>>

\* A request the Client gave up on is read at last; nobody reads the answer.
OnLateMessage ==
    /\ \E r \in late : late' = late \ {r} /\ Process(r)
    /\ UNCHANGED <<protocol, pending, process, stored, link, up, down, desired, wake,
                   carried, restarted, budget>>

\* A change wakes the socket's loop: a restart goes first, in its own message.
Push ==
    /\ link = "up" /\ wake /\ ~Polling /\ wake' = FALSE
    /\ LET command == carried /\ rec.restart
           offer == IF carried THEN OfferTo(rec.status) ELSE None
       IN  /\ rec' = [rec EXCEPT !.restart = @ /\ ~command]
           /\ store' = [store EXCEPT !.restart = @ /\ ~command]
           /\ down' = down
                \o (IF command /\ store.restart
                    THEN <<[command |-> TRUE, full |-> FALSE, offer |-> None]>> ELSE <<>>)
                \o (IF offer # None
                    THEN <<[command |-> FALSE, full |-> FALSE, offer |-> offer]>> ELSE <<>>)
    /\ UNCHANGED <<protocol, pending, process, stored, link, up, late, desired, carried,
                   restarted, budget>>

Rollout ==
    /\ rec.known /\ Spend("rollouts")
    /\ \E h \in Hash \ {desired} : desired' = h
    /\ wake' = (link = "up")
    /\ UNCHANGED <<protocol, pending, process, stored, link, wire, rec, store, carried,
                   restarted>>

RequestRestart ==
    /\ Managed /\ rec.known /\ Spend("restarts")
    /\ rec' = [rec EXCEPT !.restart = TRUE] /\ store' = [store EXCEPT !.restart = TRUE]
    /\ wake' = (link = "up")
    /\ UNCHANGED <<protocol, pending, process, stored, link, wire, desired, carried,
                   restarted>>

-------------------------------------------------------------------------------
(* What goes wrong                                                         *)

\* The connection as the Client finds it once it failed: an exchange that was lost
\* forces a full report, and so does a new WebSocket.
Broken ==
    /\ up' = <<>> /\ down' = <<>> /\ wake' = FALSE /\ carried' = FALSE
    /\ link' = IF Polling THEN "up" ELSE "down"
    /\ sendFull' = (sendFull \/ (Polling /\ (up # <<>> \/ down # <<>>)))

\* The exchange or the connection is lost; the Server may still read the request.
Lose ==
    /\ Spend("losses") /\ link = "up" /\ (Polling => up # <<>> \/ down # <<>>)
    /\ Broken
    /\ \/ UNCHANGED late
       \/ /\ Polling /\ up # <<>> /\ Cardinality(late) < Limit["late"]
          /\ late' = late \cup {Head(up)}
    /\ UNCHANGED <<seq, status, sendStatus, owes, pending, process, stored, server,
                   restarted>>

LateLost ==
    /\ \E r \in late : late' = late \ {r}
    /\ UNCHANGED <<protocol, pending, process, stored, link, up, down, server, wake,
                   carried, restarted, budget>>

\* 429, 503 or UNAVAILABLE: the report was not processed and is not sent again.
Throttle ==
    /\ Polling /\ up # <<>> /\ Spend("throttled")
    /\ up' = <<>>
    /\ UNCHANGED <<protocol, pending, process, stored, link, down, late, server, wake,
                   carried, restarted>>

\* The Client's process ends and starts again; what it had sent is read or lost.
ClientRestarts ==
    /\ Spend("clientStarts") /\ late = {}
    /\ seq' = 0 /\ status' = Restored(stored) /\ sendFull' = TRUE /\ sendStatus' = FALSE
    /\ owes' = FALSE /\ pending' = None
    /\ cmds' = <<>> /\ adapter' = "idle" /\ owed' = None /\ events' = <<>>
    /\ up' = <<>> /\ down' = <<>> /\ wake' = FALSE /\ carried' = FALSE
    /\ link' = IF Polling THEN "up" ELSE "down"
    /\ UNCHANGED <<stored, late, server, restarted>>

\* The Server ends, with its last write of the record or without, and starts again.
ServerRestarts ==
    /\ Spend("serverStarts")
    /\ \E flushed \in BOOLEAN :
          store' = IF flushed /\ rec.known THEN rec ELSE store
    /\ rec' = store' /\ late' = {}
    /\ Broken
    /\ UNCHANGED <<seq, status, sendStatus, owes, pending, process, stored, desired,
                   restarted>>

-------------------------------------------------------------------------------
Client == Poll \/ Connect \/ HandleReply \/ ApplySelf \/ Absorb
Adapter == TakeCommand \/ ServiceAway \/ Retry \/ Settle
Server == OnMessage \/ OnLateMessage \/ Push \/ Rollout \/ RequestRestart
Faults == Lose \/ LateLost \/ Throttle \/ ClientRestarts \/ ServerRestarts
Next == Client \/ Adapter \/ Server \/ Faults

Spec == Init /\ [][Next]_vars

\* Every process that is up takes its next step: the drivers poll or beat without
\* end, the adapter gates what it started, the Server reads what arrives, and what is
\* on its way is read or lost in the end. The
\* drivers' select! takes its ready branches in a random order, so a verdict that is
\* ready again and again is absorbed.
Fairness ==
    /\ WF_vars(Poll) /\ WF_vars(Connect) /\ WF_vars(HandleReply) /\ WF_vars(ApplySelf)
    /\ SF_vars(Absorb) /\ WF_vars(TakeCommand) /\ WF_vars(Retry) /\ WF_vars(Settle)
    /\ WF_vars(OnMessage) /\ WF_vars(Push) /\ WF_vars(OnLateMessage \/ LateLost)

FairSpec == Spec /\ Fairness

-------------------------------------------------------------------------------
\* The shape of the state; queues within their capacity, nothing on a connection that
\* is down, and a configuration owed its verdict exactly while the adapter has it
\* (Supervision.owed).
LoopTypeOK ==
    /\ seq \in Seq0 /\ status \in Statuses
    /\ sendFull \in BOOLEAN /\ sendStatus \in BOOLEAN /\ owes \in BOOLEAN
    /\ pending \in Hash \cup {None} /\ stored \in Hash \cup {None}
    /\ cmds \in Seq(Hash \cup {Restart}) /\ Len(cmds) <= Capacity
    /\ adapter \in {"idle", "starting", "waiting"} /\ owed \in Hash \cup {None}
    /\ (owed = None <=> adapter = "idle")
    /\ events \in Seq(Statuses) /\ Len(events) <= Capacity
    /\ link \in {"up", "down"} /\ up \in Seq(Reports) /\ down \in Seq(Replies)
    /\ (link = "down" => up = <<>> /\ down = <<>>)
    /\ late \subseteq Reports
    /\ {rec, store} \subseteq [known : BOOLEAN, seq : Seq0, status : Statuses,
                               described : BOOLEAN, restart : BOOLEAN]
    /\ desired \in Hash \cup {None} /\ wake \in BOOLEAN /\ carried \in BOOLEAN
    /\ restarted \in Nat /\ spent \in [Happenings -> Nat]
    /\ setup \in Setups

\* A restart an operator asked for once is carried out once at most, whatever is
\* lost, pushed or restored from the store in between (take_restart).
Among(queue, values) == Cardinality({i \in 1 .. Len(queue) : queue[i] \in values})
Commands == [command : {TRUE}, full : BOOLEAN, offer : Hash \cup {None}]
Queued == IF rec.restart \/ store.restart THEN 1 ELSE 0
RestartOnce ==
    restarted + Among(cmds, {Restart}) + Among(down, Commands) + Queued <= spent["restarts"]

\* Reports on their way are numbered one after the other up to the last one built, a
\* polling Client has one exchange at a time, and a command demands nothing.
Numbered ==
    /\ up # <<>> => up[Len(up)].seq = seq
    /\ \A i \in 1 .. Len(up) - 1 : up[i + 1].seq = Tick(up[i].seq)
    /\ Polling => link = "up" /\ Len(up) + Len(down) <= 1
    /\ \A r \in ToSet(down) : r.command => ~r.full

\* The report next to a request the Client gave up on is a full one.
LateApart ==
    /\ late # {} => Polling
    /\ \A r \in late : /\ Tick(seq) # r.seq
                       /\ r.seq = seq => sendFull /\ up = <<>>
                       /\ Tick(r.seq) = seq /\ up # <<>> => Head(up).full

\* The store's copy differs in its sequence number at most.
SameInStore == [rec EXCEPT !.seq = 0] = [store EXCEPT !.seq = 0]

\* The Agent's status is owed, or the last report on its way that carries one has it,
\* or none does.
Carries(i) == up[i].full \/ up[i].status # NoStatus
Owed == sendFull \/ sendStatus \/ status = NoStatus
Latest ==
    \E i \in 1 .. Len(up) :
        up[i].status = status /\ \A k \in i + 1 .. Len(up) : ~Carries(k)
StatusTravels == Owed \/ Latest \/ \A i \in 1 .. Len(up) : ~Carries(i)

\* A record the next report would be taken to follow has what the reports before it
\* carried, or a full one is demanded; and so has the stored one.
Expected == IF up = <<>> THEN Tick(seq) ELSE Head(up).seq
Demanded == sendFull \/ \E r \in ToSet(down) : r.full
Current(record) ==
    /\ record.described \/ \E i \in 1 .. Len(up) : up[i].full
    /\ Owed \/ Latest \/ record.status = status
RecordFollows ==
    spent["throttled"] = 0 /\ link = "up" /\ rec.known =>
        /\ Tick(rec.seq) = Expected => Demanded \/ Current(rec)
        /\ Polling /\ up = <<>> /\ store.seq = seq => Demanded \/ Current(store)

\* The loop's state is sound: its shape, the queues and the verdict owed, a restart in
\* one place at most, and the reports on their way, late and processed against what the
\* Agent has told (Supervision, take_restart, next_report, process_presented).
LoopInv ==
    /\ LoopTypeOK /\ RestartOnce
    /\ Numbered /\ LateApart /\ SameInStore /\ StatusTravels /\ RecordFollows

\* Omitting what did not change never leaves the Server behind: once the last report
\* is processed, nothing is owed and nothing is on its way, the record holds the
\* status the Agent has (next_report, process_presented). But for a throttled report,
\* which is not sent again: the gap it leaves is noticed until the Client restarts and
\* counts from one again.
InStep ==
    /\ link = "up" /\ rec.known /\ rec.seq = seq /\ up = <<>> /\ down = <<>>
    /\ ~sendFull /\ ~sendStatus
    /\ spent["throttled"] = 0 \/ spent["clientStarts"] = 0
    => /\ rec.described
       /\ status # NoStatus => rec.status = status

\* The loop closes: once the operator and the faults leave it alone, the Server
\* holds the Agent's verdict on the configuration assigned to it.
LoopCloses ==
    <>[](desired # None => rec.status.hash = desired /\ rec.status.state # "APPLYING")
================================================================================
