-------------------------------- MODULE Presence --------------------------------
(***************************************************************************)
(* Who carries an Agent: one Agent, its WebSockets to several Server       *)
(* instances, the record each instance holds of it (fleet.rs), the sockets *)
(* that carry it (transport.rs), and its row in the shared database        *)
(* (postgres/agents.rs), with the takes, the presence batches, the         *)
(* announcements and the forgetting that change it.                        *)
(*                                                                         *)
(* What the Agent reports is one number, its content, that grows with      *)
(* every change. Times are abstracted to whether the last report is longer *)
(* ago than the staleness budget (`quiet').                                *)
(***************************************************************************)
EXTENDS Integers, FiniteSets

CONSTANTS
    Instance,   \* the Server's instances
    Limits      \* bounds: how often each thing outside the protocol happens in a
                \* behaviour, and how many of them together

ASSUME InstanceAssumption == Instance # {} /\ IsFiniteSet(Instance)
Faults == {"changes", "late", "fails", "landed", "landed writes", "quiets", "forgets",
           "losses", "leases", "stops", "aborts", "crashes"}
Bounded == Faults \cup {"conns", "together"}
ASSUME LimitsAssumption ==
    IsFiniteSet(Limits) /\ Limits # {} /\ Limits \subseteq [Bounded -> Nat]

VARIABLES
    \* The Agent
    content,    \* what it would report now
    live,       \* the connection it uses, or NoConn
    parted,     \* it was assigned another identity, and the record was not
    \* The sockets
    conn,       \* ConnId -> the socket as the Server has it (Carrier)
    ended,      \* AppState.forgotten: connections whose session is to end
    \* An instance
    stage,      \* where its process is
    held,       \* the lease it holds, or NoLease
    under,      \* opened_under: what it held when its planes were opened
    rec,        \* the record of the Agent it holds (AppState.fleet)
    written,    \* AppState.written: the content last written of it
    noted,      \* AppState.presence_written
    batch,      \* a presence batch on its way
    hear,       \* announcements of other instances not yet taken up
    \* The database
    row,        \* the Agent's row in `agents'
    leases,     \* the leases that are live
    astray,     \* calls given up on that may still reach it
    spent       \* how often each thing happened

agent == <<content, live, parted>>
sockets == <<conn, ended>>
memory == <<rec, written, noted>>
serving == <<held, under>>
database == <<row, leases, astray>>
vars == <<agent, sockets, stage, serving, memory, batch, hear, database, spent>>

Conn == UNION {1 .. limit["conns"] : limit \in Limits}
NoConn == 0
NoLease == 0
Absent == -1      \* no value: no content written or read, no count of takes
Unread == -2      \* the row was not read yet

NoRow == [stored |-> FALSE, holder |-> NoLease, connected |-> FALSE, takes |-> 0,
          data |-> Absent, quiet |-> FALSE]
NewRow == [NoRow EXCEPT !.stored = TRUE, !.data = 0]
NoRecord == [known |-> FALSE, connected |-> FALSE, owner |-> NoConn, heard |-> FALSE,
             data |-> Absent, quiet |-> FALSE]
NothingNoted == [holder |-> NoLease, known |-> FALSE, connected |-> FALSE,
                 current |-> FALSE, take |-> Absent]
NoBatch == [step |-> "none", holder |-> NoLease, connected |-> FALSE, quiet |-> FALSE,
            current |-> FALSE, take |-> Absent]
Closed == [at |-> CHOOSE i \in Instance : TRUE, open |-> FALSE, seen |-> FALSE,
           mail |-> Absent, read |-> Unread]

\* One lease per instance to begin with, and those taken later.
Lease == UNION {1 .. Cardinality(Instance) + limit["leases"] : limit \in Limits}
NextLease == Cardinality(Instance) + spent["leases"] + 1

\* One of the bounds allows what happened and this as well.
Allowed(what) ==
    \E limit \in Limits : /\ spent[what] < limit[what]
                          /\ what # "conns" => spent["together"] < limit["together"]
                          /\ \A w \in Bounded : spent[w] <= limit[w]
Spend(what) ==
    Allowed(what) /\ spent' = [spent EXCEPT ![what] = @ + 1, !["together"] = @ + 1]

Init ==
    /\ content = 1 /\ live = NoConn /\ parted = FALSE
    /\ conn = [c \in Conn |-> Closed] /\ ended = {}
    /\ stage = [i \in Instance |-> "up"]
    /\ held = CHOOSE f \in [Instance -> 1 .. Cardinality(Instance)] :
                    \A i, j \in Instance : f[i] = f[j] => i = j
    /\ under = held
    /\ rec = [i \in Instance |-> NoRecord]
    /\ written = [i \in Instance |-> Absent]
    /\ noted = [i \in Instance |-> NothingNoted]
    /\ batch = [i \in Instance |-> NoBatch]
    /\ hear = [i \in Instance |-> {}]
    /\ row = NoRow /\ leases = 1 .. Cardinality(Instance) /\ astray = {}
    /\ spent = [what \in Bounded |-> 0]

\* NOTIFY, in the transaction that changes the row: every other instance hears it.
Announce(i, what) ==
    hear' = [j \in Instance |-> IF j # i /\ stage[j] # "down" THEN hear[j] \cup {what}
                                ELSE hear[j]]

\* A call of instance i the database did not answer in time (run_within). Its caller
\* goes on as if it had failed; it may have, or may reach the database later.
Call(kind, i, holder) ==
    [kind |-> kind, by |-> i, no |-> spent["fails"], holder |-> holder, take |-> Absent,
     connected |-> FALSE, quiet |-> FALSE, data |-> Absent]
WriteCall(i, data) == [Call("write", i, NoLease) EXCEPT !.data = data]

\* The calls once the process that made them is gone.
Nobody == "nobody"
Orphaned(i, calls) == {[call EXCEPT !.by = IF @ = i THEN Nobody ELSE @] : call \in calls}

-------------------------------------------------------------------------------
(* The Agent                                                               *)

\* It opens a new WebSocket, whose first message is its full report. Of the one it
\* used before the Server may hear nothing for long; what it had sent on it is lost,
\* or read later.
Connect(i) ==
    LET c == spent["conns"] + 1
        opened == [Closed EXCEPT !.at = i, !.open = TRUE, !.mail = content]
    IN  /\ stage[i] = "up" /\ ~parted /\ Allowed("conns")
        /\ live' = c
        /\ \/ /\ spent' = [spent EXCEPT !["conns"] = c]
              /\ conn' = [d \in Conn |-> IF d = c THEN opened
                                         ELSE IF d = live THEN [conn[d] EXCEPT !.mail = Absent]
                                         ELSE conn[d]]
           \/ /\ live # NoConn /\ conn[live].mail # Absent /\ Allowed("late")
              /\ spent' = [spent EXCEPT !["conns"] = c, !["late"] = @ + 1,
                                       !["together"] = @ + 1]
              /\ conn' = [conn EXCEPT ![c] = opened]
        /\ UNCHANGED <<content, parted, ended, stage, serving, memory, batch, hear, database>>

\* A report, or a heartbeat, which carries what was reported before.
Report ==
    /\ live # NoConn /\ conn[live].open /\ conn[live].mail = Absent
    /\ conn' = [conn EXCEPT ![live].mail = content]
    /\ UNCHANGED <<agent, ended, stage, serving, memory, batch, hear, database, spent>>

Change ==
    /\ Spend("changes") /\ content' = content + 1
    /\ UNCHANGED <<live, parted, sockets, stage, serving, memory, batch, hear, database>>

\* It has not reported for the staleness budget.
FallQuiet ==
    /\ Spend("quiets") /\ \A c \in Conn : conn[c].mail = Absent
    /\ rec' = [i \in Instance |-> [rec[i] EXCEPT !.quiet = @ \/ rec[i].known]]
    /\ row' = [row EXCEPT !.quiet = row.stored]
    /\ batch' = [i \in Instance |-> [batch[i] EXCEPT !.quiet = batch[i].step = "read"]]
    /\ astray' = {[call EXCEPT !.quiet = TRUE] : call \in astray}
    /\ UNCHANGED <<agent, sockets, stage, serving, written, noted, hear, leases>>

-------------------------------------------------------------------------------
(* A report is processed                                                   *)

Waiting(c) == conn[c].open /\ conn[c].mail # Absent

\* hold_from_store: the row is read before the fleet lock is taken. One that cannot be
\* read counts as none.
HoldFromStore(c) ==
    /\ Waiting(c) /\ conn[c].read = Unread /\ ~rec[conn[c].at].known
    /\ \/ conn' = [conn EXCEPT ![c].read = row.data] /\ UNCHANGED spent
       \/ conn' = [conn EXCEPT ![c].read = Absent] /\ Spend("fails")
    /\ UNCHANGED <<agent, ended, stage, serving, memory, batch, hear, database>>

FromPersisted(data) == [NoRecord EXCEPT !.known = TRUE, !.data = data]

\* The record the report goes on from: what is held, else what was read, else what
\* create_within finds.
Base(c) ==
    LET i == conn[c].at IN
    IF rec[i].known THEN rec[i]
    ELSE IF conn[c].read # Absent THEN FromPersisted(conn[c].read)
    ELSE IF row.stored THEN FromPersisted(row.data) ELSE NoRecord

Ready(c) == Waiting(c) /\ (rec[conn[c].at].known \/ conn[c].read # Unread)
Handled(c) == [conn EXCEPT ![c].mail = Absent, ![c].read = Unread]

\* The same identity is alive on another socket of this instance.
Duplicate(c) == Base(c).connected /\ Base(c).owner \notin {NoConn, c}

\* The newcomer is assigned a new identity, and starts a record of its own.
Rekey(c) ==
    /\ Ready(c) /\ Duplicate(c)
    /\ conn' = Handled(c)
    /\ live' = IF c = live THEN NoConn ELSE live
    /\ parted' = (parted \/ c = live)
    /\ UNCHANGED <<content, ended, stage, serving, memory, batch, hear, database, spent>>

\* PresenceWritten::under: starts over under another holder.
Under(n, holder) == IF n.holder = holder THEN n ELSE [NothingNoted EXCEPT !.holder = holder]

\* PresenceWritten::remove
Unnoted(i) == [NothingNoted EXCEPT !.holder = noted[i].holder]

\* AgentStore::take
Taken(r, holder) ==
    [r EXCEPT !.holder = holder, !.connected = TRUE, !.takes = @ + 1, !.quiet = FALSE]

\* The content last written, as persist compares it with the report's: a record just
\* loaded is what was read.
Before(c) ==
    IF rec[conn[c].at].known \/ ~Base(c).known THEN written[conn[c].at] ELSE Base(c).data

\* create_within fails: the report is answered as unavailable, and nothing is held.
CreateFails(c) ==
    /\ Ready(c) /\ ~rec[conn[c].at].known /\ conn[c].read = Absent
    /\ conn' = Handled(c)
    /\ astray' = astray \cup {Call("create", conn[c].at, NoLease)}
    /\ UNCHANGED <<agent, ended, stage, serving, memory, batch, hear, row, leases>>

\* The report is taken into the record, the Agent taken where the report connects it, and
\* the record written where it changed. The calls that `fails' names are given up on.
Process(c, fails) ==
    LET i == conn[c].at
        v == conn[c].mail
        base == Base(c)
        created == ~base.known
        row1 == IF created THEN NewRow ELSE row
        connects == created \/ ~base.connected \/ base.owner # c
        takes == connects /\ held[i] # NoLease /\ row1.stored /\ "take" \notin fails
        row2 == IF takes THEN Taken(row1, held[i]) ELSE row1
        dirty == Before(c) # v
        forgotten == dirty /\ ~row2.stored /\ "write" \notin fails
        writes == dirty /\ row2.stored /\ "write" \notin fails
        moved == [noted[i] EXCEPT !.current = FALSE]
    IN  /\ Ready(c) /\ ~Duplicate(c)
        /\ "take" \in fails => connects /\ held[i] # NoLease
        /\ "write" \in fails => dirty
        /\ astray' = astray
              \cup (IF "take" \in fails THEN {Call("take", i, held[i])} ELSE {})
              \cup (IF "write" \in fails THEN {WriteCall(i, v)} ELSE {})
        /\ row' = IF writes THEN [row2 EXCEPT !.data = v, !.quiet = FALSE] ELSE row2
        /\ IF takes /\ row1.holder \notin {NoLease, held[i]}
           THEN Announce(i, "taken") ELSE UNCHANGED hear
        /\ IF forgotten
           THEN /\ rec' = [rec EXCEPT ![i] = NoRecord]
                /\ written' = [written EXCEPT ![i] = Absent]
                /\ noted' = [noted EXCEPT ![i] = Unnoted(i)]
                /\ ended' = ended \cup {c}
                /\ conn' = Handled(c)
           ELSE /\ rec' = [rec EXCEPT ![i] = [known |-> TRUE, connected |-> TRUE,
                              owner |-> c, heard |-> TRUE, data |-> v, quiet |-> FALSE]]
                /\ written' = [written EXCEPT ![i] = IF writes THEN v ELSE Before(c)]
                /\ noted' = [noted EXCEPT ![i] =
                      IF takes
                      THEN [Under(@, held[i]) EXCEPT !.known = TRUE, !.connected = TRUE,
                                                     !.current = TRUE, !.take = row2.takes]
                      ELSE moved]
                /\ conn' = [Handled(c) EXCEPT ![c].seen = TRUE]
                /\ UNCHANGED ended
        /\ batch' = [batch EXCEPT ![i].current = FALSE]
        /\ UNCHANGED <<agent, stage, serving, leases>>

OnMessage(c) ==
    \/ Rekey(c)
    \/ Process(c, {}) /\ UNCHANGED spent
    \/ \E fails \in SUBSET {"take", "write"} : fails # {} /\ Process(c, fails) /\ Spend("fails")
    \/ CreateFails(c) /\ Spend("fails")

-------------------------------------------------------------------------------
(* A socket ends                                                           *)

\* mark_disconnected: only what the connection carried and still owns.
Disconnected(i, C) ==
    IF \E c \in C : conn[c].seen /\ rec[i].owner = c
    THEN [rec[i] EXCEPT !.connected = FALSE, !.owner = NoConn] ELSE rec[i]

At(i) == {c \in Conn : conn[c].open /\ conn[c].at = i}

CloseAll(C) ==
    /\ conn' = [c \in Conn |-> IF c \in C THEN Closed ELSE conn[c]]
    /\ live' = IF live \in C THEN NoConn ELSE live

\* The listener's deadline: a session still open is aborted, wherever its task waits, and
\* never comes to on_closed. One that was told in time has closed before (OnClosed).
Abort(i) ==
    /\ CloseAll(At(i)) /\ UNCHANGED ended
    /\ IF At(i) = {} THEN UNCHANGED spent ELSE Spend("aborts")

\* Mutant of OnClosed: the record is not marked.
OnClosedUnmarked(c) ==
    /\ conn[c].open /\ CloseAll({c}) /\ ended' = ended \ {c}
    /\ UNCHANGED <<content, parted, stage, serving, memory, batch, hear, database, spent>>

OnClosed(c) ==
    /\ conn[c].open
    /\ CloseAll({c}) /\ ended' = ended \ {c}
    /\ rec' = [rec EXCEPT ![conn[c].at] = Disconnected(conn[c].at, {c})]
    /\ UNCHANGED <<content, parted, stage, serving, written, noted, batch, hear, database,
                   spent>>

\* on_outbound of a connection whose Agent was forgotten: it carries it no more, and
\* closes (OnClosed), once it has read what waited.
EndSession(c) ==
    /\ conn[c].open /\ c \in ended
    /\ ended' = ended \ {c}
    /\ conn' = [conn EXCEPT ![c].seen = FALSE]
    /\ UNCHANGED <<agent, stage, serving, memory, batch, hear, database, spent>>

-------------------------------------------------------------------------------
(* The presence batch                                                      *)

\* What write_presence reads under the fleet lock: the Agent, where its presence
\* moved since the last batch under this holder.
Moved(i) ==
    LET n == Under(noted[i], held[i])
    IN  rec[i].known /\ IF n.known THEN n.connected # rec[i].connected \/ ~n.current
                        ELSE rec[i].connected

Batched(i) ==
    [step |-> "read", holder |-> held[i], connected |-> rec[i].connected,
     quiet |-> rec[i].quiet, current |-> TRUE, take |-> Under(noted[i], held[i]).take]

\* A batch is read: what was noted of an Agent no longer held goes.
ReadBatch(i) ==
    /\ stage[i] # "down" /\ held[i] # NoLease /\ batch[i].step = "none"
    /\ batch' = [batch EXCEPT ![i] = IF Moved(i) THEN Batched(i) ELSE @]
    /\ noted' = [noted EXCEPT ![i] = Under(IF rec[i].known THEN @ ELSE NothingNoted, held[i])]
    /\ UNCHANGED <<agent, sockets, stage, serving, rec, written, hear, database, spent>>

\* The row a batch may write: nobody's, its own, or one whose holder's lease is gone.
Free(b) == row.holder \in {NoLease, b.holder} \/ row.holder \notin leases

\* Mutant of BatchRow: a disconnect is written whatever took the Agent since.
BatchRowAnyTake(b) ==
    IF row.stored /\ (IF b.connected THEN Free(b) ELSE row.holder = b.holder)
    THEN [row EXCEPT !.holder = IF b.connected THEN b.holder ELSE NoLease,
                     !.connected = b.connected, !.quiet = @ /\ b.quiet,
                     !.takes = IF b.connected /\ row.holder # b.holder THEN @ + 1 ELSE @]
    ELSE row

\* AgentStore::write_presence: a disconnect is written only under the take it had.
BatchRow(b) ==
    IF b.connected
    THEN IF row.stored /\ Free(b)
         THEN [row EXCEPT !.holder = b.holder, !.connected = TRUE,
                          !.takes = IF row.holder = b.holder THEN @ ELSE @ + 1,
                          !.quiet = @ /\ b.quiet]
         ELSE row
    ELSE IF row.stored /\ row.holder = b.holder /\ row.takes = b.take
         THEN [row EXCEPT !.holder = NoLease, !.connected = FALSE, !.quiet = @ /\ b.quiet]
         ELSE [row EXCEPT !.quiet = @ /\ b.quiet]

BatchTake(b) == IF b.connected /\ row.stored /\ Free(b) THEN BatchRow(b).takes ELSE Absent

BatchCall(i, b) ==
    [Call("batch", i, b.holder) EXCEPT !.take = b.take, !.connected = b.connected,
                                       !.quiet = b.quiet]

WriteBatch(i) ==
    /\ batch[i].step = "read"
    /\ \/ /\ row' = BatchRow(batch[i])
          /\ batch' = [batch EXCEPT ![i].step = "written", ![i].take = BatchTake(batch[i])]
          /\ UNCHANGED <<astray, spent>>
       \/ /\ astray' = astray \cup {BatchCall(i, batch[i])} /\ Spend("fails")
          /\ batch' = [batch EXCEPT ![i] = NoBatch]
          /\ UNCHANGED row
    /\ UNCHANGED <<agent, sockets, stage, serving, memory, hear, leases>>

\* The answer is noted, whatever happened to the record since the batch was read.
BatchAnswered(i) ==
    LET b == batch[i]
        n == Under(noted[i], b.holder)
    IN  /\ b.step = "written"
        /\ noted' = [noted EXCEPT ![i] =
              [n EXCEPT !.known = TRUE, !.connected = b.connected, !.current = b.current,
                        !.take = IF b.take > @ THEN b.take ELSE @]]
        /\ batch' = [batch EXCEPT ![i] = NoBatch]
        /\ UNCHANGED <<agent, sockets, stage, serving, rec, written, hear, database, spent>>

-------------------------------------------------------------------------------
(* What other instances announce                                           *)

\* The record goes, what is noted of it with it, and the session that carries it ends.
Dropped(i) ==
    /\ rec' = [rec EXCEPT ![i] = NoRecord]
    /\ written' = [written EXCEPT ![i] = Absent]
    /\ noted' = [noted EXCEPT ![i] = Unnoted(i)]
    /\ ended' = IF rec[i].connected /\ rec[i].owner # NoConn
                THEN ended \cup {rec[i].owner} ELSE ended

\* take_up_agents: a record the store no longer holds is dropped.
TakeUp(i) ==
    /\ "agent" \in hear[i] /\ hear' = [hear EXCEPT ![i] = @ \ {"agent"}]
    /\ IF rec[i].known /\ ~row.stored THEN Dropped(i) ELSE UNCHANGED <<memory, ended>>
    /\ UNCHANGED <<agent, conn, stage, serving, batch, database, spent>>

\* release_taken: an Agent the row no longer names this instance for is not carried.
ReleaseTaken(i) ==
    /\ "taken" \in hear[i] /\ hear' = [hear EXCEPT ![i] = @ \ {"taken"}]
    /\ IF held[i] # NoLease /\ rec[i].connected /\ row.stored /\ row.holder # held[i]
       THEN /\ rec' = [rec EXCEPT ![i].connected = FALSE, ![i].owner = NoConn]
            /\ noted' = IF noted[i].holder = held[i]
                        THEN [noted EXCEPT ![i].known = TRUE, ![i].connected = FALSE,
                                           ![i].current = TRUE]
                        ELSE noted
       ELSE UNCHANGED <<rec, noted>>
    /\ UNCHANGED <<agent, sockets, stage, serving, written, batch, database, spent>>

\* forget_agent through one instance: refused while the record it holds, or the row
\* under a live lease, says the Agent reports.
Forget(i) ==
    /\ stage[i] = "up" /\ Spend("forgets")
    /\ ~(rec[i].connected /\ ~rec[i].quiet)
    /\ \/ /\ row.stored /\ ~(row.connected /\ row.holder \in leases /\ ~row.quiet)
          /\ row' = NoRow /\ Announce(i, "agent")
       \/ ~row.stored /\ rec[i].known /\ UNCHANGED <<row, hear>>
    /\ Dropped(i)
    /\ UNCHANGED <<agent, conn, stage, serving, batch, leases, astray>>

-------------------------------------------------------------------------------
(* The instances come and go                                               *)

\* The lease is lost. The planes are still open: what is read on them is not taken.
LoseLease(i) ==
    /\ held[i] # NoLease /\ Spend("losses")
    /\ held' = [held EXCEPT ![i] = NoLease]
    /\ UNCHANGED <<agent, sockets, stage, under, memory, batch, hear, database>>

TakeLease(i) ==
    /\ stage[i] # "down" /\ held[i] = NoLease /\ Spend("leases")
    /\ held' = [held EXCEPT ![i] = NextLease] /\ leases' = leases \cup {NextLease}
    /\ UNCHANGED <<agent, sockets, stage, under, memory, batch, hear, row, astray>>

Lapse ==
    /\ \E l \in leases : (\A i \in Instance : held[i] # l) /\ leases' = leases \ {l}
    /\ UNCHANGED <<agent, sockets, stage, serving, memory, batch, hear, row, astray, spent>>

\* The watching task: the lease held is not the one the planes were opened under. The
\* sessions are told and cut in the same moment.
Cut(i) ==
    /\ stage[i] = "up" /\ held[i] # under[i]
    /\ stage' = [stage EXCEPT ![i] = "waiting"]
    /\ Abort(i)
    /\ UNCHANGED <<content, parted, serving, memory, batch, hear, database>>

\* A lease is held: both addresses are bound again, which may take long.
Bind(i) ==
    /\ stage[i] = "waiting" /\ held[i] # NoLease
    /\ stage' = [stage EXCEPT ![i] = "binding"]
    /\ UNCHANGED <<agent, sockets, serving, memory, batch, hear, database, spent>>

\* The planes open under what is held by then, which may be nothing.
OpenPlanes(i) ==
    /\ stage[i] = "binding" /\ stage' = [stage EXCEPT ![i] = "up"]
    /\ under' = [under EXCEPT ![i] = held[i]]
    /\ UNCHANGED <<agent, sockets, held, memory, batch, hear, database, spent>>

\* A stop drains the planes, flushes the record, writes the last batch, and goes.
Stop(i) ==
    /\ stage[i] \in {"up", "waiting", "binding"} /\ Spend("stops")
    /\ stage' = [stage EXCEPT ![i] = "draining"]
    /\ UNCHANGED <<agent, sockets, serving, memory, batch, hear, database>>

\* The drain's window and its grace are over.
Drained(i) ==
    /\ stage[i] = "draining" /\ stage' = [stage EXCEPT ![i] = "drained"]
    /\ Abort(i)
    /\ UNCHANGED <<content, parted, serving, memory, batch, hear, database>>

\* Mutant of MayFlush: whatever was heard is written.
MayFlushAlways(holder, take) == row.stored

\* write_report_unless_held_elsewhere: only a row that is this instance's, or nobody's
\* under the count of takes this instance was last answered.
MayFlush(holder, take) ==
    /\ row.stored
    /\ \/ holder # NoLease /\ row.holder = holder
       \/ row.holder = NoLease /\ take # Absent /\ row.takes = take

\* The row once the call reaches the database.
Landed(call) ==
    CASE call.kind = "create" -> IF row.stored THEN row
                                 ELSE [NewRow EXCEPT !.quiet = call.quiet]
      [] call.kind = "take" -> IF row.stored
                               THEN [Taken(row, call.holder) EXCEPT !.quiet = row.quiet /\ call.quiet]
                               ELSE row
      [] call.kind = "write" -> IF row.stored
                                THEN [row EXCEPT !.data = call.data, !.quiet = @ /\ call.quiet]
                                ELSE row
      [] call.kind = "flush" -> IF MayFlush(call.holder, call.take)
                                THEN [row EXCEPT !.data = call.data, !.quiet = @ /\ call.quiet]
                                ELSE row
      [] call.kind = "batch" -> BatchRow(call)

\* A call its caller gave up on reaches the database after all. Nobody is answered.
Land(call) ==
    /\ Spend(IF call.kind = "write" THEN "landed writes" ELSE "landed")
    /\ row' = Landed(call) /\ astray' = astray \ {call}
    /\ IF call.kind = "take" /\ row.stored /\ row.holder \notin {NoLease, call.holder}
       THEN Announce(call.by, "taken") ELSE UNCHANGED hear
    /\ UNCHANGED <<agent, sockets, stage, serving, memory, batch, leases>>

FlushCall(i) ==
    [Call("flush", i, held[i]) EXCEPT
        !.take = IF noted[i].holder = held[i] THEN noted[i].take ELSE Absent,
        !.data = rec[i].data, !.quiet = rec[i].quiet]

\* flush_agents
Flush(i) ==
    LET call == FlushCall(i) IN
    /\ stage[i] = "drained" /\ stage' = [stage EXCEPT ![i] = "flushed"]
    /\ \/ /\ row' = IF rec[i].known /\ rec[i].heard THEN Landed(call) ELSE row
          /\ UNCHANGED <<astray, spent>>
       \/ /\ rec[i].known /\ rec[i].heard /\ Spend("fails")
          /\ astray' = astray \cup {call} /\ UNCHANGED row
    /\ UNCHANGED <<agent, sockets, serving, memory, batch, hear, leases>>

Gone(i) ==
    /\ stage' = [stage EXCEPT ![i] = "down"]
    /\ held' = [held EXCEPT ![i] = NoLease]
    /\ written' = [written EXCEPT ![i] = Absent]
    /\ noted' = [noted EXCEPT ![i] = NothingNoted]
    /\ batch' = [batch EXCEPT ![i] = NoBatch]
    /\ hear' = [hear EXCEPT ![i] = {}]
    /\ rec' = [rec EXCEPT ![i] = NoRecord]
    /\ UNCHANGED under

\* The last batch, once the one being written is; then the lease is released.
Leave(i) ==
    /\ stage[i] = "flushed" /\ batch[i].step = "none"
    /\ \/ /\ row' = IF held[i] # NoLease /\ Moved(i) THEN BatchRow(Batched(i)) ELSE row
          /\ astray' = Orphaned(i, astray) /\ UNCHANGED spent
       \/ /\ held[i] # NoLease /\ Moved(i) /\ Spend("fails") /\ UNCHANGED row
          /\ astray' = Orphaned(i, astray \cup {BatchCall(i, Batched(i))})
    /\ leases' = leases \ {held[i]}
    /\ Gone(i)
    /\ UNCHANGED <<agent, sockets>>

Crash(i) ==
    /\ stage[i] # "down" /\ Spend("crashes")
    /\ CloseAll(At(i)) /\ ended' = ended \ At(i) /\ Gone(i)
    /\ astray' = Orphaned(i, astray)
    /\ UNCHANGED <<content, parted, row, leases>>

\* Another process in its place, which holds nothing: on a shared store it reads a
\* record when the Agent reports.
Start(i) ==
    /\ stage[i] = "down" /\ Allowed("leases")
    /\ stage' = [stage EXCEPT ![i] = "waiting"]
    /\ UNCHANGED <<agent, sockets, serving, memory, batch, hear, database, spent>>

-------------------------------------------------------------------------------
Agent == (\E i \in Instance : Connect(i)) \/ Report \/ Change \/ FallQuiet
Socket == \E c \in Conn : HoldFromStore(c) \/ OnMessage(c) \/ OnClosed(c) \/ EndSession(c)
Server ==
    \E i \in Instance :
        \/ ReadBatch(i) \/ WriteBatch(i) \/ BatchAnswered(i) \/ TakeUp(i)
        \/ ReleaseTaken(i) \/ Forget(i) \/ LoseLease(i) \/ TakeLease(i)
        \/ Cut(i) \/ Bind(i) \/ OpenPlanes(i)
        \/ Stop(i) \/ Drained(i) \/ Flush(i) \/ Leave(i) \/ Crash(i) \/ Start(i)
Next == Agent \/ Socket \/ Server \/ Lapse \/ \E call \in astray : Land(call)

Spec == Init /\ [][Next]_vars

-------------------------------------------------------------------------------
\* The shape of the state; a record has an owning connection only while connected, and
\* is connected only while held (mark_disconnected, release_taken, drop_forgotten).
PresenceTypeOK ==
    /\ content \in Nat /\ live \in Conn \cup {NoConn} /\ parted \in BOOLEAN
    /\ conn \in [Conn -> [at : Instance, open : BOOLEAN, seen : BOOLEAN,
                          mail : Nat \cup {Absent},
                          read : Nat \cup {Absent, Unread}]]
    /\ ended \subseteq Conn
    /\ stage \in [Instance -> {"up", "waiting", "binding", "draining", "drained", "flushed",
                               "down"}]
    /\ held \in [Instance -> Lease \cup {NoLease}]
    /\ under \in [Instance -> Lease \cup {NoLease}]
    /\ rec \in [Instance -> [known : BOOLEAN, connected : BOOLEAN,
                             owner : Conn \cup {NoConn}, heard : BOOLEAN,
                             data : Nat \cup {Absent}, quiet : BOOLEAN]]
    /\ written \in [Instance -> Nat \cup {Absent}]
    /\ noted \in [Instance -> [holder : Lease \cup {NoLease}, known : BOOLEAN,
                               connected : BOOLEAN, current : BOOLEAN,
                               take : Nat \cup {Absent}]]
    /\ batch \in [Instance -> [step : {"none", "read", "written"},
                               holder : Lease \cup {NoLease}, connected : BOOLEAN,
                               quiet : BOOLEAN, current : BOOLEAN,
                               take : Nat \cup {Absent}]]
    /\ hear \in [Instance -> SUBSET {"agent", "taken"}]
    /\ row \in [stored : BOOLEAN, holder : Lease \cup {NoLease}, connected : BOOLEAN,
                takes : Nat, data : Nat \cup {Absent}, quiet : BOOLEAN]
    /\ astray \subseteq [kind : {"create", "take", "write", "flush", "batch"},
                         by : Instance \cup {Nobody}, no : Nat, holder : Lease \cup {NoLease},
                         take : Nat \cup {Absent}, connected : BOOLEAN, quiet : BOOLEAN,
                         data : Nat \cup {Absent}]
    /\ leases \subseteq Lease /\ spent \in [Bounded -> Nat]
    /\ \A i \in Instance : (rec[i].owner # NoConn => rec[i].connected)
                           /\ (rec[i].connected => rec[i].known)

\* The socket instance i's record names as the one that carries the Agent is open.
Carries(i) == rec[i].connected /\ rec[i].owner # NoConn /\ conn[rec[i].owner].open

\* While no call to the database fails and the Agent is not forgotten, the instance that
\* carries it over a socket admitted under the lease it holds is the one its row names as
\* connected there, unless an announcement has not been taken up: at most one instance
\* carries it so, and no batch, take or disconnect of another, and no record another was
\* left with when its sessions were aborted, leaves the row without it (write_connected,
\* release_taken, write_presence).
CarrierIsHolder ==
    \A i \in Instance :
        /\ Carries(i) /\ held[i] # NoLease /\ under[i] = held[i] /\ hear[i] = {}
        /\ spent["fails"] = 0 /\ spent["forgets"] = 0
        => row.stored /\ row.connected /\ row.holder = held[i]

\* The record of an Agent that was never forgotten is shown connected only while the
\* socket that owns it is open, unless a session was aborted (mark_disconnected,
\* on_closed); and an open socket that owns it is one of this instance's that carried it.
\* One forgotten while its socket lives, whose next report is read before on_outbound is
\* told, stays connected under that socket when it has closed.
CarriedOverOpenSocket ==
    \A i \in Instance :
        rec[i].connected /\ spent["forgets"] = 0
        => /\ rec[i].owner # NoConn /\ (spent["aborts"] = 0 => conn[rec[i].owner].open)
           /\ conn[rec[i].owner].open => conn[rec[i].owner].at = i /\ conn[rec[i].owner].seen

\* A lease is one instance's, and so is what was read under it.
LeasesApart ==
    /\ \A i \in Instance :
          /\ held[i] # NoLease => held[i] \in leases
          /\ batch[i].holder < NextLease /\ under[i] < NextLease
          /\ stage[i] = "down" => held[i] = NoLease
    /\ \A l \in leases : l < NextLease
    /\ \A i, j \in Instance :
          held[j] # NoLease /\ held[j] \in {held[i], batch[i].holder} => i = j

\* A socket is open only to an instance whose planes are, and a record is owned only by
\* one that was opened.
SocketsServed ==
    /\ \A c \in Conn :
          conn[c].open => c <= spent["conns"] /\ stage[conn[c].at] \in {"up", "draining"}
    /\ \A i \in Instance : rec[i].owner <= spent["conns"]

\* A row that names a holder says connected, and where there is none nothing is in it.
RowSound ==
    /\ row.holder # NoLease => row.stored /\ row.connected
    /\ ~row.stored => row.data = Absent /\ row.takes = 0

\* Until something is forgotten no session is to end, the row stays once an instance
\* read it or holds a record, and no instance was answered a take the row has not counted.
NeverForgotten ==
    spent["forgets"] = 0 =>
    /\ ended = {}
    /\ \A c \in Conn : conn[c].read \notin {Unread, Absent} => row.stored
    /\ \A i \in Instance :
          /\ "agent" \notin hear[i]
          /\ rec[i].known => row.stored
          /\ batch[i].take <= row.takes /\ noted[i].take <= row.takes

\* A disconnect on its way to the row of an Agent that is carried again was read under
\* an earlier take.
DisconnectIsStale ==
    \A i \in Instance :
        /\ spent["fails"] = 0 /\ spent["forgets"] = 0
        /\ Carries(i) /\ held[i] # NoLease /\ under[i] = held[i]
        /\ batch[i].step = "read" /\ ~batch[i].connected
        => batch[i].take < row.takes

\* What the instances, the sockets and the row say of the Agent fits together: their
\* shape, the socket a record is carried over (mark_disconnected, on_closed,
\* release_taken), whose a lease and a batch read under it are (write_presence), and
\* which take a disconnect on its way was read under.
PresenceInv ==
    /\ PresenceTypeOK /\ CarriedOverOpenSocket /\ LeasesApart /\ SocketsServed /\ RowSound
    /\ NeverForgotten /\ DisconnectIsStale
    /\ spent["fails"] = 0 => astray = {}

\* The row holds what the Agent last reported over the socket it uses, once that was
\* processed, its write did not fail (the next report then repeats it), no report is on
\* its way and every announcement is taken up: neither a batch, a flush nor another
\* instance has replaced it with something older (persist, flush_agents). Left out, since
\* there the code does replace it: a report left unread on an abandoned socket and read
\* late; a write given up on that reaches the database after a later one; the flush of a
\* stopping instance that still holds the row, because the instance the Agent moved to
\* failed to take it or had no lease to take it under, or that holds it again, because its
\* batch found the row free between two sockets of an Agent that reconnects once more; and
\* a forgotten Agent whose new row was created and not written, once it is back at an
\* instance that was told of the forgetting only then.
RowIsCurrent ==
    \A i \in Instance :
        /\ live # NoConn /\ rec[i].connected /\ rec[i].owner = live
        /\ row.stored /\ written[i] = rec[i].data /\ hear[i] = {}
        /\ spent["late"] = 0 /\ \A c \in Conn : conn[c].mail = Absent
        /\ spent["landed writes"] = 0
        /\ spent["stops"] > 0 => /\ spent["fails"] = 0 /\ spent["conns"] <= 2
                                 /\ held[i] # NoLease /\ held[i] = under[i]
        /\ spent["forgets"] > 0 => spent["fails"] = 0
        => row.data = rec[i].data

\* What `written' names of the Agent an instance carries is in its row, or something
\* newer: no older state lands after it (doc of AppState::persist). What the code does
\* otherwise: a write given up on lands after the one that repeated it.
WrittenIsStored ==
    \A i \in Instance :
        row.stored /\ rec[i].connected /\ written[i] # Absent => row.data >= written[i]

\* An Agent is assigned another identity only while the one it claims is alive on another
\* socket (the comment on duplicate detection in process_presented). What the code does
\* otherwise: a session aborted with the lease leaves its record connected, and the Agent
\* that comes back under the next lease is taken for its duplicate.
OnlyDuplicatesRekeyed ==
    [][\A c \in Conn : Rekey(c) => conn[Base(c).owner].open]_vars
================================================================================
