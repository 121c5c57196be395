------------------------------- MODULE Enrolment -------------------------------
(***************************************************************************)
(* How a host gets its first certificate (enrolment.rs): an operator opens *)
(* a window, a host's request waits in a queue, an operator approves or    *)
(* rejects it, and the certificate is handed to the connection that asks.  *)
(* Window and queue are kept in the database (postgres/enrolment.rs) for   *)
(* several instances, each with a copy in memory it decides from first.    *)
(*                                                                         *)
(* A call is one step under the instance's enrolment lock, its transaction *)
(* included. An approval takes three: it holds the request's row while the *)
(* certificate is signed and recorded in a transaction of its own. A read  *)
(* takes two, its two SELECTs. In between other instances act. A host is   *)
(* its key, and so its request's id; time 0 stands for no window.          *)
(***************************************************************************)
EXTENDS Integers, FiniteSets, Functions

CONSTANTS
    Server,         \* the instances
    Host,           \* the enrolling hosts, each with one key
    Bootstrap,      \* the bootstrap certificates
    BootstrapOf,    \* the one each host presents
    None,
    MAX_PENDING, MaxPerBootstrap,
    MaxTime,        \* bound: the clock
    Limits          \* bounds: sets of how often each thing happens, and together

Bounded == {"opens", "closes", "approves", "rejects", "revokes", "connects", "drops", "fails",
            "lost", "crashes", "together"}
Connection == [at : Server, asked : BOOLEAN]
ASSUME EnrolmentAssumption ==
    /\ IsFiniteSet(Server) /\ IsFiniteSet(Host)
    /\ None \notin Connection
    /\ BootstrapOf \in [Host -> Bootstrap]
    /\ MAX_PENDING \in Nat /\ MaxPerBootstrap \in Nat /\ MaxTime \in Nat \ {0}
    /\ Limits \subseteq [Bounded -> Nat]

VARIABLES
    now,        \* Clock, the same on every instance
    db,         \* enrolment_window, enrolment_requests, the revocations, the register
    mem,        \* Enrolment.state of each instance, and the revocations it holds
    act,        \* the call it is in the middle of, its enrolment lock held
    due,        \* it has heard of a change of the window or the queue
    conn,       \* the connection each host has: where, and whether it has sent its request
    woken,      \* the hosts whose connection has a change of the window or queue to look at
    unchecked,  \* the hosts whose guard has a change of the revocations to look at
    handed,     \* the certificates handed to their host
    taken,      \* how often each host's request was taken in
    spent
ends == <<conn, woken, unchecked>>
ghosts == <<handed, taken>>
vars == <<now, db, mem, act, due, ends, ghosts, spent>>

Allowed(what) ==
    \E limit \in Limits : /\ spent[what] < limit[what]
                          /\ spent["together"] < limit["together"]
                          /\ \A w \in Bounded : spent[w] <= limit[w]
Spend(what) == Allowed(what) /\ spent' = [spent EXCEPT ![what] = @ + 1, !["together"] = @ + 1]

Idle == [pc |-> "idle"]
Waiting == [decision |-> "waiting"]
Rejected == [decision |-> "rejected"]
Approved(certificate) == [decision |-> "approved", certificate |-> certificate]
Put(queue, h, request) ==
    [g \in DOMAIN queue \cup {h} |-> IF g = h THEN request ELSE queue[g]]
Drop(queue, hosts) == Restrict(queue, DOMAIN queue \ hosts)
Waits(queue, h) == h \in DOMAIN queue /\ queue[h] = Waiting

\* The certificates signed for a host's key, told apart by the order they were recorded in.
Certificates(h) == {c \in db.reg : c[1] = h}
NextCertificate(h) == <<h, Cardinality(Certificates(h)) + 1>>

-------------------------------------------------------------------------------
(* What an act tells the others                                            *)

\* NOTIFY: the other instances hear of it.
Announced(s, change) ==
    due' = IF change THEN [i \in Server |-> IF i = s THEN due[i] ELSE TRUE] ELSE due
\* Enrolment::changed: every enrolment connection of the instance looks again.
At(s) == {h \in Host : conn[h] # None /\ conn[h].at = s}
Changed(s) == woken' = woken \cup At(s)

\* The row of a request another instance holds while it decides it.
RowHeld(h) == \E s \in Server : act[s].pc \in {"sign", "commit"} /\ act[s].held /\ act[s].host = h
QueueHeld == \E h \in DOMAIN db.requests : RowHeld(h)

Free(s) == act[s] = Idle
IsOpen(m) == now < m.window

-------------------------------------------------------------------------------
(* The window                                                              *)

\* Enrolment::open. The requests stay.
Open(s, until) ==
    /\ Free(s) /\ now < until /\ until <= MaxTime /\ Spend("opens")
    /\ db' = [db EXCEPT !.window = until] /\ mem' = [mem EXCEPT ![s].window = until]
    /\ Announced(s, TRUE) /\ Changed(s)
    /\ UNCHANGED <<now, act, conn, unchecked, ghosts>>

\* What a closed window leaves of a queue, in memory and in the store.
Emptied(m) == [m EXCEPT !.window = 0, !.entries = <<>>]
CloseWindow == [db EXCEPT !.window = 0, !.requests = <<>>]

\* Enrolment::close: closed in memory whatever happens to the write, which waits for a
\* row another instance holds and fails when it has waited too long.
Close(s) ==
    /\ Free(s) /\ Spend("closes")
    /\ mem' = [mem EXCEPT ![s] = Emptied(@)]
    /\ IF QueueHeld THEN UNCHANGED <<db, due>> ELSE db' = CloseWindow /\ Announced(s, TRUE)
    /\ Changed(s)
    /\ UNCHANGED <<now, act, conn, unchecked, ghosts>>

EndsUnasked(until) == TRUE
\* PgEnrolmentStore::end_window: only the window that ends there.
Ends(until) == db.window = until
EndWindow(until) == IF Ends(until) /\ ~QueueHeld THEN CloseWindow ELSE db

\* Enrolment::expire, which every call on the window or the queue begins with: a call
\* that finds the window run out ends it, and answers that it is closed.
Expire(s) ==
    /\ Free(s) /\ mem[s].window # 0 /\ ~IsOpen(mem[s])
    /\ mem' = [mem EXCEPT ![s] = Emptied(@)]
    /\ db' = EndWindow(mem[s].window)
    /\ Announced(s, db' # db) /\ Changed(s)
    /\ UNCHANGED <<now, act, conn, unchecked, ghosts, spent>>

-------------------------------------------------------------------------------
(* A request                                                               *)

OfBootstrap(queue, b) == {h \in DOMAIN queue : BootstrapOf[h] = b}
\* PgEnrolmentStore::take counts in what is stored.
Room(queue, h) ==
    /\ Cardinality(DOMAIN queue) < MAX_PENDING
    /\ Cardinality(OfBootstrap(queue, BootstrapOf[h])) < MaxPerBootstrap

TakesAlways == TRUE
Takes == now < db.window

\* Enrolment::submit over h's connection, in an open window: what it comes to.
Submit(s, h) ==
    LET entries == mem[s].entries
        held == h \in DOMAIN entries
        stored == ~held /\ Takes /\ h \in DOMAIN db.requests
        added == ~held /\ Takes /\ h \notin DOMAIN db.requests /\ Room(db.requests, h)
        request == IF held THEN entries[h] ELSE IF stored THEN db.requests[h] ELSE Waiting
    IN  /\ db' = IF added THEN [db EXCEPT !.requests = Put(@, h, Waiting)] ELSE db
        /\ mem' = IF stored \/ added THEN [mem EXCEPT ![s].entries = Put(@, h, request)] ELSE mem
        /\ taken' = IF added THEN [taken EXCEPT ![h] = @ + 1] ELSE taken
        /\ handed' = IF request.decision = "approved" THEN handed \cup {request.certificate}
                     ELSE handed
        /\ Announced(s, added)
        /\ woken' = IF added THEN (woken \ {h}) \cup At(s) ELSE woken \ {h}

-------------------------------------------------------------------------------
(* Connections (transport.rs)                                              *)

Revoked(s, h) == BootstrapOf[h] \in mem[s].list

\* admit and on_connecting: while a window is open, and the certificate not revoked.
Connect(s, h) ==
    /\ conn[h] = None /\ Free(s) /\ IsOpen(mem[s]) /\ ~Revoked(s, h) /\ Spend("connects")
    /\ conn' = [conn EXCEPT ![h] = [at |-> s, asked |-> FALSE]]
    /\ unchecked' = unchecked \cup {h} /\ woken' = woken \ {h}
    /\ UNCHANGED <<now, db, mem, act, due, ghosts>>

\* enrol: the host sends its request, or sends it again.
Enrol(s, h) ==
    /\ h \in At(s) /\ Free(s) /\ IsOpen(mem[s]) /\ ~Revoked(s, h)
    /\ Submit(s, h)
    /\ conn' = [conn EXCEPT ![h].asked = TRUE]
    /\ UNCHANGED <<now, act, unchecked, spent>>

Ended(hosts) ==
    /\ conn' = [h \in Host |-> IF h \in hosts THEN None ELSE conn[h]]
    /\ unchecked' = unchecked \ hosts

\* Pushes::next and on_outbound: the connection ends with the window or a rejection, else
\* the request it sent is asked for again.
Push(s, h) ==
    /\ h \in At(s) \cap woken /\ Free(s)
    /\ LET rejected == h \in DOMAIN mem[s].entries /\ mem[s].entries[h] = Rejected
       IN  \/ /\ mem[s].window = 0 \/ (IsOpen(mem[s]) /\ conn[h].asked /\ rejected)
              /\ Ended({h}) /\ woken' = woken \ {h}
              /\ UNCHANGED <<db, mem, due, ghosts>>
           \/ /\ IsOpen(mem[s]) /\ conn[h].asked /\ ~rejected
              /\ Submit(s, h) /\ UNCHANGED <<conn, unchecked>>
           \/ /\ IsOpen(mem[s]) /\ ~conn[h].asked
              /\ woken' = woken \ {h} /\ UNCHANGED <<db, mem, due, conn, unchecked, ghosts>>
    /\ UNCHANGED <<now, act, spent>>

\* Guard::tripped.
Tripped(s, h) ==
    /\ h \in At(s) \cap unchecked
    /\ IF Revoked(s, h) THEN Ended({h}) /\ woken' = woken \ {h}
       ELSE unchecked' = unchecked \ {h} /\ UNCHANGED <<conn, woken>>
    /\ UNCHANGED <<now, db, mem, act, due, ghosts, spent>>

\* The host's connection is lost; it may connect again, to any instance.
Lost(h) ==
    /\ conn[h] # None /\ Spend("drops")
    /\ Ended({h}) /\ woken' = woken \ {h}
    /\ UNCHANGED <<now, db, mem, act, due, ghosts>>

-------------------------------------------------------------------------------
(* Deciding                                                                *)

\* PgEnrolmentStore::withdraw and withdraw_bootstrap, on the requests that wait.
Withdrawn(hosts) == [db EXCEPT !.requests = Drop(@, {h \in hosts : Waits(@, h)})]

HoldsUnasked(h) == TRUE
\* SELECT ... FOR UPDATE: whoever else decides the request waits for its row.
Holds(h) == ~RowHeld(h)

\* Enrolment::approve up to the signing, with PgEnrolmentStore::approve's hold of the row.
Approve(s, h) ==
    /\ Free(s) /\ IsOpen(mem[s]) /\ Waits(mem[s].entries, h) /\ Spend("approves")
    /\ LET gone == [mem EXCEPT ![s].entries = Drop(@, {h})]
       IN  \/ /\ Revoked(s, h)
              /\ mem' = gone /\ db' = IF Holds(h) THEN Withdrawn({h}) ELSE db
              /\ Announced(s, db' # db) /\ Changed(s) /\ UNCHANGED act
           \/ /\ ~Revoked(s, h) /\ Holds(h) /\ ~Waits(db.requests, h)
              /\ mem' = gone /\ UNCHANGED <<db, due, woken, act>>
           \/ /\ ~Revoked(s, h) /\ Holds(h) /\ Waits(db.requests, h) /\ BootstrapOf[h] \in db.list
              /\ mem' = gone /\ db' = Withdrawn({h})
              /\ Announced(s, TRUE) /\ Changed(s) /\ UNCHANGED act
           \/ /\ ~Revoked(s, h) /\ Holds(h) /\ Waits(db.requests, h) /\ BootstrapOf[h] \notin db.list
              /\ act' = [act EXCEPT ![s] = [pc |-> "sign", host |-> h, held |-> TRUE]]
              /\ UNCHANGED <<db, mem, due, woken>>
    /\ UNCHANGED <<now, conn, unchecked, ghosts>>

\* record_issued: refused for a bootstrap certificate revoked here, or in the store.
Refused(s, h) == Revoked(s, h) \/ BootstrapOf[h] \in db.list
\* PgLedgerStore::register_minting.
Recorded(h) == [db EXCEPT !.reg = @ \cup {NextCertificate(h)}]

\* What is refused is rolled back, and the row let go.
Sign(s) ==
    /\ act[s].pc = "sign"
    /\ LET host == act[s].host
       IN  IF Refused(s, host)
           THEN /\ act[s].held /\ UNCHANGED db
                /\ act' = [act EXCEPT ![s] = [pc |-> "drop", host |-> host]]
           ELSE /\ db' = Recorded(host)
                /\ act' = [act EXCEPT ![s] = [pc |-> "commit", host |-> host, held |-> @.held,
                                               certificate |-> NextCertificate(host)]]
    /\ UNCHANGED <<now, mem, due, ends, ghosts, spent>>

\* Enrolment::withdrawn, once a signing was refused: in a transaction of its own, which
\* another instance may come before, and whose failure is logged.
WithdrawRefused(s) ==
    /\ act[s].pc = "drop"
    /\ mem' = [mem EXCEPT ![s].entries = Drop(@, {act[s].host})]
    /\ \/ /\ db' = IF Holds(act[s].host) THEN Withdrawn({act[s].host}) ELSE db
          /\ UNCHANGED spent
       \/ UNCHANGED db /\ Spend("fails")
    /\ act' = [act EXCEPT ![s] = Idle]
    /\ Announced(s, db' # db) /\ Changed(s)
    /\ UNCHANGED <<now, conn, unchecked, ghosts>>

Decided(h, request) == [db EXCEPT !.requests = Put(@, h, request)]

\* The decision is written and the row let go; the answer may not arrive.
Commit(s) ==
    /\ act[s].pc = "commit" /\ act[s].held
    /\ LET host == act[s].host
           request == Approved(act[s].certificate)
       IN  /\ db' = Decided(host, request)
           /\ \/ /\ mem' = [mem EXCEPT ![s].entries = IF host \in DOMAIN @ THEN Put(@, host, request) ELSE @]
                 /\ Changed(s) /\ UNCHANGED spent
              \/ Spend("lost") /\ UNCHANGED <<mem, woken>>
    /\ act' = [act EXCEPT ![s] = Idle] /\ Announced(s, TRUE)
    /\ UNCHANGED <<now, conn, unchecked, ghosts>>

\* Signing, recording or the write fails: rolled back, and the request still waits. With the
\* row lost neither the decision nor the end of a refused signing can be written.
Fail(s) ==
    /\ act[s].pc \in {"sign", "commit"}
    /\ \/ act[s].held /\ Spend("fails")
       \/ ~act[s].held /\ (act[s].pc = "sign" => Refused(s, act[s].host)) /\ UNCHANGED spent
    /\ act' = [act EXCEPT ![s] = Idle]
    /\ UNCHANGED <<now, db, mem, due, ends, ghosts>>

\* The connection that holds the row is lost while the request is signed.
LoseRow(s) ==
    /\ act[s].pc \in {"sign", "commit"} /\ act[s].held /\ Spend("fails")
    /\ act' = [act EXCEPT ![s].held = FALSE]
    /\ UNCHANGED <<now, db, mem, due, ends, ghosts>>

DecidesAnyway(h) == h \in DOMAIN db.requests
Decides(h) == Waits(db.requests, h)

\* Enrolment::reject.
Reject(s, h) ==
    /\ Free(s) /\ IsOpen(mem[s]) /\ Waits(mem[s].entries, h) /\ Holds(h) /\ Spend("rejects")
    /\ IF Decides(h)
       THEN /\ db' = Decided(h, Rejected) /\ mem' = [mem EXCEPT ![s].entries = Put(@, h, Rejected)]
            /\ Announced(s, TRUE) /\ Changed(s)
       ELSE mem' = [mem EXCEPT ![s].entries = Drop(@, {h})] /\ UNCHANGED <<db, due, woken>>
    /\ UNCHANGED <<now, act, conn, unchecked, ghosts>>

-------------------------------------------------------------------------------
(* A bootstrap certificate is revoked                                      *)

\* Revocations::add: the guards of the instance's sessions look again.
Revoke(s, b) ==
    /\ Free(s) /\ b \notin db.list /\ Spend("revokes")
    /\ db' = [db EXCEPT !.list = @ \cup {b}] /\ mem' = [mem EXCEPT ![s].list = @ \cup {b}]
    /\ act' = [act EXCEPT ![s] = [pc |-> "withdraw", bootstrap |-> b]]
    /\ unchecked' = unchecked \cup At(s)
    /\ UNCHANGED <<now, due, conn, woken, ghosts>>

\* Enrolment::withdraw_revoked: the requests it carried, held here or in the store.
WithdrawRevoked(s) ==
    /\ act[s].pc = "withdraw"
    /\ LET hosts == {h \in Host : BootstrapOf[h] = act[s].bootstrap}
           held == {h \in hosts : Waits(mem[s].entries, h)}
           blocked == \E h \in hosts : RowHeld(h)
       IN  /\ mem' = [mem EXCEPT ![s].entries = Drop(@, held)]
           /\ db' = IF blocked THEN db ELSE Withdrawn(hosts)
           /\ Announced(s, db' # db)
           /\ IF db' # db \/ held # {} THEN Changed(s) ELSE UNCHANGED woken
    /\ act' = [act EXCEPT ![s] = Idle]
    /\ UNCHANGED <<now, conn, unchecked, ghosts, spent>>

\* Another instance's revocation is read (Revocations::reload_ledger).
TakeUpList(s) ==
    /\ mem[s].list # db.list /\ act[s].pc \notin {"load", "loading"}
    /\ mem' = [mem EXCEPT ![s].list = db.list]
    /\ unchecked' = unchecked \cup At(s)
    /\ UNCHANGED <<now, db, act, due, conn, woken, ghosts, spent>>

-------------------------------------------------------------------------------
(* Reading what is stored                                                  *)

\* Enrolment::reload, under the lock: the window, then the requests.
Reload(s) ==
    /\ Free(s) /\ due[s]
    /\ due' = [due EXCEPT ![s] = FALSE]
    /\ act' = [act EXCEPT ![s] = [pc |-> "reload", window |-> db.window]]
    /\ UNCHANGED <<now, db, mem, ends, ghosts, spent>>
ReloadedUnsaid(s) ==
    /\ act[s].pc = "reload"
    /\ mem' = [mem EXCEPT ![s].window = act[s].window, ![s].entries = db.requests]
    /\ act' = [act EXCEPT ![s] = Idle]
    /\ UNCHANGED <<now, db, due, ends, ghosts, spent>>
Reloaded(s) ==
    /\ act[s].pc = "reload"
    /\ mem' = [mem EXCEPT ![s].window = act[s].window, ![s].entries = db.requests]
    /\ act' = [act EXCEPT ![s] = Idle] /\ Changed(s)
    /\ UNCHANGED <<now, db, due, conn, unchecked, ghosts, spent>>

\* The instance ends where it stands, the row it holds let go, and is started again.
Crash(s) ==
    /\ act[s].pc \notin {"load", "loading"} /\ Spend("crashes")
    /\ act' = [act EXCEPT ![s] = [pc |-> "load"]]
    /\ mem' = [mem EXCEPT ![s] = [Emptied(@) EXCEPT !.list = {}]]
    /\ Ended(At(s)) /\ woken' = woken \ At(s)
    /\ UNCHANGED <<now, db, due, ghosts>>

\* Enrolment::open_on. What it heard while it was down it reads when it listens again.
OpenOn(s) ==
    /\ act[s].pc = "load"
    /\ act' = [act EXCEPT ![s] = [pc |-> "loading", window |-> db.window]]
    /\ UNCHANGED <<now, db, mem, due, ends, ghosts, spent>>
OpenedOn(s) ==
    /\ act[s].pc = "loading"
    /\ LET window == act[s].window
           entries == db.requests
       IN  \/ /\ window # 0 /\ now >= window
              /\ ~(Ends(window) /\ QueueHeld)
              /\ db' = EndWindow(window) /\ mem' = [mem EXCEPT ![s].list = db.list]
           \/ /\ window = 0 /\ entries # <<>> /\ ~QueueHeld
              /\ db' = CloseWindow /\ mem' = [mem EXCEPT ![s].list = db.list]
           \/ /\ (window # 0 /\ now < window) \/ (window = 0 /\ entries = <<>>)
              /\ mem' = [mem EXCEPT ![s] = [window |-> window, entries |-> entries, list |-> db.list]]
              /\ UNCHANGED db
    /\ act' = [act EXCEPT ![s] = Idle]
    /\ due' = [i \in Server |-> IF i = s THEN TRUE ELSE due[i] \/ db' # db]
    /\ UNCHANGED <<now, ends, ghosts, spent>>

Tick == now < MaxTime /\ now' = now + 1 /\ UNCHANGED <<db, mem, act, due, ends, ghosts, spent>>

Init ==
    /\ now = 1
    /\ db = [window |-> 0, requests |-> <<>>, list |-> {}, reg |-> {}]
    /\ mem = [s \in Server |-> [window |-> 0, entries |-> <<>>, list |-> {}]]
    /\ act = [s \in Server |-> Idle] /\ due = [s \in Server |-> FALSE]
    /\ conn = [h \in Host |-> None] /\ woken = {} /\ unchecked = {}
    /\ handed = {} /\ taken = [h \in Host |-> 0]
    /\ spent = [what \in Bounded |-> 0]

Next ==
    \/ Tick
    \/ \E h \in Host : Lost(h)
    \/ \E s \in Server :
        \/ Close(s) \/ Expire(s) \/ Sign(s) \/ WithdrawRefused(s) \/ Commit(s) \/ Fail(s) \/ LoseRow(s)
        \/ WithdrawRevoked(s) \/ TakeUpList(s) \/ Reload(s) \/ Reloaded(s)
        \/ Crash(s) \/ OpenOn(s) \/ OpenedOn(s)
        \/ \E until \in 1 .. MaxTime : Open(s, until)
        \/ \E b \in Bootstrap : Revoke(s, b)
        \/ \E h \in Host :
            \/ Connect(s, h) \/ Enrol(s, h) \/ Push(s, h) \/ Tripped(s, h)
            \/ Approve(s, h) \/ Reject(s, h)

Spec == Init /\ [][Next]_vars

\* An instance goes on: it ends the call it is in, reads what it heard of, and its
\* connections look at what woke them.
Work(s) ==
    \/ Sign(s) \/ WithdrawRefused(s) \/ Commit(s) \/ WithdrawRevoked(s) \/ TakeUpList(s)
    \/ Reload(s) \/ Reloaded(s) \/ OpenOn(s) \/ OpenedOn(s)
    \/ At(s) \cap woken # {} /\ Expire(s)
    \/ act[s].pc \in {"sign", "commit"} /\ ~act[s].held /\ Fail(s)
    \/ \E h \in Host : Push(s, h) \/ Tripped(s, h)
Fairness == \A s \in Server : WF_vars(Work(s))
FairSpec == Spec /\ Fairness

-------------------------------------------------------------------------------
(* Properties                                                              *)

Certificate == Host \X (Nat \ {0})
Request ==
    [decision : {"waiting", "rejected"}] \cup [decision : {"approved"}, certificate : Certificate]
Act ==
    [pc : {"idle", "load"}]
    \cup [pc : {"sign"}, host : Host, held : BOOLEAN]
    \cup [pc : {"commit"}, host : Host, held : BOOLEAN, certificate : Certificate]
    \cup [pc : {"drop"}, host : Host]
    \cup [pc : {"withdraw"}, bootstrap : Bootstrap]
    \cup [pc : {"reload", "loading"}, window : 0 .. MaxTime]
IsQueue(queue) == DOMAIN queue \subseteq Host /\ queue \in [DOMAIN queue -> Request]

\* What is stored, what each instance holds of it, and the connections.
StoreTypeOK ==
    /\ db = [window |-> db.window, requests |-> db.requests, list |-> db.list, reg |-> db.reg]
    /\ db.window \in 0 .. MaxTime /\ IsQueue(db.requests) /\ db.list \subseteq Bootstrap
    /\ db.reg \subseteq Certificate /\ IsFiniteSet(db.reg)
MemTypeOK ==
    /\ mem = [s \in Server |-> [window |-> mem[s].window, entries |-> mem[s].entries, list |-> mem[s].list]]
    /\ \A s \in Server : /\ mem[s].window \in 0 .. MaxTime /\ IsQueue(mem[s].entries)
                         /\ mem[s].list \subseteq db.list
EndsTypeOK ==
    /\ conn \in [Host -> Connection \cup {None}]
    /\ woken \subseteq Host /\ unchecked \subseteq Host
    /\ \A h \in woken \cup unchecked : conn[h] # None

\* The type invariant: what an instance believes revoked is, and a session that is woken or
\* whose guard has something to look at is open.
EnrolmentTypeOK ==
    /\ now \in 1 .. MaxTime /\ StoreTypeOK /\ MemTypeOK /\ EndsTypeOK
    /\ act \in [Server -> Act] /\ due \in [Server -> BOOLEAN]
    /\ taken \in [Host -> Nat] /\ spent \in [Bounded -> Nat]

\* A host is handed only what the register holds, so it can be revoked, whichever copy of
\* the queue it is handed from (approve records before it decides).
Registered(queue) ==
    \A h \in DOMAIN queue : queue[h].decision = "approved" => queue[h].certificate \in Certificates(h)
HandedIsRegistered ==
    /\ handed \subseteq db.reg /\ Registered(db.requests)
    /\ \A s \in Server :
        /\ Registered(mem[s].entries)
        /\ act[s].pc = "commit" => act[s].certificate \in Certificates(act[s].host)

\* However many instances approve a request, it is signed once: each further certificate
\* of its key is owed to a failure after the signing (the hold of the request's row).
SignedOnce ==
    \A h \in Host :
        Cardinality(Certificates(h)) <= taken[h] + spent["fails"] + spent["crashes"]

\* The queue's bounds hold for all instances together (take counts what is stored).
QueueBounded ==
    /\ Cardinality(DOMAIN db.requests) <= MAX_PENDING
    /\ \A b \in Bootstrap : Cardinality(OfBootstrap(db.requests, b)) <= MaxPerBootstrap

\* No request stands in a closed window, whichever instance closed it and whichever took
\* the request in (close_window, end_window, take).
ClosedIsEmpty == db.window = 0 => db.requests = <<>>

Deciding(s) == act[s].pc \in {"sign", "commit"}
\* A request whose row is held still waits, and one instance holds it: what an approval
\* writes when it has signed is written on what it read (SELECT ... FOR UPDATE).
RowsStand ==
    \A s \in Server : Deciding(s) /\ act[s].held =>
        /\ Waits(db.requests, act[s].host)
        /\ \A t \in Server : Deciding(t) /\ act[t].held /\ act[t].host = act[s].host => t = s

\* What may still be signed for a host: once while its request waits and is not signed yet,
\* and once by each instance that lost the row before it signed.
MaySign(h) ==
    IF Waits(db.requests, h)
       /\ ~\E s \in Server : act[s].pc = "commit" /\ act[s].held /\ act[s].host = h
    THEN 1 ELSE 0
RowLost(h) == {s \in Server : act[s].pc = "sign" /\ ~act[s].held /\ act[s].host = h}
SigningsOwed ==
    \A h \in Host :
        Cardinality(Certificates(h)) + MaySign(h) + Cardinality(RowLost(h))
            <= taken[h] + spent["fails"] + spent["crashes"]

\* The queue is sound whichever instances act on it: bounded, empty while the window is
\* closed, approved only to what the register holds, and a request is decided by the
\* instance that holds its row (postgres/enrolment.rs).
EnrolmentInv ==
    /\ EnrolmentTypeOK /\ HandedIsRegistered /\ QueueBounded /\ ClosedIsEmpty
    /\ RowsStand /\ SigningsOwed

\* A decision stands as it was made until its request goes with the window; a request that
\* goes before its window was waiting (decide, approve, withdraw).
DecisionStands ==
    [][\A h \in DOMAIN db.requests : ~Waits(db.requests, h) =>
        \/ h \in DOMAIN db'.requests /\ db'.requests[h] = db.requests[h]
        \/ db'.window = 0]_vars

\* A window another instance has moved is not ended by one that believes it has run out:
\* before its end only an operator closes it, or an instance that starts between the two
\* reads of a window just opened and its first request (end_window, open_on).
WindowHolds ==
    [][db.window > now /\ db'.window = 0 =>
        \/ spent'["closes"] # spent["closes"]
        \/ \E s \in Server : act[s].pc = "loading" /\ act[s].window = 0]_vars

\* A host that waits on its connection is handed what an operator approved, at whichever
\* instance, unless the window or the connection ends or the approval went unanswered.
Collected ==
    \A h \in Host :
        (/\ conn[h] # None /\ conn[h].asked /\ h \in DOMAIN db.requests
         /\ db.requests[h].decision = "approved" /\ spent["lost"] = 0)
        ~> \/ handed \cap Certificates(h) # {} \/ conn[h] = None
           \/ h \notin DOMAIN db.requests
===============================================================================
