-------------------------------- MODULE Ledger ---------------------------------
(***************************************************************************)
(* What the Server signed, what it no longer trusts, and which host speaks *)
(* for which Agent (revocation.rs): the register, the revocation list and  *)
(* the Hosts, kept in one database (postgres/ledger.rs) that several       *)
(* instances act on, each deciding first from a copy in memory which it    *)
(* reads again when another announces a change (instance.rs).              *)
(*                                                                         *)
(* Every store call is one transaction and one step. An act that makes     *)
(* several keeps its instance's state lock between them: what is left of   *)
(* it waits in todo, and other instances act in between. The facts of a    *)
(* certificate are constants. A Host with no valid until has it at 0.      *)
(***************************************************************************)
EXTENDS Integers, Sequences, FiniteSets, FiniteSetsExt, SequencesExt

CONSTANTS
    Server,             \* the instances
    Host, Agent, Certificate,
    HostOf,             \* Facts.host of each certificate
    Predecessor,        \* Issued.predecessor, None for one that renews nothing
    Bootstrap,          \* the bootstrap certificate an enrolment came with, or None
    NotAfter,           \* Facts.not_after_ms
    None,
    MAX_ISSUED, ENROLMENT_RESERVE, MAX_DESCENDANTS_PER_ROOT, MAX_PER_HOST,
    MAX_UIDS_PER_HOST, MAX_REVOCATIONS, RELOAD_SWAPS_REFUSED,
    MaxTime,            \* bound: the clock
    Limits              \* bounds: sets of how often each thing happens, and together

Bounded == {"records", "revokes", "lifts", "reports", "agents", "marks", "fails", "deaf",
            "crashes", "connects", "together"}
NoVersion == -1
Never == MaxTime + 1
ASSUME LedgerAssumption ==
    /\ IsFiniteSet(Certificate) /\ MaxTime \in Nat \ {0}
    /\ MAX_ISSUED \in Nat /\ ENROLMENT_RESERVE \in Nat
    /\ None \notin Server \cup Host \cup Certificate
    /\ HostOf \in [Certificate -> Host]
    /\ Predecessor \in [Certificate -> Certificate \cup {None}]
    /\ Bootstrap \in [Certificate -> Certificate \cup {None}]
    /\ NotAfter \in [Certificate -> 1 .. Never]
    /\ \A c \in Certificate : Predecessor[c] # None => Bootstrap[c] = None
    /\ Limits \subseteq [Bounded -> Nat]

VARIABLES
    now,        \* Clock, the same on every instance
    db,         \* the rows of certificates, revocations, hosts, host_bindings and the version
    mem,        \* Revocations.state of each instance
    todo,       \* the store calls its act in progress has yet to make
    due,        \* it has heard of a change and not yet read it
    listening,  \* its listening connection is up
    reading,    \* its reload: what it read, whether it acted since, the swaps refused
    sessions,   \* the certificates its open WebSocket sessions were admitted by
    unchecked,  \* the sessions whose guard has an announcement to look at
    signed,     \* the certificates handed out
    versions,   \* the list each version named
    answered,   \* the revocations each instance has answered and nobody has lifted
    spent
ears == <<due, listening>>
open == <<sessions, unchecked>>
ghosts == <<versions, answered>>
vars == <<now, db, mem, todo, ears, reading, open, signed, ghosts, spent>>

Allowed(what) ==
    \E limit \in Limits : /\ spent[what] < limit[what]
                          /\ spent["together"] < limit["together"]
                          /\ \A w \in Bounded : spent[w] <= limit[w]
Spend(what) == Allowed(what) /\ spent' = [spent EXCEPT ![what] = @ + 1, !["together"] = @ + 1]

NotReading == [pc |-> "none"]
Earliest(times) == Min(times \cup {Never})
Later(a, b) == IF a >= b THEN a ELSE b

-------------------------------------------------------------------------------
(* The register and the list                                               *)

\* The certificates a chain runs through, from c up, by the entries of reg.
Chain(reg, c) ==
    LET up[n \in 0 .. Cardinality(Certificate), at \in Certificate] ==
            IF n = 0 \/ at \notin reg \/ Predecessor[at] = None
            THEN {at}
            ELSE {at} \cup up[n - 1, Predecessor[at]]
    IN  up[Cardinality(Certificate), c]

Root(reg, c) == CHOOSE at \in Chain(reg, c) : at \notin reg \/ Predecessor[at] = None
RootBelow(reg, c) == IF Predecessor[c] = None THEN c ELSE Root(reg, Predecessor[c])
Below(reg, root) == {c \in reg : Root(reg, c) = root}

\* Every revoked certificate: the named ones, and each entry that renewed one of them.
Resolve(ledger) ==
    ledger.list \cup {c \in ledger.reg : Chain(ledger.reg, c) \cap ledger.list # {}}

Live(reg, h) == {c \in reg : HostOf[c] = h /\ NotAfter[c] > now}
Size(c) == IF Predecessor[c] = None THEN MAX_ISSUED ELSE MAX_ISSUED - ENROLMENT_RESERVE

\* The state a ledger read from the database is held as.
OwnersOf(hosts) ==
    [u \in UNION {hosts[h].uids : h \in DOMAIN hosts} |->
        CHOOSE h \in DOMAIN hosts : u \in hosts[h].uids]
ReadAll ==
    [h \in DOMAIN db.hosts |->
        [gateway |-> db.hosts[h].gateway, until |-> db.hosts[h].until,
         uids |-> {u \in Agent : db.bindings[u] = h}]]
Untils(hosts) == {hosts[h].until : h \in {g \in DOMAIN hosts : ~hosts[g].gateway}}
Loaded ==
    [reg |-> db.reg, list |-> db.list, version |-> db.version, hosts |-> ReadAll,
     owners |-> OwnersOf(ReadAll),
     earliest |-> Earliest({NotAfter[c] : c \in db.reg} \cup Untils(ReadAll))]

\* NOTIFY: every other instance that listens hears of it when it commits.
Announced(s, change) ==
    /\ due' = IF change THEN [i \in Server |-> IF i = s THEN due[i] ELSE due[i] \/ listening[i]]
                        ELSE due
    /\ UNCHANGED listening
\* Counts an act: a read of the store that began before it is not swapped in.
Acted(s) ==
    reading' = [reading EXCEPT ![s] = IF @ = NotReading THEN @ ELSE [@ EXCEPT !.clean = FALSE]]
\* The watch of list changes: the guard of every session of the instance looks again.
Changes(s, change) ==
    unchecked' = IF change THEN unchecked \cup {<<s, c>> : c \in sessions[s]} ELSE unchecked

TookUpOwnWriteAlways(held, written) == written
\* State::took_up_own_write: the version is held only when it follows the one held.
TookUpOwnWrite(held, written) == IF written = held + 1 /\ held # NoVersion THEN written ELSE NoVersion

\* A write of the list: it moves the version on, and versions remembers what it names.
ListWritten(list) ==
    /\ db' = [db EXCEPT !.list = list, !.version = @ + 1]
    /\ versions' = Append(versions, list)

-------------------------------------------------------------------------------
(* The Hosts in the database (postgres/ledger.rs)                          *)

InsertHostRow(hosts, h, row) ==
    IF h \in DOMAIN hosts THEN hosts
    ELSE [g \in DOMAIN hosts \cup {h} |-> IF g = h THEN row ELSE hosts[g]]
Extend(hosts, h, until) ==
    IF h \in DOMAIN hosts THEN [hosts EXCEPT ![h].until = Later(@, until)] ELSE hosts
ExtendAll(hosts, moves) ==
    [h \in DOMAIN hosts |->
        [hosts[h] EXCEPT !.until = IF h \in DOMAIN moves THEN Later(@, moves[h]) ELSE @]]
\* A Host's row as it is seen: made when there is none, else its valid until moved forward.
WriteSeen(hosts, h, row) ==
    IF h \in DOMAIN hosts THEN Extend(hosts, h, row.until) ELSE InsertHostRow(hosts, h, row)

ForgottenUnasked(hosts, names, at) == {h \in names \cap DOMAIN hosts : ~hosts[h].gateway}
\* HostAct::Forgotten: only while what is stored says the Host has ended.
ForgottenOf(hosts, names, at) ==
    {h \in names \cap DOMAIN hosts :
        ~hosts[h].gateway /\ hosts[h].until # 0 /\ hosts[h].until <= at}

Without(hosts, names) == [h \in DOMAIN hosts \ names |-> hosts[h]]
Unbound(names) == [u \in Agent |-> IF db.bindings[u] \in names THEN None ELSE db.bindings[u]]

-------------------------------------------------------------------------------
(* Recording a certificate: the prune, then the register's write           *)

Needed(m) == UNION {Chain(m.reg, c) : c \in {d \in m.reg : NotAfter[d] > now}}
Gone(m) == m.reg \ Needed(m)
\* The latest not_after the register holds for a Host moves its valid until.
LatestFor(m, h) == Max({NotAfter[c] : c \in {d \in m.reg : HostOf[d] = h}} \cup {0})
Extended(m) == {h \in DOMAIN m.hosts : LatestFor(m, h) > m.hosts[h].until}
HostsExtended(m) ==
    [h \in DOMAIN m.hosts |-> [m.hosts[h] EXCEPT !.until = Later(@, LatestFor(m, h))]]
Ended(hosts) ==
    {h \in DOMAIN hosts : ~hosts[h].gateway /\ hosts[h].until # 0 /\ hosts[h].until <= now}

\* What the prune changes in memory before its first store call returns, and the calls.
PruneDue(m) == now >= m.earliest
Pruned(m) ==
    LET hosts == HostsExtended(m)
        ended == Ended(hosts)
    IN  IF ~PruneDue(m) THEN m
        ELSE [m EXCEPT !.hosts = Without(hosts, ended),
                       !.owners = [u \in {v \in DOMAIN @ : @[v] \notin ended} |-> @[u]],
                       !.earliest = Earliest({t \in {NotAfter[c] : c \in m.reg}
                                                \cup Untils(Without(hosts, ended)) : t > now})]
PruneCalls(m) ==
    LET ended == Ended(HostsExtended(m))
        calls(op, certificates) ==
            SetToSeq({[op |-> op, certificate |-> c] : c \in certificates})
    IN  IF ~PruneDue(m) THEN <<>>
        ELSE (IF Extended(m) = {} THEN <<>>
              ELSE <<[op |-> "extend", moves |-> [h \in Extended(m) |-> LatestFor(m, h)]]>>)
             \o (IF ended = {} THEN <<>> ELSE <<[op |-> "forget", hosts |-> ended, at |-> now]>>)
             \o calls("remove", Gone(m))
             \o calls("unlist", m.list \cap Gone(m))

\* Revocations::record and record_approved, up to the first store call.
Record(s, c) ==
    /\ todo[s] = <<>> /\ c \notin signed
    /\ Predecessor[c] # None \/ Bootstrap[c] # None
    \* AppState::renews, and the connection's own checks of what it presents
    /\ Predecessor[c] # None =>
        /\ Predecessor[c] \in signed /\ now < NotAfter[Predecessor[c]]
        /\ Predecessor[c] \notin Resolve(mem[s])
    /\ now < NotAfter[c]
    /\ Bootstrap[c] # None => Bootstrap[c] \notin Resolve(mem[s])
    /\ Spend("records")
    /\ mem' = [mem EXCEPT ![s] = Pruned(@)]
    /\ todo' = [todo EXCEPT ![s] = PruneCalls(mem[s]) \o <<[op |-> "admit", certificate |-> c]>>]
    /\ Acted(s)
    /\ UNCHANGED <<now, db, ears, open, signed, ghosts>>

\* Revocations::admit, by what is in memory.
Admits(m, c) ==
    /\ Cardinality(m.reg) < Size(c)
    /\ Cardinality(Below(m.reg, RootBelow(m.reg, c))) < MAX_DESCENDANTS_PER_ROOT
    /\ Cardinality(Live(m.reg, HostOf[c])) < MAX_PER_HOST

RegistersUnlisted(d, c) == Cardinality(d.reg \ {c}) < Size(c)
\* PgLedgerStore::register_minting: decided again from the tables it holds.
Registers(d, c) ==
    /\ Cardinality(d.reg \ {c}) < Size(c)
    /\ Bootstrap[c] # None => Bootstrap[c] \notin d.list
    /\ Predecessor[c] # None =>
        /\ Chain(d.reg, Predecessor[c]) \cap d.list = {}
        /\ Cardinality(Below(d.reg, Root(d.reg, Predecessor[c])) \ {c}) < MAX_DESCENDANTS_PER_ROOT

Mints(m, c) == Predecessor[c] = None /\ HostOf[c] \notin DOMAIN m.hosts
Minted(c) == [gateway |-> FALSE, until |-> NotAfter[c]]
Inserted(m, c) ==
    [m EXCEPT !.reg = @ \cup {c}, !.earliest = Earliest({@, NotAfter[c]}),
              !.hosts = IF Mints(m, c)
                        THEN InsertHostRow(@, HostOf[c],
                                [gateway |-> FALSE, until |-> NotAfter[c], uids |-> {}])
                        ELSE Extend(@, HostOf[c], NotAfter[c])]
\* The Host's valid until moved by an issuance that mints no Host, a write of its own.
AfterAdmit(m, c) ==
    IF ~Mints(m, c) /\ HostOf[c] \in DOMAIN m.hosts /\ m.hosts[HostOf[c]].until < NotAfter[c]
    THEN <<[op |-> "extend", moves |-> [h \in {HostOf[c]} |-> NotAfter[c]]]>>
    ELSE <<>>

Admit(s, c) ==
    /\ todo[s] # <<>> /\ Head(todo[s]) = [op |-> "admit", certificate |-> c]
    /\ IF Admits(mem[s], c) /\ Registers(db, c)
       THEN /\ db' = [db EXCEPT !.reg = @ \cup {c},
                                !.hosts = IF Mints(mem[s], c)
                                          THEN WriteSeen(@, HostOf[c], Minted(c)) ELSE @]
            /\ mem' = [mem EXCEPT ![s] = Inserted(@, c)]
            /\ todo' = [todo EXCEPT ![s] = AfterAdmit(mem[s], c)]
            /\ signed' = signed \cup {c}
            /\ Announced(s, TRUE)
       ELSE todo' = [todo EXCEPT ![s] = <<>>] /\ UNCHANGED <<db, mem, signed, ears>>
    /\ UNCHANGED <<now, reading, open, ghosts, spent>>

\* The other store calls of an act, each on the rows it names.
Rest(s) == todo' = [todo EXCEPT ![s] = Tail(@)]
Pending(s, op) == todo[s] # <<>> /\ Head(todo[s]).op = op

\* HostAct::Extended, and HostAct::Seen once a report's binding is written.
WriteUntil(s) ==
    /\ Pending(s, "extend") \/ Pending(s, "seen")
    /\ LET call == Head(todo[s])
           hosts == IF call.op = "extend" THEN ExtendAll(db.hosts, call.moves)
                    ELSE WriteSeen(db.hosts, call.host,
                                   [gateway |-> mem[s].hosts[call.host].gateway,
                                    until |-> mem[s].hosts[call.host].until])
       IN  db' = [db EXCEPT !.hosts = hosts] /\ Announced(s, hosts # db.hosts)
    /\ Rest(s)
    /\ UNCHANGED <<now, mem, reading, open, signed, ghosts, spent>>

Forget(s) ==
    /\ Pending(s, "forget")
    /\ LET gone == ForgottenOf(db.hosts, Head(todo[s]).hosts, Head(todo[s]).at)
       IN  /\ db' = [db EXCEPT !.hosts = Without(@, gone), !.bindings = Unbound(gone)]
           /\ Announced(s, gone # {})
    /\ Rest(s)
    /\ UNCHANGED <<now, mem, reading, open, signed, ghosts, spent>>

RemoveIssued(s) ==
    /\ Pending(s, "remove")
    /\ LET c == Head(todo[s]).certificate
       IN  /\ db' = [db EXCEPT !.reg = @ \ {c}]
           /\ mem' = [mem EXCEPT ![s].reg = @ \ {c}]
    /\ Announced(s, TRUE) /\ Rest(s)
    /\ UNCHANGED <<now, reading, open, signed, ghosts, spent>>

\* PgLedgerStore::remove_revocation, for the prune and for a lift.
RemoveRevocation(s, c) ==
    /\ IF c \in db.list
       THEN /\ ListWritten(db.list \ {c})
            /\ mem' = [mem EXCEPT ![s].list = @ \ {c},
                                  ![s].version = TookUpOwnWrite(@, db.version + 1)]
       ELSE /\ mem' = [mem EXCEPT ![s].list = @ \ {c}]
            /\ UNCHANGED <<db, versions>>
    /\ answered' = {a \in answered : a[2] # c}
    /\ Announced(s, c \in db.list)

Unlist(s) ==
    /\ Pending(s, "unlist")
    /\ RemoveRevocation(s, Head(todo[s]).certificate) /\ Rest(s)
    /\ UNCHANGED <<now, reading, open, signed, spent>>

\* A store call fails. One that writes a Host's valid until or its end is logged and
\* passed over; any other ends the act there.
Fail(s) ==
    /\ todo[s] # <<>> /\ Spend("fails")
    /\ IF Head(todo[s]).op \in {"extend", "forget"} THEN Rest(s)
       ELSE todo' = [todo EXCEPT ![s] = <<>>]
    /\ UNCHANGED <<now, db, mem, ears, reading, open, signed, ghosts>>

-------------------------------------------------------------------------------
(* Revoking and lifting                                                    *)

\* revoke_certificate and add: decided from what is stored. An entry that is there and
\* names fewer issuers is widened, which is a write of the list too; the instance's copy
\* of it may have named fewer as well.
Revoke(s, c) ==
    /\ todo[s] = <<>> /\ Spend("revokes") /\ Acted(s)
    /\ \/ /\ c \in db.list
          /\ mem' = [mem EXCEPT ![s].list = @ \cup {c}]
          /\ UNCHANGED <<db, versions>> /\ Announced(s, FALSE)
       \/ /\ c \in db.list \/ Cardinality(db.list) < MAX_REVOCATIONS
          /\ ListWritten(db.list \cup {c})
          /\ mem' = [mem EXCEPT ![s].list = @ \cup {c},
                                ![s].version = TookUpOwnWrite(@, db.version + 1)]
          /\ Announced(s, TRUE)
    /\ \E wider \in BOOLEAN : Changes(s, wider \/ c \notin mem[s].list)
    /\ answered' = answered \cup {<<s, c>>}
    /\ UNCHANGED <<now, todo, sessions, signed>>

\* The store call of a revocation, a lift, a binding, a release or a mark fails: the act
\* was counted, and nothing else changed.
ActFails(s) ==
    /\ todo[s] = <<>> /\ Spend("fails") /\ Acted(s)
    /\ UNCHANGED <<now, db, mem, todo, ears, open, signed, ghosts>>

Lift(s, c) ==
    /\ todo[s] = <<>> /\ Spend("lifts") /\ Acted(s)
    /\ RemoveRevocation(s, c)
    /\ UNCHANGED <<now, todo, open, signed>>

-------------------------------------------------------------------------------
(* Who speaks for an Agent                                                 *)

UidsOf(m, h) == IF h \in DOMAIN m.hosts THEN m.hosts[h].uids ELSE {}
IsGateway(m, h) == h \in DOMAIN m.hosts /\ m.hosts[h].gateway

\* Revocations::admits, when it would bind, and when it would not.
WouldBind(m, h, u) ==
    /\ ~IsGateway(m, h)
    /\ u \in DOMAIN m.owners => m.owners[u] # h /\ IsGateway(m, m.owners[u])
    /\ Cardinality(UidsOf(m, h)) < MAX_UIDS_PER_HOST
AdmittedUnbound(m, h, u) == IsGateway(m, h) \/ (u \in DOMAIN m.owners /\ m.owners[u] = h)

BindSeenUnmarked(h, u, until) ==
    LET made == InsertHostRow(db.hosts, h, [gateway |-> FALSE, until |-> until])
    IN  IF db.bindings[u] \notin {None, h} THEN [answer |-> "taken", db |-> db]
        ELSE [answer |-> "bound", db |-> [db EXCEPT !.hosts = made, !.bindings[u] = h]]
\* PgLedgerStore::bind_seen: the Host's row is made first and held; a Host marked as a
\* Gateway is bound none, a binding another Host holds stays.
BindSeen(h, u, until) ==
    LET made == InsertHostRow(db.hosts, h, [gateway |-> FALSE, until |-> until])
    IN  CASE made[h].gateway -> [answer |-> "gateway", db |-> db]
          [] ~made[h].gateway /\ db.bindings[u] \notin {None, h} ->
                [answer |-> "taken", db |-> db]
          [] OTHER -> [answer |-> "bound", db |-> [db EXCEPT !.hosts = made, !.bindings[u] = h]]

Owned(owners, u, h) == [v \in DOMAIN owners \cup {u} |-> IF v = u THEN h ELSE owners[v]]
Disowned(owners, h) == [v \in {w \in DOMAIN owners : owners[w] # h} |-> owners[v]]
WithUid(hosts, h, u) == IF h \in DOMAIN hosts THEN [hosts EXCEPT ![h].uids = @ \cup {u}] ELSE hosts

\* Revocations::take_up: what the store answered becomes what is held.
TakeUp(m, u, h, answer, holder) ==
    CASE answer = "bound" -> [m EXCEPT !.owners = Owned(@, u, h)]
      [] answer = "taken" -> [m EXCEPT !.owners = Owned(@, u, holder),
                                       !.hosts = WithUid(@, holder, u)]
      [] answer = "gateway" ->
            [m EXCEPT !.owners = Disowned(@, h),
                      !.hosts = IF h \in DOMAIN @
                                THEN [@ EXCEPT ![h].gateway = TRUE, ![h].uids = {}] ELSE @]

\* check_report moves the valid until of an admitted report's Host, then writes it.
Extending(s, m, h, until, binds) ==
    LET moves == h \in DOMAIN m.hosts /\ m.hosts[h].until < until
    IN  /\ mem' = [mem EXCEPT ![s] =
            IF moves THEN [m EXCEPT !.hosts = Extend(@, h, until),
                                    !.earliest = Earliest({@, until})]
            ELSE m]
        /\ todo' = [todo EXCEPT ![s] = IF (binds \/ moves) /\ h \in DOMAIN m.hosts
                                       THEN <<[op |-> "seen", host |-> h]>> ELSE <<>>]

\* Revocations::may_report and check_report, for a report over a connection that
\* presents c. One that may not speak for u is given an identity of its own instead.
CheckReport(s, c, u) ==
    /\ todo[s] = <<>> /\ c \in sessions[s] /\ now < NotAfter[c]
    /\ Spend("reports")
    /\ LET h == HostOf[c]
           bound == BindSeen(h, u, NotAfter[c])
           taken == TakeUp(mem[s], u, h, bound.answer, db.bindings[u])
           row == [gateway |-> FALSE, until |-> 0, uids |-> {}]
           held == [taken EXCEPT !.hosts = WithUid(InsertHostRow(@, h, row), h, u)]
       IN  \/ /\ AdmittedUnbound(mem[s], h, u)
              /\ Extending(s, mem[s], h, NotAfter[c], FALSE)
              /\ IF h \in DOMAIN mem[s].hosts /\ mem[s].hosts[h].until < NotAfter[c]
                 THEN Acted(s) ELSE UNCHANGED reading
              /\ UNCHANGED <<db, ears>>
           \/ /\ WouldBind(mem[s], h, u) /\ Acted(s)
              /\ db' = bound.db /\ Announced(s, bound.db # db)
              /\ CASE bound.answer = "bound" -> Extending(s, held, h, NotAfter[c], TRUE)
                   [] bound.answer = "gateway" -> Extending(s, taken, h, NotAfter[c], FALSE)
                   [] bound.answer = "taken" -> mem' = [mem EXCEPT ![s] = taken] /\ UNCHANGED todo
    /\ UNCHANGED <<now, open, signed, ghosts>>

Unnamed(row, u) == [row EXCEPT !.uids = @ \ {u}]
Unlisted(m, u, names) ==
    [m EXCEPT !.owners = [v \in DOMAIN @ \ {u} |-> @[v]],
              !.hosts = [h \in DOMAIN @ |-> IF h \in names THEN Unnamed(@[h], u) ELSE @[h]]]
\* What is held of the Agent goes too: another instance may have moved it since.
Released(m, u, stored) ==
    Unlisted(m, u, {stored} \cup {m.owners[v] : v \in {u} \cap DOMAIN m.owners})

\* Revocations::release, when an operator forgets the Agent.
Release(s, u) ==
    /\ todo[s] = <<>> /\ Spend("agents") /\ Acted(s)
    /\ db' = [db EXCEPT !.bindings[u] = None]
    /\ mem' = [mem EXCEPT ![s] = Released(@, u, db.bindings[u])]
    /\ Announced(s, db.bindings[u] # None)
    /\ UNCHANGED <<now, todo, open, signed, ghosts>>

\* Revocations::rebind: the binding of old moves to the identity the Server gave it.
Rebind(s, old, new) ==
    /\ todo[s] = <<>> /\ old # new /\ Spend("agents") /\ Acted(s)
    /\ LET h == db.bindings[old]
           bound == db.bindings[new] \in {None, h}
           parted == Released(mem[s], old, h)
           moved == [parted EXCEPT !.owners = Owned(@, new, h), !.hosts = WithUid(@, h, new)]
       IN  IF h = None THEN mem' = [mem EXCEPT ![s] = parted] /\ UNCHANGED <<db, ears>>
           ELSE /\ db' = [db EXCEPT !.bindings[old] = None,
                                    !.bindings[new] = IF bound THEN h ELSE @]
                /\ mem' = [mem EXCEPT ![s] =
                            IF bound THEN moved
                            ELSE TakeUp(parted, new, h, "taken", db.bindings[new])]
                /\ Announced(s, TRUE)
    /\ UNCHANGED <<now, todo, open, signed, ghosts>>

\* The store's rebind fails: what this instance held of old is gone from memory, and the
\* binding stands in the database.
RebindFails(s, old) ==
    /\ todo[s] = <<>> /\ Spend("fails") /\ Acted(s)
    /\ old \in DOMAIN mem[s].owners /\ mem' = [mem EXCEPT ![s] = Released(@, old, None)]
    /\ UNCHANGED <<now, db, todo, ears, open, signed, ghosts>>

\* HostAct::Gateway: the mark and the release of what it ends are one write.
MarkedRow(d, h, gateway) ==
    [d EXCEPT !.hosts = [InsertHostRow(@, h, [gateway |-> gateway, until |-> 0])
                            EXCEPT ![h].gateway = gateway],
              !.bindings = IF gateway THEN Unbound({h}) ELSE @]

Marked(m, h, gateway) ==
    LET row == [gateway |-> gateway, until |-> 0, uids |-> {}]
        hosts == InsertHostRow(m.hosts, h, row)
    IN  [m EXCEPT !.hosts = [hosts EXCEPT ![h].gateway = gateway,
                                          ![h].uids = IF gateway THEN {} ELSE hosts[h].uids],
                  !.owners = IF gateway THEN Disowned(@, h) ELSE @,
                  !.earliest = IF gateway THEN @ ELSE Earliest({@, hosts[h].until})]

SetGateway(s, h, gateway) ==
    /\ todo[s] = <<>> /\ Spend("marks") /\ Acted(s)
    /\ h \in DOMAIN mem[s].hosts \/ \E c \in mem[s].reg : HostOf[c] = h
    /\ db' = MarkedRow(db, h, gateway)
    /\ mem' = [mem EXCEPT ![s] = Marked(@, h, gateway)]
    /\ Announced(s, TRUE)
    /\ UNCHANGED <<now, todo, open, signed, ghosts>>

-------------------------------------------------------------------------------
(* Following the other instances                                           *)

\* The lease's renewal reads the list's version: one not held is read (follow).
Renewed(s) ==
    /\ mem[s].version < db.version /\ ~due[s]
    /\ due' = [due EXCEPT ![s] = TRUE]
    /\ UNCHANGED <<now, db, mem, todo, listening, reading, open, signed, ghosts, spent>>

\* Revocations::reload_ledger reads the store outside the lock.
Reads(s, refused) ==
    reading' = [reading EXCEPT ![s] = [pc |-> "read", ledger |-> Loaded, clean |-> TRUE,
                                       refused |-> refused]]
ReloadLedger(s) ==
    /\ due[s] /\ reading[s] = NotReading /\ todo[s] = <<>>
    /\ due' = [due EXCEPT ![s] = FALSE]
    /\ Reads(s, 0)
    /\ UNCHANGED <<now, db, mem, todo, listening, open, signed, ghosts, spent>>

\* Revocations::swap.
Swapped(s, fresh) ==
    /\ mem' = [mem EXCEPT ![s] = [fresh EXCEPT !.version = Later(@, mem[s].version)]]
    /\ Changes(s, fresh.list # mem[s].list)
    /\ reading' = [reading EXCEPT ![s] = NotReading]

MaySwapAlways(s) == TRUE
\* Swapped in unless it acted meanwhile; the last read is made under the lock.
MaySwap(s) == reading[s].clean
Swap(s) ==
    /\ reading[s] # NotReading /\ todo[s] = <<>>
    /\ \/ MaySwap(s) /\ Swapped(s, reading[s].ledger)
       \/ /\ ~MaySwap(s) /\ reading[s].refused + 1 < RELOAD_SWAPS_REFUSED
          /\ Reads(s, reading[s].refused + 1) /\ UNCHANGED <<mem, unchecked>>
       \/ /\ ~MaySwap(s) /\ reading[s].refused + 1 = RELOAD_SWAPS_REFUSED
          /\ Swapped(s, Loaded)
    /\ UNCHANGED <<now, db, todo, ears, sessions, signed, ghosts, spent>>

Deaf(s) ==
    /\ listening[s] /\ Spend("deaf")
    /\ listening' = [listening EXCEPT ![s] = FALSE]
    /\ UNCHANGED <<now, db, mem, todo, due, reading, open, signed, ghosts>>
Listen(s) ==
    /\ ~listening[s]
    /\ listening' = [listening EXCEPT ![s] = TRUE] /\ due' = [due EXCEPT ![s] = TRUE]
    /\ UNCHANGED <<now, db, mem, todo, reading, open, signed, ghosts, spent>>

-------------------------------------------------------------------------------
(* Sessions (transport.rs), the clock, and a crash                         *)

\* admit, and Guard::new: what changed between the two is looked at first.
Connect(s, c) ==
    /\ c \notin sessions[s] /\ now < NotAfter[c] /\ c \notin Resolve(mem[s])
    /\ c \in signed \/ (Predecessor[c] = None /\ Bootstrap[c] = None)
    /\ Spend("connects")
    /\ sessions' = [sessions EXCEPT ![s] = @ \cup {c}]
    /\ unchecked' = unchecked \cup {<<s, c>>}
    /\ UNCHANGED <<now, db, mem, todo, ears, reading, signed, ghosts>>

\* Guard::tripped.
Tripped(s, c) ==
    /\ c \in sessions[s] /\ (<<s, c>> \in unchecked \/ now >= NotAfter[c])
    /\ sessions' = IF now >= NotAfter[c] \/ c \in Resolve(mem[s])
                   THEN [sessions EXCEPT ![s] = @ \ {c}] ELSE sessions
    /\ unchecked' = unchecked \ {<<s, c>>}
    /\ UNCHANGED <<now, db, mem, todo, ears, reading, signed, ghosts, spent>>

Tick ==
    /\ now < MaxTime /\ now' = now + 1
    /\ UNCHANGED <<db, mem, todo, ears, reading, open, signed, ghosts, spent>>

\* The instance ends between two of its store calls and is started again: what it was
\* about to write is not written, and Revocations::open reads and prunes.
Open(s) ==
    /\ Spend("crashes")
    /\ mem' = [mem EXCEPT ![s] = Pruned(Loaded)]
    /\ todo' = [todo EXCEPT ![s] = PruneCalls(Loaded)]
    /\ reading' = [reading EXCEPT ![s] = NotReading]
    /\ due' = [due EXCEPT ![s] = TRUE] /\ listening' = [listening EXCEPT ![s] = TRUE]
    /\ sessions' = [sessions EXCEPT ![s] = {}]
    /\ unchecked' = {o \in unchecked : o[1] # s}
    /\ UNCHANGED <<now, db, signed, ghosts>>

FirstRows == [reg |-> {}, list |-> {}, version |-> 0, hosts |-> <<>>,
              bindings |-> [u \in Agent |-> None]]
Init ==
    /\ now = 1 /\ db = FirstRows
    /\ mem = [s \in Server |-> [reg |-> {}, list |-> {}, version |-> 0, hosts |-> <<>>,
                                owners |-> <<>>, earliest |-> Never]]
    /\ todo = [s \in Server |-> <<>>]
    /\ due = [s \in Server |-> FALSE] /\ listening = [s \in Server |-> TRUE]
    /\ reading = [s \in Server |-> NotReading]
    /\ sessions = [s \in Server |-> {}] /\ unchecked = {} /\ signed = {}
    /\ versions = <<{}>> /\ answered = {}
    /\ spent = [what \in Bounded |-> 0]

Next ==
    \/ Tick
    \/ \E s \in Server :
        \/ WriteUntil(s) \/ Forget(s) \/ RemoveIssued(s) \/ Unlist(s) \/ Fail(s)
        \/ ActFails(s)
        \/ Renewed(s) \/ ReloadLedger(s) \/ Swap(s) \/ Deaf(s) \/ Listen(s) \/ Open(s)
        \/ \E c \in Certificate :
            \/ Record(s, c) \/ Admit(s, c) \/ Revoke(s, c) \/ Lift(s, c)
            \/ Connect(s, c) \/ Tripped(s, c)
            \/ \E u \in Agent : CheckReport(s, c, u)
        \/ \E u \in Agent : Release(s, u) \/ RebindFails(s, u) \/ \E v \in Agent : Rebind(s, u, v)
        \/ \E h \in Host, gateway \in BOOLEAN : SetGateway(s, h, gateway)

Spec == Init /\ [][Next]_vars

-------------------------------------------------------------------------------
(* Properties                                                              *)

Row == [gateway : BOOLEAN, until : 0 .. Never]
HeldRow == [gateway : BOOLEAN, until : 0 .. Never, uids : SUBSET Agent]
Stored ==
    [reg : SUBSET Certificate, list : SUBSET Certificate, version : Nat,
     hosts : UNION {[hosts -> Row] : hosts \in SUBSET Host},
     bindings : [Agent -> Host \cup {None}]]
Copy ==
    [reg : SUBSET Certificate, list : SUBSET Certificate, version : Nat \cup {NoVersion},
     hosts : UNION {[hosts -> HeldRow] : hosts \in SUBSET Host},
     owners : UNION {[agents -> Host] : agents \in SUBSET Agent}, earliest : 0 .. Never]
Call ==
    [op : {"remove", "unlist", "admit"}, certificate : Certificate]
    \cup [op : {"extend"}, moves : UNION {[hosts -> 0 .. Never] : hosts \in SUBSET Host}]
    \cup [op : {"forget"}, hosts : SUBSET Host, at : 1 .. MaxTime]
    \cup [op : {"seen"}, host : Host]
Reading == {NotReading} \cup [pc : {"read"}, ledger : Copy, clean : BOOLEAN, refused : Nat]

\* The type invariant.
LedgerTypeOK ==
    /\ now \in 1 .. MaxTime /\ db \in Stored /\ mem \in [Server -> Copy]
    /\ todo \in [Server -> Seq(Call)] /\ reading \in [Server -> Reading]
    /\ due \in [Server -> BOOLEAN] /\ listening \in [Server -> BOOLEAN]
    /\ sessions \in [Server -> SUBSET Certificate] /\ unchecked \subseteq Server \X Certificate
    /\ signed \subseteq Certificate /\ versions \in Seq(SUBSET Certificate)
    /\ answered \subseteq Server \X Certificate /\ spent \in [Bounded -> Nat]

\* No binding stands without its Host's row, and a Host marked as a Gateway is bound
\* none, whichever instance bound, moved, marked or forgot it (bind_seen, rebind,
\* write_host_act).
BindingsStand ==
    \A u \in Agent : db.bindings[u] # None =>
        db.bindings[u] \in DOMAIN db.hosts /\ ~db.hosts[db.bindings[u]].gateway

\* An instance that has answered a revocation holds it until somebody lifts it: no read
\* of the store begun before takes it away again (reload_ledger's count of acts).
AnsweredIsHeld == \A a \in answered : a[2] \in mem[a[1]].list

SaysNoMore(copy) ==
    copy.version # NoVersion =>
        \A c \in Certificate :
            (\A v \in copy.version .. db.version : c \in versions[v + 1]) => c \in copy.list
\* The version an instance holds never says more than its list: a revocation that has
\* stood since that version is held. A renewal that finds the version current reads
\* nothing, so otherwise a lost notification would be missed (took_up_own_write, follow).
VersionIsHeld ==
    \A s \in Server : SaysNoMore(mem[s])

\* A call that waits is still good when it is made: the end it judges a Host by has come,
\* the Host it writes is held, and no read begun before its act is swapped in after it.
CallsStand ==
    \A s \in Server :
        /\ \A i \in DOMAIN todo[s] :
            /\ todo[s][i].op = "forget" => todo[s][i].at <= now
            /\ todo[s][i].op = "seen" => todo[s][i].host \in DOMAIN mem[s].hosts
        /\ todo[s] # <<>> /\ reading[s] # NotReading => ~reading[s].clean

\* What was answered is stored, and is in every read that may be swapped in.
AnswersStand ==
    \A a \in answered :
        /\ a[2] \in db.list
        /\ reading[a[1]] # NotReading /\ reading[a[1]].clean => a[2] \in reading[a[1]].ledger.list

\* The versions name the lists written, the last one what is stored; a read says no more
\* than it holds, and one that may be swapped in is not behind what it replaces.
VersionsStand ==
    /\ Len(versions) = db.version + 1 /\ versions[db.version + 1] = db.list
    /\ \A s \in Server :
        /\ mem[s].version <= db.version
        /\ reading[s] # NotReading =>
            /\ reading[s].ledger.version <= db.version /\ SaysNoMore(reading[s].ledger)
            /\ reading[s].clean => mem[s].version <= reading[s].ledger.version

\* The tables, the copies, the reads and the calls in progress are sound against each
\* other, whichever instances act in between (postgres/ledger.rs, reload_ledger).
LedgerInv ==
    /\ LedgerTypeOK /\ BindingsStand /\ CallsStand
    /\ AnsweredIsHeld /\ AnswersStand /\ VersionIsHeld /\ VersionsStand

\* A stored Host goes only once its stored valid until has passed, whatever the instance
\* that prunes believes, and a valid until never moves back (HostAct, write_seen).
HostsKept ==
    [][\A h \in DOMAIN db.hosts :
        IF h \in DOMAIN db'.hosts THEN db'.hosts[h].until >= db.hosts[h].until
        ELSE ~db.hosts[h].gateway /\ db.hosts[h].until <= now]_vars

\* What an instance signs is decided by what is stored, however far behind its copy is:
\* nothing joins the register past its bound, counted over all instances, a renewal
\* leaving the room kept for enrolments; nothing joins below a revoked certificate or on
\* a revoked bootstrap certificate (register_minting, decide_renewal).
SignedFromStore ==
    [][\A c \in db'.reg \ db.reg :
        /\ Cardinality(db'.reg) <= Size(c)
        /\ Bootstrap[c] \notin db.list
        /\ Predecessor[c] # None => Chain(db.reg, Predecessor[c]) \cap db.list = {}]_vars
===============================================================================
