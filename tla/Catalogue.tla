------------------------------- MODULE Catalogue -------------------------------
(***************************************************************************)
(* What is rolled out to the fleet: the Configurations, Deployments and    *)
(* Packages an operator edits (configs.rs, deployments.rs, packages.rs),   *)
(* the assignments a rollout writes (fleet.rs), and the shared database    *)
(* several Server instances do both through (postgres/), each one holding  *)
(* copies in memory that it reads again when another announces a change    *)
(* (instance.rs, postgres/notify.rs).                                      *)
(*                                                                         *)
(* A revision is a number, 0 where there is none. A Package holds one      *)
(* entry, its bytes a number too. Every Package is built for the Agents'   *)
(* type, so a Deployment holds at most one. A transaction that holds one   *)
(* row and decides under it is one step, taken while nobody holds the row; *)
(* the rollout's, which holds several, is a step for each.                 *)
(***************************************************************************)
EXTENDS Integers, Sequences, FiniteSets, Functions, SequencesExt

CONSTANTS
    Server,         \* the instances
    Agent,
    Configuration,
    Deployment,
    Package,
    Revision,       \* the revisions of a Configuration
    Bytes,          \* the artifacts a Package's entry may hold
    None,           \* no Deployment, no Package
    Gone,           \* the record is not stored, or not held
    Limits          \* bounds: sets of how often each thing happens, and together

Bounded == {"edits", "presses", "deletes", "packages", "forgets", "losses", "deaf", "loads",
            "together"}
Readers == {"act", "follow", "load"}    \* who reads Agents' records

\* Rows of different tables are different rows, and there is something to start on.
ASSUME CatalogueAssumption ==
    /\ Revision \subseteq Nat \ {0} /\ Bytes \subseteq Nat \ {0}
    /\ Revision # {} /\ Bytes # {} /\ Package # {}
    /\ \A rows \in {Agent, Configuration, Deployment, Package} : IsFiniteSet(rows)
    /\ Configuration \cap (Deployment \cup Package) = {} /\ Deployment \cap Package = {}
    /\ None \notin Deployment \cup Package \cup Configuration \cup Server \cup Readers
    /\ Gone \notin Deployment \cup {None}
    /\ Limits \subseteq [Bounded -> Nat]

VARIABLES
    \* The database
    db,         \* the catalogue's rows
    assigned,   \* the assignment in each Agent's row
    txn,        \* the rollout transaction an instance has open
    \* An instance
    mem,        \* ConfigStore.configs, DeploymentStore.deployments, PackageStore.sets
    held,       \* AppState.fleet: the assignment of each record it holds
    pins,       \* PgAgentStore.assignments (Pins)
    reads,      \* the reads of Agents' records in flight, by who reads
    act,        \* the operator's act it is in
    reading,    \* the read of what was heard (take_up)
    heard,      \* what was announced to it and not yet taken up
    listening,  \* its listening connection is up
    \* What the properties speak of
    last,       \* the instance that last committed an Agent's assignment, and knows it
    doubt,      \* an instance that has an answer lost since it last read everything
    passed,     \* Agents an instance loaded while their record was changed
    spent

database == <<db, assigned, txn>>
ears == <<heard, listening>>
ghosts == <<last, doubt, passed>>
vars == <<database, mem, held, pins, reads, act, reading, ears, ghosts, spent>>

Blank(deployment) == [deployment |-> deployment, package |-> None,
                      configurations |-> [c \in Configuration |-> 0]]
Unassigned == Blank(None)
Forgotten == Blank(Gone)       \* no record: neither stored nor held
Stored(a) == assigned[a] # Forgotten
Held(s) == {a \in Agent : held[s][a] # Forgotten}

NoPackage == [stored |-> FALSE, bytes |-> 0, signed |-> FALSE]
EmptyPackage == [stored |-> TRUE, bytes |-> 0, signed |-> FALSE]
NoDeployment == [stored |-> FALSE, package |-> None, configurations |-> {}]

Idle == [pc |-> "idle"]
NoTxn == [open |-> FALSE]
NoRead == [pc |-> "none"]
Quiet == [pc |-> "none"]

Allowed(what) ==
    \E limit \in Limits : /\ spent[what] < limit[what]
                          /\ what # "loads" => spent["together"] < limit["together"]
                          /\ \A w \in Bounded : spent[w] <= limit[w]
Spend(what) ==
    /\ Allowed(what)
    /\ spent' = [spent EXCEPT ![what] = @ + 1,
                              !["together"] = IF what = "loads" THEN @ ELSE @ + 1]

\* The Servers start on a catalogue with one Configuration saved and one Package
\* signed, both in every Deployment, and nothing released.
FirstRows ==
    [saved |-> [c \in Configuration |-> CHOOSE r \in Revision : TRUE],
     retained |-> [c \in Configuration |-> {}],
     deployments |-> [d \in Deployment |->
        [stored |-> TRUE, package |-> CHOOSE p \in Package : TRUE,
         configurations |-> Configuration]],
     packages |-> [p \in Package |->
        [stored |-> TRUE, bytes |-> CHOOSE b \in Bytes : TRUE,
         signed |-> TRUE]]]

Init ==
    /\ db = FirstRows /\ assigned = [a \in Agent |-> Unassigned]
    /\ txn = [s \in Server |-> NoTxn]
    /\ mem = [s \in Server |-> FirstRows]
    /\ held = [s \in Server |-> [a \in Agent |-> Forgotten]]
    /\ pins = [s \in Server |-> [assignments |-> [a \in Agent |-> Unassigned],
                                 commits |-> 0, committed |-> [a \in Agent |-> 0]]]
    /\ reads = [s \in Server |-> [r \in Readers |-> NoRead]]
    /\ act = [s \in Server |-> Idle] /\ reading = [s \in Server |-> Quiet]
    /\ heard = [s \in Server |-> {}] /\ listening = [s \in Server |-> TRUE]
    /\ last = [a \in Agent |-> None] /\ doubt = {} /\ passed = [s \in Server |-> {}]
    /\ spent = [what \in Bounded |-> 0]

-------------------------------------------------------------------------------
(* Notifications                                                           *)

Kinds == {"configurations", "deployments", "packages"}
Everything == Kinds \cup Agent

\* NOTIFY, in the transaction that made the change: every other instance that listens
\* hears it when it commits, and the one that sent it never.
Announce(s, what) ==
    heard' = [t \in Server |-> IF t # s /\ listening[t] THEN heard[t] \cup what ELSE heard[t]]

\* The listening connection ends, and what is announced meanwhile is not heard ...
Deafen(s) ==
    /\ Spend("deaf") /\ listening[s] /\ listening' = [listening EXCEPT ![s] = FALSE]
    /\ UNCHANGED <<database, mem, held, pins, reads, act, reading, heard, ghosts>>

ListenDeaf(s) ==
    /\ ~listening[s] /\ listening' = [listening EXCEPT ![s] = TRUE]
    /\ UNCHANGED <<database, mem, held, pins, reads, act, reading, heard, ghosts, spent>>

\* ... until it is made again, which has everything read.
Listen(s) ==
    /\ ~listening[s] /\ listening' = [listening EXCEPT ![s] = TRUE]
    /\ heard' = [heard EXCEPT ![s] = Everything]
    /\ UNCHANGED <<database, mem, held, pins, reads, act, reading, ghosts, spent>>

-------------------------------------------------------------------------------
(* What the stored assignments pin, as an instance knows it (Pins)         *)

\* Where the reads of s in flight began, but for the reader r's.
InFlight(s, r) ==
    {reads[s][q].began : q \in {q \in Readers \ {r} : reads[s][q].pc \in {"rows", "read"}}}

\* A read ends: a count that no read still in flight can be decided by is dropped.
Ended(committed, inFlight) ==
    [a \in Agent |-> IF \E began \in inFlight : committed[a] > began THEN committed[a] ELSE 0]

\* s committed these assignments.
Noted(s, written) ==
    LET commit == pins[s].commits + 1
    IN  [assignments |-> [a \in Agent |-> IF a \notin DOMAIN written THEN pins[s].assignments[a]
                                          ELSE IF written[a] = Forgotten THEN Unassigned
                                          ELSE written[a]],
         commits |-> commit,
         committed |-> [a \in Agent |-> IF a \in DOMAIN written /\ InFlight(s, None) # {}
                                        THEN commit ELSE pins[s].committed[a]]]

\* A read of the records of `agents': their rows, then their Configurations.
Begin(s, r, agents) ==
    reads' = [reads EXCEPT ![s][r] =
        [pc |-> "rows", began |-> pins[s].commits, agents |-> agents,
         found |-> [a \in agents |-> assigned[a]]]]

ReadConfigurations(s, r) ==
    /\ r \in {"follow", "load"} /\ reads[s][r].pc = "rows"
    /\ reads' = [reads EXCEPT ![s][r].pc = "read",
         ![s][r].found = [a \in reads[s][r].agents |->
            IF @[a] = Forgotten THEN Forgotten
            ELSE [@[a] EXCEPT !.configurations = assigned[a].configurations]]]
    /\ UNCHANGED <<database, mem, held, pins, act, reading, ears, ghosts, spent>>

TakenWhole(s, r) ==
    LET read == reads[s][r]
    IN  [a \in Agent |-> IF a \in read.agents
                         THEN (IF read.found[a] = Forgotten THEN Unassigned ELSE read.found[a])
                         ELSE pins[s].assignments[a]]

\* What a read found is taken into what pins what, but for the records s committed
\* since the read began.
Taken(s, r) ==
    LET read == reads[s][r]
    IN  [a \in Agent |-> IF a \in read.agents /\ pins[s].committed[a] <= read.began
                         THEN (IF read.found[a] = Forgotten THEN Unassigned ELSE read.found[a])
                         ELSE pins[s].assignments[a]]
Refresh(s, r) ==
    [pins[s] EXCEPT !.assignments = Taken(s, r), !.committed = Ended(@, InFlight(s, r))]

-------------------------------------------------------------------------------
(* Locks                                                                   *)

\* The fleet lock: an act holds it from its check to its last write, and the take-up
\* from its comparison on.
FleetFree(s) == act[s].pc \in {"idle", "reading", "packaging"} /\ reading[s].pc # "again"

\* ConfigStore.configs is locked while a rollout writes what it pins.
ConfigsFree(s) == act[s].pc # "releasing"

UnheldUnasked(row) == TRUE

\* A row locked FOR UPDATE waits for every transaction that holds it FOR KEY SHARE.
Unheld(row) == \A s \in Server : txn[s].open => row \notin ToSet(txn[s].holds)

-------------------------------------------------------------------------------
(* Taking up what was heard                                                *)

\* Everything heard by now is answered by one read.
FollowStart(s) ==
    /\ reading[s].pc = "none" /\ heard[s] # {}
    /\ reading' = [reading EXCEPT ![s] = [pc |-> "catalogue", due |-> heard[s],
                                          left |-> heard[s] \cap Kinds]]
    /\ heard' = [heard EXCEPT ![s] = {}]
    /\ doubt' = IF heard[s] = Everything THEN doubt \ {s} ELSE doubt
    /\ UNCHANGED <<database, mem, held, pins, reads, act, listening, last, passed, spent>>

\* reload_catalogue: each store whose flag is set is read again whole, the
\* Configurations first.
Reload(s, kind) ==
    /\ reading[s].pc = "catalogue" /\ kind \in reading[s].left
    /\ reading' = [reading EXCEPT ![s].left = @ \ {kind}]
    /\ \/ /\ kind = "configurations" /\ ConfigsFree(s)
          /\ mem' = [mem EXCEPT ![s].saved = db.saved, ![s].retained = db.retained]
       \/ /\ kind = "deployments" /\ "configurations" \notin reading[s].left
          /\ mem' = [mem EXCEPT ![s].deployments = db.deployments]
       \/ /\ kind = "packages" /\ reading[s].left = {"packages"}
          /\ mem' = [mem EXCEPT ![s].packages = db.packages]
    /\ UNCHANGED <<database, held, pins, reads, act, ears, ghosts, spent>>

\* take_up_agents: the records held are read without the fleet lock ...
FollowRead(s) ==
    LET agents == reading[s].due \cap Held(s)
    IN  /\ reading[s].pc = "catalogue" /\ reading[s].left = {}
        /\ IF agents = {} THEN reading' = [reading EXCEPT ![s] = Quiet] /\ UNCHANGED reads
           ELSE reading' = [reading EXCEPT ![s].pc = "agents"] /\ Begin(s, "follow", agents)
        /\ passed' = [passed EXCEPT ![s] = @ \ agents]
        /\ UNCHANGED <<database, mem, held, pins, act, ears, last, doubt, spent>>

FollowRefresh(s) ==
    /\ reading[s].pc = "agents" /\ reads[s]["follow"].pc = "read"
    /\ pins' = [pins EXCEPT ![s] = Refresh(s, "follow")]
    /\ reads' = [reads EXCEPT ![s]["follow"].pc = "taken"]
    /\ reading' = [reading EXCEPT ![s].pc = "compare"]
    /\ UNCHANGED <<database, mem, held, act, ears, ghosts, spent>>

\* ... and those that differ from what is held once more under it, ...
Differing(s) ==
    {a \in reads[s]["follow"].agents \cap Held(s) : reads[s]["follow"].found[a] # held[s][a]}
FollowCompare(s) ==
    /\ reading[s].pc = "compare" /\ FleetFree(s)
    /\ IF Differing(s) = {}
       THEN /\ reading' = [reading EXCEPT ![s] = Quiet]
            /\ reads' = [reads EXCEPT ![s]["follow"] = NoRead]
       ELSE /\ reading' = [reading EXCEPT ![s].pc = "again"]
            /\ Begin(s, "follow", Differing(s))
    /\ UNCHANGED <<database, mem, held, pins, act, ears, ghosts, spent>>

\* ... which is what is held from now on; a record that is not stored any more is
\* dropped.
FollowApply(s) ==
    LET read == reads[s]["follow"]
    IN  /\ reading[s].pc = "again" /\ read.pc = "read"
        /\ pins' = [pins EXCEPT ![s] = Refresh(s, "follow")]
        /\ held' = [held EXCEPT ![s] = [a \in Agent |->
                                    IF a \in read.agents THEN read.found[a] ELSE @[a]]]
        /\ reads' = [reads EXCEPT ![s]["follow"] = NoRead]
        /\ reading' = [reading EXCEPT ![s] = Quiet]
        /\ UNCHANGED <<database, mem, act, ears, ghosts, spent>>

\* A read that fails is tried again, with what was heard meanwhile.
FollowFails(s) ==
    /\ reading[s].pc # "none" /\ Spend("losses")
    /\ reading' = [reading EXCEPT ![s] =
         [pc |-> "catalogue", due |-> reading[s].due \cup heard[s],
          left |-> (reading[s].due \cup heard[s]) \cap Kinds]]
    /\ heard' = [heard EXCEPT ![s] = {}]
    /\ reads' = [reads EXCEPT ![s]["follow"] = NoRead]
    /\ pins' = [pins EXCEPT ![s].committed = Ended(@, InFlight(s, "follow"))]
    /\ UNCHANGED <<database, mem, held, act, listening, ghosts>>

-------------------------------------------------------------------------------
(* An Agent's first report to an instance                                  *)

\* hold_from_store: its record is read without the fleet lock ...
LoadBegin(s, a) ==
    /\ Spend("loads") /\ a \notin Held(s) /\ reads[s]["load"].pc = "none"
    /\ Begin(s, "load", {a})
    /\ UNCHANGED <<database, mem, held, pins, act, reading, ears, ghosts>>

LoadRefresh(s) ==
    /\ reads[s]["load"].pc = "read"
    /\ pins' = [pins EXCEPT ![s] = Refresh(s, "load")]
    /\ reads' = [reads EXCEPT ![s]["load"].pc = "taken"]
    /\ UNCHANGED <<database, mem, held, act, reading, ears, ghosts, spent>>

\* ... and held once the lock is had. One that is not found is created, unless it is
\* stored by now (create_within).
LoadInsert(s, a) ==
    LET found == reads[s]["load"].found
        loads == found[a] # Forgotten
        taken == IF loads THEN found[a] ELSE IF Stored(a) THEN assigned[a] ELSE Unassigned
    IN  /\ reads[s]["load"].pc = "taken" /\ a \in DOMAIN found /\ FleetFree(s)
        /\ reads' = [reads EXCEPT ![s]["load"] = NoRead]
        /\ IF a \in Held(s) THEN UNCHANGED <<held, assigned, pins, last, passed>>
           ELSE /\ held' = [held EXCEPT ![s][a] = taken]
                /\ passed' = IF taken # assigned[a] /\ loads
                             THEN [passed EXCEPT ![s] = @ \cup {a}] ELSE passed
                /\ IF loads THEN UNCHANGED <<assigned, pins, last>>
                   ELSE /\ assigned' = [assigned EXCEPT ![a] = taken]
                        /\ pins' = [pins EXCEPT ![s] = Noted(s, [b \in {a} |-> taken])]
                        /\ last' = IF Stored(a) THEN last ELSE [last EXCEPT ![a] = s]
        /\ UNCHANGED <<db, txn, mem, act, reading, ears, doubt, spent>>

-------------------------------------------------------------------------------
(* The operator's acts                                                     *)

PinsConfiguration(of, c) == \E a \in Agent : of[a].configurations[c] # 0
PinsPackage(of, p) == \E a \in Agent : of[a].package = p
PinsDeployment(of, d) == \E a \in Agent : of[a].deployment = d

\* A transaction commits: its answer arrives, and what it wrote is taken into memory,
\* or it does not (run_within), and memory stays as it was. One that changed nothing
\* has nothing to announce.
Pay(what, lost) ==
    IF lost THEN /\ Allowed(what) /\ Allowed("losses")
                 /\ spent' = [spent EXCEPT ![what] = @ + 1, !["losses"] = @ + 1,
                                           !["together"] = @ + 2]
    ELSE Spend(what)
Commit(s, what, rows, known, said) ==
    \E lost \in BOOLEAN :
        /\ Pay(what, lost)
        /\ db' = rows
        /\ mem' = IF lost THEN mem ELSE [mem EXCEPT ![s] = known]
        /\ doubt' = IF lost THEN doubt \cup {s} ELSE doubt
        /\ Announce(s, IF rows = db THEN {} ELSE {said})
        /\ UNCHANGED <<assigned, txn, held, pins, reads, reading, listening, last, passed>>

\* save_configuration
Save(s, c, r) ==
    /\ act[s] = Idle
    /\ Commit(s, "edits", [db EXCEPT !.saved[c] = r], [mem[s] EXCEPT !.saved[c] = r],
              "configurations")
    /\ UNCHANGED act

\* The Deployment's row, decided under it and answered as it is stored.
Amend(s, d, deployment) ==
    LET rows == [db EXCEPT !.deployments[d] = deployment]
    IN  Commit(s, "edits", rows, [mem[s] EXCEPT !.deployments[d] = deployment], "deployments")

\* put_deployment: a new one holds nothing, a stored one keeps what it holds.
PutDeployment(s, d) ==
    /\ act[s] = Idle /\ Amend(s, d, [db.deployments[d] EXCEPT !.stored = TRUE])
    /\ UNCHANGED act

\* put_deployment_configuration: checked under the fleet lock, then written.
PutCheck(s, d, c) ==
    /\ act[s] = Idle /\ FleetFree(s) /\ mem[s].saved[c] # 0 /\ Allowed("edits")
    /\ act' = [act EXCEPT ![s] = [pc |-> "putting", on |-> d, what |-> c]]
    /\ UNCHANGED <<database, mem, held, pins, reads, reading, ears, ghosts, spent>>
PutConfiguration(s) ==
    LET d == act[s].on
    IN  /\ act[s].pc = "putting" /\ db.deployments[d].stored /\ Unheld(d)
        /\ Amend(s, d, [db.deployments[d] EXCEPT !.configurations = @ \cup {act[s].what}])
        /\ act' = [act EXCEPT ![s] = Idle]
PutRefused(s) ==
    /\ act[s].pc = "putting" /\ ~db.deployments[act[s].on].stored
    /\ act' = [act EXCEPT ![s] = Idle]
    /\ UNCHANGED <<database, mem, held, pins, reads, reading, ears, ghosts, spent>>

\* remove_deployment_configuration, put_deployment_package, remove_deployment_package
ChangeMembers(s, d) ==
    LET row == db.deployments[d]
    IN  /\ act[s] = Idle /\ row.stored /\ Unheld(d)
        /\ \/ \E c \in row.configurations :
                Amend(s, d, [row EXCEPT !.configurations = @ \ {c}])
           \/ \E p \in Package : Amend(s, d, [row EXCEPT !.package = p])
           \/ row.package # None /\ Amend(s, d, [row EXCEPT !.package = None])
        /\ UNCHANGED act

\* The database decides under the row it holds, from the assignments stored then.
RemovableDeployment(d) ==
    Unheld(d) /\ ~(db.deployments[d].stored /\ PinsDeployment(assigned, d))
RemovableConfiguration(c) ==
    Unheld(c) /\ ~(db.saved[c] # 0 /\ PinsConfiguration(assigned, c))
UnassignableUnasked(p) == FALSE
Unassignable(p) == db.packages[p].stored /\ PinsPackage(assigned, p)
Writable(p) == Unheld(p) /\ ~Unassignable(p)

\* delete_deployment: refused while an assignment this instance knows names it, and
\* again from the stored ones.
DeleteDeployment(s, d) ==
    /\ act[s] = Idle /\ FleetFree(s) /\ ~PinsDeployment(pins[s].assignments, d)
    /\ mem[s].deployments[d].stored
    /\ RemovableDeployment(d)
    /\ Commit(s, "deletes", [db EXCEPT !.deployments[d] = NoDeployment],
              [mem[s] EXCEPT !.deployments[d] = NoDeployment], "deployments")
    /\ UNCHANGED act

\* delete_configuration: the same, and then it leaves every Deployment. One that is
\* not stored any more leaves the memory, and no Deployment.
DeleteConfiguration(s, c) ==
    /\ act[s] = Idle /\ FleetFree(s) /\ ~PinsConfiguration(pins[s].assignments, c)
    /\ mem[s].saved[c] # 0
    /\ RemovableConfiguration(c)
    /\ Commit(s, "deletes", [db EXCEPT !.saved[c] = 0, !.retained[c] = {}],
              [mem[s] EXCEPT !.saved[c] = 0, !.retained[c] = {}], "configurations")
    /\ act' = IF db.saved[c] = 0 \/ mem'[s].saved[c] # 0 THEN act
              ELSE [act EXCEPT ![s] = [pc |-> "dropping", what |-> c]]

\* delete_package_set
DeletePackage(s, p) ==
    /\ act[s] = Idle /\ FleetFree(s) /\ ~PinsPackage(pins[s].assignments, p)
    /\ mem[s].packages[p].stored
    /\ Writable(p)
    /\ Commit(s, "deletes", [db EXCEPT !.packages[p] = NoPackage],
              [mem[s] EXCEPT !.packages[p] = NoPackage], "packages")
    /\ act' = IF mem'[s].packages[p].stored THEN act
              ELSE [act EXCEPT ![s] = [pc |-> "dropping", what |-> p]]

\* drop_configuration, drop_package
Without(deployment, member) ==
    [deployment EXCEPT !.configurations = @ \ {member},
                       !.package = IF @ = member THEN None ELSE @]
Drop(s) ==
    LET holding == {d \in Deployment :
                        Without(db.deployments[d], act[s].what) # db.deployments[d]}
        left(of) == [d \in Deployment |-> IF d \in holding
                        THEN Without(db.deployments[d], act[s].what) ELSE of[d]]
    IN  /\ act[s].pc = "dropping" /\ \A d \in holding : Unheld(d)
        /\ db' = [db EXCEPT !.deployments = left(@)]
        /\ mem' = [mem EXCEPT ![s].deployments = left(@)]
        /\ act' = [act EXCEPT ![s] = Idle]
        /\ Announce(s, IF holding = {} THEN {} ELSE {"deployments"})
        /\ UNCHANGED <<assigned, txn, held, pins, reads, reading, listening, ghosts, spent>>
DropFails(s) ==
    /\ act[s].pc = "dropping" /\ Spend("losses")
    /\ act' = [act EXCEPT ![s] = Idle]
    /\ UNCHANGED <<database, mem, held, pins, reads, reading, ears, ghosts>>

\* create_package_set
CreatePackage(s, p) ==
    /\ act[s] = Idle /\ ~mem[s].packages[p].stored
    /\ LET row == [db.packages[p] EXCEPT !.stored = TRUE]
       IN  Commit(s, "packages", [db EXCEPT !.packages[p] = row],
                  [mem[s] EXCEPT !.packages[p] = EmptyPackage], "packages")
    /\ UNCHANGED act

\* A write to a Package's entry is refused while an assignment this instance knows
\* pins the Package ...
PackageCheck(s, p, what) ==
    /\ act[s] = Idle /\ FleetFree(s) /\ ~PinsPackage(pins[s].assignments, p)
    /\ mem[s].packages[p].stored /\ Allowed("packages")
    /\ what = "upload" \/ mem[s].packages[p].bytes # 0
    /\ act' = [act EXCEPT ![s] = [pc |-> "packaging", on |-> p, what |-> what]]
    /\ UNCHANGED <<database, mem, held, pins, reads, reading, ears, ghosts, spent>>

\* ... and again where a stored one does.
Entry(s, p, row) ==
    /\ Writable(p)
    /\ Commit(s, "packages", [db EXCEPT !.packages[p] = row],
              [mem[s] EXCEPT !.packages[p] = row], "packages")
    /\ act' = [act EXCEPT ![s] = Idle]

\* put_package_entry: new bytes take the old signature with them.
Upload(s, b) ==
    LET p == act[s].on
    IN  /\ act[s].pc = "packaging" /\ act[s].what = "upload" /\ db.packages[p].stored
        /\ mem[s].packages[p].stored
        /\ Entry(s, p, [stored |-> TRUE, bytes |-> b, signed |-> FALSE])

\* put_package_entry_signature, remove_package_entry_signature: onto the bytes this
\* instance holds.
Sign(s) ==
    LET p == act[s].on
    IN  /\ act[s].pc = "packaging" /\ act[s].what \in {"sign", "unsign"}
        /\ mem[s].packages[p].bytes # 0 /\ db.packages[p].bytes = mem[s].packages[p].bytes
        /\ Entry(s, p, [db.packages[p] EXCEPT !.signed = (act[s].what = "sign")])

\* Where the bytes stored are others, they are taken into memory and nothing is signed.
SignChanged(s) ==
    LET p == act[s].on
    IN  /\ act[s].pc = "packaging" /\ act[s].what \in {"sign", "unsign"}
        /\ Writable(p)
        /\ mem[s].packages[p].bytes # 0 /\ db.packages[p].bytes # mem[s].packages[p].bytes
        /\ mem' = [mem EXCEPT ![s].packages[p].bytes = db.packages[p].bytes,
                              ![s].packages[p].signed = db.packages[p].signed]
        /\ act' = [act EXCEPT ![s] = Idle]
        /\ UNCHANGED <<database, held, pins, reads, reading, ears, ghosts, spent>>

\* delete_package_entry
DeleteEntry(s) ==
    LET p == act[s].on
    IN  /\ act[s].pc = "packaging" /\ act[s].what = "delete"
        /\ mem[s].packages[p].bytes # 0
        /\ Writable(p)
        /\ Commit(s, "packages",
                  [db EXCEPT !.packages[p].bytes = 0, !.packages[p].signed = FALSE],
                  [mem[s] EXCEPT !.packages[p] = EmptyPackage], "packages")
        /\ act' = [act EXCEPT ![s] = Idle]

\* The write finds the Package pinned, or gone, and is refused.
PackageRefused(s) ==
    LET p == act[s].on
    IN  /\ act[s].pc = "packaging"
        /\ \/ Unassignable(p) /\ Unheld(p)
           \/ ~mem[s].packages[p].stored
           \/ act[s].what = "upload" /\ ~db.packages[p].stored
           \/ act[s].what # "upload" /\ mem[s].packages[p].bytes = 0
        /\ act' = [act EXCEPT ![s] = Idle]
        /\ UNCHANGED <<database, mem, held, pins, reads, reading, ears, ghosts, spent>>

-------------------------------------------------------------------------------
(* The rollout                                                             *)

\* rollout_deployment, rollout_to_agent: the Agents' records are read first, in one
\* snapshot, without the fleet lock.
RolloutRead(s, d, agents) ==
    /\ act[s] = Idle /\ ~txn[s].open /\ Spend("presses")
    /\ act' = [act EXCEPT ![s] = [pc |-> "reading", on |-> d]]
    /\ reads' = [reads EXCEPT ![s]["act"] =
         [pc |-> "read", began |-> pins[s].commits, agents |-> agents,
          found |-> [a \in agents |-> assigned[a]]]]
    /\ UNCHANGED <<database, mem, held, pins, reading, ears, ghosts>>

RolloutRefresh(s) ==
    /\ act[s].pc = "reading" /\ reads[s]["act"].pc = "read"
    /\ pins' = [pins EXCEPT ![s] = Refresh(s, "act")]
    /\ reads' = [reads EXCEPT ![s]["act"].pc = "taken"]
    /\ UNCHANGED <<database, mem, held, act, reading, ears, ghosts, spent>>

\* The record of a as the press matches it: as read, else as held.
Matched(s, a) ==
    IF reads[s]["act"].found[a] # Forgotten THEN reads[s]["act"].found[a] ELSE held[s][a]

\* release: what d would release to an Agent assigned `now'. The Package is moved
\* where it is a candidate, and stays pinned where it is none; `moves' is what the
\* Agent reports to run.
Release(s, d, now, moves) ==
    LET deployment == mem[s].deployments[d]
        candidate == /\ deployment.package # None /\ moves
                     /\ mem[s].packages[deployment.package].bytes # 0
        package == IF candidate THEN deployment.package
                   ELSE IF deployment.package # None THEN now.package ELSE None
        configurations == [c \in Configuration |->
                             IF c \in deployment.configurations THEN mem[s].saved[c] ELSE 0]
    IN  IF package = None /\ \A c \in Configuration : configurations[c] = 0 THEN Unassigned
        ELSE [deployment |-> d, package |-> package, configurations |-> configurations]

\* refuse_unreleasable
Releasable(s, d) ==
    LET deployment == mem[s].deployments[d]
    IN  /\ deployment.stored
        /\ deployment.package # None \/ deployment.configurations # {}
        /\ deployment.package # None =>
              LET package == mem[s].packages[deployment.package]
              IN  package.bytes # 0 => package.signed

\* The press, under the fleet lock: what each Agent it moves is released.
Press(s, moves) ==
    LET d == act[s].on
        agents == {a \in reads[s]["act"].agents : Matched(s, a) # Forgotten}
        moved == {a \in agents : Release(s, d, Matched(s, a), moves) # Matched(s, a)}
    IN  /\ act[s].pc = "reading" /\ reads[s]["act"].pc = "taken" /\ FleetFree(s)
        /\ reads' = [reads EXCEPT ![s]["act"] = NoRead]
        /\ act' = [act EXCEPT ![s] =
             IF ~Releasable(s, d) \/ moved = {} THEN Idle
             ELSE [pc |-> "pressed",
                   releases |-> [a \in moved |-> Release(s, d, Matched(s, a), moves)],
                   touched |-> {c \in Configuration : \E a \in moved :
                                    Matched(s, a).configurations[c] # 0}]]
        /\ UNCHANGED <<database, mem, held, pins, reading, ears, ghosts, spent>>

\* ConfigStore::pin: every revision released is the one saved now. A Configuration
\* that left the memory since the press ends the act.
Names(releases) ==
    {c \in Configuration : \E a \in DOMAIN releases : releases[a].configurations[c] # 0}
Collecting(names) == IF names = {} THEN Idle ELSE [pc |-> "collect", names |-> names]
Pin(s) ==
    LET releases == act[s].releases
        names == Names(releases)
        hashed == [a \in DOMAIN releases |-> [releases[a] EXCEPT !.configurations =
                     [c \in Configuration |-> IF @[c] # 0 THEN mem[s].saved[c] ELSE 0]]]
        rows == SetToSeq(names)
                \o SetToSeq({releases[a].package : a \in DOMAIN releases} \ {None})
                \o SetToSeq({releases[a].deployment : a \in DOMAIN releases} \ {None})
    IN  /\ act[s].pc = "pressed"
        /\ IF \E c \in names : mem[s].saved[c] = 0
           THEN /\ act' = [act EXCEPT ![s] = Collecting(names)]
                /\ UNCHANGED txn
           ELSE /\ act' = [act EXCEPT ![s] = [pc |-> "releasing", names |-> names,
                                              touched |-> act[s].touched \cup names]]
                /\ txn' = [txn EXCEPT ![s] =
                     [open |-> TRUE, waited |-> TRUE, todo |-> rows, holds |-> <<>>,
                      writes |-> hashed,
                      pinned |-> [c \in Configuration |->
                                    IF c \in names THEN {mem[s].saved[c]} ELSE {}]]]
        /\ UNCHANGED <<db, assigned, mem, held, pins, reads, reading, ears, ghosts, spent>>

\* The transaction holds each row it pins FOR KEY SHARE, the Configurations', the
\* Packages', then the Deployment's, until it ends.
InDb(row) ==
    \/ row \in Configuration /\ db.saved[row] # 0
    \/ row \in Package /\ db.packages[row].stored
    \/ row \in Deployment /\ db.deployments[row].stored
HoldRow(s) ==
    /\ txn[s].open /\ txn[s].todo # <<>> /\ InDb(Head(txn[s].todo))
    /\ txn' = [txn EXCEPT ![s].todo = Tail(@), ![s].holds = Append(@, Head(txn[s].todo))]
    /\ UNCHANGED <<db, assigned, mem, held, pins, reads, act, reading, ears, ghosts, spent>>

\* What pin leaves in memory, whether the write succeeded or not.
Retained(s, t) == [mem EXCEPT ![s].retained =
                     [c \in Configuration |-> IF mem[s].saved[c] = 0 THEN {}
                                              ELSE @[c] \cup t.pinned[c]]]
\* The write failed: the assignments held stay, and what nothing references is
\* collected.
Failed(s) ==
    /\ mem' = Retained(s, txn[s])
    /\ act' = [act EXCEPT ![s] = Collecting(act[s].names)]

\* A row that is not there, or the database, ends it with nothing written.
Abort(s) ==
    /\ txn[s].open
    /\ \/ txn[s].todo # <<>> /\ ~InDb(Head(txn[s].todo)) /\ UNCHANGED spent
       \/ Spend("losses")
    /\ txn' = [txn EXCEPT ![s] = NoTxn]
    /\ IF txn[s].waited THEN Failed(s) ELSE UNCHANGED <<mem, act>>
    /\ UNCHANGED <<db, assigned, held, pins, reads, reading, ears, ghosts>>

\* run_within gives up on it while it may still commit.
GiveUp(s) ==
    /\ txn[s].open /\ txn[s].waited /\ Spend("losses")
    /\ txn' = [txn EXCEPT ![s].waited = FALSE]
    /\ Failed(s)
    /\ UNCHANGED <<db, assigned, held, pins, reads, reading, ears, ghosts>>

\* It commits the revisions and the assignments, of the records still stored. Where it
\* is waited for, they are this instance's from then on, and a record that is not
\* stored is dropped.
CommitRelease(s) ==
    LET t == txn[s]
        wrote == {a \in DOMAIN t.writes : Stored(a)}
        written == [a \in wrote |-> t.writes[a]]
    IN  /\ t.open /\ t.todo = <<>>
        /\ txn' = [txn EXCEPT ![s] = NoTxn]
        /\ assigned' = [a \in Agent |-> IF a \in wrote THEN written[a] ELSE assigned[a]]
        /\ db' = [db EXCEPT !.retained = [c \in Configuration |-> @[c] \cup t.pinned[c]]]
        /\ Announce(s, wrote \cup (IF act[s].pc = "releasing" /\ act[s].names = {} THEN {}
                                   ELSE {"configurations"}))
        /\ IF t.waited
           THEN /\ mem' = Retained(s, t)
                /\ pins' = [pins EXCEPT ![s] = Noted(s, written)]
                /\ held' = [held EXCEPT ![s] = [a \in Agent |->
                              IF a \notin DOMAIN t.writes \cap Held(s) THEN @[a]
                              ELSE IF a \in wrote THEN written[a] ELSE Forgotten]]
                /\ act' = [act EXCEPT ![s] = Collecting(act[s].touched)]
                /\ last' = [a \in Agent |-> IF a \in wrote THEN s ELSE last[a]]
                /\ UNCHANGED doubt
           ELSE /\ last' = [a \in Agent |-> IF a \in wrote THEN None ELSE last[a]]
                /\ doubt' = doubt \cup {s}
                /\ UNCHANGED <<mem, pins, held, act>>
        /\ UNCHANGED <<reads, reading, listening, passed, spent>>

\* collect_revisions: of each Configuration the revisions that neither this instance
\* nor the database knows to be pinned are dropped.
Referenced(of, c) == {of[a].configurations[c] : a \in Agent}
Kept(s, c) ==
    IF db.saved[c] = 0 THEN {}
    ELSE db.retained[c] \cap (Referenced(pins[s].assignments, c) \cup Referenced(assigned, c))
Collect(s) ==
    LET c == CHOOSE c \in act[s].names : TRUE
        kept == Kept(s, c)
    IN  /\ act[s].pc = "collect" /\ (mem[s].saved[c] = 0 \/ Unheld(c))
        /\ IF mem[s].saved[c] = 0 THEN UNCHANGED <<db, mem, heard>>
           ELSE /\ db' = [db EXCEPT !.retained[c] = kept]
                /\ mem' = [mem EXCEPT ![s].retained[c] = kept]
                /\ Announce(s, IF db.retained[c] = kept THEN {} ELSE {"configurations"})
        /\ act' = [act EXCEPT ![s] = Collecting(act[s].names \ {c})]
        /\ UNCHANGED <<assigned, txn, held, pins, reads, reading, listening, ghosts, spent>>
CollectFails(s) ==
    /\ act[s].pc = "collect" /\ Spend("losses")
    /\ act' = [act EXCEPT ![s] = Idle]
    /\ UNCHANGED <<database, mem, held, pins, reads, reading, ears, ghosts>>

\* forget_agent, of an Agent that fell silent: its row goes, and what only it pinned is
\* collected.
Forget(s, a) ==
    LET known == IF a \in Held(s) THEN held[s][a] ELSE assigned[a]
    IN  /\ act[s] = Idle /\ FleetFree(s) /\ Spend("forgets")
        /\ a \in Held(s) \/ Stored(a)
        /\ assigned' = [assigned EXCEPT ![a] = Forgotten]
        /\ held' = [held EXCEPT ![s][a] = Forgotten]
        /\ act' = [act EXCEPT ![s] =
             Collecting({c \in Configuration : known.configurations[c] # 0})]
        /\ IF Stored(a) THEN /\ pins' = [pins EXCEPT ![s] = Noted(s, [b \in {a} |-> Forgotten])]
                             /\ last' = [last EXCEPT ![a] = s]
                             /\ Announce(s, {a})
           ELSE UNCHANGED <<pins, last, heard>>
        /\ UNCHANGED <<db, txn, mem, reads, reading, listening, doubt, passed>>

-------------------------------------------------------------------------------
\* ConfigStore::compose: the Configurations an Agent is offered, of those assigned.
Composed(s, a) ==
    {c \in Configuration : held[s][a].configurations[c] \in mem[s].retained[c]}

Follow(s) ==
    \/ Listen(s) \/ FollowStart(s) \/ FollowRead(s) \/ FollowRefresh(s) \/ FollowCompare(s)
    \/ FollowApply(s) \/ FollowFails(s)
    \/ \E kind \in Kinds : Reload(s, kind)
    \/ \E r \in {"follow", "load"} : ReadConfigurations(s, r)
Load(s) == \E a \in Agent : LoadBegin(s, a) \/ LoadInsert(s, a)
Edit(s) ==
    \/ \E c \in Configuration, r \in Revision : Save(s, c, r)
    \/ \E d \in Deployment : PutDeployment(s, d) \/ ChangeMembers(s, d) \/ DeleteDeployment(s, d)
    \/ \E d \in Deployment, c \in Configuration : PutCheck(s, d, c)
    \/ PutConfiguration(s) \/ PutRefused(s)
    \/ \E c \in Configuration : DeleteConfiguration(s, c)
    \/ Drop(s) \/ DropFails(s)
EditPackage(s) ==
    \/ \E p \in Package : CreatePackage(s, p) \/ DeletePackage(s, p)
    \/ \E p \in Package, what \in {"upload", "sign", "unsign", "delete"} :
            PackageCheck(s, p, what)
    \/ \E b \in Bytes : Upload(s, b)
    \/ Sign(s) \/ SignChanged(s) \/ DeleteEntry(s) \/ PackageRefused(s)
Rollout(s) ==
    \/ \E d \in Deployment, agents \in {Agent} \cup {{a} : a \in Agent} : RolloutRead(s, d, agents)
    \/ RolloutRefresh(s) \/ (\E moves \in BOOLEAN : Press(s, moves)) \/ Pin(s)
    \/ HoldRow(s) \/ Abort(s) \/ GiveUp(s) \/ CommitRelease(s) \/ Collect(s) \/ CollectFails(s)

Next ==
    \E s \in Server : \/ Follow(s) \/ Load(s) \/ LoadRefresh(s) \/ Deafen(s)
                      \/ Edit(s) \/ EditPackage(s) \/ Rollout(s)
                      \/ \E a \in Agent : Forget(s, a)

Spec == Init /\ [][Next]_vars

-------------------------------------------------------------------------------
(* Properties                                                              *)

\* An assignment, as an instance may have read it; the ones a rollout writes; and those
\* of some of the Agents.
Assignment == [deployment : Deployment \cup {None, Gone}, package : Package \cup {None},
               configurations : [Configuration -> Revision \cup {0}]]
Released == {x \in Assignment : x.deployment \in Deployment} \cup {Unassigned}
Some(values) == UNION {[agents -> values] : agents \in SUBSET Agent}

Member == [stored : BOOLEAN, package : Package \cup {None}, configurations : SUBSET Configuration]
Artifact == [stored : BOOLEAN, bytes : Bytes \cup {0}, signed : BOOLEAN]
Rows == [saved : [Configuration -> Revision \cup {0}],
         retained : [Configuration -> SUBSET Revision],
         deployments : [Deployment -> Member], packages : [Package -> Artifact]]
Row == Configuration \cup Package \cup Deployment
Txn == [open : {TRUE}, waited : BOOLEAN, todo : Seq(Row), holds : Seq(Row),
        writes : Some(Released), pinned : [Configuration -> SUBSET Revision]]
Pins == [assignments : [Agent -> Assignment \ {Forgotten}], commits : Nat,
         committed : [Agent -> Nat]]
Read == [pc : {"rows", "read", "taken"}, began : Nat, agents : SUBSET Agent,
         found : Some(Assignment)]
Act == [pc : {"putting"}, on : Deployment, what : Configuration]
       \cup [pc : {"dropping"}, what : Configuration \cup Package]
       \cup [pc : {"packaging"}, on : Package, what : {"upload", "sign", "unsign", "delete"}]
       \cup [pc : {"reading"}, on : Deployment]
       \cup [pc : {"pressed"}, releases : Some(Released), touched : SUBSET Configuration]
       \cup [pc : {"releasing"}, names : SUBSET Configuration, touched : SUBSET Configuration]
       \cup [pc : {"collect"}, names : (SUBSET Configuration) \ {{}}]
Reading == [pc : {"catalogue", "agents", "compare", "again"}, due : SUBSET Everything,
            left : SUBSET Kinds]

CatalogueTypeOK ==
    /\ db \in Rows /\ mem \in [Server -> Rows]
    /\ assigned \in [Agent -> Released \cup {Forgotten}]
    /\ held \in [Server -> [Agent -> Assignment]] /\ pins \in [Server -> Pins]
    /\ txn \in [Server -> Txn \cup {NoTxn}] /\ act \in [Server -> Act \cup {Idle}]
    /\ reads \in [Server -> [Readers -> Read \cup {NoRead}]]
    /\ reading \in [Server -> Reading \cup {Quiet}]
    /\ heard \in [Server -> SUBSET Everything] /\ listening \in [Server -> BOOLEAN]
    /\ last \in [Agent -> Server \cup {None}] /\ doubt \subseteq Server
    /\ passed \in [Server -> SUBSET Agent]

\* What is not stored has no members, revisions or bytes.
SoundRows(rows) ==
    /\ \A c \in Configuration : rows.saved[c] = 0 => rows.retained[c] = {}
    /\ \A p \in Package : rows.packages[p].signed => rows.packages[p].bytes # 0
    /\ \A p \in Package : rows.packages[p].bytes # 0 => rows.packages[p].stored
    /\ \A d \in Deployment : ~rows.deployments[d].stored => rows.deployments[d] = NoDeployment
RowsSound == SoundRows(db) /\ \A s \in Server : SoundRows(mem[s])

\* An act, a read and a transaction are where each other expects them: a transaction
\* somebody waits for is the act's, a take-up that compares has read, and one that holds
\* the fleet lock holds it alone.
Coupled(s) ==
    /\ (act[s].pc = "releasing") <=> (txn[s].open /\ txn[s].waited)
    /\ act[s].pc \in {"reading", "pressed"} => ~txn[s].open
    /\ reading[s].pc \in {"none", "catalogue"} => reads[s]["follow"].pc = "none"
    /\ reading[s].pc \in {"agents", "again"} => reads[s]["follow"].pc \in {"rows", "read"}
    /\ reading[s].pc = "compare" => reads[s]["follow"].pc = "taken"
    /\ reading[s].pc = "again" => act[s].pc \in {"idle", "reading", "packaging"}
    /\ reading[s].pc # "none" => reading[s].left \subseteq reading[s].due
    /\ reads[s]["follow"].pc # "none" => reads[s]["follow"].agents \subseteq reading[s].due
    /\ \A r \in Readers : reads[s][r].pc # "none" =>
          DOMAIN reads[s][r].found = reads[s][r].agents

\* An open release holds rows that are there, and has asked for, or is to ask for, every
\* row of what it will write.
AskedFor(t) == ToSet(t.todo) \cup ToSet(t.holds)
HoldsWhatItPins(s) ==
    txn[s].open =>
        /\ \A row \in ToSet(txn[s].holds) : InDb(row)
        /\ \A c \in Configuration : txn[s].pinned[c] # {} =>
              c \in AskedFor(txn[s]) /\ (txn[s].waited => c \in act[s].names)
        /\ \A a \in DOMAIN txn[s].writes : txn[s].writes[a] # Unassigned =>
              /\ txn[s].writes[a].deployment \in AskedFor(txn[s])
              /\ txn[s].writes[a].package \in AskedFor(txn[s]) \cup {None}
              /\ \A c \in Configuration : txn[s].writes[a].configurations[c] # 0 =>
                    txn[s].writes[a].configurations[c] \in txn[s].pinned[c]

\* A read in flight has what this instance committed since, or knows that it has not.
ReadsKnowCommits(s) ==
    \A r \in Readers : reads[s][r].pc \in {"rows", "read"} =>
        /\ reads[s][r].began <= pins[s].commits
        /\ \A a \in reads[s][r].agents : last[a] = s =>
              \/ pins[s].committed[a] > reads[s][r].began
              \/ reads[s][r].found[a] = assigned[a]

\* Where an instance that listens, and has no answer lost, is behind what is stored, it
\* has heard of it or is about to read it.
Awaited(s) == heard[s] \cup (IF reading[s].pc = "catalogue" THEN reading[s].left ELSE {})
Fresh(s, a) == reads[s]["follow"].found[a] \in {assigned[a], Forgotten}
AgentDue(s, a) ==
    \/ a \in heard[s]
    \/ reading[s].pc = "catalogue" /\ a \in reading[s].due
    \/ reads[s]["follow"].pc # "none" /\ a \in reads[s]["follow"].agents /\ Fresh(s, a)
BehindIsDue(s) ==
    listening[s] /\ s \notin doubt =>
        /\ "configurations" \notin Awaited(s) =>
              /\ mem[s].saved = db.saved
              /\ \A c \in Configuration : db.retained[c] \subseteq mem[s].retained[c]
        /\ "deployments" \notin Awaited(s) => mem[s].deployments = db.deployments
        /\ "packages" \notin Awaited(s) => mem[s].packages = db.packages
        /\ \A a \in Held(s) \ passed[s] : held[s][a] = assigned[a] \/ AgentDue(s, a)
        /\ reading[s].pc = "again" =>
              \A a \in reads[s]["follow"].agents : a \in heard[s] \/ Fresh(s, a)

\* What an Agent is assigned is there: the Deployment it was released through, the
\* Package, and the revision of every Configuration are stored, whatever other instances
\* delete, collect or overwrite while the rollout is on its way, and whether or not the
\* instance that made it heard of the commit.
PinsResolve ==
    \A a \in Agent : assigned[a].deployment \in Deployment =>
        /\ db.deployments[assigned[a].deployment].stored
        /\ assigned[a].package # None => db.packages[assigned[a].package].stored
        /\ \A c \in Configuration : assigned[a].configurations[c] # 0 =>
              assigned[a].configurations[c] \in db.retained[c]

\* The bytes and the signature of a Package an Agent is assigned never change under it.
AssignedBytesKept ==
    [][\A a \in Agent : \A p \in Package :
          assigned[a].package = p /\ assigned'[a].package = p
             => db'.packages[p] = db.packages[p]]_vars

\* What an instance takes to be pinned never falls behind its own commit: a read of the
\* records that began before the commit and ends after it does not put the old
\* assignment back.
OwnCommitsPinned ==
    \A a \in Agent : last[a] # None =>
        pins[last[a]].assignments[a] = (IF Stored(a) THEN assigned[a] ELSE Unassigned)

\* What an instance holds is sound: its shape and its locks, the rows its release holds,
\* its pins and reads against what it committed, and what it is behind with against what
\* it has heard (Pins, PgAgentStore::refresh, take_up).
CatalogueInv ==
    /\ CatalogueTypeOK /\ RowsSound /\ OwnCommitsPinned
    /\ \A s \in Server :
        Coupled(s) /\ HoldsWhatItPins(s) /\ ReadsKnowCommits(s) /\ BehindIsDue(s)

\* Once it has taken up what it heard, an instance holds the catalogue and the
\* assignments as they are stored, and every revision it is to offer: no announcement
\* is lost between two reads, with the listening connection, or to an act of its own.
\* But for an answer it never got, and for an Agent whose record changed between being
\* read and being held.
CaughtUp ==
    \A s \in Server :
        /\ listening[s] /\ heard[s] = {} /\ reading[s].pc = "none" /\ act[s] = Idle
        /\ ~txn[s].open /\ s \notin doubt
        => /\ mem[s].saved = db.saved /\ mem[s].deployments = db.deployments
           /\ mem[s].packages = db.packages
           /\ \A c \in Configuration : db.retained[c] \subseteq mem[s].retained[c]
           /\ \A a \in Held(s) \ passed[s] :
                /\ held[s][a] = assigned[a]
                /\ Composed(s, a) = {c \in Configuration : assigned[a].configurations[c] # 0}
===============================================================================
