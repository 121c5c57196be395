# A TLA+ model of opamp-fleet

opamp-fleet manages a fleet of telemetry Agents over the OpAMP protocol. A
*Server* (`crates/fleet-server`) holds Configurations, Deployments, Packages and
the record of every Agent, offers them what they are assigned and writes an audit
record; several Server processes may share one PostgreSQL database. A *Client*
(`crates/fleet-agent`) runs beside each Agent, supervises its process, applies
what the Server offers and may act as a *Gateway* for other Clients.
`crates/opamp` is the protocol both speak, `crates/fleet-core` what they share.

This directory holds TLA+ modules translated from that code, the TLC
configurations that check them on small instances, and TLAPS proofs of the
central safety properties for all instances. `PROJECT.json` maps each definition
to the lines it models.

## The parts of the system

| part | state it keeps | operations | hard because | correct when |
| --- | --- | --- | --- | --- |
| lease (`instance.rs`, `postgres/lease.rs`) | rows of `leases`, the exclusive lock, the audit chain of a lease | take, renew, take over, release | requests given up on that commit late, crash between two statements | no process proves a lease the database does not grant; an alone instance is alone |
| serve (`instance.rs`) | the two planes, the lease they opened under | open, cut, bind again, stop | the lease changes while addresses are bound | no connection outlives the lease it was admitted under |
| agent protocol (`opamp/client/protocol.rs`) | sequence number, dirty flags, status | build a report, handle a reply | a report is compressed against what the Server is believed to hold | omitted parts are never out of date at the Server |
| drivers (`client/http.rs`, `ws.rs`, `transport/mod.rs`) | the exchange or socket in progress | poll, heartbeat, reconnect, back off | lost, late and throttled exchanges | what a lost report carried reaches the Server |
| engine, supervised Agents, Runner (`engine.rs`, `supervisor/`) | stored configuration, command and event queues, the process | apply, restart, install, reconfigure | verdicts and offers cross; queues are bounded; the Client restarts | each offered configuration gets its verdict; a restart happens once |
| fleet records (`fleet.rs`) | a record per Agent, digests of what was written | process a report, offer, push, restart, rollout, forget | locks are released around store calls | the loop closes |
| presence and takeover (`fleet.rs`, `postgres/agents.rs`) | holder, count of takes, presence batches, announcements | take, batch, release, forget, flush | several instances and sockets, one Agent | one carrier; the row names it and holds the last report |
| catalogue (`configs.rs`, `deployments.rs`, `packages.rs`) | revisions, Deployments, pins | save, roll out, delete, collect | a rollout and a deletion on two instances | what an Agent is assigned exists |
| audit (`audit_log.rs`, `postgres/audit*.rs`) | hash chains, batches, sealed segments | place, commit, switch chain, prune | lost answers across a change of lease | every entry once, in one unbroken chain |
| enrolment, revocation, renewal (`enrolment.rs`, `revocation.rs`, `ca.rs`) | requests, ledger, list versions, bindings | submit, approve, revoke, renew | a decision races a session already admitted | no session outlives its revocation for long; a certificate is issued once |
| gateway (`gateway/`) | upstream pool, package cache, policy | relay, cache, enrol through | two ends that fail independently | an answer reaches the Agent it is for |
| self update, reconfiguration (`update/`, `reconfigure.rs`) | marker, versions, tombstones | install, probation, commit, roll back; plan, apply, undo | crash between any two steps | a Client that does not come up is rolled back |
| rate limits, API, stores, service integration, tools | | | mostly data and I/O | |

The Server's instances share nothing but the database and its notifications. Inside
one instance the WebSocket loops, the presence batch, the task that takes up
notifications and the REST handlers share the fleet behind one lock, and several of
them read the store before they take it. A Client runs one session and one adapter
task per Managed Process, joined by two bounded queues.
`PROJECT.json` lists every part under `components`, and under `hazards` what is hard
to test here, each at its line.

## Modules

| module | models | composed of |
| --- | --- | --- |
| `Lease` | the lease of a Server instance: `instance.rs` (thread `renew`), `postgres/lease.rs`, the exclusive lock of `postgres/mod.rs` | |
| `Serve` | the planes that are open under a lease: `instance.rs` (`serve`, `bind_again`) | extends `Lease` |
| `LeaseProofs` | theorems about `Lease` and `Serve` | extends `Serve` |
| `ControlLoop` | one Agent and one Server: reports, offers, verdicts, restarts | |
| `Presence` | one Agent, several instances and sockets, the row in `agents` | |
| `AuditPromise` | what the audit record promises of each decision (abstract) | |
| `AuditChain` | the audit record on PostgreSQL: channel, writer, chains | implements `AuditPromise` |
| `AuditPrune` | the pruning of the record, in rounds | extends `AuditChain` |
| `Catalogue` | Configurations, Deployments, Packages, rollouts and assignments on several instances | |
| `Ledger` | the register of certificates, the revocation list, the Hosts and their Agents | |
| `Enrolment` | the enrolment window, its queue, the decisions and the enrolling connections | |
| `SelfUpdate` | the Client replacing its own binary | |
| `PackageInstall` | a package, configurations and restarts at one Runner | |
| `LoopProofs`, `PresenceProofs`, `CatalogueProofs`, `LedgerProofs`, `EnrolmentProofs`, `SelfUpdateProofs`, `PackageProofs` | theorems about `ControlLoop`, `Presence`, `Catalogue`, `Ledger`, `Enrolment`, `SelfUpdate`, `PackageInstall` | each extends its module |
| `MC...` | the instances TLC checks: constants, bounds and nothing else | |

### Lease

One process of `Instance` is one start-to-exit life of `fleet-server` after
another. The database is `rows`/`expires` (table `leases`), `chain` (table
`audit_chains`), `lock` (the session-level advisory lock `EXCLUSIVE_LOCK`) and
`txn` (the transaction that holds `LEASES_LOCK`). The process is its thread
`renew`, one value of `phase` for each place where that thread waits.

* A take is four steps: it is sent (`SendTake`), begins (`BeginTake`, where the
  database fixes `now()`), runs its statements under `LEASES_LOCK` (`ExecTake`) and
  commits (`CommitTake`) or is rolled back (`AbortTake`). The first three need the
  client that drives them (`Driven`); the commit, once sent, does not, so a take
  that `run_within` has given up on may still land.
* A renewal is one statement, so it is sent (`SendRenewal`), runs at any later
  time (`Renew`), and its answer is read (`Renewed`, `LeaseLost`) or given up on
  (`RenewalFails`). Renewals given up on stay in `renewals` and still run.
* `TakeOverLapsed` is the transaction after each renewal. A takeover that was given
  up on and lands later removes rows that lapsed before and is the same as one by
  another instance, so it is not kept in flight.
* `CloseChain`, `StopRenewing`, `Release` are the end of `main`; any other exit,
  the one after an audit close that failed included, is `Crash`.

One clock stands for the database's `now()` and every process's `Instant`. The
code compares the two only through "the request was sent no later than the
database's time of it", which one clock satisfies.

Bounds: `MaxTime` bounds the clock, `MaxIds` the instance ids ever made,
`MaxRenewals` the renewals in flight. With `Lapse = 2`, `MaxTime = 3`, two ids and one renewal in flight a
lease is taken, lapses and is followed by another while requests of the first are
still in flight. Behaviours end when the bounds are used up, hence `CHECK_DEADLOCK FALSE`.

### Serve

`serve` waits for a lease, binds the addresses again if the listeners of `main` are
used up, reads the lease as `opened_under`, and serves until the watching task sees
another value. Weak fairness is assumed of `Proceed`, `BindAgain` and `Cut` alone: the
runtime polls the tasks of `serve`, and an address that was this process's own is
had again at last. Nothing is assumed of the database, of time or of the operator. The planes
may open under no lease, when one is lost while the addresses are bound; `CutWithLease` says
that these are cut too once a lease stays held; nothing cuts them before (Findings).

### ControlLoop

The Agent's protocol state, the Client's queues and its disk, the wire, and the
Server's record in memory and in the store. A `setup` chosen at the start says
whether the Agent is Supervisor-backed (`managed`) or the Client's own, whether it
polls or keeps a WebSocket, and how often each thing outside the loop (rollouts,
losses, restarts of either side, throttled exchanges, absences of the second
service) may happen.

* Data: of all a report may omit, the remote configuration status stands for the
  rest; `full` stands for the description. A configuration is its hash. Sequence
  numbers wrap at `SeqSpan` (2^64 in the code); a request the Client gave up on does
  not outlive `SeqSpan` reports.
* `SendReport` clears the dirty flags when the report is built, as `next_report`
  does. `Lose` forces a full report; `Throttle` drops it and forces nothing, as
  `http.rs` does (an exchange refused as too large behaves alike).
* `OnMessage` is one whole `process_presented`: merge, demand, restart taken from
  store and record, offer, write if more than the sequence number changed.
  `Push` is `on_outbound`.
* Not in the model: failed writes of the store (`Presence` has them), packages and
  connection offers, several Agents per Client; a Client restarts only when none of
  its requests is still unread.
* Fairness: weak for the Client's and the adapter's steps, for `OnMessage` and
  `Push`, which are tasks the runtime polls; strong for `Absorb`, because
  `select!` takes ready branches in random order. Nothing is assumed of the operator
  or of faults, which are bounded by `Limit`.
* Bounds: `SeqSpan = 4` lets numbers of two lives of a Client meet; queues of two
  entries are full while another command arrives.

### Presence

Each instance's record of the Agent, the digest of what it last wrote (`written`),
what it noted of its presence batches (`noted`), a batch on its way, the
announcements it has not taken up, and where its process is (`stage`: up, waiting for a lease,
binding, draining, drained, flushed, down); the sockets; the row; the calls to the database
their callers gave up on (`astray`).

* `HoldFromStore` is the read before the fleet lock; the insertion after it and the
  processing are one step (`Process`), in which the take and the write of the report may
  fail, each or both. A row that cannot be read counts as none, and a creation that fails
  leaves nothing held (`CreateFails`). The batch is three steps: read under the lock,
  written, answered.
* A call that fails is a call given up on (`Call`): its caller goes on, and it may reach the
  database at any later time (`Land`), after newer calls of the same instance, of others, or
  after its process is gone. That is so of creations, takes, writes, batches and the flush.
  A forgetting either happens or does not.
* A lease is lost (`LoseLease`) while the planes are open; what is read on them meanwhile is
  not taken. The watching task cuts them (`Cut`), and `Bind` and `OpenPlanes` open them again
  under what is held by then (`under`). A session that is still open at the cut, or at the end
  of a stop's drain (`Drained`), is aborted (`Abort`) and never comes to `on_closed`, so its
  record stays connected; one that was told in time has closed before (`OnClosed`).
  `CarrierIsHolder` therefore speaks of a carrier: a record whose socket is open and was
  admitted under the lease that is held.
* `take_up_agents` and `release_taken` read twice, the second time under the lock; the
  first read only filters, so one step is the second. A notification that is lost is
  made up by a read of everything and so is one that is late.
* `quiet` stands for "longer ago than the staleness budget". The content of a report is
  a number that grows with every change.
* A stop drains (`Stop`, `Drained`), flushes (`Flush`), and writes the last batch and
  releases the lease (`Leave`); a crash does none of it.
* Not in the model: plain HTTP, several Agents on a socket, host bindings, the ceiling
  on records, and what becomes of an Agent once it was re-keyed.
* Bounds: `Limits` is a set of slices; each bounds every happening of a behaviour and,
  under "together", how many happen at all. One moves and changes the Agent and stops an
  instance, sessions aborted with it; one reads a report late; one loses the lease, takes
  another and aborts a session; three fail a call that may land later, while the Agent moves,
  while an instance stops, or after another write; one silences and forgets the Agent and
  crashes an instance, one puts a new process in a crashed one's place.
  Two sockets and two instances are the least with which an Agent moves, and comes back to the
  instance it left. `CHECK_DEADLOCK FALSE` since an Agent may stay away and an instance stay
  down. Only safety is checked, so no fairness is stated.

### Audit: AuditPromise, AuditChain, AuditPrune

`AuditPromise` is what the head comment of `audit_log.rs` says of one security decision:
refused, or accepted and in the record once; only a process that ends abandons what it
accepted. `AuditChain` is the code: `Record` puts a decision in the bounded channel, the
writer places a batch under the lease it holds, the write transaction runs and commits, or
is given up on and commits late; a changed lease changes the chain (`switch_to`); closing and
take-over close a chain. `KeepsPromise` is the refinement, `copies` being how often a
decision is found in all the chains. The hash of a line is the sequence of everything
it commits to, so that `RecordHolds` is what `audit-verify` checks.
The events that are refusals of a peer, which are counted and aggregated beyond an allowance
before they are queued, are not in the model: what is queued is written like any other entry.

`AuditPrune` adds the rounds of `audit_prune.rs`: plan, record one `audit.pruned` for each
chain, wait until it is written, delete, for the own chain and, under the prune lock, the
closed ones.

* Bounds: one instance with two leases, so that its chain changes and the chain of its lapsed
  lease is taken over under the next one; two instances writing at once are beyond five
  minutes. A channel of two, two decisions. A setup chosen at first gives the decisions, faults and
  prune rounds of a behaviour. Only safety is checked. `LateWrites = FALSE` in the passing
  run keeps a COMMIT given up on from outlasting its lease; `audit_late` allows it.

### Catalogue

Two instances with copies of the catalogue in memory (`mem`), of the records they hold
(`held`) and of what they know to be pinned (`pins`); the tables (`db`, `assigned`); the
release transaction (`txn`), which takes its rows one by one; what each instance heard and
has not read.

* An act (`act`) holds the fleet lock from its check to its last write: `Press`, `Pin`,
  `HoldRow`, `CommitRelease`; `DeleteConfiguration` and the deletions; `Collect`. The row a
  transaction holds `FOR KEY SHARE` is one a deletion waits for (`Unheld`).
* The take-up is the code's sequence: the catalogue's stores, the records without the
  lock, the comparison with the lock, the second read of those that differ, the
  application. `Deafen` and `Listen` lose the listening connection and make it again.
* `GiveUp` leaves a transaction that may still commit. A commit whose answer is lost otherwise
  lands at once. An instance in `doubt` never had
  the answer to its commit; `CaughtUp` excepts it until it has read everything again.
* Data: a revision and a Package's bytes are numbers, one Selector matches all Agents.
* Bounds: one Configuration, Deployment, Package and Agent, two revisions, two presses;
  each race here is between two acts on one row. Two slices: what is pinned (deletions,
  package edits, answers lost), and what is taken up (forgetting, lost listening).
  Instances are symmetric. Only safety is checked.

### Ledger

The tables (`db`: register, list, list version, Hosts, bindings), each instance's copy
(`mem`), its sessions, what is left of an act of several store calls (`todo`), a read of the
ledger in progress with the count of acts at its start (`reading`).

* `Record` and `Admit` are `record_with`: decided from memory, decided again in the write
  (`Registers`). `Revoke`, `Lift`, `CheckReport` (which binds), `Release`, `Rebind`,
  `SetGateway`, and the prune every act begins with (`PruneCalls`), whose store calls are
  made one by one and of which any may fail or be the last before a crash. A revocation
  that is stored already may be widened, which writes the list again. The one store call of
  an act may fail (`ActFails`), and that of a rebind fails after memory let the old
  binding go (`RebindFails`).
* A call that fails changes nothing. One given up on that lands later decides from the tables
  then, and does to them what the same act of another instance does, which is in the model.
* `ReloadLedger`/`Swap` read everything and swap it in unless an act came between; `Renewed`
  is the list version that comes with the lease's renewal.
* Facts of a certificate (host, predecessor, bootstrap, end) are constants.
* Bounds: a chain of two certificates, one more enrolment, their bootstrap certificate and
  a provisioned one, over three ticks: one ends while its renewal still lives. The code's
  limits are set so low that they are reached (`MAX_ISSUED = 3`). Three slices of `Limits`:
  the list, the Hosts with failures and crashes, and the register. Only safety is checked.

### Enrolment

Window, queue, register and list in the database; each instance's copy; per host its
connection, whether it asked, and whether something woke it.

* An approval is `Approve` (the request's row is held), `Sign` (the certificate recorded in a
  transaction of its own) and `Commit`; between them the row may be lost with its
  connection (`LoseRow`), the step fail (`Fail`) or the instance crash.
* A read is two SELECTs (`Reload`/`Reloaded`, and at the start `OpenOn`/`OpenedOn`).
* Fairness: weak, for each instance, of ending the call it is in, reading what it heard of
  and letting its connections look; nothing of operators, hosts or the clock.
* Bounds: two hosts with a bootstrap certificate each, a queue of one, three ticks; four
  slices: deciding with failures, the window, revoking with a failure, and the queue's limit.
* A signing refused because the bootstrap certificate was revoked is rolled back, and the
  request withdrawn in a transaction of its own (`WithdrawRefused`), which another instance's
  decision may come before and whose failure is logged; where the row was lost the rollback
  fails with it and nothing is withdrawn.

### SelfUpdate

The disk (version directories, `current`, marker, outcome, record) and the process, which has
a `script` of what it has still to write: each file is one step (`Write`) and `Crash` may come
between any two. `Start` is the service manager's start with everything `on_start` decides;
`Exchange` one report and its answer with the offer it carries; `Install` stages, proves and
switches; `Reinstall` is an operator's.

* A version has a fate: it works, dies before it is answered, cannot read the
  configuration, or fails its self-check. `PackageDir` is the directory's name without the
  pre-release, so two versions share one.
* Fairness: weak, of `Start` (`Restart=on-failure`), of what a process has to write and to
  install, and of `Exchange` (the Server is reached again and again).
* Bounds: four versions, two of which share a directory, and all fates of the second;
  two crashes, a failed download, two rollouts, one reinstall. `MAX_ATTEMPTS` is the code's.
* The configuration's consent to self-updates and its key stay as they were when the update
  was staged. A start without them builds no Installer, so its answers commit nothing
  (`runtime.rs:372`) and the version is rolled back once its attempts are used up; no action
  withdraws them here.

### PackageInstall

The session (the offer, one download and its one staged file, the record), the command and
event queues, and the Runner: `pc` is what it waits for, the queue, the preflight, the second
service, the apply grace or the back-off.

* `Offer`, `Downloaded`, `Deliver`, `AskRestart`, `Absorb` are the session; `TakePackage`,
  `TakeConfig`, `TakeRestart`, `Preflight`, `Reach`, `Check`, `Swap`, `GatePackage`,
  `GateConfig`, `Backoff`, `Retry`, `Exit` the Runner; `ServiceGoes` and `ServiceReturns` the
  second service, between any two of them.
* `Forgotten` names a state the code reaches (Findings), which `ConfigDecided` and
  `PackageDecided` let pass; `WaitingDecided`, which does not, is violated.
* The downloaded file stays until the preflight is over. A program that works and exits either
  had been up for `stable_after`, which starts a new streak, or goes on with the old one. A
  stop absorbs the verdicts that come in before the adapter is gone (`Recorded`). Renames and
  removals of files do not fail.
* Fairness: weak, of the Runner as one task (`RunnerStep`: its timers end, its programs exit or
  stay), of `Absorb`, `Downloaded` and `Offer`, and of the returns of the second service and of
  the Client, which the service manager starts again.
* Bounds: three versions (the one that runs, one of any fate, one that works), a good and
  a bad configuration (a configuration is one delivery: the same content offered again is
  another), queues of two. `MAX_CRASH_RESTARTS` is 2 where the code has 3, as one
  restart between the first failure and the hold shows both outcomes of a failure. Five
  slices of `Limits`, each pairing things that want the Runner at once; all of them in one
  behaviour is beyond five minutes.

## What the runs show

| run | result |
| --- | --- |
| `lease` | `LeaseProvable`: a sharing instance deems its lease lapsed no later than the database does. `AloneIsAlone`: an instance that must be alone and has its lock excludes every sharing one. `TakeoverClosesChain`: who removes another's lease closes its chain. `LeaseInv`: the invariant the proofs use. |
| `serve` | `CutWithLease`: planes are cut once what they were opened under, a lease or none, is not what is held. `OpensWithLease`: an instance that goes on holding a lease has them open (both liveness). |
| `loop` | `InStep`: once nothing is owed or on its way, the record holds the Agent's status, whatever was lost, late or restarted, unless a report was throttled and the Client restarted. `LoopInv`: with the types, a restart is in at most one place and carried out once, and a record the next report would follow lacks nothing. `LoopCloses` (liveness): once the operator and the faults leave it alone, the Server holds the Agent's verdict on what it is assigned. |
| `presence` | `CarrierIsHolder`: while no call fails and nothing is forgotten, the instance that carries an Agent over an open socket admitted under the lease it holds is the one its row names. `PresenceInv`: with the types, it is carried over an open socket unless sessions were aborted, a lease and the batches read under it are one instance's, and a disconnect on its way is older than the take it meets. `RowIsCurrent`: nothing older replaces its last report, but for a report read late, a write that lands late, the cases of a flush and one of a forgetting (below). |
| `audit` | `KeepsPromise`: `AuditChain` with `AuditPrune` implements `AuditPromise`. `RecordHolds`: `audit-verify` accepts the record at any time, whatever is pruned. `AuditInv`: with the types, an accepted decision is in the record or in hand. |
| `audit_late` | `WrittenOnce` is violated: see Findings. |
| `catalogue` | `PinsResolve`: what an Agent is assigned is stored. `AssignedBytesKept`: and does not change. `CatalogueInv`: a release holds what it pins, an instance's pins do not fall behind its own commit, and what it is behind with is due. `CaughtUp`: what is announced is taken up. |
| `ledger` | `LedgerInv`: bindings stand with their Hosts. `AnsweredIsHeld`, `VersionIsHeld`: no answered revocation is lost to a read, none is hidden by the version. `SignedFromStore`: limits and revocations bind all instances. `HostsKept`: no Host is forgotten before its stored end. |
| `enrolment` | `SignedOnce`, `DecisionStands`: one signing and one decision, whichever instances decide. `EnrolmentInv`: the queue's bounds, no request outside a window, nothing approved that is not registered. `WindowHolds`: a window that was moved is not ended by its old end. `Collected` (liveness): who waits is handed what was approved. |
| `self_update` | `AlwaysBootable`, `ReturnIsProven`: there is always a program to start, and one to go back to. `UpdateInv`: attempts are bounded, nothing runs below what proved itself. `UpdateEnds`, `RolloutAnswered` (liveness). |
| `update_loop` | `FailedIsNotRepeated` is violated: see Findings. |
| `package` | `PackageInv`: the program and the package that waits are there. `SettledOnce`: one verdict. `ConfigDecided`, `PackageDecided`, `RunnerRests` (liveness): everything offered is decided, unless it waits and its retry was cleared (`Forgotten`), and the Runner comes to rest. |

## Findings

The first two are shown by runs of `PROJECT.json`. The others each have a configuration beside
the runs, in which TLC finds a property violated that says what the repository says:
`PresenceLateWrite.cfg` and `PresenceRekey.cfg` of `MCPresence`, `ServeUnleased.cfg` of `MCServe`,
`PackageForgotten.cfg` of `MCPackage`. What the runs check of these parts leaves out just that.

1. *A line written in two chains* (`audit_late`, `audit_log.rs:762`). The COMMIT of a batch the
   writer has stopped waiting for may land after `switch_to` read the old chain; its lines are
   then in the old chain and placed again in the next. The comment says they are dropped
   rather than written twice.
2. *A failed self-update is installed again* (`update_loop`, `agent/packages.rs:190`). After a
   roll-back the failure is reported by the next process, which echoes no aggregate hash;
   the Server offers the version again and the Client installs it again, without end.
   ADR-0018 says that a failed self-update does not become a loop.
3. *An older report lands after a newer one* (`PresenceLateWrite.cfg`,
   `WrittenIsStored`; `fleet.rs:2426`). The lock
   held across `persist` keeps two writes apart, but the wait for a write is bounded: one given
   up on may land after the next was answered, and the digest `written`, which names the newer,
   keeps it from being repaired until the Agent changes. The doc of `persist` names this race as
   what the lock prevents.
4. *An Agent is re-keyed as the duplicate of its own dead socket* (`PresenceRekey.cfg`,
   `OnlyDuplicatesRekeyed`; `opamp/src/server/listen.rs:397`). Sessions cut with a lost lease are aborted before
   `on_closed`; the record stays connected, and the Agent that comes back to the instance under
   its next lease is given another identity. The comment speaks of an identity alive on another
   connection, ADR-0043 of `connected` as an open one.
5. *Planes open without a lease* (`ServeUnleased.cfg`, `CutWithoutLease`;
   `instance.rs:767`). The lease they open under is
   read after `bind_again`; one lost meanwhile leaves them open under none, which the watching
   task finds unchanged until the next lease is taken. The doc of `serve` says that they
   are open only while a lease is held.
6. *What waits is forgotten* (`PackageForgotten.cfg`, `WaitingDecided`;
   `process.rs:1463`). The exit of a program that a
   restart started, while something waits for the second service, respawns it and clears the
   retry that was due at once: the package or the configuration waits for the next command.
   ADR-0037 says that the retry follows at once.

### Seen while modelling

No run shows these; each is the reason for a restriction of a property or of a model, or
was met when the code was read beside a comment.

* Lease. Between the closing of the chain and `Lease::release` the thread `renew` goes on: a
  lease that lapses and is taken anew there is deleted while its chain is open
  (`main.rs:1005`, `instance.rs:139`).
* Control loop. A throttled report is built anew, with its flags cleared, where the comment
  says it is sent again (`client/http.rs:65`); the gap in the sequence numbers repairs it,
  unless the Client restarts, when its numbers may meet the Server's again (`InStep` leaves this
  out), or as many exchanges are throttled in a row as there are numbers. The Client's own Agent that restarts in its first apply reports
  no status, so the Server keeps APPLYING and does not offer again (`agent.rs:261`). A
  configuration refused by a full command queue stays stored (`engine.rs:604`).
* Presence. A forgotten Agent that reports again on its socket is taken out of `carrier.seen`
  after its record was made anew (`transport.rs:1116`); one whose row was read before it was
  forgotten is held in memory only (`fleet.rs:2557`). A report read late from a socket the
  Agent left replaces newer content until the Agent changes (`fleet.rs:2419`). The flush of a
  stopping instance may replace newer content as well, where the comment says that an Agent that
  moved keeps what the other instance wrote (`fleet.rs:2666`): when the take at the other
  instance failed and its write did not, so that the row still names the stopping one; and when
  a batch of the stopping instance, read before it heard that the Agent was taken, finds the row
  free between two sockets of the Agent at the other one; and when the other
  instance had no lease when it read the report, so that it did not take the Agent. The other instance, whose digest is the
  Agent's content, does not write it again. `RowIsCurrent` leaves these out: after a stop it
  speaks of an Agent that moved once and of takes made and not failed. An Agent that
  reconnects before its old socket is found dead is re-keyed as its own duplicate. An Agent that
  is forgotten through one instance and reports there again, where the row is created
  (`fleet.rs:2862`) and the write of the report fails, may go back to an instance that wrote the
  same content before and has not heard of the forgetting: its digest says that nothing is to be
  written, and the row stays empty until the Agent changes. `RowIsCurrent` leaves this out too.
* Audit. The own chain may be planned under one lease and its `audit.pruned` recorded under the
  next. A chain pruned empty so while it was open, its instance silent for longer than
  `retain_days`, no longer verifies once it is closed; in the model an open chain keeps a
  recent entry (`Oldest`).
* Catalogue. `hold_from_store` reads a record before the fleet lock (`fleet.rs:3305`): a rollout
  committed in between leaves the instance with the old assignment, since it did not hold
  the Agent when it was told. A press decides from Packages in memory that another may have
  changed (`fleet.rs:4730`).
* Ledger. `prune` decides from memory (`revocation.rs:1779`): an instance that has not read of a
  renewal removes its expired, revoked predecessor and the revocation with it. `swap` wakes the
  sessions only if the list changed, not if the register did (`revocation.rs:1731`). The limits
  per Host are counted in memory alone. After two marks of one Host the owners an instance
  holds and the lists of its Hosts may differ (`revocation.rs:1233`, `1350`), so no property
  says that they agree.
* Enrolment. A host is asked for again without a look at the revocations
  (`transport.rs:1106`, beside the comment at 1232). The two SELECTs of a starting instance may
  disagree and close a window just opened. An approval whose commit went unanswered is held
  as waiting by the instance that made it. A window opened anew after its end passed, before
  any call noticed, keeps its old requests.
* Self-update. An outcome left on the disk is reported at a later start (`runtime.rs:392`). Two
  pre-releases of one version share a directory, and the second is "already running". A start
  that ends before `on_start` (an account that cannot be had, a key that cannot be recovered)
  is not counted as an attempt. Windows removes the junction before it makes the new one.
* Packages. The download
  of a second offer writes the one staged file while the first waits in the queue
  (`packages.rs:145`), which then installs the second's bytes under the first's name; the
  model has this (`file`, `Torn`), and no property is about the name a verdict gives. A stop during the
  apply grace leaves the unproved package in place and the record at the old one
  (`process.rs:1338`). A crash between setting a program aside and putting the new one in its
  place leaves none; the model has orderly stops only.

## Proofs

Eight modules hold theorems about a component's specification, for every value of its
constants: any instances, Hosts, certificates, versions and every bound. Each proof has
the same shape: an inductive invariant, with a lemma per action that it is kept, and the
temporal theorems from it. The invariants are themselves invariants of the runs (but `ContentAdvances` of
`PresenceProofs`), so TLC has checked on the small instances what is proved of all. No safety property below is
inductive as it stands; what is added says where the threat to it can be.

`LeaseProofs` (`LeaseInv`; then `TypeOK`, `LeaseProvable`, `AloneIsAlone`,
`TakeoverClosesChain`). That a lease is provable says nothing of the requests in flight
that may prove or disprove it later:

* `IdsInv`: an id is made once and belongs to one instance; at most one take has
  its commit sent;
* `TimesInv`: a take is sent no later than the database's `now()` of it;
* `GrantInv`: whatever an instance can prove now, or can prove once it reads the
  answer that is on its way, the database grants for at least as long;
* `AloneInv`: while a sharing take is in its transaction the exclusive lock is free,
  and from the moment an alone instance's take ran its statements no sharing lease
  is live by that transaction's time;
* `ChainInv`: every lease has a chain.

`ServeIsLease` is a refinement: every step of `Serve` is a step of `Lease` or leaves its
variables alone, so all of the above holds under the planes.

`LoopProofs` (`LoopInv`; then `InStep` while nothing was throttled). A report omits what the
Client believes the Server to have, so the threat is a record whose sequence number says that
nothing is missing while its status is an older one. `StatusTravels`: the Agent's status is owed, or is the
last that is on its way. `RecordFollows`: a record the next report would be taken to follow
has what the reports before it carried, or a full report is demanded; the stored copy too,
since a Server that restarts goes on from it. `LateApart`: a request the Client gave up on is
not taken for the next one, though the numbers wrap: the report next to it is a full one.
`Numbered`: the reports on their way have no gap. `RestartOnce` counts a restart in every place it can be.

`CatalogueProofs` (`CatalogueInv`, `PinsResolve`, `CaughtUp`; the action property
`AssignedBytesKept`). `HoldsWhatItPins`: an open release holds rows that are there and has asked
for, or is to ask for, all it will write, so what it commits is stored; the collector sees what
it pins. `ReadsKnowCommits`: a read that began before this instance's own commit is known to
have; with it an instance's pins do not fall behind its commits (`OwnCommitsPinned`).
`BehindIsDue`: where an instance that listens is behind what is stored, it has heard of it or
is about to read it; `CaughtUp` is the case in which nothing is due. `Coupled` says which of an act,
a transaction and a take-up go on together.

`PresenceProofs` (`PresenceInv`, `CarrierIsHolder`; `RowIsCurrent` until an instance stops or the
Agent is forgotten). The threats to the row's holder are a
take of another instance, which is announced to every instance that runs, and a
disconnect that was read before a take and lands after it. `LeasesApart`: a lease, and a batch
read under it, are one instance's, so a record that an aborted session left connected, and the
batches read of it, are under a lease its instance no longer has or has itself.
`DisconnectIsStale`: a disconnect on its way from an instance that carries the Agent again has
fewer takes than the row. `NeverForgotten`: until something is forgotten, what is held or was
read is stored. `CarriedOverOpenSocket`: a connected record names a socket, which is open
unless sessions were aborted and, where open, is one of this instance's that carried it.
`SocketsServed` ties sockets to the planes, leased or not, and `RowSound` the row's parts to each
other. For the row's content `ContentAdvances`: only the socket in use has a report on its way,
what an instance wrote or read is no newer than the row, and the row is no newer than that
report and than what was last heard there; calls that land late keep it, a write alone does
not, and `RowIsCurrent` excepts that one.

`LedgerProofs` (`LedgerInv`, `AnsweredIsHeld`, `VersionIsHeld`; the action properties
`HostsKept`, `SignedFromStore`). The threats are reads and store calls in progress.
`CallsStand`: a call that waits is still good when it is made, and no read begun before its act
is swapped in after it. `AnswersStand`: what was answered is stored and in every read that
may be swapped in. `VersionsStand`: the versions name the lists written, and a read says no
more than it holds.

`EnrolmentProofs` (`EnrolmentInv`, `SignedOnce`; the action properties `DecisionStands`,
`WindowHolds`). `RowsStand`: a request whose row is held still waits, and one instance holds it.
`SigningsOwed` counts: the certificates of a host, with those that may still be signed (while
its request waits, and by each instance that lost the row before it signed), are no more than
its requests and the failures.

`SelfUpdateProofs` (`UpdateInv`, `AlwaysBootable`, `ReturnIsProven`). A crash comes between any two
writes, so `ScriptIsSafe` says of every remainder of a start's, a commit's, a rollback's and an
install's writes which of six forms it has and what is on the disk then; `CurrentIsSettled` and
`RunIsCurrent` say what `current` names between them.

`PackageProofs` (`PackageInv`, `SettledOnce`). `InHand`: the Runner has what it waits about in hand
and nothing else waits beside it. `HeldRests`: a held program stays held. `DecidedOnce`: what is
queued or owed was not decided before, and is there once.

The assumptions are the named ones on the constants in the component's module, which TLC
evaluates in the runs: finite sets, `None` apart from the values it stands beside, positive
capacities and limits; of `Ledger`, that a certificate's facts are consistent; of `SelfUpdate`,
that the version installed first works; of `PackageInstall`, `MAX_CRASH_RESTARTS > 1`; of
`ControlLoop`, that there are at least two sequence numbers.

Only model-checked:

* every liveness property, since fairness and ENABLED are out of the prover's reach;
* `KeepsPromise`, `RecordHolds`, `AuditInv`: the audit record is a sequence built by recursion
  over a batch, and what it holds for every length needs induction over data;
* `RowIsCurrent` once an instance has stopped or the Agent was forgotten: the flush of a
  stopping instance compares takes, not contents, and what keeps it from older content is
  how few sockets the premise allows;
* `InStep` after a throttled exchange of a Client that has not restarted: the gap in the
  numbers repairs it, which holds for fewer than `SeqSpan` throttled exchanges in a row and so
  not for every bound.

## Plan
What a next step would add, in order:

1. Proofs: `RowIsCurrent` of `Presence` through a stop, `AuditInv` and `RecordHolds` with a
   batch placed in one expression.
2. `Gateway`: one upstream session and the sessions it carries, the package cache.
3. `Reconfigure`: an offered set of Supervisors planned, written, applied or undone.
4. Connection settings: an endpoint or certificate tried before it is kept, renewal.
5. Staging of uploads and version floors, on both sides.
6. Pure operators: version order, token buckets, back-off.
7. Plain HTTP pollers, `RequestInstanceUid`, several Agents on a socket in `Presence`.

## Not modelled
Cryptography and encodings, the files behind the stores, the service manager and
accounts of the operating system, telemetry and the command-line tools: input checking
and I/O without interleavings of their own. The parts of the plan above are not
modelled yet. `PROJECT.json` gives the reason for each under `components`.
