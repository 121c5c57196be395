---------------------------- MODULE PackageInstall -----------------------------
(* A package on its way to a Managed Process: the package channel of the Agent     *)
(* (agent/packages.rs), the download (packages.rs, transport/mod.rs), the hand-over*)
(* through the command queue (engine.rs), and the Runner that stages it, swaps it  *)
(* in, gates it on the apply grace and rolls it back (process.rs, restart.rs),     *)
(* while configurations, restarts and the coming and going of the second service   *)
(* want the same Runner.                                                           *)
(*                                                                                 *)
(* The session and the Runner are two tasks. What the Runner does between two      *)
(* waits is one action; `pc' says what it waits for.                               *)
(*                                                                                 *)
(* Simplified: a package is known by its version, which stands for its bytes, its  *)
(* hash and, as the one package assigned, the offer's aggregate hash. The Runner   *)
(* has a preflight, no reload signal and an apply grace above zero, and an artifact*)
(* is an archive, so one half written does not unpack. Renames do not fail, and the*)
(* Client ends only by an orderly stop.                                            *)
EXTENDS Naturals, Sequences, FiniteSets

CONSTANTS
    Version,            \* the versions of the program, ordered as numbers
    Config,             \* the deliveries of a configuration an operator may make
    Bad,                \* those under which no program stays up
    Fates,              \* how each version does: functions from Version to Fate
    Starts,             \* what is installed and configured at first
    MAX_CRASH_RESTARTS,
    Capacity,           \* of the command queue
    None, Torn,
    Limits              \* how often each of Bounded happens, one choice for a run

Bounded == {"rollouts", "configs", "restarts", "outages", "stops", "failures", "exits"}

\* A version stays up; exits within the apply grace; or does not pass the preflight.
Fate == {"works", "exits", "broken"}

\* What waits or is in hand; and a process: one that went with the second service is Gone.
Package == [version : Version, checked : BOOLEAN]
Gone == [version |-> None, conf |-> None]
Child == [version : Version, conf : Config] \cup {Gone}

ASSUME PackageAssumption ==
    /\ Version \subseteq Nat /\ {None, Torn} \cap (Version \cup Config) = {} /\ Bad \subseteq Config
    /\ None \notin Package \cup Child
    /\ Fates \subseteq [Version -> Fate]
    /\ Starts \subseteq [live : Version \cup {None}, conf : Config \cup {None}]
    /\ MAX_CRASH_RESTARTS \in Nat \ {0, 1} /\ Capacity \in Nat \ {0}
    /\ Limits \subseteq [Bounded -> Nat]

VARIABLES
    fate, limit, spent,
    assigned,   \* the version the Server's assignment names, or None
    \* The Agent
    agent,      \* the package channel: installing, offered, echoed; and applying,
                \* the configuration that awaits its verdict
    download,   \* the version being downloaded, or None
    record,     \* the installed-package record, on disk
    conf,       \* the stored configuration, on disk
    file,       \* what the download's staged path holds: a version, Torn or None
    \* Between the tasks
    cmds,       \* ProcessCommand
    events,     \* ProcessEvent: the verdicts
    \* The Runner and its files
    pc, child, waiting, owed, parked, hand, streak,
    live, backup, staged,
    away,       \* the second service cannot be reached
    \* History
    settled,    \* configurations that had their verdict
    again       \* one of them had another

env == <<fate, limit>>
session == <<agent, download, record, conf, file>>
files == <<live, backup, staged>>
runner == <<pc, child, waiting, owed, parked, hand, streak>>
history == <<settled, again>>
vars == <<fate, limit, spent, assigned, session, cmds, events, runner, files, away, history>>

Spend(what) == spent[what] < limit[what] /\ spent' = [spent EXCEPT ![what] = @ + 1]

NoAgent == [installing |-> None, offered |-> None, echoed |-> None, applying |-> None]
Process(v) == [version |-> v, conf |-> conf]

Init ==
    /\ fate \in Fates /\ limit \in Limits /\ spent = [what \in Bounded |-> 0]
    /\ \E start \in Starts :
        /\ live = start.live /\ record = start.live /\ conf = start.conf
        /\ live # None => fate[live] = "works"
    /\ assigned = None /\ agent = NoAgent /\ download = None /\ file = None
    /\ cmds = <<>> /\ events = <<>>
    /\ pc = "off" /\ child = None /\ waiting = "no" /\ owed = None /\ parked = None /\ hand = None
    /\ streak = 0 /\ backup = None /\ staged = None /\ away = FALSE
    /\ settled = {} /\ again = FALSE

(***************************************************************************)
(* The session: offers, downloads, verdicts                                *)
(***************************************************************************)
Up == pc # "off"

Rollout(v) ==
    /\ Spend("rollouts") /\ assigned' = v
    /\ UNCHANGED <<env, session, cmds, events, runner, files, away, history>>

AppliedKeepsFailed(v, ok) ==
    /\ agent' = [agent EXCEPT !.installing = IF ok THEN None ELSE @, !.echoed = agent.offered]
    /\ record' = IF ok THEN v ELSE record
AppliedEchoesSuccess(v, ok) ==
    /\ agent' = [agent EXCEPT !.installing = None, !.echoed = IF ok THEN agent.offered ELSE @]
    /\ record' = IF ok THEN v ELSE record
\* package_applied: the verdict closes whatever is installing, and the offer is echoed.
Applied(v, ok) ==
    /\ agent' = [agent EXCEPT !.installing = None, !.echoed = agent.offered]
    /\ record' = IF ok THEN v ELSE record

\* handle_package_offer: what is installed is echoed, what is older refused, what is
\* in flight left alone, and anything else downloaded. A download holds the session.
Downgrade(v) == record # None /\ v < record
Offer ==
    /\ Up /\ download = None /\ assigned # None /\ agent.echoed # assigned
    /\ LET told == [agent EXCEPT !.offered = assigned]
       IN  \/ /\ assigned = record \/ Downgrade(assigned)
              /\ agent' = [told EXCEPT !.echoed = assigned,
                                       !.installing = IF assigned = record THEN @ ELSE None]
              /\ UNCHANGED <<download, file>>
           \/ /\ assigned # record /\ ~Downgrade(assigned) /\ agent.installing = assigned
              /\ agent' = told /\ UNCHANGED <<download, file>>
           \/ /\ assigned # record /\ ~Downgrade(assigned) /\ agent.installing # assigned
              /\ agent' = [told EXCEPT !.installing = assigned]
              /\ download' = assigned /\ file' = Torn
    /\ UNCHANGED <<env, spent, assigned, record, conf, cmds, events, runner, files, away, history>>

\* The download fails, or does not verify.
DownloadFails ==
    /\ Up /\ download # None /\ Spend("failures")
    /\ Applied(download, FALSE) /\ download' = None /\ file' = None
    /\ UNCHANGED <<env, assigned, conf, cmds, events, runner, files, away, history>>

\* Downloaded and verified, and handed to the Runner (apply_package). What was being
\* written is there unless the Runner has taken the file meanwhile.
Queued(command) == cmds' = Append(cmds, command)
Downloaded ==
    /\ Up /\ download # None
    /\ file' = IF file = Torn THEN download ELSE file
    /\ download' = None
    /\ \/ /\ Len(cmds) < Capacity /\ Queued([kind |-> "package", what |-> download])
          /\ UNCHANGED <<agent, record>>
       \/ Len(cmds) = Capacity /\ Applied(download, FALSE) /\ UNCHANGED cmds
    /\ UNCHANGED <<env, spent, assigned, conf, events, runner, files, away, history>>

\* The configurations handed over and not yet decided.
Undecided == {owed} \cup {cmds[i].what : i \in {j \in DOMAIN cmds : cmds[j].kind = "config"}}

\* A configuration is stored and handed over; a full queue fails it.
Deliver(c) ==
    /\ Up /\ download = None /\ Spend("configs")
    /\ c \notin settled \cup Undecided \cup {agent.applying}
    /\ conf' = c
    /\ \/ /\ Len(cmds) < Capacity /\ Queued([kind |-> "config", what |-> c])
          /\ agent' = [agent EXCEPT !.applying = c]
       \/ Len(cmds) = Capacity /\ agent' = [agent EXCEPT !.applying = None] /\ UNCHANGED cmds
    /\ UNCHANGED <<env, assigned, download, record, file, events, runner, files, away, history>>

AskRestart ==
    /\ Up /\ download = None /\ Len(cmds) < Capacity /\ Spend("restarts")
    /\ Queued([kind |-> "restart", what |-> None])
    /\ UNCHANGED <<env, assigned, session, events, runner, files, away, history>>

\* absorb: a verdict of the Runner's.
Absorb ==
    /\ Up /\ download = None /\ events # <<>>
    /\ LET e == Head(events)
       IN  \/ e.kind = "package" /\ Applied(e.what, e.ok)
           \/ /\ e.kind = "config"
              /\ agent' = [agent EXCEPT !.applying = IF @ = e.what THEN None ELSE @]
              /\ UNCHANGED record
    /\ events' = Tail(events)
    /\ UNCHANGED <<env, spent, assigned, download, conf, file, cmds, runner, files, away, history>>

(***************************************************************************)
(* The Runner: starts                                                      *)
(***************************************************************************)
Verdict(kind, what, ok) == [kind |-> kind, what |-> what, ok |-> ok]

\* try_spawn: nothing to run yet, the second service not reached, no program, or a
\* process.
Spawn(program) ==
    IF conf = None THEN "nothing" ELSE IF away THEN "unreached"
    ELSE IF program = None THEN "missing" ELSE "ran"

\* spawn_if_due: only a start that did not reach the service waits for it.
SpawnIfDue(program) ==
    /\ child' = IF Spawn(program) = "ran" THEN Process(program) ELSE None
    /\ waiting' = IF Spawn(program) = "unreached" THEN "away" ELSE "no"

StaysUp == fate[child.version] = "works" /\ child.conf \notin Bad

SettleKeepsOwed(config, ok, reported) ==
    /\ owed' = config
    /\ events' = reported \o (IF config = None THEN <<>> ELSE <<Verdict("config", config, ok)>>)
    /\ settled' = settled \cup ({config} \ {None})
    /\ again' = (again \/ config \in settled)
\* settle: the configuration has its verdict, after those already in `reported'.
Settle(config, ok, reported) ==
    /\ owed' = None
    /\ events' = reported \o (IF config = None THEN <<>> ELSE <<Verdict("config", config, ok)>>)
    /\ settled' = settled \cup ({config} \ {None})
    /\ again' = (again \/ config \in settled)

\* started: a program just started is gated where a configuration is owed.
Started(program, config, reported) ==
    /\ SpawnIfDue(program)
    /\ \/ /\ config # None /\ Spawn(program) = "ran"
          /\ pc' = "gate" /\ owed' = config /\ events' = reported /\ UNCHANGED <<settled, again>>
       \/ /\ config # None /\ Spawn(program) = "unreached"
          /\ pc' = "idle" /\ owed' = config /\ events' = reported /\ UNCHANGED <<settled, again>>
       \/ /\ config = None \/ Spawn(program) \in {"nothing", "missing"}
          /\ pc' = "idle" /\ Settle(config, Spawn(program) = "nothing", reported)

\* RestartPolicy::failed: tried again after the backoff, or held; a configuration
\* still owed when the program is held has failed.
Failed == streak' = streak + 1
Holds == streak + 1 >= MAX_CRASH_RESTARTS
AfterFailure == IF Holds THEN "idle" ELSE "backoff"
RespawnOrHold ==
    /\ Failed /\ child' = None /\ pc' = AfterFailure /\ UNCHANGED waiting
    /\ \/ Holds /\ Settle(owed, FALSE, events)
       \/ ~Holds /\ UNCHANGED <<owed, events, settled, again>>

FreshChance == streak' = 0

(***************************************************************************)
(* The Runner: commands and what it waits for                              *)
(***************************************************************************)
Takes(kind) == pc = "idle" /\ cmds # <<>> /\ Head(cmds).kind = kind /\ cmds' = Tail(cmds)

\* ApplyConfig: superseding one that is owed. A package that waits is this
\* configuration's start too.
TakeConfig ==
    /\ Takes("config") /\ FreshChance
    /\ \/ /\ parked # None
          /\ pc' = "reach" /\ hand' = parked /\ parked' = None /\ owed' = Head(cmds).what
          /\ UNCHANGED <<child, waiting, events, settled, again>>
       \/ /\ parked = None
          /\ Started(live, Head(cmds).what, events)
          /\ UNCHANGED <<hand, parked>>
    /\ UNCHANGED <<env, spent, assigned, session, files, away>>

\* What is staged once a package that waits is discarded and the artifact unpacked.
Unpacked == IF file \in Version THEN file ELSE IF parked # None THEN None ELSE staged

\* ApplyPackage: a package that waits is replaced; the artifact is unpacked beside
\* what runs. One that does not unpack has failed, and its file is removed.
TakePackage ==
    /\ Takes("package") /\ parked' = None
    /\ LET v == Head(cmds).what
           whole == file \in Version
       IN  /\ staged' = Unpacked
           /\ \/ /\ whole /\ pc' = "preflight" /\ UNCHANGED <<events, file>>
                 /\ hand' = [version |-> v, checked |-> FALSE]
              \/ /\ ~whole /\ file' = None /\ events' = Append(events, Verdict("package", v, FALSE))
                 /\ UNCHANGED <<pc, hand>>
    /\ UNCHANGED <<env, spent, assigned, agent, download, record, conf, child, waiting, owed, streak,
                   live, backup, away, history>>

Refuses == fate[staged] = "broken" /\ ~away

\* stage_and_check: the preflight refuses the package, proves it, or does not reach
\* the service; one that cannot be started now waits. The artifact's file is removed only
\* then, whatever a download has put there meanwhile.
Preflight ==
    /\ pc = "preflight" /\ file' = None
    /\ \/ /\ Refuses /\ staged' = None /\ hand' = None /\ pc' = "idle"
          /\ events' = Append(events, Verdict("package", hand.version, FALSE))
          /\ UNCHANGED <<parked, streak>>
       \/ /\ ~Refuses /\ FreshChance
          /\ LET package == [hand EXCEPT !.checked = ~away]
             IN  \/ /\ waiting = "away" /\ parked' = package /\ hand' = None /\ pc' = "idle"
                 \/ waiting # "away" /\ hand' = package /\ pc' = "reach" /\ UNCHANGED parked
          /\ UNCHANGED <<staged, events>>
    /\ UNCHANGED <<env, spent, assigned, agent, download, record, conf, cmds, child, waiting, owed,
                   live, backup, away, settled, again>>

\* The package waits for the second service, staged.
Park(package) == parked' = package /\ hand' = None /\ waiting' = "away" /\ pc' = "idle"

\* install, as far as the swap: the service is reached first, and a preflight that
\* had not reached it is run now (check_parked).
Reach ==
    /\ pc = "reach"
    /\ \/ away /\ Park(hand)
       \/ ~away /\ pc' = (IF hand.checked THEN "swap" ELSE "check") /\ UNCHANGED <<parked, hand, waiting>>
    /\ UNCHANGED <<env, spent, assigned, session, cmds, events, child, owed, streak, files, away, history>>

Check ==
    /\ pc = "check"
    /\ \/ /\ Refuses /\ staged' = None /\ hand' = None
          /\ events' = Append(events, Verdict("package", hand.version, FALSE))
          /\ pc' = IF owed = None THEN "idle" ELSE "respawn"
          /\ child' = IF owed = None THEN child ELSE None
          /\ UNCHANGED <<waiting, owed, parked, settled, again>>
       \/ /\ away /\ Park(hand)
          /\ UNCHANGED <<staged, events, child, owed, settled, again>>
       \/ /\ ~away /\ ~Refuses /\ hand' = [hand EXCEPT !.checked = TRUE] /\ pc' = "swap"
          /\ UNCHANGED <<staged, events, child, waiting, owed, parked, settled, again>>
    /\ UNCHANGED <<env, spent, assigned, session, cmds, streak, live, backup, away>>

TakeBackOnly(program, previous) ==
    /\ staged' = program /\ live' = None /\ backup' = previous
\* take_back: the package goes back to its staged name, what ran before to its own.
TakeBack(program, previous) ==
    /\ staged' = program /\ live' = previous /\ backup' = None

\* The package is installed: its predecessor is kept for a while, and its start is
\* the start of a configuration still owed.
Concluded ==
    /\ pc' = "idle" /\ hand' = None
    /\ Settle(owed, TRUE, Append(events, Verdict("package", hand.version, TRUE)))

\* swap_and_gate: the process is stopped, what is live set aside (a predecessor
\* retained before it goes), the package put in its place, and started.
Swap ==
    /\ pc = "swap"
    /\ LET o == Spawn(staged)
       IN  \/ /\ o = "unreached" /\ TakeBack(staged, live) /\ Park(hand) /\ child' = None
              /\ UNCHANGED <<events, owed, settled, again>>
           \/ /\ o # "unreached"
              /\ backup' = live /\ live' = staged /\ staged' = None
              /\ SpawnIfDue(staged) /\ UNCHANGED parked
              /\ \/ o = "nothing" /\ Concluded
                 \/ o = "ran" /\ pc' = "gate" /\ UNCHANGED <<hand, owed, events, settled, again>>
    /\ UNCHANGED <<env, spent, assigned, session, cmds, streak, away>>

\* The gate of a package. A failed one is rolled back to its predecessor, where there
\* is one; what is live then is started once more unless held.
GatePackage ==
    /\ pc = "gate" /\ hand # None
    /\ \/ /\ child # Gone /\ StaysUp /\ Concluded
          /\ UNCHANGED <<child, waiting, parked, streak, files>>
       \/ /\ child # Gone /\ ~StaysUp
          /\ hand' = None /\ Failed
          /\ live' = (IF backup = None THEN live ELSE backup) /\ backup' = None
          /\ LET told == Append(events, Verdict("package", hand.version, FALSE))
             IN  \/ /\ Holds /\ child' = None /\ pc' = "idle" /\ Settle(owed, FALSE, told)
                 \/ /\ ~Holds /\ child' = None /\ pc' = "respawn" /\ events' = told
                    /\ UNCHANGED <<owed, settled, again>>
          /\ UNCHANGED <<waiting, parked, staged>>
       \/ /\ child = Gone /\ TakeBack(live, backup) /\ Park(hand) /\ child' = None
          /\ UNCHANGED <<events, owed, streak, history>>
    /\ UNCHANGED <<env, spent, assigned, session, cmds, away>>

\* The start of what is live, after a package that failed or was refused.
Respawn ==
    /\ pc = "respawn" /\ Started(live, owed, events)
    /\ UNCHANGED <<env, spent, assigned, session, cmds, parked, hand, streak, files, away>>

\* The gate of a configuration.
GateConfig ==
    /\ pc = "gate" /\ hand = None
    /\ \/ /\ child # Gone /\ StaysUp /\ pc' = "idle" /\ Settle(owed, TRUE, events)
          /\ UNCHANGED <<child, waiting, streak>>
       \/ /\ child # Gone /\ ~StaysUp
          /\ Failed /\ child' = None /\ pc' = AfterFailure /\ Settle(owed, FALSE, events)
          /\ UNCHANGED waiting
       \/ /\ child = Gone /\ pc' = "idle" /\ child' = None /\ waiting' = "away"
          /\ UNCHANGED <<owed, events, streak, history>>
    /\ UNCHANGED <<env, spent, assigned, session, cmds, parked, hand, files, away>>

Backoff ==
    /\ pc = "backoff" /\ pc' = "idle" /\ SpawnIfDue(live)
    /\ UNCHANGED <<env, spent, assigned, session, cmds, events, owed, parked, hand, streak, files, away,
                   history>>

RetriesWhenDown == child = None
\* The retry is the start for what waits, so it is due with a program running too.
Retries == child = None \/ owed # None \/ parked # None

\* The retry after the second service was not reached: the start for what waits.
Retry ==
    /\ pc = "idle" /\ waiting # "no" /\ Retries
    /\ \/ /\ parked # None /\ pc' = "reach" /\ hand' = parked /\ parked' = None
          /\ UNCHANGED <<child, waiting, owed, events, settled, again>>
       \/ parked = None /\ Started(live, owed, events) /\ UNCHANGED <<hand, parked>>
    /\ UNCHANGED <<env, spent, assigned, session, cmds, streak, files, away>>

\* A restart decides nothing; what waits is due at once unless the service is away.
TakeRestart ==
    /\ Takes("restart") /\ FreshChance
    /\ child' = IF Spawn(live) = "ran" THEN Process(live) ELSE None
    /\ waiting' = IF Spawn(live) = "unreached" THEN "away"
                  ELSE IF owed # None \/ parked # None THEN "due" ELSE "no"
    /\ UNCHANGED <<env, spent, assigned, session, events, pc, owed, parked, hand, files, away, settled,
                   again>>

\* The process is gone: with the second service, or by itself. One that had been up
\* for long (stable_after) starts a new streak, one that had not goes on counting.
Exit ==
    /\ pc = "idle" /\ child # None
    /\ \/ /\ child = Gone /\ child' = None /\ waiting' = "away"
          /\ UNCHANGED <<pc, owed, events, streak, history, spent>>
       \/ child # Gone /\ ~StaysUp /\ RespawnOrHold /\ UNCHANGED spent
       \/ /\ child # Gone /\ StaysUp /\ Spend("exits")
          /\ \/ /\ child' = None /\ pc' = "backoff" /\ streak' = 1
                /\ UNCHANGED <<waiting, owed, events, settled, again>>
             \/ RespawnOrHold
    /\ UNCHANGED <<env, assigned, session, cmds, parked, hand, files, away>>

\* sweep_backup, once the retention is over.
Sweep ==
    /\ pc = "idle" /\ backup # None /\ backup' = None
    /\ UNCHANGED <<env, spent, assigned, session, cmds, events, runner, live, staged, away, history>>

(***************************************************************************)
(* The second service, and the Client as a whole                           *)
(***************************************************************************)
ServiceGoes ==
    /\ ~away /\ Spend("outages") /\ away' = TRUE
    /\ child' = IF child = None THEN None ELSE Gone
    /\ UNCHANGED <<env, assigned, session, cmds, events, pc, waiting, owed, parked, hand, streak, files,
                   history>>

ServiceReturns ==
    /\ away /\ away' = FALSE
    /\ UNCHANGED <<env, spent, assigned, session, cmds, events, runner, files, history>>

\* The record once the first n verdicts were absorbed.
Recorded(n) ==
    LET installed == {i \in 1 .. n : events[i].kind = "package" /\ events[i].ok}
    IN  IF installed = {} THEN record
        ELSE events[CHOOSE i \in installed : \A j \in installed : j <= i].what

\* An orderly stop: a package that waits is discarded, one in its grace stays live
\* with its predecessor beside it, one that waits for its start is taken back out, and
\* no verdict is given. Of those given before, the ones that come in before the adapter
\* is gone are absorbed (drain_events_until_closed).
Stop ==
    /\ pc \in {"idle", "reach", "check", "swap", "gate", "respawn", "backoff"} /\ Spend("stops")
    /\ pc' = "off" /\ child' = None /\ waiting' = "no" /\ owed' = None /\ parked' = None
    /\ hand' = None /\ streak' = 0
    /\ staged' = IF parked # None \/ pc \in {"reach", "check", "swap"} THEN None ELSE staged
    /\ backup' = IF pc = "swap" THEN None ELSE backup
    /\ \E n \in 0 .. Len(events) : record' = Recorded(n)
    /\ cmds' = <<>> /\ events' = <<>> /\ agent' = NoAgent /\ download' = None
    /\ UNCHANGED <<env, assigned, conf, file, live, away, settled, again>>

ClientStart ==
    /\ pc = "off" /\ pc' = "idle" /\ SpawnIfDue(live)
    /\ UNCHANGED <<env, spent, assigned, session, cmds, events, owed, parked, hand, streak, files, away,
                   history>>

RunnerStep ==
    \/ TakeConfig \/ TakePackage \/ TakeRestart \/ Preflight \/ Reach \/ Check \/ Swap
    \/ GatePackage \/ Respawn \/ GateConfig \/ Backoff \/ Retry \/ Exit

Next ==
    \/ \E v \in Version : Rollout(v)
    \/ \E c \in Config : Deliver(c)
    \/ Offer \/ DownloadFails \/ Downloaded \/ AskRestart \/ Absorb
    \/ RunnerStep \/ Sweep
    \/ ServiceGoes \/ ServiceReturns \/ Stop \/ ClientStart

Spec == Init /\ [][Next]_vars

\* The runtime runs both tasks, a wait with a timer ends, the service manager brings
\* the second service and the Client back.
FairSpec ==
    /\ Spec
    /\ WF_vars(RunnerStep) /\ WF_vars(Absorb) /\ WF_vars(Downloaded) /\ WF_vars(Offer)
    /\ WF_vars(ServiceReturns) /\ WF_vars(ClientStart)

(***************************************************************************)
(* What is promised                                                        *)
(***************************************************************************)
Command ==
    [kind : {"package"}, what : Version] \cup [kind : {"config"}, what : Config]
    \cup [kind : {"restart"}, what : {None}]
Event ==
    [kind : {"package"}, what : Version, ok : BOOLEAN]
    \cup [kind : {"config"}, what : Config, ok : BOOLEAN]

\* Every variable keeps its shape: the files hold versions, what waits or is in hand is a
\* package, and the streak stays below the hold (process.rs, restart.rs).
PackageTypeOK ==
    /\ fate \in Fates /\ limit \in Limits /\ spent \in [Bounded -> Nat]
    /\ assigned \in Version \cup {None} /\ download \in Version \cup {None}
    /\ agent \in [installing : Version \cup {None}, offered : Version \cup {None},
                  echoed : Version \cup {None}, applying : Config \cup {None}]
    /\ record \in Version \cup {None} /\ conf \in Config \cup {None}
    /\ file \in Version \cup {Torn, None}
    /\ cmds \in Seq(Command) /\ Len(cmds) <= Capacity /\ events \in Seq(Event)
    /\ pc \in {"off", "idle", "preflight", "reach", "check", "swap", "gate", "respawn",
             "backoff"}
    /\ child \in Child \cup {None} /\ waiting \in {"no", "due", "away"}
    /\ owed \in Config \cup {None} /\ parked \in Package \cup {None} /\ hand \in Package \cup {None}
    /\ {live, backup, staged} \subseteq Version \cup {None}
    /\ streak \in 0 .. MAX_CRASH_RESTARTS /\ away \in BOOLEAN
    /\ settled \subseteq Config /\ again \in BOOLEAN

\* Whatever fails, `program/' is never emptied: once a package is recorded as installed,
\* or is about to be, there is a program to start, and a package in its grace has a
\* predecessor to go back to (conclude, restore, take_back).
NeverEmptied ==
    record # None \/ (\E i \in DOMAIN events : events[i].kind = "package" /\ events[i].ok)
    => live # None /\ (pc = "gate" /\ hand # None => backup # None)

\* A package that waits for the second service, or is about to be swapped in, is there,
\* staged, whatever was taken back, replaced or discarded meanwhile.
WaitingIsStaged == parked # None \/ pc \in {"preflight", "reach", "check", "swap"} => staged # None

\* The Runner has what it waits about in hand, and nothing else waits beside it.
InHand ==
    /\ pc \in {"preflight", "reach", "check", "swap"} => hand # None
    /\ pc \in {"off", "idle", "respawn", "backoff"} => hand = None
    /\ pc \notin {"off", "idle", "backoff"} => parked = None
    /\ pc = "gate" => child # None /\ waiting = "no"
    /\ pc = "gate" /\ hand # None => live # None
    /\ away => child \in {None, Gone}

\* A program that is held stays held until it is given a fresh chance: nothing is due.
HeldRests ==
    /\ streak = MAX_CRASH_RESTARTS => pc \in {"idle", "preflight"} /\ child = None /\ waiting = "no"
    /\ child \notin {None, Gone} /\ waiting # "no" => streak = 0

\* What is still to be decided was not decided before, and is to be decided once.
DecidedOnce ==
    /\ Undecided \cap settled = {}
    /\ \A i, j \in DOMAIN cmds :
        cmds[i].kind = "config" /\ cmds[j].kind = "config" =>
            cmds[i].what # owed /\ (cmds[i].what = cmds[j].what => i = j)

\* The files are there for what the Runner has to do next: a program to start, and the
\* package that waits (stage_executable, swap_and_gate, conclude).
PackageInv ==
    /\ PackageTypeOK /\ NeverEmptied /\ WaitingIsStaged /\ InHand /\ HeldRests /\ DecidedOnce

\* A configuration is acknowledged once: not by its apply and again by the start of a
\* package, the retry or the hold (started, settle, hold).
SettledOnce == ~again

\* What waits is forgotten: a start that decided nothing cleared the retry (see README).
Forgotten == pc = "idle" /\ waiting = "no" /\ (owed # None \/ parked # None)

\* A configuration the Agent reports APPLYING gets a verdict, is superseded, or is
\* forgotten: an outage, a package or a restart in between does not strand it.
ConfigDecided == \A c \in Config : agent.applying = c ~> agent.applying # c \/ Forgotten

\* A package the Agent reports Downloading or Installing ends so too.
PackageDecided == \A v \in Version : agent.installing = v ~> agent.installing # v \/ Forgotten

\* What waits has its start: the retry follows a restart at once (ADR-0037 clause 17), so
\* every package and configuration is decided. What the code does otherwise: the program
\* the restart started exits first, and its respawn clears the retry.
WaitingDecided ==
    /\ \A v \in Version : agent.installing = v ~> agent.installing # v
    /\ \A c \in Config : agent.applying = c ~> agent.applying # c

\* Crash loops, retries and re-offers end: the Runner comes to rest, with every command
\* taken, once no one asks for more (RestartPolicy, already_has, package_applied).
RunnerRests == <>[](pc = "idle" /\ cmds = <<>>)
===============================================================================
