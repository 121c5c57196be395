------------------------------ MODULE SelfUpdate -------------------------------
(* The Client replacing its own binary (update/installer.rs, update/mod.rs, the    *)
(* start in service/runtime.rs, and the package channel of the Client's own        *)
(* Agent). The process that installs a version has to end for the version to run,  *)
(* so the work is split by a restart, and the two halves speak through files: the  *)
(* version directories, the pointer `current`, the marker of an update in flight,  *)
(* the outcome the Server is owed, the record of the package installed.            *)
(*                                                                                 *)
(* A process writes its files one at a time and may stop between any two:          *)
(* `script` is what it has still to write before it does anything else.            *)
(*                                                                                 *)
(* Simplified: a package is known by its version, which stands for its hash and,   *)
(* as the one package assigned, for the offer's aggregate hash. `current` is moved *)
(* by a rename, as on Unix; a file write that fails is not modelled.               *)
EXTENDS Naturals, Sequences, FiniteSets

CONSTANTS
    Version,        \* the versions of the Client, ordered as numbers
    Initial,        \* the version the host was installed with
    Core,           \* [Version -> number]: the version without its pre-release
    Fates,          \* which versions work: functions from Version to Fate
    Floor,          \* the floor the operator signed for the Client's Agent type
    MAX_ATTEMPTS,
    None,
    Limit           \* how often each of Bounded happens in a run

Bounded == {"crashes", "failures", "rollouts", "reinstalls"}

\* A version works; ends by itself before the Server answers it; cannot read this
\* host's configuration; or does not pass the self-check.
Fate == {"works", "dies", "unread", "broken"}

\* version_dir_name: a package's directory carries no pre-release and no commit; the
\* one `service install` makes carries the commit, so the two are never the same.
PackageDir(v) == <<Core[v], "package">>
HandDir(v) == <<v, "hand">>
Dir == {PackageDir(v) : v \in Version} \cup {HandDir(v) : v \in Version}

\* The files' contents: UpdateMarker, SelfUpdateOutcome.
MarkerType == [previous_dir : Dir, new_dir : Dir, version : Version, attempts : 0..MAX_ATTEMPTS]
OutcomeType == [version : Version, failed : BOOLEAN]

\* A run of the Client.
ProcType ==
    [version : Version, dir : Dir, does : {"start", "serve", "end"},
     probation : MarkerType \cup {None},
     has : Version \cup {None}, failed : Version \cup {None}, installing : Version \cup {None},
     offered : Version \cup {None}, echoed : Version \cup {None}]

ASSUME SelfUpdateAssumption ==
    /\ Version \subseteq Nat /\ Initial \in Version /\ Floor \in Nat
    /\ Fates \subseteq [Version -> Fate] /\ \A f \in Fates : f[Initial] = "works"
    /\ MAX_ATTEMPTS \in Nat /\ None \notin Version \cup MarkerType \cup ProcType
    /\ Limit \in [Bounded -> Nat]

VARIABLES
    fate,       \* what became of each version; chosen once
    disk,       \* the files
    proc,       \* the Client's process, or None
    script,     \* what the process writes next, in order
    assigned,   \* the version the Server's assignment names, or None
    gaveUp,     \* versions the Server was told InstallFailed of since the assignment
    proven,     \* versions a person installed, or that committed themselves
    highest,    \* the highest of them since a person last installed one
    tries,      \* runs of an unproved version since it was pointed at
    spent

vars == <<fate, disk, proc, script, assigned, gaveUp, proven, highest, tries, spent>>
history == <<gaveUp, proven, highest, tries>>

Spend(what) == spent[what] < Limit[what] /\ spent' = [spent EXCEPT ![what] = @ + 1]

(***************************************************************************)
(* The files                                                               *)
(***************************************************************************)
Init ==
    /\ fate \in Fates
    /\ disk = [current |-> HandDir(Initial),
               dirs |-> [d \in Dir |-> IF d = HandDir(Initial) THEN Initial ELSE None],
               marker |-> None, outcome |-> None, record |-> None]
    /\ proc = None /\ script = <<>>
    /\ assigned = None /\ gaveUp = {}
    /\ proven = {Initial} /\ highest = Initial /\ tries = 0
    /\ spent = [what \in Bounded |-> 0]

Point(dir) == [op |-> "point", arg |-> dir]                                   \* Layout::set_current
Program(dir, v) == [op |-> "program", arg |-> [dir |-> dir, version |-> v]]   \* install::write_program
Mark(marker) == [op |-> "marker", arg |-> marker]                             \* store_marker
Tell(outcome) == [op |-> "outcome", arg |-> outcome]                          \* store_outcome
Record(v) == [op |-> "record", arg |-> v]                                     \* store_package

Written(w) ==
    CASE w.op = "point"   -> [disk EXCEPT !.current = w.arg]
      [] w.op = "program" -> [disk EXCEPT !.dirs[w.arg.dir] = w.arg.version]
      [] w.op = "marker"  -> [disk EXCEPT !.marker = w.arg]
      [] w.op = "outcome" -> [disk EXCEPT !.outcome = w.arg]
      [] w.op = "record"  -> [disk EXCEPT !.record = w.arg]

\* finish: the marker goes, then the outcome the Server is owed is recorded.
Outcome(marker, failed) == [version |-> marker.version, failed |-> failed]
\* Mutant: nothing is recorded for the process that comes after.
FinishSilent(marker, failed) == <<Mark(None)>>
Finish(marker, failed) == <<Mark(None), Tell(Outcome(marker, failed))>>

(***************************************************************************)
(* A start                                                                 *)
(***************************************************************************)
\* took_over: by the version the binary reports and the directory it runs from.
TookOver(v, dir) == v = disk.marker.version /\ dir = disk.marker.new_dir

\* What on_start makes of the marker: what it writes, how the run goes on, and the
\* marker of a run on probation or the outcome the run owes.
Startup(does, writes, probation, owed) ==
    [does |-> does, writes |-> writes, probation |-> probation, owed |-> owed]

Counted(m) == [m EXCEPT !.attempts = @ + 1]
Exhausted(m) == m.attempts > MAX_ATTEMPTS

OnStart(v, dir) ==
    LET m == disk.marker
        counted == Counted(m)
    IN  IF m = None THEN Startup("run", <<>>, None, disk.outcome)
        ELSE IF ~TookOver(v, dir)
        THEN Startup("run", Finish(m, TRUE), None, Outcome(m, TRUE))
        ELSE IF Exhausted(counted)
        THEN Startup("end", <<Point(m.previous_dir)>> \o Finish(m, TRUE), None, None)
        ELSE Startup("run", <<Mark(counted)>>, counted, None)

\* accept_packages_named drops a record that does not name what runs, then the owed
\* outcome is reported (package_applied) and its file removed (clear_outcome).
Restored(v) == IF disk.record = v THEN v ELSE None
Installed(owed) == owed # None /\ ~owed.failed
EngineWrites(v, owed) ==
    (IF disk.record \in {v, None} THEN <<>> ELSE <<Record(None)>>)
    \o (IF Installed(owed) THEN <<Record(owed.version)>> ELSE <<>>)
    \o (IF owed # None THEN <<Tell(None)>> ELSE <<>>)

\* The Client as build_engine and report_self_update_outcome leave it. The offer it
\* echoes is the one it was given, and a process that just started was given none.
Engine(v, dir, startup) ==
    [version |-> v, dir |-> dir, does |-> "start", probation |-> startup.probation,
     has |-> IF Installed(startup.owed) THEN startup.owed.version ELSE Restored(v),
     failed |-> IF startup.owed # None /\ startup.owed.failed THEN startup.owed.version ELSE None,
     installing |-> None, offered |-> None, echoed |-> None]

\* unreadable_config: the marker is resolved by a version that cannot go on, too.
\* Mutant: it leaves before the marker is looked at.
ResolutionAfterConfig(v, startup) == IF fate[v] = "unread" THEN <<>> ELSE startup.writes
Resolution(v, startup) == startup.writes

\* The service manager runs what `current` names. A version that cannot read its
\* configuration resolves the marker all the same and ends; so does one rolled back.
Start ==
    /\ proc = None
    /\ LET dir == disk.current
           v == disk.dirs[dir]
           startup == OnStart(v, dir)
           serves == startup.does = "run" /\ fate[v] # "unread"
           engine == Engine(v, dir, startup)
       IN  /\ v # None
           /\ proc' = IF serves THEN engine ELSE [engine EXCEPT !.does = "end"]
           /\ script' = Resolution(v, startup) \o (IF serves THEN EngineWrites(v, startup.owed) ELSE <<>>)
    /\ UNCHANGED <<fate, disk, assigned, history, spent>>

\* A run that serves removes the marker only to commit the version it runs.
Commits == proc.does = "serve" /\ Head(script).op = "marker"

Write ==
    /\ script # <<>>
    /\ disk' = Written(Head(script)) /\ script' = Tail(script)
    /\ proven' = IF Commits THEN proven \cup {proc.version} ELSE proven
    /\ highest' = IF Commits /\ proc.version > highest THEN proc.version ELSE highest
    /\ UNCHANGED <<fate, proc, assigned, gaveUp, tries, spent>>

Idle(does) == proc # None /\ script = <<>> /\ proc.does = does

\* The start is through: the run serves, or comes to its own end soon after.
Serve ==
    /\ Idle("start")
    /\ proc' = [proc EXCEPT !.does = IF fate[proc.version] = "dies" THEN "end" ELSE "serve"]
    /\ tries' = IF proc.version \in proven THEN tries ELSE tries + 1
    /\ UNCHANGED <<fate, disk, script, assigned, gaveUp, proven, highest, spent>>

Leave ==
    /\ Idle("end") /\ proc' = None
    /\ UNCHANGED <<fate, disk, script, assigned, history, spent>>

\* The process or the host dies, wherever the process is.
Crash ==
    /\ proc # None /\ Spend("crashes")
    /\ proc' = None /\ script' = <<>>
    /\ UNCHANGED <<fate, disk, assigned, history>>

(***************************************************************************)
(* A run: reports, replies and the install                                 *)
(***************************************************************************)
\* handle_package_offer for the Client's own Agent.
AlreadyHas(v) == v = proc.version
Offered(p, v) ==
    LET told == [p EXCEPT !.offered = v]
    IN  IF AlreadyHas(v) THEN [told EXCEPT !.echoed = v]
        ELSE IF p.installing = v THEN told
        ELSE [told EXCEPT !.installing = v, !.failed = None]

\* server_answered: the first reply commits a version on probation.
\* Mutant: a reply commits nothing.
NotCommitted == <<>>
Committed == IF proc.probation = None THEN <<>> ELSE Finish(proc.probation, FALSE)

\* A report and its reply. The Server offers what is assigned unless the Client's
\* report echoes it (packages_offer); a reply is answered for before it is read.
Exchange ==
    /\ Idle("serve")
    /\ gaveUp' = IF proc.failed = None THEN gaveUp ELSE gaveUp \cup {proc.failed}
    /\ script' = Committed
    /\ LET answered == [proc EXCEPT !.probation = None]
       IN  proc' = IF assigned = None \/ assigned = proc.echoed THEN answered
                   ELSE Offered(answered, assigned)
    /\ UNCHANGED <<fate, disk, assigned, proven, highest, tries, spent>>

\* package_applied: the verdict on the package, and the offer echoed either way.
Applied(verdict) ==
    LET v == proc.installing
        closed == [proc EXCEPT !.installing = None, !.echoed = proc.offered]
    IN  IF verdict = "installed" THEN [closed EXCEPT !.has = v, !.failed = None]
        ELSE [closed EXCEPT !.failed = v]

\* process_package_downloads: the download or its verification fails.
DownloadFails ==
    /\ Idle("serve") /\ proc.installing # None /\ Spend("failures")
    /\ proc' = Applied("failed")
    /\ UNCHANGED <<fate, disk, script, assigned, history>>

\* install's refusals: a downgrade, a version below the floor.
\* Mutant: only the signed floor is held to.
RefusedByFloor(v) == v < Floor
Refused(v) == v < proc.version \/ v < Floor
\* stage: the program is written in place of what the directory holds.
Stage(v) == <<Program(PackageDir(v), None), Program(PackageDir(v), v)>>
\* probe: the staged binary answers `self-check` as the version offered.
\* Mutant: the staged binary is not run.
Unproved(v) == TRUE
Proved(v) == fate[v] # "broken"
\* The marker is written before the switch.
Switch(v) ==
    <<Mark([previous_dir |-> proc.dir, new_dir |-> PackageDir(v), version |-> v, attempts |-> 0]),
      Point(PackageDir(v))>>

\* apply_self_update: refused; nothing to do; staged and found broken by the probe;
\* or staged, proved and pointed at, and the run ends for it.
Install ==
    /\ Idle("serve") /\ proc.installing # None
    /\ LET v == proc.installing
       IN  \/ /\ Refused(v)
              /\ proc' = Applied("failed") /\ UNCHANGED <<script, tries>>
           \/ /\ ~Refused(v) /\ PackageDir(v) = proc.dir
              /\ proc' = Applied("installed") /\ script' = <<Record(v)>> /\ UNCHANGED tries
           \/ /\ ~Refused(v) /\ PackageDir(v) # proc.dir /\ ~Proved(v)
              /\ proc' = Applied("failed") /\ script' = Stage(v) /\ UNCHANGED tries
           \/ /\ ~Refused(v) /\ PackageDir(v) # proc.dir /\ Proved(v)
              /\ proc' = [proc EXCEPT !.does = "end"] /\ script' = Stage(v) \o Switch(v)
              /\ tries' = 0
    /\ UNCHANGED <<fate, disk, assigned, gaveUp, proven, highest, spent>>

(***************************************************************************)
(* The operators                                                           *)
(***************************************************************************)
\* A rollout on the Server.
Rollout(v) ==
    /\ Spend("rollouts") /\ assigned' = v /\ gaveUp' = {}
    /\ UNCHANGED <<fate, disk, proc, script, proven, highest, tries>>

\* `service install` of a version on the host: the state directory stays as it is.
Reinstall(v) ==
    /\ Spend("reinstalls") /\ fate[v] = "works"
    /\ disk' = [disk EXCEPT !.dirs[HandDir(v)] = v, !.current = HandDir(v)]
    /\ proc' = None /\ script' = <<>>
    /\ proven' = proven \cup {v} /\ highest' = v
    /\ UNCHANGED <<fate, assigned, gaveUp, tries>>

Next ==
    \/ Start \/ Write \/ Serve \/ Leave \/ Crash
    \/ Exchange \/ DownloadFails \/ Install
    \/ \E v \in Version : Rollout(v) \/ Reinstall(v)

Spec == Init /\ [][Next]_vars

\* The service manager restarts a Client that ended (Restart=on-failure, and the exit
\* code 10 asks for it); a process goes on with what it has to write and to install;
\* and the Server is reached again and again.
FairSpec ==
    /\ Spec
    /\ WF_vars(Start) /\ WF_vars(Write) /\ WF_vars(Serve) /\ WF_vars(Leave)
    /\ WF_vars(Exchange) /\ WF_vars(Install)

(***************************************************************************)
(* Properties                                                              *)
(***************************************************************************)
DiskType ==
    [current : Dir, dirs : [Dir -> Version \cup {None}], marker : MarkerType \cup {None},
     outcome : OutcomeType \cup {None}, record : Version \cup {None}]
\* The files and the process have the shape the code gives them.
SelfUpdateTypeOK ==
    /\ fate \in Fates /\ disk \in DiskType /\ proc \in ProcType \cup {None}
    /\ assigned \in Version \cup {None} /\ gaveUp \subseteq Version
    /\ proven \subseteq Version /\ highest \in Version /\ tries \in Nat
    /\ spent \in [Bounded -> Nat]

\* Whatever is cut short, `current` names a directory with a whole program that passed
\* its self-check: the service manager always has a Client to start.
AlwaysBootable ==
    disk.dirs[disk.current] # None /\ fate[disk.dirs[disk.current]] # "broken"

\* The directory an update in flight would be rolled back to holds, whole, a version
\* the Server has answered: no update starts from a version still on probation, and
\* none is staged over the version it would return to.
ReturnIsProven ==
    disk.marker # None => disk.dirs[disk.marker.previous_dir] \in proven

\* A version that has not proved itself is run at most MAX_ATTEMPTS times, however the
\* runs end, before the previous one is back.
AttemptsBounded == tries <= MAX_ATTEMPTS

\* What runs is never below a version that proved itself since a person last put one
\* there: a rollback goes back one version, and no offer goes back at all.
NeverDowngraded == proc # None => proc.version >= highest

At == disk.dirs[disk.current]
InFlight == disk.marker # None /\ disk.current = disk.marker.new_dir

\* `current` names a version that proved itself, or the one an update in flight is trying,
\* and a failed try can go back without going below a proved version.
CurrentIsSettled ==
    /\ At >= highest /\ \A v \in proven : fate[v] # "broken"
    /\ At \in proven \/ (InFlight /\ At = disk.marker.version)
    /\ disk.marker # None =>
        /\ disk.marker.new_dir = PackageDir(disk.marker.version)
        /\ tries <= disk.marker.attempts
    /\ InFlight => disk.dirs[disk.marker.previous_dir] >= highest

\* A run that serves, or is about to, is the one `current` names. It has proved itself
\* unless it is on probation, with a try to spare; and it installs nothing meanwhile.
RunIsCurrent ==
    proc # None =>
        /\ proc.does # "end" => proc.dir = disk.current /\ proc.version = At
        /\ proc.does = "start" =>
            /\ proc.installing = None
            /\ IF proc.probation = None THEN proc.version \in proven
               ELSE tries < proc.probation.attempts
        /\ proc.installing # None => proc.probation = None

\* What is left of a script may stop anywhere. Each form says where its writer stands:
\* nothing but reports to the Server,
Report ==
    [op : {"outcome"}, arg : OutcomeType \cup {None}] \cup [op : {"record"}, arg : Version \cup {None}]
Reporting ==
    script \in Seq(Report) /\ (proc.does # "end" => disk.marker = proc.probation)
\* the marker to remove, of an update that ended,
Clearing ==
    /\ script # <<>> /\ Head(script) = Mark(None) /\ Tail(script) \in Seq(Report)
    /\ proc.probation = None /\ (At \in proven \/ proc.does = "serve")
\* the try to count,
Counting ==
    /\ script # <<>> /\ Head(script) = Mark(proc.probation) /\ Tail(script) \in Seq(Report)
    /\ proc.probation # None /\ disk.marker # None /\ tries <= proc.probation.attempts
    /\ proc.probation = [disk.marker EXCEPT !.attempts = proc.probation.attempts]
    /\ proc.does # "serve"
\* the way back to take,
Returning ==
    /\ proc.does = "end" /\ proc.probation = None /\ InFlight
    /\ script # <<>> /\ Head(script) = Point(disk.marker.previous_dir)
    /\ Tail(script) # <<>> /\ Head(Tail(script)) = Mark(None) /\ Tail(Tail(script)) \in Seq(Report)
\* a program to stage that is not switched to,
Staging ==
    /\ proc.does = "serve" /\ proc.probation = None /\ disk.marker = None
    /\ \E v \in Version :
        /\ PackageDir(v) # disk.current
        /\ script \in {Stage(v), <<Program(PackageDir(v), v)>>}
\* or a program to stage and switch to.
Switching ==
    /\ proc.does = "end" /\ proc.dir = disk.current /\ tries = 0
    /\ \E v \in Version :
        LET new == PackageDir(v)
            m == [previous_dir |-> proc.dir, new_dir |-> new, version |-> v, attempts |-> 0]
        IN  /\ new # disk.current /\ v >= highest /\ Proved(v)
            /\ \/ /\ disk.marker = None
                  /\ \/ script = <<Program(new, None), Program(new, v), Mark(m), Point(new)>>
                     \/ script = <<Program(new, v), Mark(m), Point(new)>>
                     \/ script = <<Mark(m), Point(new)>> /\ disk.dirs[new] = v
               \/ /\ disk.marker = m /\ disk.dirs[new] = v
                  /\ script = <<Point(new)>>

\* Wherever the process stops, what it has written is a state the next start resolves.
ScriptIsSafe ==
    IF proc = None THEN script = <<>>
    ELSE Reporting \/ Clearing \/ Counting \/ Returning \/ Staging \/ Switching

\* What runs is what may run: an unproved version is tried a bounded number of times, none
\* runs below a proved one, and every write of a start, a commit, a rollback or an install
\* leaves files the next start can resolve (on_start, server_answered, install).
UpdateInv ==
    /\ SelfUpdateTypeOK /\ AttemptsBounded /\ NeverDowngraded
    /\ AlwaysBootable /\ ReturnIsProven /\ CurrentIsSettled /\ RunIsCurrent /\ ScriptIsSafe

\* An update in flight ends: the new version commits itself or the host returns.
UpdateEnds == (disk.marker # None) ~> (disk.marker = None)

\* A rollout comes to something: the Client runs the version assigned or says it has
\* it installed, or the Server is told that it failed, or the assignment changes.
RolloutAnswered ==
    \A v \in Version :
        (assigned = v) ~> \/ assigned # v \/ v \in gaveUp
                          \/ proc # None /\ proc.does = "serve" /\ v \in {proc.version, proc.has}

\* A failed self-update does not become a loop: a version the Server was told has
\* failed is not installed again under the same assignment.
FailedIsNotRepeated == proc # None => proc.installing \notin gaveUp
===============================================================================
