----------------------------- MODULE PackageProofs -----------------------------
(***************************************************************************)
(* Proofs about module PackageInstall, for every set of versions and       *)
(* deliveries, every fate of a version and every number of outages, crashes*)
(* and stops: there is always a program to go back to, what waits stays    *)
(* staged, and no configuration is decided twice.                          *)
(***************************************************************************)
EXTENDS PackageInstall, SequenceTheorems, WellFoundedInduction, TLAPS

(* A verdict that a package is installed is on its way to the Agent.       *)
Told(told) == \E i \in DOMAIN told : told[i].kind = "package" /\ told[i].ok

(* What the step leads to: the invariant, and no second verdict.           *)
Kept == PackageInv' /\ (SettledOnce => SettledOnce')

(* One more verdict.                                                       *)
LEMMA OneMore ==
  ASSUME NEW told \in Seq(Event), NEW e \in Event
  PROVE  /\ Append(told, e) \in Seq(Event)
         /\ Told(Append(told, e)) <=> Told(told) \/ (e.kind = "package" /\ e.ok)
<1> DEFINE more == Append(told, e)
<1>1. /\ more \in Seq(Event) /\ Len(more) = Len(told) + 1 /\ Len(told) \in Nat
      /\ \A i \in 1 .. Len(told) : more[i] = told[i]
      /\ more[Len(told) + 1] = e
      /\ DOMAIN told = 1 .. Len(told) /\ DOMAIN more = 1 .. Len(told) + 1
  BY AppendProperties, LenProperties
<1> HIDE DEF more
<1>2. Told(more) <=> Told(told) \/ (e.kind = "package" /\ e.ok)
  BY <1>1 DEF Told
<1> QED
  BY <1>1, <1>2 DEF more

(* The verdict of a configuration, after those already reported.           *)
LEMMA SettleFacts ==
  ASSUME NEW told \in Seq(Event), NEW config \in Config \cup {None}, NEW ok \in BOOLEAN,
         Settle(config, ok, told)
  PROVE  /\ events' \in Seq(Event) /\ (Told(events') <=> Told(told))
         /\ owed' = None /\ settled' = settled \cup ({config} \ {None})
         /\ again' = (again \/ config \in settled)
<1>1. /\ owed' = None /\ settled' = settled \cup ({config} \ {None})
      /\ again' = (again \/ config \in settled)
      /\ events' = told \o (IF config = None THEN <<>> ELSE <<Verdict("config", config, ok)>>)
  BY DEF Settle
<1>2. CASE config = None
  <2>1. events' = told
    BY <1>1, <1>2, ConcatEmptySeq
  <2> QED
    BY <1>1, <2>1
<1>3. CASE config # None
  <2> DEFINE e == Verdict("config", config, ok)
  <2>1. e \in Event /\ e.kind = "config"
    BY <1>3 DEF Verdict, Event
  <2> HIDE DEF e
  <2>2. events' = Append(told, e)
    BY <1>1, <1>3, <2>1, AppendIsConcat DEF e
  <2>3. "config" # "package"
    OBVIOUS
  <2> QED
    BY <1>1, <2>1, <2>2, <2>3, OneMore
<1> QED
  BY <1>2, <1>3

(* The start that is due, and what is reported of it.                      *)
LEMMA SpawnFacts ==
  ASSUME conf \in Config \cup {None}, NEW program \in Version \cup {None}, SpawnIfDue(program)
  PROVE  /\ child' \in Child \cup {None} /\ waiting' \in {"no", "away"}
         /\ child' # Gone
         /\ child' # None <=> Spawn(program) = "ran"
         /\ Spawn(program) = "ran" => waiting' = "no" /\ ~away /\ program # None
         /\ Spawn(program) # "unreached" => waiting' = "no"
         /\ Spawn(program) \in {"nothing", "unreached", "missing", "ran"}
<1>1. Spawn(program) \in {"nothing", "unreached", "missing", "ran"}
  BY DEF Spawn
<1>2. Spawn(program) = "ran" => ~away /\ program # None /\ conf # None
  BY DEF Spawn
<1>3. /\ child' = IF Spawn(program) = "ran" THEN Process(program) ELSE None
      /\ waiting' = IF Spawn(program) = "unreached" THEN "away" ELSE "no"
  BY DEF SpawnIfDue
<1>4. Spawn(program) = "ran" => /\ Process(program) \in Child /\ Process(program) # Gone
                                /\ Process(program) # None
  BY <1>2, PackageAssumption DEF Process, Child, Gone
<1> QED
  BY <1>1, <1>2, <1>3, <1>4, PackageAssumption DEF Child

(* What a start does of a configuration: its gate, its wait or its verdict.*)
Decides(config) ==
  \/ owed' = config /\ settled' = settled /\ again' = again
  \/ /\ owed' = None /\ settled' = settled \cup ({config} \ {None})
     /\ again' = (again \/ config \in settled)

(* A start, whatever came of it: no gate without a process.                *)
LEMMA StartedFacts ==
  ASSUME conf \in Config \cup {None}, NEW program \in Version \cup {None},
         NEW told \in Seq(Event), NEW config \in Config \cup {None}, Started(program, config, told)
  PROVE  /\ events' \in Seq(Event) /\ (Told(events') <=> Told(told))
         /\ child' \in Child \cup {None} /\ waiting' \in {"no", "away"} /\ child' # Gone
         /\ child' # None => waiting' = "no" /\ ~away
         /\ pc' \in {"gate", "idle"} /\ (pc' = "gate" => child' # None)
         /\ Decides(config)
<1>1. SpawnIfDue(program)
  BY DEF Started
<1>2. /\ child' \in Child \cup {None} /\ waiting' \in {"no", "away"} /\ child' # Gone
      /\ child' # None => waiting' = "no" /\ ~away
      /\ Spawn(program) = "ran" => child' # None
  BY <1>1, SpawnFacts
<1>3. CASE /\ config # None /\ Spawn(program) = "ran"
           /\ pc' = "gate" /\ owed' = config /\ events' = told /\ UNCHANGED <<settled, again>>
  BY <1>2, <1>3 DEF Decides
<1>4. CASE /\ config # None /\ Spawn(program) = "unreached"
           /\ pc' = "idle" /\ owed' = config /\ events' = told /\ UNCHANGED <<settled, again>>
  BY <1>2, <1>4 DEF Decides
<1>5. CASE pc' = "idle" /\ Settle(config, Spawn(program) = "nothing", told)
  <2>1. (Spawn(program) = "nothing") \in BOOLEAN
    OBVIOUS
  <2>2. /\ events' \in Seq(Event) /\ (Told(events') <=> Told(told))
        /\ owed' = None /\ settled' = settled \cup ({config} \ {None})
        /\ again' = (again \/ config \in settled)
    BY <1>5, <2>1, SettleFacts
  <2> QED
    BY <1>2, <1>5, <2>2 DEF Decides
<1> QED
  BY <1>3, <1>4, <1>5 DEF Started

(***************************************************************************)
(* The queue of commands, and what is still to be decided                  *)
(***************************************************************************)
(* The queue as it is typed, and the deliveries in it.                     *)
LEMMA QueueFacts ==
  ASSUME PackageInv
  PROVE  /\ cmds \in Seq(Command) /\ Len(cmds) <= Capacity /\ Len(cmds) \in Nat
         /\ DOMAIN cmds = 1 .. Len(cmds) /\ settled \subseteq Config /\ None \notin Config
         /\ \A i \in DOMAIN cmds : cmds[i] \in Command
         /\ owed \in Config \cup {None} /\ again \in BOOLEAN
         /\ \A i \in DOMAIN cmds : cmds[i].kind = "config" =>
                cmds[i].what \notin settled \cup {owed} /\ cmds[i].what \in Config
         /\ owed \notin settled
         /\ \A i, j \in DOMAIN cmds :
                cmds[i].kind = "config" /\ cmds[j].kind = "config" /\ cmds[i].what = cmds[j].what => i = j
<1>1. /\ cmds \in Seq(Command) /\ Len(cmds) <= Capacity /\ settled \subseteq Config
      /\ None \notin Config /\ owed \in Config \cup {None} /\ again \in BOOLEAN
  BY PackageAssumption DEF PackageInv, PackageTypeOK
<1>2. Len(cmds) \in Nat /\ DOMAIN cmds = 1 .. Len(cmds)
  BY <1>1, LenProperties
<1>3. \A i \in DOMAIN cmds : cmds[i] \in Command
  BY <1>1, <1>2, ElementOfSeq
<1>4. \A c \in Command : c.kind = "config" => c.what \in Config
  BY DEF Command
<1>5. DecidedOnce
  BY DEF PackageInv
<1>6. /\ owed \notin settled
      /\ \A i \in DOMAIN cmds : cmds[i].kind = "config" => cmds[i].what \notin settled
  BY <1>5 DEF DecidedOnce, Undecided
<1>7. \A i, j \in DOMAIN cmds :
          cmds[i].kind = "config" /\ cmds[j].kind = "config" =>
              cmds[i].what # owed /\ (cmds[i].what = cmds[j].what => i = j)
  BY <1>5 DEF DecidedOnce
<1> QED
  BY <1>1, <1>2, <1>3, <1>4, <1>6, <1>7

(* The queue and what is decided, after a step.                            *)
QueueStands ==
  /\ DecidedOnce' /\ settled' \subseteq Config /\ again' \in BOOLEAN /\ (SettledOnce => SettledOnce')
  /\ owed' \in Config \cup {None} /\ cmds' \in Seq(Command) /\ Len(cmds') <= Capacity

(* The queue is as it was: what is owed stays owed, or has its verdict.    *)
LEMMA QueueSame ==
  ASSUME PackageInv, cmds' = cmds, Decides(owed)
  PROVE  QueueStands
<1>1. DecidedOnce'
  BY QueueFacts DEF DecidedOnce, Undecided, Decides
<1> QED
  BY <1>1, QueueFacts DEF Decides, SettledOnce, QueueStands

(* The first command is taken. A configuration supersedes what is owed, and*)
(* is owed then or has its verdict.                                        *)
LEMMA QueueTaken ==
  ASSUME PackageInv, cmds # <<>>, cmds' = Tail(cmds),
         IF Head(cmds).kind = "config" THEN Decides(Head(cmds).what) ELSE Decides(owed)
  PROVE  QueueStands
<1>1. /\ cmds' \in Seq(Command) /\ Len(cmds') = Len(cmds) - 1
      /\ \A i \in 1 .. Len(cmds') : cmds'[i] = cmds[i + 1] /\ i + 1 \in DOMAIN cmds
      /\ Head(cmds) = cmds[1] /\ 1 \in DOMAIN cmds /\ DOMAIN cmds' = 1 .. Len(cmds')
  BY QueueFacts, HeadTailProperties, LenProperties
<1> Len(cmds') <= Capacity
  BY <1>1, QueueFacts, PackageAssumption
<1>2. \A i \in DOMAIN cmds' : cmds'[i].kind = "config" => cmds'[i].what \notin settled \cup {owed}
  BY <1>1, QueueFacts
<1>3. \A i, j \in DOMAIN cmds' :
          cmds'[i].kind = "config" /\ cmds'[j].kind = "config" /\ cmds'[i].what = cmds'[j].what => i = j
  <2> SUFFICES ASSUME NEW i \in DOMAIN cmds', NEW j \in DOMAIN cmds', cmds'[i].kind = "config",
                      cmds'[j].kind = "config", cmds'[i].what = cmds'[j].what
               PROVE  i = j
    OBVIOUS
  <2>1. i \in Nat /\ j \in Nat /\ i + 1 \in DOMAIN cmds /\ j + 1 \in DOMAIN cmds
    BY <1>1, QueueFacts
  <2>2. i + 1 = j + 1
    BY <1>1, <2>1, QueueFacts
  <2> QED
    BY <2>1, <2>2
<1>4. CASE Head(cmds).kind = "config"
  <2>1. PICK c \in Config : c = Head(cmds).what /\ c \notin settled \cup {owed, None}
    BY <1>1, <1>4, QueueFacts
  <2>2. Decides(c)
    BY <1>4, <2>1
  <2>3. \A i \in DOMAIN cmds' : cmds'[i].kind = "config" => cmds'[i].what # c
    <3> SUFFICES ASSUME NEW i \in DOMAIN cmds', cmds'[i].kind = "config", cmds'[i].what = c PROVE FALSE
      OBVIOUS
    <3>1. i \in Nat /\ i >= 1 /\ i + 1 \in DOMAIN cmds /\ cmds[i + 1].kind = "config" /\ cmds[i + 1].what = c
      BY <1>1, QueueFacts
    <3>2. i + 1 = 1
      BY <1>1, <1>4, <2>1, <3>1, QueueFacts
    <3> QED
      BY <3>1, <3>2
  <2>4. \A i \in DOMAIN cmds' : cmds'[i].kind = "config" => cmds'[i].what \notin settled' \cup {owed'}
    <3>1. \A i \in DOMAIN cmds' : cmds'[i].kind = "config" => cmds'[i].what # None
      BY <1>1, QueueFacts
    <3> QED
      BY <1>2, <2>2, <2>3, <3>1 DEF Decides
  <2>5. owed' \notin settled' /\ settled' \subseteq Config /\ owed' \in Config \cup {None}
    BY <2>1, <2>2, QueueFacts DEF Decides
  <2>6. DecidedOnce'
    BY <1>3, <2>4, <2>5 DEF DecidedOnce, Undecided
  <2>7. again' \in BOOLEAN /\ (SettledOnce => SettledOnce')
    BY <2>1, <2>2, QueueFacts DEF Decides, SettledOnce
  <2> QED
    BY <1>1, <2>5, <2>6, <2>7, QueueFacts DEF QueueStands
<1>5. CASE Head(cmds).kind # "config"
  <2>1. Decides(owed)
    BY <1>5
  <2>2. \A i \in DOMAIN cmds' : cmds'[i].kind = "config" => cmds'[i].what \notin settled' \cup {owed'}
    <3>1. \A i \in DOMAIN cmds' : cmds'[i].kind = "config" => cmds'[i].what # None
      BY <1>1, QueueFacts
    <3> QED
      BY <1>2, <2>1, <3>1 DEF Decides
  <2>3. owed' \notin settled' /\ settled' \subseteq Config /\ owed' \in Config \cup {None}
    BY <2>1, QueueFacts DEF Decides
  <2>4. DecidedOnce'
    BY <1>3, <2>2, <2>3 DEF DecidedOnce, Undecided
  <2>5. again' \in BOOLEAN /\ (SettledOnce => SettledOnce')
    BY <2>1, QueueFacts DEF Decides, SettledOnce
  <2> QED
    BY <1>1, <2>3, <2>4, <2>5, QueueFacts DEF QueueStands
<1> QED
  BY <1>4, <1>5

(* A command is queued: a configuration that is new.                       *)
LEMMA QueueGrows ==
  ASSUME PackageInv, NEW c \in Command, cmds' = Append(cmds, c), Len(cmds) < Capacity,
         c.kind = "config" => c.what \notin settled \cup Undecided,
         UNCHANGED <<owed, settled, again>>
  PROVE  QueueStands
<1>1. /\ cmds' \in Seq(Command) /\ Len(cmds') = Len(cmds) + 1
      /\ \A i \in 1 .. Len(cmds) : cmds'[i] = cmds[i]
      /\ cmds'[Len(cmds) + 1] = c /\ DOMAIN cmds' = 1 .. Len(cmds) + 1
  BY QueueFacts, AppendProperties, LenProperties
<1>2. Len(cmds') <= Capacity
  BY <1>1, QueueFacts, PackageAssumption
<1>3. c.kind = "config" => c.what \notin settled \cup {owed}
                           /\ \A i \in DOMAIN cmds : cmds[i].kind = "config" => cmds[i].what # c.what
  BY DEF Undecided
<1>4. \A i \in DOMAIN cmds' : cmds'[i].kind = "config" => cmds'[i].what \notin settled \cup {owed}
  BY <1>1, <1>3, QueueFacts
<1>5. \A i, j \in DOMAIN cmds' :
          cmds'[i].kind = "config" /\ cmds'[j].kind = "config" /\ cmds'[i].what = cmds'[j].what => i = j
  BY <1>1, <1>3, QueueFacts
<1>6. DecidedOnce'
  BY <1>4, <1>5, QueueFacts DEF DecidedOnce, Undecided
<1> QED
  BY <1>1, <1>2, <1>6, QueueFacts DEF SettledOnce, QueueStands

(***************************************************************************)
(* What every step needs                                                   *)
(***************************************************************************)
SessionTyped ==
  /\ spent \in [Bounded -> Nat]
  /\ assigned \in Version \cup {None} /\ download \in Version \cup {None}
  /\ agent \in [installing : Version \cup {None}, offered : Version \cup {None},
                echoed : Version \cup {None}, applying : Config \cup {None}]
  /\ record \in Version \cup {None} /\ conf \in Config \cup {None}
  /\ file \in Version \cup {Torn, None}

RunnerTyped ==
  /\ events \in Seq(Event)
  /\ pc \in {"off", "idle", "preflight", "reach", "check", "swap", "gate", "respawn", "backoff"}
  /\ child \in Child \cup {None} /\ waiting \in {"no", "due", "away"}
  /\ parked \in Package \cup {None} /\ hand \in Package \cup {None}
  /\ live \in Version \cup {None} /\ backup \in Version \cup {None}
  /\ staged \in Version \cup {None}
  /\ streak \in 0 .. MAX_CRASH_RESTARTS /\ away \in BOOLEAN

(* Whatever is recorded or reported as installed can be started or gone    *)
(* back to.                                                                *)
HasProgram ==
  record # None \/ Told(events) => live # None /\ (pc = "gate" /\ hand # None => backup # None)

(* The invariant, taken apart.                                             *)
LEMMA Typed ==
  ASSUME PackageInv
  PROVE  SessionTyped /\ RunnerTyped /\ HasProgram /\ WaitingIsStaged /\ InHand /\ HeldRests
BY DEF PackageInv, PackageTypeOK, SessionTyped, RunnerTyped, HasProgram, NeverEmptied, Told

(* What the assumption says of the constants.                              *)
LEMMA Constants ==
  /\ Version \subseteq Nat /\ None \notin Version /\ None \notin Config /\ Torn \notin Version
  /\ None \notin Package /\ None \notin Child /\ Gone # None
  /\ MAX_CRASH_RESTARTS \in Nat /\ MAX_CRASH_RESTARTS > 1 /\ Capacity \in Nat
BY PackageAssumption DEF Child

(* The parts, put together again after a step.                             *)
LEMMA Assembled ==
  ASSUME PackageInv, UNCHANGED env, SessionTyped', RunnerTyped', HasProgram', WaitingIsStaged', InHand',
         HeldRests', QueueStands
  PROVE  Kept
<1>1. fate' \in Fates /\ limit' \in Limits
  BY DEF PackageInv, PackageTypeOK, env
<1>2. PackageTypeOK'
  BY <1>1 DEF PackageTypeOK, SessionTyped, RunnerTyped, QueueStands
<1>3. NeverEmptied'
  BY DEF HasProgram, NeverEmptied, Told
<1> QED
  BY <1>2, <1>3 DEF Kept, PackageInv, QueueStands

LEMMA SpendFacts ==
  ASSUME PackageInv, NEW what \in Bounded, Spend(what)
  PROVE  spent' \in [Bounded -> Nat]
BY Typed DEF Spend, SessionTyped

(* A step of the session alone: the Runner and its files are left alone.   *)
LEMMA SessionStep ==
  ASSUME PackageInv, UNCHANGED <<env, runner, files, away>>, SessionTyped', QueueStands,
         events' \in Seq(Event), record' # None \/ Told(events') => record # None \/ Told(events)
  PROVE  Kept
<1>1. /\ UNCHANGED <<env, pc, child, waiting, owed, parked, hand, streak, live, backup, staged, away>>
  BY DEF runner, files
<1>2. RunnerTyped'
  BY <1>1, Typed DEF RunnerTyped
<1>3. HasProgram'
  BY <1>1, Typed DEF HasProgram
<1>4. WaitingIsStaged' /\ InHand' /\ HeldRests'
  BY <1>1, Typed DEF WaitingIsStaged, InHand, HeldRests
<1> QED
  BY <1>1, <1>2, <1>3, <1>4, Assembled

LEMMA RolloutKeeps ==
  ASSUME PackageInv, NEW v \in Version, Rollout(v)
  PROVE  Kept
<1>1. /\ spent' \in [Bounded -> Nat] /\ assigned' = v
      /\ UNCHANGED <<env, session, cmds, events, runner, files, away, history>>
  BY SpendFacts DEF Rollout, Bounded
<1>2. SessionTyped'
  BY <1>1, Typed DEF SessionTyped, session
<1>3. Decides(owed)
  BY <1>1 DEF Decides, runner, history
<1>4. QueueStands
  BY <1>1, <1>3, QueueSame
<1> QED
  BY <1>1, <1>2, <1>4, SessionStep, Typed DEF RunnerTyped, session

LEMMA OfferKeeps ==
  ASSUME PackageInv, Offer
  PROVE  Kept
<1>1. UNCHANGED <<env, spent, assigned, record, conf, cmds, events, runner, files, away, history>>
  BY DEF Offer
<1>2. SessionTyped'
  BY <1>1, Typed DEF SessionTyped, Offer
<1>3. QueueStands
  BY <1>1, QueueSame DEF Decides, runner, history
<1> QED
  BY <1>1, <1>2, <1>3, SessionStep, Typed DEF RunnerTyped

LEMMA DownloadFailsKeeps ==
  ASSUME PackageInv, DownloadFails
  PROVE  Kept
<1>1. /\ spent' \in [Bounded -> Nat] /\ Applied(download, FALSE) /\ download' = None /\ file' = None
      /\ UNCHANGED <<env, assigned, conf, cmds, events, runner, files, away, history>>
  BY SpendFacts DEF DownloadFails, Bounded
<1>2. SessionTyped' /\ record' = record
  BY <1>1, Typed DEF SessionTyped, Applied
<1>3. QueueStands
  BY <1>1, QueueSame DEF Decides, runner, history
<1> QED
  BY <1>1, <1>2, <1>3, SessionStep, Typed DEF RunnerTyped

LEMMA DownloadedKeeps ==
  ASSUME PackageInv, Downloaded
  PROVE  Kept
<1>1. /\ download # None /\ file' = (IF file = Torn THEN download ELSE file) /\ download' = None
      /\ UNCHANGED <<env, spent, assigned, conf, events, runner, files, away, history>>
  BY DEF Downloaded
<1>2. CASE /\ Len(cmds) < Capacity /\ Queued([kind |-> "package", what |-> download])
           /\ UNCHANGED <<agent, record>>
  <2>1. SessionTyped' /\ record' = record
    BY <1>1, <1>2, Typed DEF SessionTyped
  <2> DEFINE c == [kind |-> "package", what |-> download]
  <2>2. c \in Command /\ c.kind # "config"
    BY <1>1, Typed DEF SessionTyped, Command
  <2>3. cmds' = Append(cmds, c)
    BY <1>2 DEF Queued
  <2> HIDE DEF c
  <2>4. QueueStands
    BY <1>1, <1>2, <2>2, <2>3, QueueGrows DEF runner, history
  <2> QED
    BY <1>1, <2>1, <2>4, SessionStep, Typed DEF RunnerTyped
<1>3. CASE Len(cmds) = Capacity /\ Applied(download, FALSE) /\ UNCHANGED cmds
  <2>1. SessionTyped' /\ record' = record
    BY <1>1, <1>3, Typed DEF SessionTyped, Applied
  <2>2. QueueStands
    BY <1>1, <1>3, QueueSame DEF Decides, runner, history
  <2> QED
    BY <1>1, <2>1, <2>2, SessionStep, Typed DEF RunnerTyped
<1> QED
  BY <1>2, <1>3 DEF Downloaded

LEMMA DeliverKeeps ==
  ASSUME PackageInv, NEW d \in Config, Deliver(d)
  PROVE  Kept
<1>1. /\ spent' \in [Bounded -> Nat] /\ conf' = d /\ d \notin settled \cup Undecided
      /\ UNCHANGED <<env, assigned, download, record, file, events, runner, files, away, history>>
  BY SpendFacts DEF Deliver, Bounded
<1>2. SessionTyped'
  BY <1>1, Typed DEF SessionTyped, Deliver
<1>3. CASE Len(cmds) < Capacity /\ Queued([kind |-> "config", what |-> d])
  <2> DEFINE c == [kind |-> "config", what |-> d]
  <2>1. c \in Command /\ c.what \notin settled \cup Undecided
    BY <1>1 DEF Command
  <2>2. cmds' = Append(cmds, c)
    BY <1>3 DEF Queued
  <2> HIDE DEF c
  <2>3. QueueStands
    BY <1>1, <1>3, <2>1, <2>2, QueueGrows DEF runner, history
  <2> QED
    BY <1>1, <1>2, <2>3, SessionStep, Typed DEF RunnerTyped
<1>4. CASE UNCHANGED cmds
  <2>1. QueueStands
    BY <1>1, <1>4, QueueSame DEF Decides, runner, history
  <2> QED
    BY <1>1, <1>2, <2>1, SessionStep, Typed DEF RunnerTyped
<1> QED
  BY <1>3, <1>4 DEF Deliver

LEMMA AskRestartKeeps ==
  ASSUME PackageInv, AskRestart
  PROVE  Kept
<1> DEFINE c == [kind |-> "restart", what |-> None]
<1>1. /\ spent' \in [Bounded -> Nat] /\ cmds' = Append(cmds, c) /\ Len(cmds) < Capacity
      /\ UNCHANGED <<env, assigned, session, events, runner, files, away, history>>
  BY SpendFacts DEF AskRestart, Queued, Bounded
<1>2. SessionTyped' /\ record' = record
  BY <1>1, Typed DEF SessionTyped, session
<1>3. c \in Command /\ c.kind # "config"
  BY DEF Command
<1> HIDE DEF c
<1>4. QueueStands
  BY <1>1, <1>3, QueueGrows DEF runner, history
<1> QED
  BY <1>1, <1>2, <1>4, SessionStep, Typed DEF RunnerTyped

LEMMA AbsorbKeeps ==
  ASSUME PackageInv, Absorb
  PROVE  Kept
<1>1. /\ events # <<>> /\ events' = Tail(events)
      /\ UNCHANGED <<env, spent, assigned, download, conf, file, cmds, runner, files, away, history>>
  BY DEF Absorb
<1>2. /\ events \in Seq(Event) /\ events' \in Seq(Event) /\ Head(events) \in Event
      /\ Len(events') = Len(events) - 1 /\ Head(events) = events[1] /\ 1 \in DOMAIN events
      /\ \A i \in DOMAIN events' : events'[i] = events[i + 1] /\ i + 1 \in DOMAIN events
  BY <1>1, Typed, HeadTailProperties, LenProperties DEF RunnerTyped
<1>3. Told(events') => Told(events)
  BY <1>2 DEF Told
<1>4. PICK e \in Event : e = Head(events)
  BY <1>2
<1>5. CASE e.kind = "package" /\ Applied(e.what, e.ok)
  <2>1. e.what \in Version /\ (e.ok => Told(events)) /\ e.ok \in BOOLEAN
    BY <1>2, <1>4, <1>5 DEF Event, Told
  <2>2. SessionTyped' /\ record' \in {record, e.what} /\ (record' # record => e.ok)
    BY <1>1, <1>5, <2>1, Typed DEF SessionTyped, Applied
  <2>3. QueueStands
    BY <1>1, QueueSame DEF Decides, runner, history
  <2> QED
    BY <1>1, <1>2, <1>3, <2>1, <2>2, <2>3, SessionStep
<1>6. CASE /\ e.kind = "config" /\ UNCHANGED record
           /\ agent' = [agent EXCEPT !.applying = IF @ = e.what THEN None ELSE @]
  <2>1. SessionTyped'
    BY <1>1, <1>6, Typed DEF SessionTyped
  <2>2. QueueStands
    BY <1>1, QueueSame DEF Decides, runner, history
  <2> QED
    BY <1>1, <1>2, <1>3, <1>6, <2>1, <2>2, SessionStep
<1> QED
  BY <1>4, <1>5, <1>6 DEF Absorb

(***************************************************************************)
(* The steps of the Runner                                                 *)
(***************************************************************************)
(* A step of the Runner that leaves the session as it is.                  *)
LEMMA SessionLeft ==
  ASSUME PackageInv, UNCHANGED <<assigned, session>>, spent' \in [Bounded -> Nat]
  PROVE  SessionTyped' /\ record' = record /\ conf' = conf
BY Typed DEF SessionTyped, session

(* A start of what is live: with its gate, its wait, or its verdict.       *)
LEMMA StartKeeps ==
  ASSUME PackageInv, NEW config \in Config \cup {None}, Started(live, config, events),
         pc \in {"idle", "respawn"}, parked = None, streak' < MAX_CRASH_RESTARTS,
         streak' \in {0, streak}, QueueStands,
         UNCHANGED <<env, spent, assigned, session, parked, hand, files, away>>
  PROVE  Kept
<1>1. SessionTyped' /\ record' = record
  BY SessionLeft, Typed DEF SessionTyped
<1>2. /\ events' \in Seq(Event) /\ (Told(events') <=> Told(events))
      /\ child' \in Child \cup {None} /\ waiting' \in {"no", "away"} /\ child' # Gone
      /\ child' # None => waiting' = "no" /\ ~away
      /\ pc' \in {"gate", "idle"} /\ (pc' = "gate" => child' # None)
  BY StartedFacts, Typed DEF SessionTyped, RunnerTyped
<1>3. streak' \in Nat /\ streak' < MAX_CRASH_RESTARTS
  BY Constants, Typed DEF RunnerTyped
<1>4. RunnerTyped'
  BY <1>2, <1>3, Constants, Typed DEF RunnerTyped, files
<1>5. hand' = None /\ parked' = None
  BY Typed DEF InHand
<1>6. HasProgram' /\ WaitingIsStaged'
  BY <1>1, <1>2, <1>5, Typed DEF HasProgram, WaitingIsStaged, files
<1>7. InHand' /\ HeldRests'
  BY <1>2, <1>3, <1>5, Constants, Typed DEF InHand, HeldRests, RunnerTyped
<1> QED
  BY <1>1, <1>4, <1>6, <1>7, Assembled

(* A configuration from the queue: it is owed or decided, never both.      *)
LEMMA TakeConfigKeeps ==
  ASSUME PackageInv, TakeConfig
  PROVE  Kept
<1>1. /\ pc = "idle" /\ cmds # <<>> /\ Head(cmds).kind = "config" /\ cmds' = Tail(cmds) /\ streak' = 0
      /\ UNCHANGED <<env, spent, assigned, session, files, away>>
  BY DEF TakeConfig, Takes, FreshChance
<1>2. PICK config \in Config : config = Head(cmds).what
  <2>1. Head(cmds) = cmds[1] /\ 1 \in DOMAIN cmds
    BY <1>1, QueueFacts, HeadTailProperties, LenProperties
  <2> QED
    BY <1>1, <2>1, QueueFacts
<1>3. CASE parked = None /\ Started(live, config, events) /\ UNCHANGED <<hand, parked>>
  <2>1. Decides(config)
    BY <1>3, StartedFacts, Typed DEF SessionTyped, RunnerTyped
  <2>2. QueueStands
    BY <1>1, <1>2, <2>1, QueueTaken
  <2>3. streak' < MAX_CRASH_RESTARTS /\ streak' \in {0, streak}
    BY <1>1, Constants
  <2> QED
    BY <1>1, <1>3, <2>2, <2>3, StartKeeps
<1>4. CASE /\ parked # None
           /\ pc' = "reach" /\ hand' = parked /\ parked' = None /\ owed' = config
           /\ UNCHANGED <<child, waiting, events, settled, again>>
  <2>1. QueueStands
    BY <1>1, <1>2, <1>4, QueueTaken DEF Decides
  <2>2. SessionTyped' /\ record' = record
    BY <1>1, SessionLeft, Typed DEF SessionTyped
  <2>3. RunnerTyped' /\ HasProgram' /\ WaitingIsStaged'
    BY <1>1, <1>4, <2>2, Constants, Typed DEF RunnerTyped, HasProgram, WaitingIsStaged, files
  <2>4. InHand' /\ HeldRests'
    BY <1>1, <1>4, Constants, Typed DEF InHand, HeldRests
  <2> QED
    BY <1>1, <2>1, <2>2, <2>3, <2>4, Assembled
<1> QED
  BY <1>2, <1>3, <1>4 DEF TakeConfig

(* A package replaces one that waits, and is staged when it is whole.      *)
LEMMA TakePackageKeeps ==
  ASSUME PackageInv, TakePackage
  PROVE  Kept
<1>1. /\ pc = "idle" /\ cmds # <<>> /\ Head(cmds).kind = "package" /\ cmds' = Tail(cmds)
      /\ parked' = None /\ file' \in {file, None} /\ staged' = Unpacked
      /\ UNCHANGED <<env, spent, assigned, agent, download, record, conf, child, waiting, owed, streak,
                     live, backup, away, history>>
  BY DEF TakePackage, Takes
<1>2. PICK v \in Version : v = Head(cmds).what
  <2>1. Head(cmds) \in Command
    BY <1>1, QueueFacts, HeadTailProperties
  <2> QED
    BY <1>1, <2>1 DEF Command
<1>3. QueueStands
  <2>1. Decides(owed) /\ Head(cmds).kind # "config"
    BY <1>1 DEF Decides, history
  <2> QED
    BY <1>1, <2>1, QueueTaken
<1>4. SessionTyped'
  BY <1>1, Typed DEF SessionTyped
<1>5. staged' \in Version \cup {None} /\ (file \in Version => staged' # None)
  BY <1>1, Constants, Typed DEF Unpacked, RunnerTyped
<1>6. CASE /\ file \in Version /\ pc' = "preflight" /\ UNCHANGED events
           /\ hand' = [version |-> v, checked |-> FALSE]
  <2>1. hand' \in Package
    BY <1>6 DEF Package
  <2>2. RunnerTyped' /\ HasProgram' /\ WaitingIsStaged'
    BY <1>1, <1>5, <1>6, <2>1, Typed DEF RunnerTyped, HasProgram, WaitingIsStaged
  <2>3. InHand' /\ HeldRests'
    BY <1>1, <1>6, <2>1, Constants, Typed DEF InHand, HeldRests
  <2> QED
    BY <1>1, <1>3, <1>4, <2>2, <2>3, Assembled
<1>7. CASE /\ events' = Append(events, Verdict("package", v, FALSE)) /\ UNCHANGED <<pc, hand>>
  <2> DEFINE e == Verdict("package", v, FALSE)
  <2>1. e \in Event /\ ~e.ok
    BY DEF Verdict, Event
  <2> HIDE DEF e
  <2>2. events' \in Seq(Event) /\ (Told(events') <=> Told(events))
    BY <1>7, <2>1, OneMore, Typed DEF e, RunnerTyped
  <2>3. RunnerTyped' /\ HasProgram' /\ WaitingIsStaged'
    BY <1>1, <1>5, <1>7, <2>2, Typed DEF RunnerTyped, HasProgram, WaitingIsStaged
  <2>4. InHand' /\ HeldRests'
    BY <1>1, <1>7, Typed DEF InHand, HeldRests
  <2> QED
    BY <1>1, <1>3, <1>4, <2>3, <2>4, Assembled
<1> QED
  BY <1>2, <1>6, <1>7 DEF TakePackage

LEMMA TakeRestartKeeps ==
  ASSUME PackageInv, TakeRestart
  PROVE  Kept
<1>1. /\ pc = "idle" /\ cmds # <<>> /\ Head(cmds).kind = "restart" /\ cmds' = Tail(cmds) /\ streak' = 0
      /\ child' = (IF Spawn(live) = "ran" THEN Process(live) ELSE None)
      /\ waiting' \in {"no", "due", "away"}
      /\ UNCHANGED <<env, spent, assigned, session, events, pc, owed, parked, hand, files, away, settled,
                     again>>
  BY DEF TakeRestart, Takes, FreshChance
<1>2. QueueStands
  <2>1. Decides(owed) /\ Head(cmds).kind # "config"
    BY <1>1 DEF Decides
  <2> QED
    BY <1>1, <2>1, QueueTaken
<1>3. SessionTyped' /\ record' = record
  BY <1>1, SessionLeft, Typed DEF SessionTyped
<1>4. child' \in Child \cup {None} /\ (child' # None => ~away)
  BY <1>1, Constants, Typed DEF Spawn, Process, Child, SessionTyped, RunnerTyped
<1>5. RunnerTyped' /\ HasProgram' /\ WaitingIsStaged'
  BY <1>1, <1>3, <1>4, Constants, Typed DEF RunnerTyped, HasProgram, WaitingIsStaged, files
<1>6. InHand' /\ HeldRests'
  BY <1>1, <1>4, Constants, Typed DEF InHand, HeldRests
<1> QED
  BY <1>1, <1>2, <1>3, <1>5, <1>6, Assembled

(* A package is refused: its verdict, and nothing of it left.              *)
LEMMA RefusedFacts ==
  ASSUME PackageInv, hand # None, events' = Append(events, Verdict("package", hand.version, FALSE))
  PROVE  events' \in Seq(Event) /\ (Told(events') <=> Told(events))
<1>1. hand.version \in Version
  BY Typed DEF RunnerTyped, Package
<1> DEFINE e == Verdict("package", hand.version, FALSE)
<1>2. e \in Event /\ ~e.ok
  BY <1>1 DEF Verdict, Event
<1> HIDE DEF e
<1> QED
  BY <1>2, OneMore, Typed DEF e, RunnerTyped

LEMMA PreflightKeeps ==
  ASSUME PackageInv, Preflight
  PROVE  Kept
<1>1. /\ pc = "preflight" /\ file' = None
      /\ UNCHANGED <<env, spent, assigned, agent, download, record, conf, cmds, child, waiting, owed,
                     live, backup, away, settled, again>>
  BY DEF Preflight
<1>2. QueueStands
  BY <1>1, QueueSame DEF Decides
<1>3. SessionTyped' /\ record' = record
  BY <1>1, Typed DEF SessionTyped
<1>4. hand # None /\ parked = None /\ staged # None
  BY <1>1, Typed DEF InHand, WaitingIsStaged
<1>5. CASE /\ staged' = None /\ hand' = None /\ pc' = "idle"
           /\ events' = Append(events, Verdict("package", hand.version, FALSE))
           /\ UNCHANGED <<parked, streak>>
  <2>1. events' \in Seq(Event) /\ (Told(events') <=> Told(events))
    BY <1>4, <1>5, RefusedFacts
  <2>2. RunnerTyped' /\ HasProgram' /\ WaitingIsStaged'
    BY <1>1, <1>3, <1>4, <1>5, <2>1, Typed DEF RunnerTyped, HasProgram, WaitingIsStaged
  <2>3. InHand' /\ HeldRests'
    BY <1>1, <1>4, <1>5, Typed DEF InHand, HeldRests
  <2> QED
    BY <1>1, <1>2, <1>3, <2>2, <2>3, Assembled
<1>6. CASE /\ streak' = 0 /\ UNCHANGED <<staged, events>>
           /\ \/ parked' = [hand EXCEPT !.checked = ~away] /\ hand' = None /\ pc' = "idle"
              \/ hand' = [hand EXCEPT !.checked = ~away] /\ pc' = "reach" /\ UNCHANGED parked
  <2>1. PICK package \in Package : package = [hand EXCEPT !.checked = ~away]
    BY <1>4, Typed DEF RunnerTyped, Package
  <2>2. RunnerTyped' /\ HasProgram' /\ WaitingIsStaged'
    BY <1>1, <1>3, <1>4, <1>6, <2>1, Constants, Typed DEF RunnerTyped, HasProgram, WaitingIsStaged
  <2>3. InHand' /\ HeldRests'
    BY <1>1, <1>4, <1>6, <2>1, Constants, Typed DEF InHand, HeldRests
  <2> QED
    BY <1>1, <1>2, <1>3, <2>2, <2>3, Assembled
<1> QED
  BY <1>5, <1>6 DEF Preflight, FreshChance

LEMMA ReachKeeps ==
  ASSUME PackageInv, Reach
  PROVE  Kept
<1>1. /\ pc = "reach"
      /\ UNCHANGED <<env, spent, assigned, session, cmds, events, child, owed, streak, files, away, history>>
  BY DEF Reach
<1>2. QueueStands
  BY <1>1, QueueSame DEF Decides, history
<1>3. SessionTyped' /\ record' = record
  BY <1>1, SessionLeft, Typed DEF SessionTyped
<1>4. RunnerTyped' /\ HasProgram' /\ WaitingIsStaged'
  BY <1>1, <1>3, Typed DEF Reach, Park, RunnerTyped, HasProgram, WaitingIsStaged, files
<1>5. InHand' /\ HeldRests'
  BY <1>1, Typed, Constants DEF Reach, Park, InHand, HeldRests
<1> QED
  BY <1>1, <1>2, <1>3, <1>4, <1>5, Assembled

LEMMA CheckKeeps ==
  ASSUME PackageInv, Check
  PROVE  Kept
<1>1. /\ pc = "check" /\ UNCHANGED <<env, spent, assigned, session, cmds, streak, live, backup, away>>
      /\ UNCHANGED <<owed, settled, again>>
  BY DEF Check, Park
<1>2. QueueStands
  BY <1>1, QueueSame DEF Decides
<1>3. SessionTyped' /\ record' = record
  BY <1>1, SessionLeft, Typed DEF SessionTyped
<1>4. hand # None /\ parked = None /\ staged # None /\ streak # MAX_CRASH_RESTARTS
  BY <1>1, Typed DEF InHand, WaitingIsStaged, HeldRests
<1>5. CASE /\ staged' = None /\ hand' = None
           /\ events' = Append(events, Verdict("package", hand.version, FALSE))
           /\ pc' \in {"idle", "respawn"} /\ child' \in {child, None}
           /\ UNCHANGED <<waiting, owed, parked, settled, again>>
  <2>1. events' \in Seq(Event) /\ (Told(events') <=> Told(events))
    BY <1>4, <1>5, RefusedFacts
  <2>2. RunnerTyped' /\ HasProgram' /\ WaitingIsStaged'
    BY <1>1, <1>3, <1>4, <1>5, <2>1, Typed DEF RunnerTyped, HasProgram, WaitingIsStaged
  <2>3. InHand' /\ HeldRests'
    BY <1>1, <1>4, <1>5, Typed DEF InHand, HeldRests
  <2> QED
    BY <1>1, <1>2, <1>3, <2>2, <2>3, Assembled
<1>6. CASE /\ away /\ Park(hand) /\ UNCHANGED <<staged, events, child, owed, settled, again>>
  <2>1. RunnerTyped' /\ HasProgram' /\ WaitingIsStaged'
    BY <1>1, <1>3, <1>4, <1>6, Typed DEF Park, RunnerTyped, HasProgram, WaitingIsStaged
  <2>2. InHand' /\ HeldRests'
    BY <1>1, <1>4, <1>6, Typed DEF Park, InHand, HeldRests
  <2> QED
    BY <1>1, <1>2, <1>3, <2>1, <2>2, Assembled
<1>7. CASE /\ hand' = [hand EXCEPT !.checked = TRUE] /\ pc' = "swap"
           /\ UNCHANGED <<staged, events, child, waiting, owed, parked, settled, again>>
  <2>1. hand' \in Package
    BY <1>4, <1>7, Typed DEF RunnerTyped, Package
  <2>2. RunnerTyped' /\ HasProgram' /\ WaitingIsStaged'
    BY <1>1, <1>3, <1>4, <1>7, <2>1, Typed DEF RunnerTyped, HasProgram, WaitingIsStaged
  <2>3. InHand' /\ HeldRests'
    BY <1>1, <1>4, <1>7, <2>1, Constants, Typed DEF InHand, HeldRests
  <2> QED
    BY <1>1, <1>2, <1>3, <2>2, <2>3, Assembled
<1> QED
  BY <1>5, <1>6, <1>7 DEF Check

(* The end of an install: its verdict, and that of what is owed.           *)
LEMMA ConcludedFacts ==
  ASSUME PackageInv, hand # None, Concluded
  PROVE  events' \in Seq(Event) /\ Decides(owed) /\ pc' = "idle" /\ hand' = None
<1> DEFINE e == Verdict("package", hand.version, TRUE)
           told == Append(events, e)
<1>1. e \in Event
  BY Typed DEF Verdict, Event, RunnerTyped, Package
<1>2. pc' = "idle" /\ hand' = None /\ Settle(owed, TRUE, told)
  BY DEF Concluded
<1> HIDE DEF e
<1>3. told \in Seq(Event)
  BY <1>1, OneMore, Typed DEF RunnerTyped
<1> HIDE DEF told
<1> QED
  BY <1>2, <1>3, SettleFacts, QueueFacts DEF Decides

(* The swap: what was live is set aside before the package is there.       *)
LEMMA SwapKeeps ==
  ASSUME PackageInv, Swap
  PROVE  Kept
<1>1. pc = "swap" /\ UNCHANGED <<env, spent, assigned, session, cmds, streak, away>>
  BY DEF Swap
<1>2. SessionTyped' /\ record' = record
  BY <1>1, SessionLeft, Typed DEF SessionTyped
<1>3. hand # None /\ parked = None /\ staged # None /\ streak # MAX_CRASH_RESTARTS
  BY <1>1, Typed DEF InHand, WaitingIsStaged, HeldRests
<1>4. CASE /\ TakeBack(staged, live) /\ Park(hand) /\ child' = None
           /\ UNCHANGED <<events, owed, settled, again>>
  <2>1. QueueStands
    BY <1>1, <1>4, QueueSame DEF Decides
  <2>2. RunnerTyped' /\ HasProgram' /\ WaitingIsStaged'
    BY <1>1, <1>2, <1>3, <1>4, Typed DEF TakeBack, Park, RunnerTyped, HasProgram, WaitingIsStaged
  <2>3. InHand' /\ HeldRests'
    BY <1>1, <1>3, <1>4, Typed DEF Park, InHand, HeldRests
  <2> QED
    BY <1>1, <1>2, <2>1, <2>2, <2>3, Assembled
<1>5. CASE /\ Spawn(staged) # "unreached"
           /\ backup' = live /\ live' = staged /\ staged' = None
           /\ SpawnIfDue(staged) /\ UNCHANGED parked
           /\ \/ Spawn(staged) = "nothing" /\ Concluded
              \/ Spawn(staged) = "ran" /\ pc' = "gate" /\ UNCHANGED <<hand, owed, events, settled, again>>
  <2>1. /\ child' \in Child \cup {None} /\ waiting' = "no" /\ (child' # None => ~away)
        /\ Spawn(staged) = "ran" => child' # None
    BY <1>5, SpawnFacts, Typed DEF SessionTyped, RunnerTyped
  <2>2. CASE Spawn(staged) = "nothing" /\ Concluded
    <3>1. events' \in Seq(Event) /\ Decides(owed) /\ pc' = "idle" /\ hand' = None
      BY <1>3, <2>2, ConcludedFacts
    <3>2. QueueStands
      BY <1>1, <3>1, QueueSame
    <3>3. RunnerTyped' /\ HasProgram' /\ WaitingIsStaged'
      BY <1>1, <1>3, <1>5, <2>1, <3>1, Typed DEF RunnerTyped, HasProgram, WaitingIsStaged
    <3>4. InHand' /\ HeldRests'
      BY <1>1, <1>3, <1>5, <2>1, <3>1, Typed DEF InHand, HeldRests
    <3> QED
      BY <1>1, <1>2, <3>2, <3>3, <3>4, Assembled
  <2>3. CASE Spawn(staged) = "ran" /\ pc' = "gate" /\ UNCHANGED <<hand, owed, events, settled, again>>
    <3>1. QueueStands
      BY <1>1, <2>3, QueueSame DEF Decides
    <3>2. RunnerTyped' /\ HasProgram' /\ WaitingIsStaged'
      BY <1>1, <1>2, <1>3, <1>5, <2>1, <2>3, Typed DEF RunnerTyped, HasProgram, WaitingIsStaged
    <3>3. InHand' /\ HeldRests'
      BY <1>1, <1>3, <1>5, <2>1, <2>3, Typed DEF InHand, HeldRests
    <3> QED
      BY <1>1, <1>2, <3>1, <3>2, <3>3, Assembled
  <2> QED
    BY <1>5, <2>2, <2>3
<1> QED
  BY <1>4, <1>5 DEF Swap

(* A failure below the hold, and at it.                                    *)
LEMMA FailedFacts ==
  ASSUME PackageInv, streak # MAX_CRASH_RESTARTS, Failed
  PROVE  /\ streak' \in 0 .. MAX_CRASH_RESTARTS /\ streak' = streak + 1
         /\ Holds <=> streak' = MAX_CRASH_RESTARTS
BY Constants, Typed DEF Failed, Holds, RunnerTyped

(* The gate of a package: a failed one goes back to what was set aside.    *)
LEMMA GatePackageKeeps ==
  ASSUME PackageInv, GatePackage
  PROVE  Kept
<1>1. pc = "gate" /\ hand # None /\ UNCHANGED <<env, spent, assigned, session, cmds, away>>
  BY DEF GatePackage
<1>2. SessionTyped' /\ record' = record
  BY <1>1, SessionLeft, Typed DEF SessionTyped
<1>3. /\ parked = None /\ waiting = "no" /\ live # None /\ streak # MAX_CRASH_RESTARTS
      /\ record # None \/ Told(events) => backup # None
  BY <1>1, Typed DEF InHand, HeldRests, HasProgram
<1>4. CASE Concluded /\ UNCHANGED <<child, waiting, parked, streak, files>>
  <2>1. events' \in Seq(Event) /\ Decides(owed) /\ pc' = "idle" /\ hand' = None
    BY <1>1, <1>4, ConcludedFacts
  <2>2. QueueStands
    BY <1>1, <2>1, QueueSame
  <2>3. RunnerTyped' /\ HasProgram' /\ WaitingIsStaged'
    BY <1>1, <1>3, <1>4, <2>1, Typed DEF RunnerTyped, HasProgram, WaitingIsStaged, files
  <2>4. InHand' /\ HeldRests'
    BY <1>1, <1>3, <1>4, <2>1, Typed DEF InHand, HeldRests
  <2> QED
    BY <1>1, <1>2, <2>2, <2>3, <2>4, Assembled
<1>5. CASE /\ hand' = None /\ Failed
           /\ live' = (IF backup = None THEN live ELSE backup) /\ backup' = None
           /\ LET told == Append(events, Verdict("package", hand.version, FALSE))
              IN  \/ /\ Holds /\ child' = None /\ pc' = "idle" /\ Settle(owed, FALSE, told)
                  \/ /\ ~Holds /\ child' = None /\ pc' = "respawn" /\ events' = told
                     /\ UNCHANGED <<owed, settled, again>>
           /\ UNCHANGED <<waiting, parked, staged>>
  <2>1. streak' \in 0 .. MAX_CRASH_RESTARTS /\ (Holds <=> streak' = MAX_CRASH_RESTARTS)
    BY <1>3, <1>5, FailedFacts
  <2> DEFINE e == Verdict("package", hand.version, FALSE)
             told == Append(events, e)
  <2>2. e \in Event /\ ~e.ok
    BY <1>1, Typed DEF Verdict, Event, RunnerTyped, Package
  <2>3. /\ child' = None /\ pc' \in {"idle", "respawn"} /\ (streak' = MAX_CRASH_RESTARTS => pc' = "idle")
        /\ \/ Settle(owed, FALSE, told)
           \/ events' = told /\ UNCHANGED <<owed, settled, again>>
    BY <1>5, <2>1
  <2> HIDE DEF e
  <2>4. told \in Seq(Event) /\ (Told(told) <=> Told(events))
    BY <2>2, OneMore, Typed DEF RunnerTyped
  <2> HIDE DEF told
  <2>5. events' \in Seq(Event) /\ (Told(events') <=> Told(events)) /\ Decides(owed)
    BY <2>3, <2>4, SettleFacts, QueueFacts DEF Decides
  <2>6. QueueStands
    BY <1>1, <2>5, QueueSame
  <2>7. RunnerTyped' /\ HasProgram' /\ WaitingIsStaged'
    BY <1>1, <1>2, <1>3, <1>5, <2>1, <2>3, <2>5, Typed DEF RunnerTyped, HasProgram, WaitingIsStaged
  <2>8. InHand' /\ HeldRests'
    BY <1>1, <1>3, <1>5, <2>1, <2>3, Typed DEF InHand, HeldRests
  <2> QED
    BY <1>1, <1>2, <2>6, <2>7, <2>8, Assembled
<1>6. CASE /\ TakeBack(live, backup) /\ Park(hand) /\ child' = None
           /\ UNCHANGED <<events, owed, streak, history>>
  <2>1. QueueStands
    BY <1>1, <1>6, QueueSame DEF Decides, history
  <2>2. RunnerTyped' /\ HasProgram' /\ WaitingIsStaged'
    BY <1>1, <1>2, <1>3, <1>6, Typed DEF TakeBack, Park, RunnerTyped, HasProgram, WaitingIsStaged
  <2>3. InHand' /\ HeldRests'
    BY <1>1, <1>3, <1>6, Typed DEF Park, InHand, HeldRests
  <2> QED
    BY <1>1, <1>2, <2>1, <2>2, <2>3, Assembled
<1> QED
  BY <1>4, <1>5, <1>6 DEF GatePackage

LEMMA RespawnKeeps ==
  ASSUME PackageInv, Respawn
  PROVE  Kept
<1>1. /\ pc = "respawn" /\ Started(live, owed, events)
      /\ UNCHANGED <<env, spent, assigned, session, cmds, parked, hand, streak, files, away>>
  BY DEF Respawn
<1>2. parked = None /\ streak < MAX_CRASH_RESTARTS
  BY <1>1, Typed, Constants DEF InHand, HeldRests, RunnerTyped
<1>3. Decides(owed)
  BY <1>1, StartedFacts, QueueFacts, Typed DEF SessionTyped, RunnerTyped
<1>4. QueueStands
  BY <1>1, <1>3, QueueSame
<1> QED
  BY <1>1, <1>2, <1>4, QueueFacts, StartKeeps

LEMMA RetryKeeps ==
  ASSUME PackageInv, Retry
  PROVE  Kept
<1>1. /\ pc = "idle" /\ waiting # "no"
      /\ UNCHANGED <<env, spent, assigned, session, cmds, streak, files, away>>
  BY DEF Retry
<1>2. streak < MAX_CRASH_RESTARTS
  BY <1>1, Typed, Constants DEF HeldRests, RunnerTyped
<1>3. CASE /\ parked # None /\ pc' = "reach" /\ hand' = parked /\ parked' = None
           /\ UNCHANGED <<child, waiting, owed, events, settled, again>>
  <2>1. QueueStands
    BY <1>1, <1>3, QueueSame DEF Decides
  <2>2. SessionTyped' /\ record' = record
    BY <1>1, SessionLeft, Typed DEF SessionTyped
  <2>3. RunnerTyped' /\ HasProgram' /\ WaitingIsStaged'
    BY <1>1, <1>3, <2>2, Typed DEF RunnerTyped, HasProgram, WaitingIsStaged, files
  <2>4. InHand' /\ HeldRests'
    BY <1>1, <1>2, <1>3, Constants, Typed DEF InHand, HeldRests, RunnerTyped
  <2> QED
    BY <1>1, <2>1, <2>2, <2>3, <2>4, Assembled
<1>4. CASE parked = None /\ Started(live, owed, events) /\ UNCHANGED <<hand, parked>>
  <2>1. Decides(owed)
    BY <1>4, StartedFacts, QueueFacts, Typed DEF SessionTyped, RunnerTyped
  <2>2. QueueStands
    BY <1>1, <2>1, QueueSame
  <2> QED
    BY <1>1, <1>2, <1>4, <2>2, QueueFacts, StartKeeps
<1> QED
  BY <1>3, <1>4 DEF Retry

LEMMA GateConfigKeeps ==
  ASSUME PackageInv, GateConfig
  PROVE  Kept
<1>1. /\ pc = "gate" /\ hand = None
      /\ UNCHANGED <<env, spent, assigned, session, cmds, parked, hand, files, away>>
  BY DEF GateConfig
<1>2. SessionTyped' /\ record' = record
  BY <1>1, SessionLeft, Typed DEF SessionTyped
<1>3. parked = None /\ waiting = "no" /\ streak # MAX_CRASH_RESTARTS
  BY <1>1, Typed DEF InHand, HeldRests
<1>4. ASSUME NEW ok \in BOOLEAN, Settle(owed, ok, events)
      PROVE  events' \in Seq(Event) /\ (Told(events') <=> Told(events)) /\ Decides(owed)
  BY <1>4, SettleFacts, QueueFacts, Typed DEF RunnerTyped, Decides
<1>5. CASE pc' = "idle" /\ Settle(owed, TRUE, events) /\ UNCHANGED <<child, waiting, streak>>
  <2>1. QueueStands
    BY <1>1, <1>4, <1>5, QueueSame
  <2>2. RunnerTyped' /\ HasProgram' /\ WaitingIsStaged'
    BY <1>1, <1>2, <1>3, <1>4, <1>5, Typed DEF RunnerTyped, HasProgram, WaitingIsStaged, files
  <2>3. InHand' /\ HeldRests'
    BY <1>1, <1>3, <1>5, Typed DEF InHand, HeldRests
  <2> QED
    BY <1>1, <1>2, <2>1, <2>2, <2>3, Assembled
<1>6. CASE /\ Failed /\ child' = None /\ pc' = AfterFailure /\ Settle(owed, FALSE, events)
           /\ UNCHANGED waiting
  <2>1. streak' \in 0 .. MAX_CRASH_RESTARTS /\ (Holds <=> streak' = MAX_CRASH_RESTARTS)
    BY <1>3, <1>6, FailedFacts
  <2>2. pc' \in {"idle", "backoff"} /\ (streak' = MAX_CRASH_RESTARTS => pc' = "idle")
    BY <1>6, <2>1 DEF AfterFailure
  <2>3. QueueStands
    BY <1>1, <1>4, <1>6, QueueSame
  <2>4. RunnerTyped' /\ HasProgram' /\ WaitingIsStaged'
    BY <1>1, <1>2, <1>3, <1>4, <1>6, <2>1, <2>2, Typed DEF RunnerTyped, HasProgram, WaitingIsStaged, files
  <2>5. InHand' /\ HeldRests'
    BY <1>1, <1>3, <1>6, <2>1, <2>2, Typed DEF InHand, HeldRests
  <2> QED
    BY <1>1, <1>2, <2>3, <2>4, <2>5, Assembled
<1>7. CASE /\ pc' = "idle" /\ child' = None /\ waiting' = "away"
           /\ UNCHANGED <<owed, events, streak, history>>
  <2>1. QueueStands
    BY <1>1, <1>7, QueueSame DEF Decides, history
  <2>2. RunnerTyped' /\ HasProgram' /\ WaitingIsStaged'
    BY <1>1, <1>2, <1>3, <1>7, Typed DEF RunnerTyped, HasProgram, WaitingIsStaged, files
  <2>3. InHand' /\ HeldRests'
    BY <1>1, <1>3, <1>7, Typed DEF InHand, HeldRests
  <2> QED
    BY <1>1, <1>2, <2>1, <2>2, <2>3, Assembled
<1> QED
  BY <1>5, <1>6, <1>7 DEF GateConfig

(* The start after a backoff, and that of the Client: nothing is decided.  *)
LEMMA SpawnKeeps ==
  ASSUME PackageInv, pc \in {"off", "backoff"}, pc' = "idle", SpawnIfDue(live),
         UNCHANGED <<env, spent, assigned, session, cmds, events, owed, parked, hand, streak, files, away,
                     history>>
  PROVE  Kept
<1>1. SessionTyped' /\ record' = record
  BY SessionLeft, Typed DEF SessionTyped
<1>2. /\ child' \in Child \cup {None} /\ waiting' \in {"no", "away"} /\ child' # Gone
      /\ child' # None => waiting' = "no" /\ ~away
  BY SpawnFacts, Typed DEF SessionTyped, RunnerTyped
<1>3. QueueStands
  BY QueueSame DEF Decides, history
<1>4. RunnerTyped' /\ HasProgram' /\ WaitingIsStaged'
  BY <1>1, <1>2, Typed DEF RunnerTyped, HasProgram, WaitingIsStaged, files
<1>5. InHand' /\ HeldRests'
  BY <1>2, Typed DEF InHand, HeldRests
<1> QED
  BY <1>1, <1>3, <1>4, <1>5, Assembled

LEMMA BackoffKeeps ==
  ASSUME PackageInv, Backoff \/ ClientStart
  PROVE  Kept
BY SpawnKeeps DEF Backoff, ClientStart

(* An exit: one that meets the hold had nothing waiting for the service.   *)
LEMMA ExitKeeps ==
  ASSUME PackageInv, Exit
  PROVE  Kept
<1>1. /\ pc = "idle" /\ child # None
      /\ UNCHANGED <<env, assigned, session, cmds, parked, hand, files, away>>
  BY DEF Exit
<1>2. streak # MAX_CRASH_RESTARTS /\ (child # Gone /\ waiting # "no" => streak = 0)
  BY <1>1, Typed DEF HeldRests
<1>3. CASE /\ child' = None /\ waiting' = "away" /\ UNCHANGED <<pc, owed, events, streak, history, spent>>
  <2>1. SessionTyped' /\ record' = record
    BY <1>1, <1>3, SessionLeft, Typed DEF SessionTyped
  <2>2. QueueStands
    BY <1>1, <1>3, QueueSame DEF Decides, history
  <2>3. RunnerTyped' /\ HasProgram' /\ WaitingIsStaged'
    BY <1>1, <1>3, <2>1, Typed DEF RunnerTyped, HasProgram, WaitingIsStaged, files
  <2>4. InHand' /\ HeldRests'
    BY <1>1, <1>2, <1>3, Typed DEF InHand, HeldRests
  <2> QED
    BY <1>1, <2>1, <2>2, <2>3, <2>4, Assembled
<1>4. CASE child # Gone /\ RespawnOrHold /\ (UNCHANGED spent \/ Spend("exits"))
  <2>1. /\ Failed /\ child' = None /\ pc' = AfterFailure /\ UNCHANGED waiting
        /\ Settle(owed, FALSE, events) \/ UNCHANGED <<owed, events, settled, again>>
    BY <1>4 DEF RespawnOrHold
  <2>2. /\ streak' \in 0 .. MAX_CRASH_RESTARTS /\ (Holds <=> streak' = MAX_CRASH_RESTARTS)
        /\ streak' = streak + 1
    BY <1>2, <2>1, FailedFacts
  <2>3. /\ pc' \in {"idle", "backoff"} /\ (streak' = MAX_CRASH_RESTARTS => pc' = "idle")
        /\ streak' = MAX_CRASH_RESTARTS => waiting' = "no"
    BY <1>2, <1>4, <2>1, <2>2, Constants DEF AfterFailure
  <2>4. events' \in Seq(Event) /\ (Told(events') <=> Told(events)) /\ Decides(owed)
    BY <2>1, SettleFacts, QueueFacts, Typed DEF RunnerTyped, Decides
  <2>5. QueueStands
    BY <1>1, <2>4, QueueSame
  <2>6. SessionTyped' /\ record' = record
    <3>1. spent' \in [Bounded -> Nat]
      BY <1>4, SpendFacts, Typed DEF Bounded, SessionTyped
    <3> QED
      BY <1>1, <3>1, SessionLeft
  <2>7. RunnerTyped' /\ HasProgram' /\ WaitingIsStaged'
    BY <1>1, <2>1, <2>2, <2>3, <2>4, <2>6, Typed DEF RunnerTyped, HasProgram, WaitingIsStaged, files
  <2>8. InHand' /\ HeldRests'
    BY <1>1, <2>1, <2>2, <2>3, Typed DEF InHand, HeldRests
  <2> QED
    BY <1>1, <2>5, <2>6, <2>7, <2>8, Assembled
<1>5. CASE /\ Spend("exits") /\ child' = None /\ pc' = "backoff" /\ streak' = 1
           /\ UNCHANGED <<waiting, owed, events, settled, again>>
  <2>1. spent' \in [Bounded -> Nat]
    BY <1>5, SpendFacts DEF Bounded
  <2>2. SessionTyped' /\ record' = record
    BY <1>1, <2>1, SessionLeft
  <2>3. QueueStands
    BY <1>1, <1>5, QueueSame DEF Decides
  <2>4. RunnerTyped' /\ HasProgram' /\ WaitingIsStaged'
    BY <1>1, <1>5, <2>2, Constants, Typed DEF RunnerTyped, HasProgram, WaitingIsStaged, files
  <2>5. InHand' /\ HeldRests'
    BY <1>1, <1>5, Constants, Typed DEF InHand, HeldRests
  <2> QED
    BY <1>1, <2>2, <2>3, <2>4, <2>5, Assembled
<1> QED
  BY <1>3, <1>4, <1>5 DEF Exit

LEMMA SweepKeeps ==
  ASSUME PackageInv, Sweep
  PROVE  Kept
<1>1. /\ pc = "idle" /\ backup' = None
      /\ UNCHANGED <<env, spent, assigned, session, cmds, events, pc, child, waiting, owed, parked, hand,
                     streak, live, staged, away, settled, again>>
  BY DEF Sweep, runner, history
<1>2. SessionTyped' /\ record' = record
  BY <1>1, SessionLeft, Typed DEF SessionTyped
<1>3. QueueStands
  BY <1>1, QueueSame DEF Decides
<1>4. RunnerTyped' /\ HasProgram' /\ WaitingIsStaged'
  BY <1>1, <1>2, Typed DEF RunnerTyped, HasProgram, WaitingIsStaged
<1>5. InHand' /\ HeldRests'
  BY <1>1, Typed DEF InHand, HeldRests
<1> QED
  BY <1>1, <1>2, <1>3, <1>4, <1>5, Assembled

LEMMA ServiceGoesKeeps ==
  ASSUME PackageInv, ServiceGoes
  PROVE  Kept
<1>1. /\ spent' \in [Bounded -> Nat] /\ away' = TRUE /\ child' = (IF child = None THEN None ELSE Gone)
      /\ UNCHANGED <<env, assigned, session, cmds, events, pc, waiting, owed, parked, hand, streak, files,
                     history>>
  BY SpendFacts DEF ServiceGoes, Bounded
<1>2. SessionTyped' /\ record' = record
  BY <1>1, SessionLeft
<1>3. QueueStands
  BY <1>1, QueueSame DEF Decides, history
<1>4. RunnerTyped' /\ HasProgram' /\ WaitingIsStaged'
  BY <1>1, <1>2, Typed DEF RunnerTyped, HasProgram, WaitingIsStaged, files, Child
<1>5. InHand' /\ HeldRests'
  BY <1>1, Constants, Typed DEF InHand, HeldRests, files
<1> QED
  BY <1>1, <1>2, <1>3, <1>4, <1>5, Assembled

LEMMA ServiceReturnsKeeps ==
  ASSUME PackageInv, ServiceReturns
  PROVE  Kept
<1>1. /\ away' = FALSE
      /\ UNCHANGED <<env, spent, assigned, session, cmds, events, pc, child, waiting, owed, parked, hand,
                     streak, files, settled, again>>
  BY DEF ServiceReturns, runner, history
<1>2. SessionTyped' /\ record' = record
  BY <1>1, SessionLeft, Typed DEF SessionTyped
<1>3. QueueStands
  BY <1>1, QueueSame DEF Decides
<1>4. RunnerTyped' /\ HasProgram' /\ WaitingIsStaged'
  BY <1>1, <1>2, Typed, ZenonT(60) DEF RunnerTyped, HasProgram, WaitingIsStaged, files
<1>5. InHand' /\ HeldRests'
  BY <1>1, Typed DEF InHand, HeldRests, files
<1> QED
  BY <1>1, <1>2, <1>3, <1>4, <1>5, Assembled

(* The last of finitely many places in the queue of verdicts.              *)
LEMMA GreatestOf ==
  ASSUME NEW n \in Nat, NEW T \in SUBSET (0 .. n), T # {}
  PROVE  \E x \in T : \A y \in T : y <= x
<1> DEFINE R == OpToRel(<, Nat)
           U == {n - x : x \in T}
<1>1. U \in SUBSET Nat /\ U # {}
  <2>1. ASSUME NEW x \in T PROVE n - x \in Nat
    <3>1. x \in 0 .. n
      OBVIOUS
    <3> QED
      BY <3>1
  <2> QED
    BY <2>1
<1>2. IsWellFoundedOn(R, Nat)
  BY NatLessThanWellFounded
<1>3. \A x, y \in Nat : <<y, x>> \in R <=> y < x
  BY DEF OpToRel
<1> HIDE DEF R
<1>4. PICK u \in U : \A y \in U : ~(<<y, u>> \in R)
  BY <1>1, <1>2, WFMin
<1>5. PICK x \in T : u = n - x
  BY <1>4
<1>6. ASSUME NEW y \in T PROVE y <= x
  <2>1. n - y \in U
    OBVIOUS
  <2>2. ~(n - y < u)
    BY <1>1, <1>3, <1>4, <2>1
  <2>3. x \in 0 .. n /\ y \in 0 .. n
    OBVIOUS
  <2> QED
    BY <1>5, <2>2, <2>3
<1> QED
  BY <1>6

(* A verdict absorbed while the adapter stops names a version, and was told. *)
LEMMA RecordedFacts ==
  ASSUME PackageInv, NEW n \in 0 .. Len(events)
  PROVE  /\ Recorded(n) \in Version \cup {None}
         /\ Recorded(n) # None => record # None \/ Told(events)
<1> DEFINE installed == {i \in 1 .. n : events[i].kind = "package" /\ events[i].ok}
<1>1. record \in Version \cup {None} /\ events \in Seq(Event)
  BY Typed DEF SessionTyped, RunnerTyped
<1>2. CASE installed = {}
  BY <1>1, <1>2 DEF Recorded
<1>3. CASE installed # {}
  <2> DEFINE last == CHOOSE i \in installed : \A j \in installed : j <= i
  <2>1. Len(events) \in Nat /\ n \in Nat /\ installed \in SUBSET (0 .. n)
    BY <1>1
  <2>2. \E i \in installed : \A j \in installed : j <= i
    BY <1>3, <2>1, GreatestOf
  <2>3. last \in installed
    BY <2>2
  <2> HIDE DEF last
  <2>4. last \in DOMAIN events /\ events[last].kind = "package" /\ events[last].ok
    BY <1>1, <2>3
  <2>5. events[last] \in Event
    BY <1>1, <2>4
  <2>6. events[last].what \in Version /\ Told(events)
    BY <2>4, <2>5 DEF Event, Told
  <2>7. Recorded(n) = events[last].what
    BY <1>3 DEF Recorded, last
  <2> QED
    BY <2>6, <2>7
<1> QED
  BY <1>2, <1>3

(* The queue goes with the Client: nothing is left to be decided.          *)
LEMMA StopKeeps ==
  ASSUME PackageInv, Stop
  PROVE  Kept
<1>1. /\ spent' \in [Bounded -> Nat]
      /\ pc' = "off" /\ child' = None /\ waiting' = "no" /\ owed' = None /\ parked' = None
      /\ hand' = None /\ streak' = 0 /\ staged' \in {None, staged} /\ backup' \in {None, backup}
      /\ cmds' = <<>> /\ events' = <<>> /\ agent' = NoAgent /\ download' = None
      /\ \E n \in 0 .. Len(events) : record' = Recorded(n)
      /\ UNCHANGED <<env, assigned, conf, file, live, away, settled, again>>
  BY SpendFacts DEF Stop, Bounded
<1>2. /\ SessionTyped'
      /\ record' # None => record # None \/ Told(events)
  <2>1. record' \in Version \cup {None} /\ (record' # None => record # None \/ Told(events))
    BY <1>1, RecordedFacts
  <2> QED
    BY <1>1, <2>1, Typed DEF SessionTyped, NoAgent
<1>3. cmds' \in Seq(Command) /\ Len(cmds') = 0 /\ DOMAIN cmds' = {} /\ events' \in Seq(Event)
      /\ ~Told(events')
  BY <1>1 DEF Told
<1>4. QueueStands
  BY <1>1, <1>3, QueueFacts, Constants DEF QueueStands, DecidedOnce, Undecided, SettledOnce
<1>5. RunnerTyped' /\ HasProgram' /\ WaitingIsStaged'
  BY <1>1, <1>2, <1>3, Constants, Typed DEF RunnerTyped, HasProgram, WaitingIsStaged
<1>6. InHand' /\ HeldRests'
  BY <1>1, Constants DEF InHand, HeldRests
<1> QED
  BY <1>1, <1>2, <1>4, <1>5, <1>6, Assembled

(***************************************************************************)
(* The theorems                                                            *)
(***************************************************************************)
LEMMA PackageInit == Init => PackageInv /\ SettledOnce
<1> SUFFICES ASSUME Init PROVE PackageInv /\ SettledOnce
  OBVIOUS
<1>1. PICK start \in Starts : live = start.live /\ record = start.live /\ conf = start.conf
  BY DEF Init
<1>2. start.live \in Version \cup {None} /\ start.conf \in Config \cup {None}
  BY PackageAssumption
<1>3. cmds \in Seq(Command) /\ Len(cmds) = 0 /\ DOMAIN cmds = {} /\ events \in Seq(Event) /\ DOMAIN events = {}
  BY DEF Init
<1>4. PackageTypeOK
  <2>1. fate \in Fates /\ limit \in Limits /\ spent \in [Bounded -> Nat]
    BY DEF Init
  <2>2. agent \in [installing : Version \cup {None}, offered : Version \cup {None},
                  echoed : Version \cup {None}, applying : Config \cup {None}]
    BY DEF Init, NoAgent
  <2>3. Len(cmds) <= Capacity /\ streak \in 0 .. MAX_CRASH_RESTARTS
    BY <1>3, Constants DEF Init
  <2> QED
    BY <1>1, <1>2, <1>3, <2>1, <2>2, <2>3 DEF Init, PackageTypeOK
<1>5. NeverEmptied /\ WaitingIsStaged /\ InHand /\ HeldRests
  BY <1>1, <1>3, Constants DEF Init, NeverEmptied, WaitingIsStaged, InHand, HeldRests
<1>6. DecidedOnce
  BY <1>3 DEF Init, DecidedOnce, Undecided
<1> QED
  BY <1>4, <1>5, <1>6 DEF Init, PackageInv, SettledOnce

LEMMA StutterKeeps ==
  ASSUME PackageInv, UNCHANGED vars
  PROVE  Kept
BY DEF vars, session, runner, files, history, env, Kept, PackageInv, PackageTypeOK, NeverEmptied,
       WaitingIsStaged, InHand, HeldRests, DecidedOnce, Undecided, SettledOnce

(* Every step.                                                             *)
LEMMA PackageNext ==
  ASSUME PackageInv, [Next]_vars
  PROVE  Kept
<1>1. CASE \E v \in Version : Rollout(v)
  BY <1>1, RolloutKeeps
<1>2. CASE \E c \in Config : Deliver(c)
  BY <1>2, DeliverKeeps
<1>3. CASE Offer \/ DownloadFails \/ Downloaded \/ AskRestart \/ Absorb
  BY <1>3, OfferKeeps, DownloadFailsKeeps, DownloadedKeeps, AskRestartKeeps, AbsorbKeeps
<1>4. CASE RunnerStep
  BY <1>4, TakeConfigKeeps, TakePackageKeeps, TakeRestartKeeps, PreflightKeeps, ReachKeeps, CheckKeeps,
     SwapKeeps, GatePackageKeeps, RespawnKeeps, GateConfigKeeps, BackoffKeeps, RetryKeeps, ExitKeeps
     DEF RunnerStep
<1>5. CASE Sweep \/ ServiceGoes \/ ServiceReturns \/ Stop \/ ClientStart
  BY <1>5, SweepKeeps, ServiceGoesKeeps, ServiceReturnsKeeps, StopKeeps, BackoffKeeps
<1>6. CASE UNCHANGED vars
  BY <1>6, StutterKeeps
<1> QED
  BY <1>1, <1>2, <1>3, <1>4, <1>5, <1>6 DEF Next

(* Whatever fails, stops or goes away, the files are there for what the    *)
(* Runner has to do next (stage_executable, swap_and_gate, take_back,      *)
(* conclude), a held program rests, and what is to be decided is to be     *)
(* decided once.                                                           *)
THEOREM PackageInvariant == Spec => []PackageInv
<1>1. Init => PackageInv
  BY PackageInit
<1>2. PackageInv /\ [Next]_vars => PackageInv'
  BY PackageNext DEF Kept
<1> QED
  BY <1>1, <1>2, PTL DEF Spec

(* A configuration is acknowledged once, however its apply, the start of a *)
(* package, the retry and the hold follow one another (started, settle,    *)
(* hold).                                                                  *)
THEOREM SettledOnceAlways == Spec => []SettledOnce
<1>1. Init => SettledOnce
  BY PackageInit
<1>2. PackageInv /\ SettledOnce /\ [Next]_vars => SettledOnce'
  BY PackageNext DEF Kept
<1> QED
  BY <1>1, <1>2, PackageInvariant, PTL DEF Spec
===============================================================================
