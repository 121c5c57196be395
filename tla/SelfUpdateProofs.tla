--------------------------- MODULE SelfUpdateProofs ---------------------------
(***************************************************************************)
(* Proofs about module SelfUpdate, for every set of versions and every     *)
(* fate of theirs, and for every number of attempts: whatever write a      *)
(* crash comes after, there is a Client to start and a way back.           *)
(***************************************************************************)
EXTENDS SelfUpdate, SequenceTheorems, TLAPS

(* The directories of packages and of hand installs are directories, and   *)
(* are never the same.                                                     *)
LEMMA DirFacts ==
  /\ \A v \in Version : PackageDir(v) \in Dir /\ HandDir(v) \in Dir
  /\ \A v, w \in Version : PackageDir(v) # HandDir(w)
<1>1. "package" # "hand"
  OBVIOUS
<1> QED
  BY <1>1 DEF PackageDir, HandDir, Dir

(* A marker's parts, and the marker once its attempt is counted.           *)
LEMMA MarkerFacts ==
  ASSUME NEW m \in MarkerType
  PROVE  /\ m # None /\ m.previous_dir \in Dir /\ m.new_dir \in Dir /\ m.version \in Version
         /\ m.attempts \in Nat /\ m.attempts <= MAX_ATTEMPTS
         /\ ~Exhausted(Counted(m)) => Counted(m) \in MarkerType
         /\ Counted(m).attempts = m.attempts + 1
         /\ Counted(m) = [m EXCEPT !.attempts = Counted(m).attempts]
         /\ \A failed \in BOOLEAN : Outcome(m, failed) \in OutcomeType
BY SelfUpdateAssumption DEF MarkerType, Counted, Exhausted, Outcome, OutcomeType

(* What a start reports to the Server, it reports in the shape it must.    *)
LEMMA ReportFacts ==
  /\ \A o \in OutcomeType \cup {None} : Tell(o) \in Report
  /\ \A v \in Version \cup {None} : Record(v) \in Report
BY DEF Tell, Record, Report

(* A marker write with one report after it.                                *)
LEMMA PairFacts ==
  ASSUME NEW a, NEW o \in Report
  PROVE  /\ <<a, o>> # <<>> /\ Head(<<a, o>>) = a /\ Tail(<<a, o>>) = <<o>>
         /\ <<o>> \in Seq(Report)
OBVIOUS

(* A script of four writes, and what is left of it after each.             *)
LEMMA FourLeft ==
  ASSUME NEW a, NEW b, NEW c, NEW d
  PROVE  /\ Head(<<a, b, c, d>>) = a /\ Tail(<<a, b, c, d>>) = <<b, c, d>>
         /\ Head(<<b, c, d>>) = b /\ Tail(<<b, c, d>>) = <<c, d>>
         /\ Head(<<c, d>>) = c /\ Tail(<<c, d>>) = <<d>>
         /\ Head(<<d>>) = d /\ Tail(<<d>>) = <<>>
OBVIOUS

(* Two writes and two writes are four.                                     *)
LEMMA FourWrites ==
  ASSUME NEW a, NEW b, NEW c, NEW d
  PROVE  <<a, b>> \o <<c, d>> = <<a, b, c, d>>
<1> DEFINE x == <<a, b>>
           y == <<c, d>>
           z == <<a, b, c, d>>
           S == {a, b, c, d}
<1>1. x \in Seq(S) /\ y \in Seq(S) /\ z \in Seq(S) /\ Len(x) = 2 /\ Len(y) = 2 /\ Len(z) = 4
  OBVIOUS
<1>2. /\ x[1] = a /\ x[2] = b /\ y[1] = c /\ y[2] = d
      /\ z[1] = a /\ z[2] = b /\ z[3] = c /\ z[4] = d
  OBVIOUS
<1> HIDE DEF x, y, z, S
<1>3. /\ x \o y \in Seq(S) /\ Len(x \o y) = Len(x) + Len(y)
      /\ \A i \in 1 .. Len(x) + Len(y) : (x \o y)[i] = IF i <= Len(x) THEN x[i] ELSE y[i - Len(x)]
  BY <1>1, ConcatProperties, Zenon
<1>4. \A i \in 1 .. 4 : (x \o y)[i] = z[i]
  BY <1>1, <1>2, <1>3
<1>5. x \o y = z
  BY <1>1, <1>3, <1>4, SeqEqual
<1> QED
  BY <1>5 DEF x, y, z

(* The first write of a script with more after it, and what is left then.  *)
LEMMA HeadTailConcat ==
  ASSUME NEW S, NEW x \in Seq(S), NEW y \in Seq(S), x # <<>>
  PROVE  x \o y # <<>> /\ Head(x \o y) = Head(x) /\ Tail(x \o y) = Tail(x) \o y
<1> DEFINE s == x \o y
           t == Tail(x) \o y
<1>1. /\ s \in Seq(S) /\ Len(s) = Len(x) + Len(y)
      /\ \A i \in 1 .. Len(x) + Len(y) : s[i] = IF i <= Len(x) THEN x[i] ELSE y[i - Len(x)]
  BY ConcatProperties, Zenon
<1>2. /\ Len(x) \in Nat /\ Len(x) > 0 /\ Len(y) \in Nat /\ Head(x) = x[1]
      /\ Tail(x) \in Seq(S) /\ Len(Tail(x)) = Len(x) - 1
      /\ \A i \in 1 .. Len(Tail(x)) : Tail(x)[i] = x[i + 1]
  BY HeadTailProperties, LenProperties
<1>3. /\ t \in Seq(S) /\ Len(t) = Len(Tail(x)) + Len(y)
      /\ \A i \in 1 .. Len(Tail(x)) + Len(y) :
            t[i] = IF i <= Len(Tail(x)) THEN Tail(x)[i] ELSE y[i - Len(Tail(x))]
  BY <1>2, ConcatProperties, Zenon
<1> HIDE DEF s, t
<1>4. s # <<>> /\ Head(s) = Head(x)
  BY <1>1, <1>2
<1>5. Tail(s) \in Seq(S) /\ Len(Tail(s)) = Len(t) /\ \A i \in 1 .. Len(Tail(s)) : Tail(s)[i] = s[i + 1]
  BY <1>1, <1>2, <1>3, <1>4, HeadTailProperties
<1>6. \A i \in 1 .. Len(t) : s[i + 1] = t[i]
  BY <1>1, <1>2, <1>3
<1>7. Tail(s) = t
  BY <1>3, <1>5, <1>6, SeqEqual
<1> QED
  BY <1>4, <1>7 DEF s, t

(* A file written: each write of a script changes the one file it names.   *)
LEMMA WrittenFacts ==
  /\ \A d : Written(Point(d)) = [disk EXCEPT !.current = d]
  /\ \A d, v : Written(Program(d, v)) = [disk EXCEPT !.dirs[d] = v]
  /\ \A m : Written(Mark(m)) = [disk EXCEPT !.marker = m]
<1>1. \A d : Written(Point(d)) = [disk EXCEPT !.current = d]
  BY DEF Written, Point
<1>2. \A d, v : Written(Program(d, v)) = [disk EXCEPT !.dirs[d] = v]
  BY DEF Written, Program
<1>3. \A m : Written(Mark(m)) = [disk EXCEPT !.marker = m]
  BY DEF Written, Mark
<1> QED
  BY <1>1, <1>2, <1>3

(* Which file a write names.                                               *)
LEMMA OpFacts ==
  /\ \A m : Mark(m).op = "marker"
  /\ \A d : Point(d).op # "marker"
  /\ \A d, v : Program(d, v).op # "marker"
BY DEF Mark, Point, Program

(* A report written leaves the program files and the marker as they are.   *)
LEMMA ReportWritten ==
  ASSUME disk \in DiskType, NEW w \in Report
  PROVE  /\ Written(w) \in DiskType
         /\ Written(w).current = disk.current /\ Written(w).dirs = disk.dirs
         /\ Written(w).marker = disk.marker
         /\ w.op # "marker"
<1>1. CASE w \in [op : {"outcome"}, arg : OutcomeType \cup {None}]
  <2>1. w.op = "outcome" /\ w.arg \in OutcomeType \cup {None}
    BY <1>1
  <2>2. Written(w) = [disk EXCEPT !.outcome = w.arg]
    BY <2>1 DEF Written
  <2> QED
    BY <2>1, <2>2 DEF DiskType
<1>2. CASE w \in [op : {"record"}, arg : Version \cup {None}]
  <2>1. w.op = "record" /\ w.arg \in Version \cup {None}
    BY <1>2
  <2>2. Written(w) = [disk EXCEPT !.record = w.arg]
    BY <2>1 DEF Written
  <2> QED
    BY <2>1, <2>2 DEF DiskType
<1> QED
  BY <1>1, <1>2 DEF Report

(* The state the host is installed in.                                     *)
LEMMA InitSettled == Init => UpdateInv
<1> SUFFICES ASSUME Init PROVE UpdateInv
  OBVIOUS
<1> USE SelfUpdateAssumption, DirFacts
<1>1. At = Initial /\ HandDir(Initial) \in Dir
  BY DEF Init, At
<1>2. disk \in DiskType
  BY DEF Init, DiskType
<1>3. SelfUpdateTypeOK
  BY <1>2 DEF Init, SelfUpdateTypeOK
<1>4. AttemptsBounded /\ NeverDowngraded /\ ReturnIsProven /\ RunIsCurrent /\ ScriptIsSafe
  BY DEF Init, AttemptsBounded, NeverDowngraded, ReturnIsProven, RunIsCurrent, ScriptIsSafe
<1>5. CurrentIsSettled
  <2>1. fate[Initial] = "works" /\ "works" # "broken"
    BY DEF Init
  <2> QED
    BY <1>1, <2>1 DEF Init, CurrentIsSettled, InFlight
<1>6. AlwaysBootable
  BY <1>1, <1>5 DEF CurrentIsSettled, AlwaysBootable, At, Init
<1> QED
  BY <1>3, <1>4, <1>5, <1>6 DEF UpdateInv

(* What the invariant gives of the version `current` names.                *)
LEMMA AtFacts ==
  ASSUME UpdateInv
  PROVE  /\ disk \in DiskType /\ At \in Version /\ disk.current \in Dir /\ fate[At] # "broken"
         /\ disk.marker # None =>
              /\ disk.marker \in MarkerType
              /\ disk.dirs[disk.marker.previous_dir] \in proven
<1>1. disk \in DiskType
  BY DEF UpdateInv, SelfUpdateTypeOK
<1>2. disk.current \in Dir /\ disk.marker \in MarkerType \cup {None} /\ disk.dirs \in [Dir -> Version \cup {None}]
  BY <1>1 DEF DiskType
<1>3. At \in Version /\ fate[At] # "broken"
  BY <1>2 DEF UpdateInv, AlwaysBootable, At
<1> QED
  BY <1>1, <1>2, <1>3 DEF UpdateInv, ReturnIsProven

(* A step that leaves the files and the record of what is proved alone     *)
(* leaves alone what is said of them.                                      *)
LEMMA DiskKept ==
  ASSUME UpdateInv, UNCHANGED <<fate, disk, proven, highest>>, tries' = tries
  PROVE  AlwaysBootable' /\ ReturnIsProven' /\ CurrentIsSettled' /\ AttemptsBounded'
         /\ At' = At /\ InFlight' = InFlight
BY DEF UpdateInv, AlwaysBootable, ReturnIsProven, CurrentIsSettled, At, InFlight, AttemptsBounded

(* A process that is gone owes no write.                                   *)
LEMMA GoneIsSafe ==
  ASSUME proc' = None, script' = <<>>
  PROVE  NeverDowngraded' /\ RunIsCurrent' /\ ScriptIsSafe'
BY DEF NeverDowngraded, RunIsCurrent, ScriptIsSafe

LEMMA SpendFacts ==
  ASSUME UpdateInv, NEW what \in Bounded, Spend(what)
  PROVE  spent' \in [Bounded -> Nat]
BY DEF UpdateInv, SelfUpdateTypeOK, Spend

LEMMA LeaveStep == UpdateInv /\ Leave => UpdateInv'
<1> SUFFICES ASSUME UpdateInv, Leave PROVE UpdateInv'
  OBVIOUS
<1>1. proc' = None /\ script' = <<>>
  BY DEF Leave, Idle
<1>2. SelfUpdateTypeOK'
  BY DEF UpdateInv, SelfUpdateTypeOK, Leave, history
<1> QED
  BY <1>1, <1>2, GoneIsSafe, DiskKept DEF UpdateInv, Leave, history

LEMMA CrashStep == UpdateInv /\ Crash => UpdateInv'
<1> SUFFICES ASSUME UpdateInv, Crash PROVE UpdateInv'
  OBVIOUS
<1>1. proc' = None /\ script' = <<>> /\ spent' \in [Bounded -> Nat]
  BY SpendFacts DEF Crash, Bounded
<1>2. SelfUpdateTypeOK'
  BY <1>1 DEF UpdateInv, SelfUpdateTypeOK, Crash, history
<1> QED
  BY <1>1, <1>2, GoneIsSafe, DiskKept DEF UpdateInv, Crash, history

LEMMA RolloutStep == ASSUME UpdateInv, NEW v \in Version, Rollout(v) PROVE UpdateInv'
<1>1. spent' \in [Bounded -> Nat]
  BY SpendFacts DEF Rollout, Bounded
<1>2. SelfUpdateTypeOK'
  BY <1>1 DEF UpdateInv, SelfUpdateTypeOK, Rollout
<1>3. RunIsCurrent' /\ NeverDowngraded'
  BY DEF UpdateInv, RunIsCurrent, NeverDowngraded, Rollout, At
<1>4. ScriptIsSafe'
  BY DEF UpdateInv, ScriptIsSafe, Rollout, Reporting, Clearing, Counting, Returning,
     Staging, Switching, At, InFlight, Proved
<1> QED
  BY <1>2, <1>3, <1>4, DiskKept DEF UpdateInv, Rollout

(* A person installs a version: it is settled, whatever was in flight.     *)
LEMMA ReinstallStep == ASSUME UpdateInv, NEW v \in Version, Reinstall(v) PROVE UpdateInv'
<1>1. spent' \in [Bounded -> Nat]
  BY SpendFacts DEF Reinstall, Bounded
<1>2. disk' = [disk EXCEPT !.dirs[HandDir(v)] = v, !.current = HandDir(v)] /\ HandDir(v) \in Dir
  BY DirFacts DEF Reinstall
<1>3. disk \in DiskType /\ disk.dirs \in [Dir -> Version \cup {None}]
  BY AtFacts DEF DiskType
<1>4. /\ disk'.current = HandDir(v) /\ disk'.marker = disk.marker
      /\ disk'.dirs = [disk.dirs EXCEPT ![HandDir(v)] = v]
      /\ disk' \in DiskType
  BY <1>2, <1>3 DEF DiskType
<1>5. /\ At' = v /\ fate' = fate /\ v \in proven' /\ highest' = v /\ tries' = tries /\ fate[v] = "works"
      /\ proven' = proven \cup {v}
  BY <1>3, <1>4, DirFacts DEF At, Reinstall
<1>6. SelfUpdateTypeOK'
  BY <1>1, <1>4 DEF UpdateInv, SelfUpdateTypeOK, Reinstall
<1>7. ReturnIsProven'
  BY <1>3, <1>4, <1>5, AtFacts, MarkerFacts DEF ReturnIsProven
<1>8. AlwaysBootable' /\ AttemptsBounded'
  <2>1. "works" # "broken" /\ v # None
    BY SelfUpdateAssumption
  <2> QED
    BY <1>5, <2>1 DEF AlwaysBootable, At, AttemptsBounded, UpdateInv
<1>9. ~InFlight'
  <2>1. disk.marker # None => disk.marker \in MarkerType /\ disk.marker.new_dir = PackageDir(disk.marker.version)
    BY AtFacts DEF UpdateInv, CurrentIsSettled
  <2> QED
    BY <1>4, <2>1, DirFacts, MarkerFacts DEF InFlight
<1>10. CurrentIsSettled'
  <2>1. "works" # "broken" /\ v \in Nat
    BY SelfUpdateAssumption
  <2>2. At' >= highest' /\ \A w \in proven' : fate'[w] # "broken"
    BY <1>5, <2>1 DEF UpdateInv, CurrentIsSettled
  <2> QED
    BY <1>4, <1>5, <1>9, <2>2 DEF UpdateInv, CurrentIsSettled
<1> QED
  BY <1>6, <1>7, <1>8, <1>10, GoneIsSafe DEF UpdateInv, Reinstall

(* A process with nothing left to write: what is known of its marker.      *)
LEMMA IdleFacts ==
  ASSUME UpdateInv, NEW does, Idle(does), does # "end"
  PROVE  /\ proc # None /\ proc \in ProcType /\ script = <<>> /\ proc.does = does
         /\ disk.marker = proc.probation
         /\ proc.dir = disk.current /\ proc.version = At
         /\ proc.version \in Nat /\ highest \in Nat /\ proc.version >= highest
<1>1. proc # None /\ proc \in ProcType /\ script = <<>> /\ proc.does = does
  BY DEF Idle, UpdateInv, SelfUpdateTypeOK
<1>2. Reporting
  <2>1. Reporting \/ Staging \/ Switching
    BY <1>1 DEF UpdateInv, ScriptIsSafe, Clearing, Counting, Returning
  <2>2. ~Switching
    BY <1>1 DEF Switching
  <2>3. ~Staging
    BY <1>1 DEF Staging, Stage
  <2> QED
    BY <2>1, <2>2, <2>3
<1>3. proc.version \in Nat /\ highest \in Nat
  BY <1>1, SelfUpdateAssumption DEF ProcType, UpdateInv, SelfUpdateTypeOK
<1> QED
  BY <1>1, <1>2, <1>3 DEF Reporting, UpdateInv, RunIsCurrent, NeverDowngraded

LEMMA NoReports == <<>> \in Seq(Report)
OBVIOUS

(* The run serves or comes to its end: a try of an unproved version is one *)
(* that was counted.                                                       *)
LEMMA ServeStep == UpdateInv /\ Serve => UpdateInv'
<1> SUFFICES ASSUME UpdateInv, Serve PROVE UpdateInv'
  OBVIOUS
<1>1. /\ proc # None /\ proc \in ProcType /\ script = <<>> /\ proc.does = "start"
      /\ disk.marker = proc.probation
      /\ proc.dir = disk.current /\ proc.version = At /\ proc.version >= highest
  BY IdleFacts DEF Serve
<1>2. PICK d \in {"end", "serve"} : proc' = [proc EXCEPT !.does = d]
  BY DEF Serve
<1>3. /\ proc' \in ProcType /\ proc'.does = d /\ proc'.probation = proc.probation
      /\ proc'.version = proc.version /\ proc'.dir = proc.dir /\ proc'.installing = proc.installing
  BY <1>1, <1>2 DEF ProcType
<1>4. tries \in Nat /\ tries' \in Nat
  BY DEF Serve, UpdateInv, SelfUpdateTypeOK
<1>5. SelfUpdateTypeOK'
  BY <1>3, <1>4 DEF Serve, UpdateInv, SelfUpdateTypeOK
<1>6. tries' # tries => /\ proc.probation # None /\ proc.probation \in MarkerType
                        /\ tries' = tries + 1 /\ tries < proc.probation.attempts
  BY <1>1 DEF Serve, UpdateInv, RunIsCurrent, ProcType
<1>7. tries' <= MAX_ATTEMPTS /\ (disk.marker # None => tries' <= disk.marker.attempts)
  <2>1. CASE tries' = tries
    BY <2>1 DEF UpdateInv, AttemptsBounded, CurrentIsSettled
  <2>2. CASE tries' # tries
    BY <2>2, <1>1, <1>4, <1>6, MarkerFacts, SelfUpdateAssumption
  <2> QED
    BY <2>1, <2>2
<1>8. /\ UNCHANGED <<fate, disk, proven, highest, script>> /\ At' = At /\ InFlight' = InFlight
  BY DEF Serve, At, InFlight
<1>9. AttemptsBounded' /\ AlwaysBootable' /\ ReturnIsProven' /\ CurrentIsSettled'
  BY <1>7, <1>8 DEF UpdateInv, AttemptsBounded, AlwaysBootable, ReturnIsProven, CurrentIsSettled
<1>10. NeverDowngraded' /\ RunIsCurrent'
  BY <1>1, <1>3, <1>8 DEF UpdateInv, NeverDowngraded, RunIsCurrent
<1>11. ScriptIsSafe'
  BY <1>1, <1>3, <1>8, NoReports DEF ScriptIsSafe, Reporting
<1> QED
  BY <1>5, <1>9, <1>10, <1>11 DEF UpdateInv

(* A failed download or a refusal is a verdict, and no write.              *)
LEMMA AppliedFacts ==
  ASSUME UpdateInv, Idle("serve"), proc.installing # None, NEW verdict \in {"installed", "failed"}
  PROVE  /\ Applied(verdict) \in ProcType /\ Applied(verdict).does = "serve"
         /\ Applied(verdict).version = proc.version /\ Applied(verdict).dir = proc.dir
         /\ Applied(verdict).probation = None /\ disk.marker = None
         /\ proc.installing \in Version
<1>1. proc \in ProcType /\ proc.does = "serve" /\ disk.marker = proc.probation /\ proc # None
  BY IdleFacts
<1>2. proc.probation = None
  BY <1>1 DEF UpdateInv, RunIsCurrent
<1>3. proc.installing \in Version /\ proc.offered \in Version \cup {None}
  BY <1>1 DEF ProcType
<1> QED
  BY <1>1, <1>2, <1>3, ZenonT(60) DEF Applied, ProcType

(* A run that serves and whose files stay as they are is still current.    *)
LEMMA ServesOn ==
  ASSUME UpdateInv, Idle("serve"), UNCHANGED <<fate, disk, assigned, proven, highest, tries>>,
         gaveUp' \subseteq Version, spent' \in [Bounded -> Nat],
         proc' \in ProcType, proc'.does = "serve", proc'.version = proc.version, proc'.dir = proc.dir,
         proc'.probation = None, ScriptIsSafe'
  PROVE  UpdateInv'
<1>1. /\ proc.dir = disk.current /\ proc.version = At /\ proc.version >= highest
  BY IdleFacts
<1>2. AlwaysBootable' /\ ReturnIsProven' /\ CurrentIsSettled' /\ AttemptsBounded' /\ At' = At
  BY DiskKept
<1>3. SelfUpdateTypeOK'
  BY DEF UpdateInv, SelfUpdateTypeOK
<1>4. NeverDowngraded' /\ RunIsCurrent'
  BY <1>1, <1>2 DEF NeverDowngraded, RunIsCurrent
<1> QED
  BY <1>2, <1>3, <1>4 DEF UpdateInv

LEMMA DownloadFailsStep == UpdateInv /\ DownloadFails => UpdateInv'
<1> SUFFICES ASSUME UpdateInv, DownloadFails PROVE UpdateInv'
  OBVIOUS
<1>1. Idle("serve") /\ proc.installing # None /\ proc' = Applied("failed") /\ spent' \in [Bounded -> Nat]
  BY SpendFacts DEF DownloadFails, Bounded
<1>2. /\ proc' \in ProcType /\ proc'.does = "serve" /\ proc'.version = proc.version
      /\ proc'.dir = proc.dir /\ proc'.probation = None /\ disk.marker = None
  BY <1>1, AppliedFacts
<1>3. script' = <<>> /\ UNCHANGED <<fate, disk, assigned, proven, highest, tries>> /\ gaveUp' \subseteq Version
  BY DEF DownloadFails, Idle, history, UpdateInv, SelfUpdateTypeOK
<1>4. ScriptIsSafe'
  BY <1>2, <1>3, NoReports DEF ScriptIsSafe, Reporting
<1> QED
  BY <1>1, <1>2, <1>3, <1>4, ServesOn

(* An offer changes what is offered, echoed, installing and failed.        *)
LEMMA OfferedFacts ==
  ASSUME NEW p \in ProcType, NEW v \in Version
  PROVE  /\ Offered(p, v) \in ProcType
         /\ Offered(p, v).does = p.does /\ Offered(p, v).version = p.version
         /\ Offered(p, v).dir = p.dir /\ Offered(p, v).probation = p.probation
<1> DEFINE told == [p EXCEPT !.offered = v]
<1>1. /\ told \in ProcType /\ told.does = p.does /\ told.version = p.version
      /\ told.dir = p.dir /\ told.probation = p.probation
  BY DEF ProcType
<1>2. \/ Offered(p, v) = told
      \/ Offered(p, v) = [told EXCEPT !.echoed = v]
      \/ Offered(p, v) = [told EXCEPT !.installing = v, !.failed = None]
  BY DEF Offered
<1> HIDE DEF told
<1> QED
  BY <1>1, <1>2 DEF ProcType

(* A reply commits the version on probation: it removes the marker while   *)
(* the run serves.                                                         *)
LEMMA ExchangeStep == UpdateInv /\ Exchange => UpdateInv'
<1> SUFFICES ASSUME UpdateInv, Exchange PROVE UpdateInv'
  OBVIOUS
<1>1. Idle("serve") /\ proc \in ProcType /\ proc.does = "serve" /\ disk.marker = proc.probation
  BY IdleFacts DEF Exchange
<1> DEFINE answered == [proc EXCEPT !.probation = None]
<1>2. /\ answered \in ProcType /\ answered.does = "serve" /\ answered.version = proc.version
      /\ answered.dir = proc.dir /\ answered.probation = None
  BY <1>1 DEF ProcType
<1>3. \A v \in Version : /\ Offered(answered, v) \in ProcType /\ Offered(answered, v).does = "serve"
                          /\ Offered(answered, v).version = proc.version
                          /\ Offered(answered, v).dir = proc.dir /\ Offered(answered, v).probation = None
  <2> HIDE DEF answered
  <2> QED BY <1>2, OfferedFacts
<1>4. proc' = answered \/ \E v \in Version : proc' = Offered(answered, v)
  BY DEF Exchange, UpdateInv, SelfUpdateTypeOK
<1>5. /\ proc' \in ProcType /\ proc'.does = "serve" /\ proc'.version = proc.version
      /\ proc'.dir = proc.dir /\ proc'.probation = None
  <2> HIDE DEF answered
  <2> QED BY <1>2, <1>3, <1>4
<1>6. gaveUp' \subseteq Version
  BY <1>1 DEF Exchange, UpdateInv, SelfUpdateTypeOK, ProcType
<1>7. ScriptIsSafe'
  <2>1. CASE proc.probation = None
    <3>1. script' = <<>> /\ disk'.marker = None
      BY <2>1, <1>1 DEF Exchange, Committed
    <3> QED
      BY <3>1, <1>5, NoReports DEF ScriptIsSafe, Reporting
  <2>2. CASE proc.probation # None
    <3>1. proc.probation \in MarkerType
      BY <1>1, <2>2 DEF ProcType
    <3>2. script' = <<Mark(None), Tell(Outcome(proc.probation, FALSE))>>
      BY <2>2 DEF Exchange, Committed, Finish
    <3>3. Tell(Outcome(proc.probation, FALSE)) \in Report
      BY <3>1, MarkerFacts, ReportFacts
    <3>4. script' # <<>> /\ Head(script') = Mark(None) /\ Tail(script') \in Seq(Report)
      BY <3>2, <3>3, PairFacts
    <3> QED
      BY <3>4, <1>5, SelfUpdateAssumption DEF ScriptIsSafe, Clearing
  <2> QED
    BY <2>1, <2>2
<1> QED
  BY <1>1, <1>5, <1>6, <1>7, ServesOn DEF Exchange, UpdateInv, SelfUpdateTypeOK

(* The install: a refusal, a version already in place, a program staged    *)
(* beside the one that runs, or the switch to it.                          *)
LEMMA InstallStep == UpdateInv /\ Install => UpdateInv'
<1> SUFFICES ASSUME UpdateInv, Install PROVE UpdateInv'
  OBVIOUS
<1> DEFINE v == proc.installing
           new == PackageDir(v)
           m == [previous_dir |-> proc.dir, new_dir |-> new, version |-> v, attempts |-> 0]
<1>1. Idle("serve") /\ proc.installing # None
  BY DEF Install
<1>2. /\ proc # None /\ proc \in ProcType /\ script = <<>> /\ proc.does = "serve"
      /\ disk.marker = proc.probation /\ proc.dir = disk.current /\ proc.version = At
      /\ proc.version \in Nat /\ highest \in Nat /\ proc.version >= highest
  BY <1>1, IdleFacts
<1>3. v \in Version /\ disk.marker = None /\ proc.probation = None
  BY <1>1, <1>2, AppliedFacts
<1>4. /\ UNCHANGED <<fate, disk, assigned, gaveUp, proven, highest, spent>>
      /\ gaveUp' \subseteq Version /\ spent' \in [Bounded -> Nat] /\ At' = At
  BY DEF Install, UpdateInv, SelfUpdateTypeOK, At
<1>5. \A verdict \in {"installed", "failed"} :
         proc' = Applied(verdict) =>
           /\ proc' \in ProcType /\ proc'.does = "serve" /\ proc'.version = proc.version
           /\ proc'.dir = proc.dir /\ proc'.probation = None /\ proc' # None
  BY <1>1, AppliedFacts, SelfUpdateAssumption
<1>6. CASE proc' = Applied("failed") /\ UNCHANGED <<script, tries>>
  <2>1. ScriptIsSafe'
    BY <1>2, <1>3, <1>4, <1>5, <1>6, NoReports DEF ScriptIsSafe, Reporting
  <2> QED
    BY <1>1, <1>4, <1>5, <1>6, <2>1, ServesOn
<1>7. CASE proc' = Applied("installed") /\ script' = <<Record(v)>> /\ UNCHANGED tries
  <2>1. script' \in Seq(Report)
    BY <1>3, <1>7, ReportFacts
  <2>2. ScriptIsSafe'
    BY <1>3, <1>4, <1>5, <1>7, <2>1 DEF ScriptIsSafe, Reporting
  <2> QED
    BY <1>1, <1>4, <1>5, <1>7, <2>2, ServesOn
<1>8. CASE /\ new # proc.dir
           /\ proc' = Applied("failed") /\ script' = Stage(v) /\ UNCHANGED tries
  <2>1. Staging'
    BY <1>2, <1>3, <1>4, <1>5, <1>8 DEF Staging, Stage
  <2>2. ScriptIsSafe'
    BY <1>5, <1>8, <2>1 DEF ScriptIsSafe
  <2> QED
    BY <1>1, <1>4, <1>5, <1>8, <2>2, ServesOn
<1>9. CASE /\ ~Refused(v) /\ new # proc.dir /\ Proved(v)
           /\ proc' = [proc EXCEPT !.does = "end"] /\ script' = Stage(v) \o Switch(v) /\ tries' = 0
  <2>1. /\ proc' \in ProcType /\ proc'.does = "end" /\ proc'.dir = proc.dir /\ proc' # None
        /\ proc'.version = proc.version /\ proc'.probation = None /\ proc'.installing = proc.installing
    BY <1>2, <1>3, <1>9, SelfUpdateAssumption DEF ProcType
  <2>2. script' = <<Program(new, None), Program(new, v), Mark(m), Point(new)>>
    BY <1>9, FourWrites DEF Stage, Switch
  <2>3. v >= highest
    BY <1>2, <1>3, <1>9, SelfUpdateAssumption DEF Refused
  <2>4. Switching'
    BY <1>2, <1>3, <1>4, <1>9, <2>1, <2>2, <2>3 DEF Switching, Proved
  <2>5. ScriptIsSafe'
    BY <2>1, <2>4 DEF ScriptIsSafe
  <2>6. SelfUpdateTypeOK'
    BY <1>4, <1>9, <2>1 DEF UpdateInv, SelfUpdateTypeOK
  <2>7. AlwaysBootable' /\ ReturnIsProven' /\ AttemptsBounded' /\ CurrentIsSettled'
    BY <1>3, <1>4, <1>9, SelfUpdateAssumption
       DEF UpdateInv, AlwaysBootable, ReturnIsProven, AttemptsBounded, CurrentIsSettled, InFlight
  <2>8. NeverDowngraded' /\ RunIsCurrent'
    BY <1>2, <1>3, <1>4, <2>1 DEF NeverDowngraded, RunIsCurrent
  <2> QED
    BY <2>5, <2>6, <2>7, <2>8 DEF UpdateInv
<1> QED
  BY <1>6, <1>7, <1>8, <1>9 DEF Install

(* What a start reports: only reports, whatever is owed.                   *)
LEMMA EngineReports ==
  ASSUME NEW v \in Version, NEW owed \in OutcomeType \cup {None}
  PROVE  EngineWrites(v, owed) \in Seq(Report)
<1> DEFINE a == IF disk.record \in {v, None} THEN <<>> ELSE <<Record(None)>>
           b == IF Installed(owed) THEN <<Record(owed.version)>> ELSE <<>>
           c == IF owed # None THEN <<Tell(None)>> ELSE <<>>
<1>1. Record(None) \in Report /\ Tell(None) \in Report
  BY ReportFacts
<1>2. Installed(owed) => Record(owed.version) \in Report
  BY ReportFacts DEF Installed, OutcomeType
<1>3. a \in Seq(Report) /\ b \in Seq(Report) /\ c \in Seq(Report)
  BY <1>1, <1>2
<1>4. EngineWrites(v, owed) = a \o b \o c
  BY DEF EngineWrites
<1> HIDE DEF a, b, c
<1> QED
  BY <1>3, <1>4

(* The Client as a start leaves it.                                        *)
LEMMA EngineFacts ==
  ASSUME NEW v \in Version, NEW dir \in Dir, NEW does, NEW writes,
         NEW probation \in MarkerType \cup {None}, NEW owed \in OutcomeType \cup {None}
  PROVE  LET e == Engine(v, dir, Startup(does, writes, probation, owed))
         IN  /\ e \in ProcType /\ e.version = v /\ e.dir = dir /\ e.does = "start"
             /\ e.probation = probation /\ e.installing = None
<1> DEFINE e == Engine(v, dir, Startup(does, writes, probation, owed))
<1>1. Installed(owed) => owed.version \in Version
  BY DEF Installed, OutcomeType
<1>2. owed # None /\ owed.failed => owed.version \in Version
  BY DEF OutcomeType
<1>3. Restored(v) \in Version \cup {None}
  BY DEF Restored
<1>4. e = [version |-> v, dir |-> dir, does |-> "start", probation |-> probation,
           has |-> IF Installed(owed) THEN owed.version ELSE Restored(v),
           failed |-> IF owed # None /\ owed.failed THEN owed.version ELSE None,
           installing |-> None, offered |-> None, echoed |-> None]
  BY DEF Engine, Startup
<1> HIDE DEF e
<1> QED
  BY <1>1, <1>2, <1>3, <1>4 DEF ProcType, e

(* The scripts a start can have: one that finishes the update, counts the  *)
(* try, or takes the way back, and the reports after it.                   *)
LEMMA StartScripts ==
  ASSUME NEW m \in MarkerType, NEW r \in Seq(Report), NEW w
  PROVE  /\ LET s == Finish(m, TRUE) \o r
             IN  s # <<>> /\ Head(s) = Mark(None) /\ Tail(s) \in Seq(Report)
         /\ LET s == <<w>> \o r
             IN  s # <<>> /\ Head(s) = w /\ Tail(s) \in Seq(Report)
         /\ LET s == (<<w>> \o Finish(m, TRUE)) \o <<>>
             IN  /\ s # <<>> /\ Head(s) = w /\ Tail(s) # <<>>
                 /\ Head(Tail(s)) = Mark(None) /\ Tail(Tail(s)) \in Seq(Report)
<1> DEFINE o == Tell(Outcome(m, TRUE))
           f == <<Mark(None), o>>
           T == Report \cup {w, Mark(None)}
<1>1. Finish(m, TRUE) = f /\ o \in Report
  BY MarkerFacts, ReportFacts DEF Finish
<1>2. <<w>> \in Seq(T) /\ r \in Seq(T) /\ f \in Seq(T) /\ <<>> \in Seq(T) /\ <<o>> \in Seq(Report)
  <2>1. Report \subseteq T /\ w \in T /\ Mark(None) \in T /\ o \in T
    BY <1>1
  <2> HIDE DEF T, o
  <2>2. r \in Seq(T) /\ <<>> \in Seq(T) /\ <<o>> \in Seq(Report)
    BY <1>1, <2>1, SeqMonotonic
  <2> QED
    BY <2>1, <2>2
<1>3. /\ Head(f) = Mark(None) /\ Tail(f) = <<o>> /\ f # <<>>
      /\ Head(<<w>>) = w /\ Tail(<<w>>) = <<>> /\ <<w>> # <<>>
  <2> HIDE DEF o, T
  <2>1. Head(f) = Mark(None) /\ Tail(f) = <<o>> /\ f # <<>>
    BY <1>1, PairFacts
  <2>2. Head(<<w>>) = w /\ Tail(<<w>>) = <<>> /\ <<w>> # <<>>
    OBVIOUS
  <2> HIDE DEF f
  <2> QED
    BY <2>1, <2>2
<1> HIDE DEF f, o, T
<1>4. f \o r # <<>> /\ Head(f \o r) = Mark(None) /\ Tail(f \o r) \in Seq(Report)
  <2>1. f \o r # <<>> /\ Head(f \o r) = Head(f) /\ Tail(f \o r) = Tail(f) \o r
    BY <1>2, <1>3, HeadTailConcat
  <2> QED
    BY <1>2, <1>3, <2>1, ConcatProperties
<1>5. \A q \in Seq(T) : <<w>> \o q # <<>> /\ Head(<<w>> \o q) = w /\ Tail(<<w>> \o q) = q
  <2> SUFFICES ASSUME NEW q \in Seq(T)
               PROVE  <<w>> \o q # <<>> /\ Head(<<w>> \o q) = w /\ Tail(<<w>> \o q) = q
    OBVIOUS
  <2>1. <<w>> \o q # <<>> /\ Head(<<w>> \o q) = Head(<<w>>) /\ Tail(<<w>> \o q) = Tail(<<w>>) \o q
    BY <1>2, <1>3, HeadTailConcat
  <2>2. <<>> \o q = q
    BY ConcatEmptySeq
  <2> QED
    BY <1>3, <2>1, <2>2
<1>6. (<<w>> \o f) \o <<>> = <<w>> \o f
  <2>1. <<w>> \o f \in Seq(T)
    BY <1>2, ConcatProperties
  <2> QED
    BY <2>1, ConcatEmptySeq
<1> QED
  BY <1>1, <1>2, <1>3, <1>4, <1>5, <1>6

(* A start: with no marker the version has proved itself; with one it is   *)
(* the version on trial, or an update that is over is finished.            *)
LEMMA StartStep == UpdateInv /\ Start => UpdateInv'
<1> SUFFICES ASSUME UpdateInv, Start PROVE UpdateInv'
  OBVIOUS
<1> DEFINE dir == disk.current
           v == disk.dirs[dir]
           m == disk.marker
           counted == Counted(m)
           startup == OnStart(v, dir)
           serves == startup.does = "run" /\ fate[v] # "unread"
           engine == Engine(v, dir, startup)
           more == IF serves THEN EngineWrites(v, startup.owed) ELSE <<>>
<1>1. /\ proc' = (IF serves THEN engine ELSE [engine EXCEPT !.does = "end"])
      /\ script' = startup.writes \o more
      /\ UNCHANGED <<fate, disk, assigned, gaveUp, proven, highest, tries, spent>>
  BY DEF Start, Resolution, history
<1>2. /\ disk \in DiskType /\ v \in Version /\ dir \in Dir /\ v = At
      /\ m # None => m \in MarkerType /\ disk.dirs[m.previous_dir] \in proven
  BY AtFacts DEF At
<1>3. disk.outcome \in OutcomeType \cup {None}
  BY <1>2 DEF DiskType
<1>4. v \in Nat /\ highest \in Nat /\ v >= highest
  BY <1>2, SelfUpdateAssumption DEF UpdateInv, SelfUpdateTypeOK, CurrentIsSettled
<1>5. AlwaysBootable' /\ ReturnIsProven' /\ CurrentIsSettled' /\ AttemptsBounded' /\ At' = At /\ InFlight' = InFlight
  BY <1>1, DiskKept
(* Whatever the marker says, what the run is and what is left to write.    *)
<1>6. ASSUME NEW does \in {"run", "end"}, NEW writes, NEW probation \in MarkerType \cup {None},
             NEW owed \in OutcomeType \cup {None}, startup = Startup(does, writes, probation, owed)
      PROVE  /\ proc' \in ProcType /\ proc' # None
             /\ proc'.version = v /\ proc'.dir = dir /\ proc'.probation = probation
             /\ proc'.installing = None /\ proc'.does \in {"start", "end"}
             /\ does = "end" => proc'.does = "end" /\ more = <<>>
             /\ script' = writes \o more /\ more \in Seq(Report)
  <2>1. /\ engine \in ProcType /\ engine.version = v /\ engine.dir = dir /\ engine.does = "start"
        /\ engine.probation = probation /\ engine.installing = None
    BY <1>2, <1>6, EngineFacts
  <2>2. startup.does = does /\ startup.writes = writes /\ startup.owed = owed
    BY <1>6 DEF Startup
  <2>3. EngineWrites(v, owed) \in Seq(Report)
    BY <1>2, EngineReports
  <2>4. more \in Seq(Report) /\ (does = "end" => more = <<>> /\ ~serves)
    BY <2>2, <2>3, NoReports
  <2> HIDE DEF engine, startup, serves, more, v, dir
  <2>5. proc' = engine \/ proc' = [engine EXCEPT !.does = "end"]
    BY <1>1
  <2>6. /\ proc' \in ProcType /\ proc'.version = v /\ proc'.dir = dir
        /\ proc'.probation = probation /\ proc'.installing = None /\ proc'.does \in {"start", "end"}
    BY <2>1, <2>5 DEF ProcType
  <2>7. does = "end" => proc'.does = "end"
    BY <1>1, <2>1, <2>4 DEF ProcType
  <2> QED
    BY <1>1, <2>2, <2>4, <2>6, <2>7, SelfUpdateAssumption
<1>7. ASSUME proc' \in ProcType, proc'.version = v, proc'.dir = dir, proc'.installing = None,
             proc'.does \in {"start", "end"}, ScriptIsSafe',
             proc'.does = "start" => IF proc'.probation = None THEN v \in proven
                                     ELSE tries < proc'.probation.attempts
      PROVE  UpdateInv'
  <2>1. SelfUpdateTypeOK'
    BY <1>1, <1>7 DEF UpdateInv, SelfUpdateTypeOK
  <2>2. NeverDowngraded' /\ RunIsCurrent'
    BY <1>1, <1>2, <1>4, <1>5, <1>7 DEF NeverDowngraded, RunIsCurrent
  <2> QED
    BY <1>5, <1>7, <2>1, <2>2 DEF UpdateInv
<1>8. CASE m = None
  <2>1. startup = Startup("run", <<>>, None, disk.outcome)
    BY <1>8 DEF OnStart
  <2> HIDE DEF startup, more, v, dir, m
  <2>2. /\ proc' \in ProcType /\ proc' # None /\ proc'.version = v /\ proc'.dir = dir /\ proc'.probation = None
        /\ proc'.installing = None /\ proc'.does \in {"start", "end"}
        /\ script' = <<>> \o more /\ more \in Seq(Report)
    BY <1>3, <1>6, <2>1
  <2>3. script' \in Seq(Report)
    BY <2>2, NoReports
  <2>4. ScriptIsSafe'
    BY <1>1, <1>8, <2>2, <2>3 DEF ScriptIsSafe, Reporting, m
  <2>5. v \in proven
    BY <1>2, <1>8 DEF UpdateInv, CurrentIsSettled, InFlight, m
  <2> QED
    BY <1>7, <2>2, <2>4, <2>5
<1>9. CASE m # None /\ ~TookOver(v, dir)
  <2>1. startup = Startup("run", Finish(m, TRUE), None, Outcome(m, TRUE))
    BY <1>9 DEF OnStart
  <2>2. v \in proven
    BY <1>2, <1>9 DEF UpdateInv, CurrentIsSettled, InFlight, TookOver
  <2> HIDE DEF startup, more, v, dir, m
  <2>3. m \in MarkerType /\ Outcome(m, TRUE) \in OutcomeType
    BY <1>2, <1>9, MarkerFacts
  <2>4. /\ proc' \in ProcType /\ proc' # None /\ proc'.version = v /\ proc'.dir = dir /\ proc'.probation = None
        /\ proc'.installing = None /\ proc'.does \in {"start", "end"}
        /\ script' = Finish(m, TRUE) \o more /\ more \in Seq(Report)
    BY <1>6, <2>1, <2>3
  <2>5. script' # <<>> /\ Head(script') = Mark(None) /\ Tail(script') \in Seq(Report)
    BY <2>3, <2>4, StartScripts
  <2>6. ScriptIsSafe'
    BY <1>1, <1>2, <1>5, <2>2, <2>4, <2>5 DEF ScriptIsSafe, Clearing
  <2> QED
    BY <1>7, <2>2, <2>4, <2>6
<1>10. CASE m # None /\ TookOver(v, dir) /\ Exhausted(counted)
  <2>1. startup = Startup("end", <<Point(m.previous_dir)>> \o Finish(m, TRUE), None, None)
    BY <1>10 DEF OnStart
  <2>2. InFlight
    BY <1>10 DEF InFlight, TookOver
  <2> HIDE DEF startup, more, v, dir, m
  <2>3. m \in MarkerType
    BY <1>2, <1>10
  <2>4. /\ proc' \in ProcType /\ proc' # None /\ proc'.version = v /\ proc'.dir = dir /\ proc'.probation = None
        /\ proc'.installing = None /\ proc'.does = "end"
        /\ script' = (<<Point(m.previous_dir)>> \o Finish(m, TRUE)) \o <<>>
    BY <1>6, <2>1
  <2>5. /\ script' # <<>> /\ Head(script') = Point(m.previous_dir) /\ Tail(script') # <<>>
        /\ Head(Tail(script')) = Mark(None) /\ Tail(Tail(script')) \in Seq(Report)
    BY <2>3, <2>4, StartScripts, NoReports
  <2>6. ScriptIsSafe'
    BY <1>1, <1>5, <2>2, <2>4, <2>5 DEF ScriptIsSafe, Returning, m
  <2> QED
    BY <1>7, <2>4, <2>6
<1>11. CASE m # None /\ TookOver(v, dir) /\ ~Exhausted(counted)
  <2>1. startup = Startup("run", <<Mark(counted)>>, counted, None)
    BY <1>11 DEF OnStart
  <2>2. tries \in Nat /\ tries <= m.attempts
    BY <1>11 DEF UpdateInv, CurrentIsSettled, SelfUpdateTypeOK
  <2> HIDE DEF startup, more, v, dir, m
  <2>3. m \in MarkerType
    BY <1>2, <1>11
  <2>4. /\ counted \in MarkerType /\ counted # None /\ counted.attempts = m.attempts + 1
        /\ counted = [m EXCEPT !.attempts = counted.attempts] /\ m.attempts \in Nat
    BY <1>11, <2>3, MarkerFacts
  <2> HIDE DEF counted
  <2>5. tries < counted.attempts /\ tries <= counted.attempts
    BY <2>2, <2>4
  <2>6. /\ proc' \in ProcType /\ proc' # None /\ proc'.version = v /\ proc'.dir = dir /\ proc'.probation = counted
        /\ proc'.installing = None /\ proc'.does \in {"start", "end"}
        /\ script' = <<Mark(counted)>> \o more /\ more \in Seq(Report)
    BY <1>6, <2>1, <2>4
  <2>7. script' # <<>> /\ Head(script') = Mark(counted) /\ Tail(script') \in Seq(Report)
    BY <2>3, <2>6, StartScripts
  <2>8. ScriptIsSafe'
    BY <1>1, <1>11, <2>4, <2>5, <2>6, <2>7 DEF ScriptIsSafe, Counting, m
  <2> QED
    BY <1>7, <2>4, <2>5, <2>6, <2>8
<1> QED
  BY <1>8, <1>9, <1>10, <1>11

(* A write of a process: nobody else moves.                                *)
LEMMA WriteFacts ==
  ASSUME UpdateInv, Write
  PROVE  /\ proc # None /\ proc \in ProcType /\ proc' = proc /\ script # <<>>
         /\ disk' = Written(Head(script)) /\ script' = Tail(script)
         /\ fate' = fate /\ tries' = tries /\ assigned' = assigned /\ gaveUp' = gaveUp /\ spent' = spent
         /\ highest \in Nat /\ At \in Nat /\ At >= highest
BY AtFacts, SelfUpdateAssumption
   DEF Write, UpdateInv, SelfUpdateTypeOK, ScriptIsSafe, CurrentIsSettled

(* A write that is no commit and leaves the program of `current` alone.    *)
LEMMA QuietWrite ==
  ASSUME UpdateInv, Write, UNCHANGED <<proven, highest>>, disk' \in DiskType,
         disk'.current = disk.current, disk'.dirs[disk.current] = At,
         AlwaysBootable' /\ ReturnIsProven' /\ CurrentIsSettled', ScriptIsSafe'
  PROVE  UpdateInv'
<1>1. At' = At
  BY DEF At
<1>2. SelfUpdateTypeOK'
  BY WriteFacts DEF UpdateInv, SelfUpdateTypeOK
<1>3. AttemptsBounded' /\ NeverDowngraded' /\ RunIsCurrent'
  BY WriteFacts, <1>1 DEF UpdateInv, AttemptsBounded, NeverDowngraded, RunIsCurrent
<1> QED
  BY <1>2, <1>3 DEF UpdateInv

LEMMA WriteReport == ASSUME UpdateInv, Write, Reporting PROVE UpdateInv'
<1>1. Head(script) \in Report /\ Tail(script) \in Seq(Report)
  BY WriteFacts DEF Reporting
<1>2. /\ disk' \in DiskType /\ disk'.current = disk.current /\ disk'.dirs = disk.dirs
      /\ disk'.marker = disk.marker /\ Head(script).op # "marker"
  BY <1>1, WriteFacts, ReportWritten, AtFacts
<1>3. UNCHANGED <<proven, highest>>
  BY <1>2 DEF Write, Commits
<1>4. AlwaysBootable' /\ ReturnIsProven' /\ CurrentIsSettled' /\ disk'.dirs[disk.current] = At
  BY <1>2, <1>3, WriteFacts
     DEF UpdateInv, AlwaysBootable, ReturnIsProven, CurrentIsSettled, At, InFlight
<1>5. ScriptIsSafe'
  BY <1>1, <1>2, WriteFacts DEF ScriptIsSafe, Reporting
<1> QED
  BY <1>2, <1>3, <1>4, <1>5, QuietWrite

(* The marker is removed: of a version that proved itself, or by the run   *)
(* that proves itself so.                                                  *)
LEMMA WriteClear == ASSUME UpdateInv, Write, Clearing PROVE UpdateInv'
<1>1. disk' = [disk EXCEPT !.marker = None] /\ Head(script).op = "marker"
  BY WriteFacts, WrittenFacts, OpFacts DEF Clearing
<1>2. /\ disk' \in DiskType /\ disk'.current = disk.current /\ disk'.dirs = disk.dirs
      /\ disk'.marker = None
  BY <1>1, AtFacts DEF DiskType
<1>3. At' = At /\ ~InFlight'
  BY <1>2 DEF At, InFlight
<1>4. CASE proc.does = "serve"
  <2>1. proc.version = At /\ proc.version \in Version /\ proc.version \in Nat
    BY <1>4, WriteFacts, AtFacts DEF UpdateInv, RunIsCurrent
  <2>2. proven' = proven \cup {proc.version} /\ highest' \in Version /\ At >= highest'
    BY <1>1, <1>4, <2>1, WriteFacts, AtFacts DEF Write, Commits, UpdateInv, SelfUpdateTypeOK
  <2>3. SelfUpdateTypeOK'
    BY <1>2, <2>1, <2>2, WriteFacts DEF UpdateInv, SelfUpdateTypeOK
  <2>4. AlwaysBootable' /\ ReturnIsProven' /\ CurrentIsSettled' /\ AttemptsBounded'
    BY <1>2, <1>3, <2>1, <2>2, WriteFacts, AtFacts
       DEF UpdateInv, AlwaysBootable, ReturnIsProven, CurrentIsSettled, At, AttemptsBounded
  <2>5. NeverDowngraded' /\ RunIsCurrent'
    BY <1>2, <1>3, <1>4, <2>1, <2>2, WriteFacts DEF UpdateInv, NeverDowngraded, RunIsCurrent
  <2>6. ScriptIsSafe'
    BY <1>2, WriteFacts DEF ScriptIsSafe, Reporting, Clearing
  <2> QED
    BY <2>3, <2>4, <2>5, <2>6 DEF UpdateInv
<1>5. CASE proc.does # "serve"
  <2>1. UNCHANGED <<proven, highest>> /\ At \in proven
    BY <1>5 DEF Write, Commits, Clearing
  <2>2. AlwaysBootable' /\ ReturnIsProven' /\ CurrentIsSettled' /\ disk'.dirs[disk.current] = At
    BY <1>2, <1>3, <2>1, WriteFacts
       DEF UpdateInv, AlwaysBootable, ReturnIsProven, CurrentIsSettled, At
  <2>3. ScriptIsSafe'
    BY <1>2, WriteFacts DEF ScriptIsSafe, Reporting, Clearing
  <2> QED
    BY <1>2, <2>1, <2>2, <2>3, QuietWrite
<1> QED
  BY <1>4, <1>5

(* The try is counted in the marker.                                       *)
LEMMA WriteCount == ASSUME UpdateInv, Write, Counting PROVE UpdateInv'
<1>1. disk' = [disk EXCEPT !.marker = proc.probation]
  BY WriteFacts, WrittenFacts DEF Counting
<1>2. proc.probation \in MarkerType /\ disk.marker \in MarkerType
  BY WriteFacts, AtFacts DEF Counting, ProcType
<1>3. /\ disk' \in DiskType /\ disk'.current = disk.current /\ disk'.dirs = disk.dirs
      /\ disk'.marker = proc.probation
  BY <1>1, <1>2, AtFacts DEF DiskType
<1>4. /\ disk'.marker # None /\ disk'.marker.new_dir = disk.marker.new_dir
      /\ disk'.marker.previous_dir = disk.marker.previous_dir
      /\ disk'.marker.version = disk.marker.version /\ tries <= disk'.marker.attempts
  BY <1>2, <1>3 DEF Counting, MarkerType
<1>5. UNCHANGED <<proven, highest>> /\ disk.marker # None
  BY DEF Write, Commits, Counting
<1>6. At' = At /\ InFlight' = InFlight /\ disk'.dirs[disk.current] = At
  BY <1>3, <1>4, <1>5 DEF At, InFlight
<1>7. AlwaysBootable' /\ ReturnIsProven'
  BY <1>3, <1>4, <1>5, <1>6, WriteFacts DEF UpdateInv, AlwaysBootable, ReturnIsProven, At
<1>8. CurrentIsSettled'
  BY <1>3, <1>4, <1>5, <1>6, WriteFacts DEF UpdateInv, CurrentIsSettled, InFlight
<1>9. ScriptIsSafe'
  BY <1>3, WriteFacts DEF ScriptIsSafe, Reporting, Counting
<1> QED
  BY <1>3, <1>5, <1>6, <1>7, <1>8, <1>9, QuietWrite

(* The way back: `current` names the previous version again.               *)
LEMMA WriteReturn == ASSUME UpdateInv, Write, Returning PROVE UpdateInv'
<1> DEFINE back == disk.marker.previous_dir
<1>1. disk.marker # None /\ disk.marker \in MarkerType /\ back \in Dir /\ disk.dirs[back] \in proven
  BY AtFacts, MarkerFacts DEF Returning, InFlight
<1>2. disk' = [disk EXCEPT !.current = back] /\ Head(script).op # "marker"
  BY WriteFacts, WrittenFacts, OpFacts DEF Returning
<1>3. /\ disk' \in DiskType /\ disk'.current = back /\ disk'.dirs = disk.dirs
      /\ disk'.marker = disk.marker
  BY <1>1, <1>2, AtFacts DEF DiskType
<1>4. UNCHANGED <<proven, highest>>
  BY <1>2 DEF Write, Commits
<1>5. At' = disk.dirs[back] /\ At' \in proven /\ At' \in Version /\ At' >= highest /\ At' # None
  BY <1>1, <1>3, SelfUpdateAssumption DEF At, Returning, UpdateInv, CurrentIsSettled, SelfUpdateTypeOK
<1>6. SelfUpdateTypeOK'
  BY <1>3, <1>4, WriteFacts DEF UpdateInv, SelfUpdateTypeOK
<1>7. AlwaysBootable' /\ ReturnIsProven' /\ AttemptsBounded'
  <2>1. fate[At'] # "broken"
    BY <1>5 DEF UpdateInv, CurrentIsSettled
  <2> QED
    BY <1>3, <1>4, <1>5, <2>1, WriteFacts
       DEF UpdateInv, AlwaysBootable, ReturnIsProven, AttemptsBounded, At
<1>8. CurrentIsSettled'
  <2>1. InFlight' => disk'.dirs[disk'.marker.previous_dir] >= highest'
    BY <1>3, <1>4, <1>5
  <2> QED
    BY <1>3, <1>4, <1>5, <2>1, WriteFacts DEF UpdateInv, CurrentIsSettled
<1>9. NeverDowngraded' /\ RunIsCurrent'
  BY <1>4, WriteFacts DEF UpdateInv, NeverDowngraded, RunIsCurrent, Returning
<1>10. ScriptIsSafe'
  BY <1>3, <1>4, <1>5, WriteFacts DEF ScriptIsSafe, Clearing, Returning
<1> QED
  BY <1>6, <1>7, <1>8, <1>9, <1>10 DEF UpdateInv

(* A program is written beside the one `current` names, with nothing in    *)
(* flight: what is said of the files stands.                               *)
LEMMA ProgramWritten ==
  ASSUME UpdateInv, Write, NEW v \in Version, NEW what \in Version \cup {None},
         disk.marker = None, PackageDir(v) # disk.current, Head(script) = Program(PackageDir(v), what)
  PROVE  /\ disk' \in DiskType /\ disk'.current = disk.current /\ disk'.marker = None
         /\ disk'.dirs[disk.current] = At /\ disk'.dirs[PackageDir(v)] = what
         /\ UNCHANGED <<proven, highest>>
         /\ AlwaysBootable' /\ ReturnIsProven' /\ CurrentIsSettled'
<1> DEFINE d == PackageDir(v)
<1>1. disk' = [disk EXCEPT !.dirs[d] = what] /\ d \in Dir
  BY WriteFacts, WrittenFacts, DirFacts
<1>2. disk \in DiskType /\ disk.dirs \in [Dir -> Version \cup {None}] /\ disk.current \in Dir
  BY AtFacts DEF DiskType
<1> HIDE DEF d
<1>3. /\ disk' \in DiskType /\ disk'.current = disk.current /\ disk'.marker = disk.marker
      /\ disk'.dirs = [disk.dirs EXCEPT ![d] = what]
  BY <1>1, <1>2 DEF DiskType
<1>4. disk'.dirs[disk.current] = At /\ disk'.dirs[d] = what
  BY <1>1, <1>2, <1>3 DEF At, d
<1>5. UNCHANGED <<proven, highest>>
  BY OpFacts DEF Write, Commits
<1>6. AlwaysBootable' /\ ReturnIsProven' /\ CurrentIsSettled'
  BY <1>3, <1>4, <1>5, WriteFacts DEF UpdateInv, AlwaysBootable, ReturnIsProven, CurrentIsSettled, At, InFlight
<1> QED
  BY <1>3, <1>4, <1>5, <1>6 DEF d

LEMMA WriteStage == ASSUME UpdateInv, Write, Staging PROVE UpdateInv'
<1>1. PICK v \in Version : /\ PackageDir(v) # disk.current
                           /\ script \in {Stage(v), <<Program(PackageDir(v), v)>>}
  BY DEF Staging
<1> DEFINE new == PackageDir(v)
<1>2. disk.marker = None /\ proc.does = "serve" /\ proc.probation = None
  BY DEF Staging
<1>3. CASE script = Stage(v)
  <2>1. Head(script) = Program(new, None) /\ Tail(script) = <<Program(new, v)>>
    BY <1>3, FourLeft DEF Stage
  <2>2. /\ disk' \in DiskType /\ disk'.current = disk.current /\ disk'.marker = None
        /\ disk'.dirs[disk.current] = At /\ UNCHANGED <<proven, highest>>
        /\ AlwaysBootable' /\ ReturnIsProven' /\ CurrentIsSettled'
    BY <1>1, <1>2, <2>1, ProgramWritten
  <2>3. ScriptIsSafe'
    BY <1>1, <1>2, <2>1, <2>2, WriteFacts DEF ScriptIsSafe, Staging
  <2> QED
    BY <2>2, <2>3, QuietWrite
<1>4. CASE script = <<Program(new, v)>>
  <2>1. Head(script) = Program(new, v) /\ Tail(script) = <<>>
    BY <1>4, FourLeft
  <2>2. /\ disk' \in DiskType /\ disk'.current = disk.current /\ disk'.marker = None
        /\ disk'.dirs[disk.current] = At /\ UNCHANGED <<proven, highest>>
        /\ AlwaysBootable' /\ ReturnIsProven' /\ CurrentIsSettled'
    BY <1>1, <1>2, <2>1, ProgramWritten
  <2>3. ScriptIsSafe'
    BY <1>2, <2>1, <2>2, WriteFacts, NoReports DEF ScriptIsSafe, Reporting
  <2> QED
    BY <2>2, <2>3, QuietWrite
<1> QED
  BY <1>1, <1>3, <1>4

(* The marker is written before the switch, and the switch is to a whole   *)
(* program that passed its self-check.                                     *)
LEMMA WriteSwitch == ASSUME UpdateInv, Write, Switching PROVE UpdateInv'
<1>1. proc.does = "end" /\ proc.dir = disk.current /\ tries = 0
  BY DEF Switching
<1>2. PICK v \in Version :
        LET new == PackageDir(v)
            m == [previous_dir |-> proc.dir, new_dir |-> new, version |-> v, attempts |-> 0]
        IN  /\ new # disk.current /\ v >= highest /\ Proved(v)
            /\ \/ /\ disk.marker = None
                  /\ \/ script = <<Program(new, None), Program(new, v), Mark(m), Point(new)>>
                     \/ script = <<Program(new, v), Mark(m), Point(new)>>
                     \/ script = <<Mark(m), Point(new)>> /\ disk.dirs[new] = v
               \/ /\ disk.marker = m /\ disk.dirs[new] = v
                  /\ script = <<Point(new)>>
  BY DEF Switching
<1> DEFINE new == PackageDir(v)
           m == [previous_dir |-> proc.dir, new_dir |-> new, version |-> v, attempts |-> 0]
<1>3. new # disk.current /\ v >= highest /\ Proved(v) /\ new \in Dir /\ proc.dir \in Dir
  BY <1>2, WriteFacts, DirFacts DEF ProcType
<1>4. /\ m \in MarkerType /\ m # None /\ m.previous_dir = proc.dir /\ m.new_dir = new
      /\ m.version = v /\ m.attempts = 0
  BY <1>3, SelfUpdateAssumption DEF MarkerType
<1>5. ASSUME disk.marker = None, NEW what \in Version \cup {None}, Head(script) = Program(new, what),
             \/ what = None /\ Tail(script) = <<Program(new, v), Mark(m), Point(new)>>
             \/ what = v /\ Tail(script) = <<Mark(m), Point(new)>>
      PROVE  UpdateInv'
  <2>1. /\ disk' \in DiskType /\ disk'.current = disk.current /\ disk'.marker = None
        /\ disk'.dirs[disk.current] = At /\ disk'.dirs[new] = what /\ UNCHANGED <<proven, highest>>
        /\ AlwaysBootable' /\ ReturnIsProven' /\ CurrentIsSettled'
    BY <1>3, <1>5, ProgramWritten
  <2>2. Switching'
    BY <1>1, <1>3, <1>5, <2>1, WriteFacts DEF Switching, Proved
  <2>3. ScriptIsSafe'
    BY <2>2, WriteFacts DEF ScriptIsSafe
  <2> QED
    BY <2>1, <2>3, QuietWrite
<1>8. CASE disk.marker = None /\ script = <<Program(new, None), Program(new, v), Mark(m), Point(new)>>
  <2> HIDE DEF m, new
  <2>1. Head(script) = Program(new, None) /\ Tail(script) = <<Program(new, v), Mark(m), Point(new)>>
    BY <1>8, FourLeft
  <2> QED
    BY <1>5, <1>8, <2>1
<1>9. CASE disk.marker = None /\ script = <<Program(new, v), Mark(m), Point(new)>>
  <2> HIDE DEF m, new
  <2>1. Head(script) = Program(new, v) /\ Tail(script) = <<Mark(m), Point(new)>>
    BY <1>9, FourLeft
  <2> QED
    BY <1>5, <1>9, <2>1
<1>6. CASE disk.marker = None /\ script = <<Mark(m), Point(new)>> /\ disk.dirs[new] = v
  <2> HIDE DEF m
  <2>1. Head(script) = Mark(m) /\ Tail(script) = <<Point(new)>>
    BY <1>6, FourLeft
  <2>2. disk' = [disk EXCEPT !.marker = m]
    BY <2>1, WriteFacts, WrittenFacts
  <2>3. /\ disk' \in DiskType /\ disk'.current = disk.current /\ disk'.dirs = disk.dirs /\ disk'.marker = m
    BY <1>4, <2>2, AtFacts DEF DiskType
  <2>4. UNCHANGED <<proven, highest>> /\ At' = At /\ disk'.dirs[disk.current] = At /\ At \in proven
    BY <1>1, <1>6, <2>3 DEF Write, Commits, At, UpdateInv, CurrentIsSettled, InFlight
  <2>5. AlwaysBootable' /\ ReturnIsProven'
    BY <1>1, <1>4, <2>3, <2>4, WriteFacts DEF UpdateInv, AlwaysBootable, ReturnIsProven, At
  <2>6. CurrentIsSettled'
    <3>1. ~InFlight'
      BY <1>3, <1>4, <2>3 DEF InFlight
    <3> QED
      BY <1>1, <1>4, <2>3, <2>4, <3>1, WriteFacts DEF UpdateInv, CurrentIsSettled
  <2>7. Switching'
    BY <1>1, <1>3, <1>6, <2>1, <2>3, <2>4, WriteFacts DEF Switching, Proved, m
  <2>8. ScriptIsSafe'
    BY <2>7, WriteFacts DEF ScriptIsSafe
  <2> QED
    BY <2>3, <2>4, <2>5, <2>6, <2>8, QuietWrite
<1>7. CASE disk.marker = m /\ disk.dirs[new] = v /\ script = <<Point(new)>>
  <2> HIDE DEF m, new
  <2>1. Head(script) = Point(new) /\ Tail(script) = <<>>
    BY <1>7, FourLeft
  <2>2. disk' = [disk EXCEPT !.current = new]
    BY <2>1, WriteFacts, WrittenFacts
  <2>3. /\ disk' \in DiskType /\ disk'.current = new /\ disk'.dirs = disk.dirs /\ disk'.marker = m
    BY <1>3, <1>7, <2>2, AtFacts DEF DiskType
  <2>4. UNCHANGED <<proven, highest>> /\ At' = v /\ InFlight'
    BY <1>1, <1>4, <1>7, <2>3 DEF Write, Commits, At, InFlight
  <2>5. fate[v] # "broken" /\ v # None
    BY <1>3, SelfUpdateAssumption DEF Proved
  <2>6. SelfUpdateTypeOK'
    BY <2>3, <2>4, WriteFacts DEF UpdateInv, SelfUpdateTypeOK
  <2>7. AlwaysBootable' /\ ReturnIsProven' /\ AttemptsBounded'
    BY <1>4, <1>7, <2>3, <2>4, <2>5, WriteFacts, AtFacts
       DEF UpdateInv, AlwaysBootable, AttemptsBounded, ReturnIsProven, At
  <2>8. CurrentIsSettled'
    <3>1. disk.dirs[m.previous_dir] >= highest
      BY <1>1, <1>4, WriteFacts DEF At
    <3> QED
      BY <1>1, <1>3, <1>4, <2>3, <2>4, <3>1, WriteFacts DEF UpdateInv, CurrentIsSettled, new
  <2>9. NeverDowngraded' /\ RunIsCurrent'
    BY <1>1, <2>4, WriteFacts DEF UpdateInv, NeverDowngraded, RunIsCurrent
  <2>10. ScriptIsSafe'
    BY <1>1, <2>1, WriteFacts, NoReports DEF ScriptIsSafe, Reporting
  <2> QED
    BY <2>6, <2>7, <2>8, <2>9, <2>10 DEF UpdateInv
<1> QED
  BY <1>2, <1>6, <1>7, <1>8, <1>9

LEMMA WriteStep == UpdateInv /\ Write => UpdateInv'
BY WriteFacts, WriteReport, WriteClear, WriteCount, WriteReturn, WriteStage, WriteSwitch
   DEF UpdateInv, ScriptIsSafe

(* Every step keeps the invariant.                                         *)
LEMMA UpdateStep == UpdateInv /\ [Next]_vars => UpdateInv'
<1> SUFFICES ASSUME UpdateInv, [Next]_vars PROVE UpdateInv'
  OBVIOUS
<1>1. CASE UNCHANGED vars
  <2>1. SelfUpdateTypeOK' /\ NeverDowngraded' /\ RunIsCurrent'
    BY <1>1 DEF vars, UpdateInv, SelfUpdateTypeOK, NeverDowngraded, RunIsCurrent, At
  <2>2. ScriptIsSafe'
    BY <1>1 DEF vars, UpdateInv, ScriptIsSafe, Reporting, Clearing, Counting, Returning,
       Staging, Switching, At, InFlight, Proved
  <2> QED
    BY <1>1, <2>1, <2>2, DiskKept DEF vars, UpdateInv
<1>2. ASSUME NEW v \in Version, Rollout(v) \/ Reinstall(v) PROVE UpdateInv'
  BY <1>2, RolloutStep, ReinstallStep
<1> QED
  BY <1>1, <1>2, StartStep, WriteStep, ServeStep, LeaveStep, CrashStep, ExchangeStep,
     DownloadFailsStep, InstallStep DEF Next

(* Every state of the Client's update keeps the invariant: an unproved     *)
(* version is run at most MAX_ATTEMPTS times, nothing runs below a proved  *)
(* version, and each write of on_start, server_answered and install may be *)
(* the last one before a crash.                                            *)
THEOREM UpdateInvariant == Spec => []UpdateInv
<1>1. Init => UpdateInv
  BY InitSettled
<1>2. UpdateInv /\ [Next]_vars => UpdateInv'
  BY UpdateStep
<1> QED
  BY <1>1, <1>2, PTL DEF Spec

(* However an install, a commit or a rollback is cut short, `current`      *)
(* names a whole program that passed its self-check.                       *)
THEOREM UpdateBootable == Spec => []AlwaysBootable
<1>1. UpdateInv => AlwaysBootable
  BY DEF UpdateInv
<1> QED
  BY <1>1, UpdateInvariant, PTL

(* While an update is in flight, the directory a rollback points back to   *)
(* holds, whole, a version that has proved itself.                         *)
THEOREM UpdateReturns == Spec => []ReturnIsProven
<1>1. UpdateInv => ReturnIsProven
  BY DEF UpdateInv
<1> QED
  BY <1>1, UpdateInvariant, PTL

===============================================================================
