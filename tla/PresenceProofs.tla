---------------------------- MODULE PresenceProofs ----------------------------
(***************************************************************************)
(* Proofs about module Presence, for every finite set of instances and     *)
(* every bound on sockets, changes, stops, crashes, leases, aborts and     *)
(* calls that fail or land late: the instance that carries an Agent is the *)
(* one its row names, and its row holds what the Agent last reported.      *)
(***************************************************************************)
EXTENDS Presence, FiniteSetTheorems, FunctionTheorems, TLAPS

(* The shapes of the variables.                                            *)
ConnType == [at : Instance, open : BOOLEAN, seen : BOOLEAN, mail : Nat \cup {Absent},
             read : Nat \cup {Absent, Unread}]
RecType == [known : BOOLEAN, connected : BOOLEAN, owner : Conn \cup {NoConn}, heard : BOOLEAN,
            data : Nat \cup {Absent}, quiet : BOOLEAN]
NotedType == [holder : Lease \cup {NoLease}, known : BOOLEAN, connected : BOOLEAN,
              current : BOOLEAN, take : Nat \cup {Absent}]
BatchType == [step : {"none", "read", "written"}, holder : Lease \cup {NoLease},
              connected : BOOLEAN, quiet : BOOLEAN, current : BOOLEAN,
              take : Nat \cup {Absent}]
RowType == [stored : BOOLEAN, holder : Lease \cup {NoLease}, connected : BOOLEAN,
            takes : Nat, data : Nat \cup {Absent}, quiet : BOOLEAN]
CallType == [kind : {"create", "take", "write", "flush", "batch"},
             by : Instance \cup {Nobody}, no : Nat, holder : Lease \cup {NoLease},
             take : Nat \cup {Absent}, connected : BOOLEAN, quiet : BOOLEAN,
             data : Nat \cup {Absent}]
Stage == {"up", "waiting", "binding", "draining", "drained", "flushed", "down"}
Open == {"up", "draining"}

(* A record that has an owner is connected, and one that is connected is known. *)
RecOK(r) == (r.owner # NoConn => r.connected) /\ (r.connected => r.known)

(* What a step leads to.                                                   *)
Kept == PresenceInv' /\ CarrierIsHolder'

(* Sockets and leases are positive numbers.                                *)
LEMMA Constants ==
  /\ Conn \subseteq Nat \ {0} /\ Lease \subseteq Nat \ {0}
  /\ Cardinality(Instance) \in Nat /\ Closed.at \in Instance
  /\ 1 .. Cardinality(Instance) \subseteq Lease
<1>1. Cardinality(Instance) \in Nat
  BY InstanceAssumption, FS_CardinalityType
<1>2. \A limit \in Limits : limit["conns"] \in Nat /\ limit["leases"] \in Nat
  BY LimitsAssumption DEF Bounded, Faults
<1>3. Conn \subseteq Nat \ {0} /\ Lease \subseteq Nat \ {0}
  BY <1>1, <1>2 DEF Conn, Lease
<1>4. \A limit \in Limits : 1 .. Cardinality(Instance) \subseteq 1 .. Cardinality(Instance) + limit["leases"]
  BY <1>1, <1>2
<1>5. PICK limit \in Limits : TRUE
  BY LimitsAssumption
<1>6. 1 .. Cardinality(Instance) \subseteq Lease
  BY <1>4, <1>5 DEF Lease
<1> QED
  BY <1>1, <1>3, <1>6, InstanceAssumption DEF Closed

(* The type invariant in terms of those shapes.                            *)
LEMMA Typed ==
  PresenceTypeOK <=>
    /\ content \in Nat /\ live \in Conn \cup {NoConn} /\ parted \in BOOLEAN
    /\ conn \in [Conn -> ConnType] /\ ended \subseteq Conn
    /\ stage \in [Instance -> Stage] /\ held \in [Instance -> Lease \cup {NoLease}]
    /\ under \in [Instance -> Lease \cup {NoLease}] /\ astray \subseteq CallType
    /\ rec \in [Instance -> RecType] /\ written \in [Instance -> Nat \cup {Absent}]
    /\ noted \in [Instance -> NotedType] /\ batch \in [Instance -> BatchType]
    /\ hear \in [Instance -> SUBSET {"agent", "taken"}] /\ row \in RowType
    /\ leases \subseteq Lease /\ spent \in [Bounded -> Nat]
    /\ \A i \in Instance : RecOK(rec[i])
  BY DEF PresenceTypeOK, ConnType, RecType, NotedType, BatchType, RowType, CallType, Stage, RecOK

(* ... and of the next state.                                              *)
LEMMA TypedNext ==
  PresenceTypeOK' <=>
    /\ content' \in Nat /\ live' \in Conn \cup {NoConn} /\ parted' \in BOOLEAN
    /\ conn' \in [Conn -> ConnType] /\ ended' \subseteq Conn
    /\ stage' \in [Instance -> Stage] /\ held' \in [Instance -> Lease \cup {NoLease}]
    /\ under' \in [Instance -> Lease \cup {NoLease}] /\ astray' \subseteq CallType
    /\ rec' \in [Instance -> RecType] /\ written' \in [Instance -> Nat \cup {Absent}]
    /\ noted' \in [Instance -> NotedType] /\ batch' \in [Instance -> BatchType]
    /\ hear' \in [Instance -> SUBSET {"agent", "taken"}] /\ row' \in RowType
    /\ leases' \subseteq Lease /\ spent' \in [Bounded -> Nat]
    /\ \A i \in Instance : RecOK(rec'[i])
  BY DEF PresenceTypeOK, ConnType, RecType, NotedType, BatchType, RowType, CallType, Stage, RecOK

(* The shapes of what a variable is set to.                                *)
LEMMA Shapes ==
  /\ Closed \in ConnType /\ NoRecord \in RecType /\ NothingNoted \in NotedType
  /\ NoBatch \in BatchType /\ NoRow \in RowType /\ NewRow \in RowType /\ RecOK(NoRecord)
  /\ Closed.open = FALSE /\ Closed.seen = FALSE /\ Closed.mail = Absent /\ Closed.read = Unread
  /\ NoRecord.known = FALSE /\ NoRecord.connected = FALSE /\ NoRecord.owner = NoConn
  /\ NoBatch.step = "none" /\ NoBatch.holder = NoLease /\ NoBatch.take = Absent
  /\ NothingNoted.take = Absent
  /\ NoRow.holder = NoLease /\ NoRow.stored = FALSE /\ NoRow.takes = 0 /\ NoRow.data = Absent
  /\ NewRow.holder = NoLease /\ NewRow.stored = TRUE /\ NewRow.takes = 0
<1> USE Constants
<1>1. Closed \in ConnType /\ NoRecord \in RecType /\ NothingNoted \in NotedType
  BY DEF Closed, ConnType, NoRecord, RecType, NothingNoted, NotedType, Absent, Unread
<1>2. NoBatch \in BatchType /\ NoRow \in RowType /\ NewRow \in RowType
  BY DEF NoBatch, BatchType, NoRow, NewRow, RowType, Absent
<1>3. RecOK(NoRecord)
  BY DEF RecOK, NoRecord, NoConn
<1> QED
  BY <1>1, <1>2, <1>3 DEF Closed, NoRecord, NoBatch, NothingNoted, NoRow, NewRow

(* The leases to begin with are apart.                                     *)
LEMMA FirstLeases ==
  ASSUME Init
  PROVE  /\ held \in [Instance -> 1 .. Cardinality(Instance)]
         /\ \A i, j \in Instance : held[i] = held[j] => i = j
<1> DEFINE n == Cardinality(Instance)
<1>1. ExistsBijection(Instance, 1 .. n)
  BY InstanceAssumption, FS_CardinalityType, Fun_ExistsBijSymmetric
<1>2. PICK f \in Bijection(Instance, 1 .. n) : TRUE
  BY <1>1 DEF ExistsBijection
<1>3. f \in [Instance -> 1 .. n] /\ \A i, j \in Instance : f[i] = f[j] => i = j
  BY <1>2 DEF Bijection, Injection, IsInjective
<1> QED
  BY <1>3 DEF Init

(* Counts and contents are numbers, a missing one included.                *)
LEMMA Order ==
  /\ \A a \in Nat \cup {Absent}, b, c \in Nat : a <= b /\ b <= c => a <= c
  /\ \A a, b \in Nat \cup {Absent} : a <= b /\ b <= a => a = b
  BY DEF Absent

LEMMA Words ==
  /\ Faults \subseteq Bounded /\ {"conns", "together"} \subseteq Bounded
  /\ {"changes", "late", "fails", "landed", "landed writes", "quiets", "forgets", "losses",
      "leases", "stops", "aborts", "crashes"} \subseteq Bounded
  BY DEF Bounded, Faults

LEMMA PresenceInit == Init => PresenceInv /\ CarrierIsHolder
<1> SUFFICES ASSUME Init PROVE PresenceInv /\ CarrierIsHolder
  OBVIOUS
<1> DEFINE n == Cardinality(Instance)
<1>1. /\ held \in [Instance -> 1 .. n] /\ \A i, j \in Instance : held[i] = held[j] => i = j
      /\ n \in Nat /\ 1 .. n \subseteq Lease
  BY FirstLeases, Constants
<1>2. /\ content = 1 /\ live = NoConn /\ parted = FALSE
      /\ conn = [c \in Conn |-> Closed] /\ ended = {}
      /\ stage = [i \in Instance |-> "up"]
      /\ rec = [i \in Instance |-> NoRecord]
      /\ written = [i \in Instance |-> Absent]
      /\ noted = [i \in Instance |-> NothingNoted]
      /\ batch = [i \in Instance |-> NoBatch]
      /\ hear = [i \in Instance |-> {}]
      /\ row = NoRow /\ leases = 1 .. n /\ astray = {} /\ under = held
      /\ spent = [what \in Bounded |-> 0]
  BY DEF Init
<1>3. PresenceTypeOK
  <2>1. /\ held \in [Instance -> Lease \cup {NoLease}] /\ leases \subseteq Lease
        /\ under \in [Instance -> Lease \cup {NoLease}] /\ astray \subseteq CallType
    BY <1>1, <1>2
  <2>2. /\ content \in Nat /\ live \in Conn \cup {NoConn} /\ parted \in BOOLEAN
        /\ stage \in [Instance -> Stage] /\ written \in [Instance -> Nat \cup {Absent}]
        /\ spent \in [Bounded -> Nat] /\ ended \subseteq Conn
        /\ hear \in [Instance -> SUBSET {"agent", "taken"}]
    BY <1>2 DEF Stage
  <2>3. /\ conn \in [Conn -> ConnType] /\ rec \in [Instance -> RecType]
        /\ noted \in [Instance -> NotedType] /\ batch \in [Instance -> BatchType]
        /\ row \in RowType /\ \A i \in Instance : RecOK(rec[i])
    BY <1>2, Shapes
  <2> QED
    BY <2>1, <2>2, <2>3, Typed
<1>4. spent["leases"] = 0 /\ NextLease = n + 1
  <2>1. "leases" \in Bounded
    BY DEF Bounded, Faults
  <2>2. spent["leases"] = 0
    BY <1>2, <2>1
  <2> QED
    BY <1>1, <2>2 DEF NextLease
<1>5. LeasesApart
  <2>1. \A i \in Instance : held[i] \in 1 .. n /\ batch[i].holder = 0 /\ stage[i] = "up"
    BY <1>1, <1>2, Shapes DEF NoLease
  <2> QED
    BY <1>1, <1>2, <1>4, <2>1 DEF LeasesApart, NoLease
<1>6. SocketsServed /\ CarriedOverOpenSocket
  <2>1. "conns" \in Bounded
    BY DEF Bounded
  <2>2. spent["conns"] = 0
    BY <1>2, <2>1
  <2>3. /\ \A c \in Conn : conn[c].open = FALSE
        /\ \A i \in Instance : rec[i].owner = 0 /\ rec[i].connected = FALSE
    BY <1>2, Shapes DEF NoConn
  <2> QED
    BY <2>2, <2>3 DEF SocketsServed, CarriedOverOpenSocket
<1>7. RowSound
  BY <1>2, Shapes DEF RowSound
<1>8. NeverForgotten
  BY <1>2, Shapes DEF NeverForgotten, Absent
<1>9. DisconnectIsStale /\ CarrierIsHolder
  BY <1>2, Shapes DEF DisconnectIsStale, CarrierIsHolder, Carries
<1> QED
  BY <1>2, <1>3, <1>5, <1>6, <1>7, <1>8, <1>9 DEF PresenceInv

-------------------------------------------------------------------------------
(* What the parts of the invariant rest on                                 *)

(* What happened is counted, and never uncounted.                          *)
Counted == \A w \in Bounded : spent[w] <= spent'[w]

LEMMA SpendFacts ==
  ASSUME PresenceTypeOK, NEW what \in Faults, Spend(what)
  PROVE  /\ spent' \in [Bounded -> Nat] /\ Counted /\ Allowed(what)
         /\ spent'[what] = spent[what] + 1 /\ spent'[what] # 0
         /\ \A w \in Bounded \ {what, "together"} : spent'[w] = spent[w]
<1>1. spent \in [Bounded -> Nat]
  BY Typed
<1>2. spent' = [spent EXCEPT ![what] = @ + 1, !["together"] = @ + 1] /\ Allowed(what)
  BY DEF Spend
<1>3. what # "together" /\ what \in Bounded /\ "together" \in Bounded
  BY DEF Faults, Bounded
<1> QED
  BY <1>1, <1>2, <1>3 DEF Counted

LEMMA UnspentFacts ==
  ASSUME PresenceTypeOK, spent' = spent
  PROVE  /\ spent' \in [Bounded -> Nat] /\ Counted
         /\ \A w \in Bounded : spent'[w] = spent[w]
  BY Typed DEF Counted

(* No lease is taken.                                                      *)
LEMMA LeasesStep ==
  ASSUME PresenceTypeOK, PresenceTypeOK', LeasesApart, spent'["leases"] = spent["leases"],
         leases' \subseteq leases,
         \A i \in Instance : /\ held'[i] \in {held[i], NoLease}
                             /\ held'[i] # NoLease => held'[i] \in leases'
                             /\ stage'[i] = "down" => held'[i] = NoLease
                             /\ batch'[i].holder \in {batch[i].holder, held[i], NoLease}
                             /\ under'[i] \in {under[i], held[i]}
  PROVE  LeasesApart'
<1>1. NextLease' = NextLease /\ NextLease > 0
  <2>1. spent["leases"] \in Nat
    BY Typed, Words
  <2> QED
    BY <2>1, Constants DEF NextLease
<1>2. \A i \in Instance : held[i] < NextLease /\ held[i] \in Nat
  <2>1. \A i \in Instance : held[i] \in Lease \cup {NoLease}
    BY Typed
  <2>2. \A i \in Instance : held[i] # 0 => held[i] < NextLease /\ held[i] \in Nat
    BY <2>1, Constants DEF LeasesApart, NoLease
  <2> QED
    BY <1>1, <2>2
<1>3. \A i \in Instance : batch'[i].holder < NextLease /\ under'[i] < NextLease
  BY <1>1, <1>2 DEF LeasesApart, NoLease
<1>4. ASSUME NEW i \in Instance, NEW j \in Instance,
             held'[j] # NoLease /\ held'[j] \in {held'[i], batch'[i].holder}
      PROVE  i = j
  <2>1. held'[j] = held[j] /\ held[j] # NoLease
    BY <1>4
  <2>2. held[j] \in {held[i], batch[i].holder}
    BY <1>4, <2>1
  <2> QED
    BY <2>1, <2>2 DEF LeasesApart
<1> QED
  BY <1>1, <1>3, <1>4 DEF LeasesApart

(* No socket is opened.                                                    *)
LEMMA SocketsStep ==
  ASSUME PresenceTypeOK, PresenceTypeOK', SocketsServed, Counted,
         \A c \in Conn : conn'[c].open => /\ conn[c].open /\ conn'[c].at = conn[c].at
                                          /\ \/ stage'[conn[c].at] = stage[conn[c].at]
                                             \/ stage'[conn[c].at] \in Open,
         \A i \in Instance : \/ rec'[i].owner = rec[i].owner \/ rec'[i].owner = NoConn
                             \/ rec'[i].owner <= spent["conns"]
  PROVE  SocketsServed'
<1>1. spent["conns"] \in Nat /\ spent'["conns"] \in Nat /\ spent["conns"] <= spent'["conns"]
  BY Typed, TypedNext, Words DEF Counted
<1>2. \A c \in Conn : c \in Nat
  BY Constants
<1>3. \A i \in Instance : rec'[i].owner \in Nat /\ rec[i].owner \in Nat
  <2>1. \A i \in Instance : rec'[i].owner \in Conn \cup {NoConn} /\ rec[i].owner \in Conn \cup {NoConn}
    BY Typed, TypedNext DEF RecType
  <2> QED
    BY <1>2, <2>1 DEF NoConn
<1>4. \A c \in Conn : conn'[c].open => c <= spent'["conns"] /\ stage'[conn'[c].at] \in Open
  BY <1>1, <1>2 DEF SocketsServed, Open
<1>5. \A i \in Instance : rec'[i].owner <= spent'["conns"]
  BY <1>1, <1>3 DEF SocketsServed, NoConn
<1> QED
  BY <1>4, <1>5 DEF SocketsServed, Open

(* Nothing takes the row, no record becomes known or connected, and planes *)
(* open under a lease only where no socket is.                             *)
Fades(i) ==
  /\ spent["forgets"] = 0 =>
        \/ held'[i] = held[i] /\ under'[i] = under[i]
        \/ held'[i] = NoLease \/ held'[i] # under'[i]
        \/ ~rec'[i].connected \/ ~conn'[rec'[i].owner].open
  /\ rec'[i].known => rec[i].known
  /\ rec'[i].connected => rec[i].connected /\ rec'[i].owner = rec[i].owner
  /\ "agent" \in hear'[i] => "agent" \in hear[i]
  /\ \/ "taken" \in hear[i] => "taken" \in hear'[i]
     \/ ~rec'[i].connected \/ held'[i] = NoLease
     \/ row.stored /\ row.connected /\ row.holder = held[i]
  /\ spent["forgets"] = 0 => /\ batch'[i].take <= row.takes \/ batch'[i].take = batch[i].take
                             /\ noted'[i].take <= row.takes \/ noted'[i].take = noted[i].take
  /\ batch'[i].step = "read" /\ ~batch'[i].connected /\ rec'[i].connected
     => batch[i].step = "read" /\ ~batch[i].connected /\ batch'[i].take = batch[i].take

(* The socket of a record that stays connected was open if it is, and is   *)
(* closed only where a session is aborted.                                 *)
Carried(i) ==
  spent["forgets"] = 0 /\ rec'[i].connected =>
    /\ spent'["aborts"] = 0 => conn'[rec[i].owner].open
    /\ conn'[rec[i].owner].open => /\ conn[rec[i].owner].open
                                   /\ conn'[rec[i].owner].seen /\ conn'[rec[i].owner].at = i

(* What was zero after a step was zero before it.                          *)
LEMMA StillZero ==
  ASSUME PresenceTypeOK, PresenceTypeOK', Counted, NEW w \in Bounded, spent'[w] = 0
  PROVE  spent[w] = 0
<1>1. spent[w] \in Nat /\ spent[w] <= 0
  BY Typed DEF Counted
<1> QED
  BY <1>1

LEMMA FadingStep ==
  ASSUME PresenceTypeOK, PresenceTypeOK', NeverForgotten, CarriedOverOpenSocket,
         DisconnectIsStale, CarrierIsHolder, Counted, ended' \subseteq ended,
         \A i \in Instance : Fades(i) /\ Carried(i),
         \A c \in Conn : conn'[c].read \notin {Unread, Absent} =>
                            conn[c].read \notin {Unread, Absent} \/ row.stored,
         row'.holder = row.holder, row'.takes = row.takes, row'.stored = row.stored,
         row'.connected = row.connected
  PROVE  NeverForgotten' /\ CarriedOverOpenSocket' /\ DisconnectIsStale' /\ CarrierIsHolder'
<1>1. /\ spent'["forgets"] = 0 => spent["forgets"] = 0
      /\ spent'["fails"] = 0 => spent["fails"] = 0
  BY StillZero, Words
<1>2. NeverForgotten'
  BY <1>1 DEF NeverForgotten, Fades
<1>3. CarriedOverOpenSocket'
  BY <1>1 DEF CarriedOverOpenSocket, Fades, Carried
<1>4. ASSUME NEW i \in Instance, spent'["forgets"] = 0, Carries(i)', held'[i] # NoLease,
             under'[i] = held'[i]
      PROVE  /\ rec'[i].connected /\ Carries(i) /\ held[i] # NoLease /\ under[i] = held[i]
             /\ held'[i] = held[i]
  <2>1. /\ rec'[i].connected /\ rec[i].connected /\ rec'[i].owner = rec[i].owner
        /\ rec[i].owner # NoConn /\ conn'[rec'[i].owner].open /\ conn[rec[i].owner].open
    BY <1>1, <1>4 DEF Carries, Fades, Carried
  <2> QED
    BY <1>1, <1>4, <2>1 DEF Carries, Fades
<1>5. DisconnectIsStale'
  <2> SUFFICES ASSUME NEW i \in Instance, spent'["fails"] = 0, spent'["forgets"] = 0,
                      Carries(i)', held'[i] # NoLease, under'[i] = held'[i],
                      batch'[i].step = "read", ~batch'[i].connected
               PROVE  batch'[i].take < row'.takes
    BY DEF DisconnectIsStale
  <2> QED
    BY <1>1, <1>4 DEF DisconnectIsStale, Fades
<1>6. ASSUME NEW i \in Instance, Carries(i)', held'[i] # NoLease, under'[i] = held'[i],
             hear'[i] = {}, spent'["fails"] = 0, spent'["forgets"] = 0
      PROVE  row'.stored /\ row'.connected /\ row'.holder = held'[i]
  <2>1. hear[i] \subseteq {"agent", "taken"}
    BY Typed
  <2>2. /\ rec'[i].connected /\ Carries(i) /\ held[i] # NoLease /\ under[i] = held[i]
        /\ held'[i] = held[i]
    BY <1>4, <1>6
  <2>3. hear[i] = {} \/ (row.stored /\ row.connected /\ row.holder = held[i])
    BY <1>1, <1>6, <2>1, <2>2 DEF Fades, NeverForgotten
  <2> QED
    BY <1>1, <1>6, <2>2, <2>3 DEF CarrierIsHolder
<1>7. CarrierIsHolder'
  BY <1>6 DEF CarrierIsHolder
<1> QED
  BY <1>2, <1>3, <1>5, <1>7

(* Once something is forgotten the rest of the invariant says nothing.     *)
LEMMA Forgotten ==
  ASSUME spent'["forgets"] # 0, PresenceTypeOK', LeasesApart', SocketsServed', RowSound',
         spent'["fails"] = 0 => astray' = {}
  PROVE  Kept
  BY DEF Kept, PresenceInv, CarriedOverOpenSocket, NeverForgotten, DisconnectIsStale,
         CarrierIsHolder

LEMMA Assembled ==
  ASSUME PresenceTypeOK', LeasesApart', SocketsServed', RowSound', CarriedOverOpenSocket',
         NeverForgotten', DisconnectIsStale', CarrierIsHolder',
         spent'["fails"] = 0 => astray' = {}
  PROVE  Kept
  BY DEF Kept, PresenceInv

(* The parts of the invariant, and the row where it is not changed.        *)
LEMMA Parts ==
  ASSUME PresenceInv
  PROVE  /\ PresenceTypeOK /\ CarriedOverOpenSocket /\ LeasesApart /\ SocketsServed
         /\ RowSound /\ NeverForgotten /\ DisconnectIsStale
         /\ spent["fails"] = 0 => astray = {}
         /\ UNCHANGED row => RowSound'
         /\ \A i \in Instance : /\ held[i] # NoLease => held[i] \in leases
                                /\ stage[i] = "down" => held[i] = NoLease
  BY DEF PresenceInv, RowSound, LeasesApart

(* A call is given up on only where one fails.                             *)
LEMMA AstrayStep ==
  ASSUME PresenceInv, PresenceTypeOK', Counted,
         astray = {} /\ spent'["fails"] = 0 => astray' = {}
  PROVE  spent'["fails"] = 0 => astray' = {}
  BY Parts, StillZero, Words

(* The socket a connected record is carried over.                          *)
LEMMA OwnerFacts ==
  ASSUME PresenceInv, spent["forgets"] = 0, NEW i \in Instance, rec[i].connected
  PROVE  /\ rec[i].owner \in Conn /\ rec[i].owner <= spent["conns"] /\ rec[i].owner # NoConn
         /\ spent["aborts"] = 0 => conn[rec[i].owner].open
         /\ conn[rec[i].owner].open => /\ conn[rec[i].owner].seen /\ conn[rec[i].owner].at = i
                                       /\ stage[i] \in Open
<1>1. rec[i].owner \in Conn \cup {NoConn}
  BY Parts, Typed DEF RecType
<1>2. /\ rec[i].owner # NoConn /\ (spent["aborts"] = 0 => conn[rec[i].owner].open)
      /\ conn[rec[i].owner].open => conn[rec[i].owner].seen /\ conn[rec[i].owner].at = i
  BY Parts DEF CarriedOverOpenSocket
<1> QED
  BY <1>1, <1>2, Parts DEF SocketsServed, Open

(* A step that opens and closes no socket, takes no lease, and leaves      *)
(* whose the row is.                                                       *)
LEMMA StillStep ==
  ASSUME PresenceInv, CarrierIsHolder, PresenceTypeOK', Counted,
         leases' \subseteq leases, spent'["leases"] = spent["leases"], ended' \subseteq ended,
         \A i \in Instance : /\ Fades(i)
                             /\ held'[i] \in {held[i], NoLease}
                             /\ under'[i] \in {under[i], held[i]}
                             /\ held'[i] # NoLease => held'[i] \in leases'
                             /\ stage[i] \in Open => stage'[i] \in Open
                             /\ stage'[i] = "down" => stage[i] = "down"
                             /\ batch'[i].holder \in {batch[i].holder, held[i], NoLease},
         \A c \in Conn : /\ conn'[c].open = conn[c].open /\ conn'[c].at = conn[c].at
                         /\ conn'[c].seen = conn[c].seen
                         /\ conn'[c].read \notin {Unread, Absent} =>
                               conn[c].read \notin {Unread, Absent} \/ row.stored,
         row'.holder = row.holder, row'.takes = row.takes, row'.stored = row.stored,
         row'.connected = row.connected, ~row.stored => row'.data = row.data,
         astray = {} /\ spent'["fails"] = 0 => astray' = {}
  PROVE  Kept
<1>1. /\ PresenceTypeOK /\ CarriedOverOpenSocket /\ LeasesApart /\ SocketsServed
      /\ RowSound /\ NeverForgotten /\ DisconnectIsStale
      /\ \A i \in Instance : stage[i] = "down" => held[i] = NoLease
      /\ spent'["fails"] = 0 => astray' = {}
  BY Parts, AstrayStep
<1>2. \A i \in Instance : stage'[i] = "down" => held'[i] = NoLease
  BY <1>1
<1>3. LeasesApart'
  BY <1>1, <1>2, LeasesStep
<1>4. \A c \in Conn : conn'[c].open => /\ conn[c].open /\ conn'[c].at = conn[c].at
                                       /\ \/ stage'[conn[c].at] = stage[conn[c].at]
                                          \/ stage'[conn[c].at] \in Open
  <2>1. \A c \in Conn : conn[c].at \in Instance
    BY <1>1, Typed DEF ConnType
  <2> QED
    BY <1>1, <2>1 DEF SocketsServed, Open
<1>5. SocketsServed'
  <2>1. \A i \in Instance : rec'[i].owner = rec[i].owner \/ rec'[i].owner = NoConn
    BY TypedNext DEF Fades, RecOK
  <2> QED
    BY <1>1, <1>4, <2>1, SocketsStep
<1>6. RowSound'
  BY <1>1 DEF RowSound
<1>7. ASSUME NEW i \in Instance PROVE Carried(i)
  <2> SUFFICES ASSUME spent["forgets"] = 0, rec'[i].connected
               PROVE  /\ spent'["aborts"] = 0 => conn'[rec[i].owner].open
                      /\ conn'[rec[i].owner].open =>
                            /\ conn[rec[i].owner].open
                            /\ conn'[rec[i].owner].seen /\ conn'[rec[i].owner].at = i
    BY DEF Carried
  <2>1. rec[i].connected
    BY DEF Fades
  <2>2. /\ rec[i].owner \in Conn /\ (spent["aborts"] = 0 => conn[rec[i].owner].open)
        /\ conn[rec[i].owner].open => conn[rec[i].owner].seen /\ conn[rec[i].owner].at = i
    BY <2>1, OwnerFacts
  <2>3. spent'["aborts"] = 0 => spent["aborts"] = 0
    BY <1>1, StillZero, Words
  <2> QED
    BY <2>2, <2>3
<1>8. \A c \in Conn : conn'[c].read \notin {Unread, Absent} =>
                        conn[c].read \notin {Unread, Absent} \/ row.stored
  OBVIOUS
<1>9. NeverForgotten' /\ CarriedOverOpenSocket' /\ DisconnectIsStale' /\ CarrierIsHolder'
  BY <1>1, <1>7, <1>8, FadingStep
<1> QED
  BY <1>1, <1>3, <1>5, <1>6, <1>9, Assembled

-------------------------------------------------------------------------------
(* The Agent                                                               *)

LEMMA ReportKeeps ==
  ASSUME PresenceInv, CarrierIsHolder, Report
  PROVE  Kept
<1> USE Parts
<1>1. /\ live \in Conn /\ conn' = [conn EXCEPT ![live].mail = content]
      /\ UNCHANGED <<agent, ended, stage, held, under, memory, batch, hear, database, spent>>
  BY Typed DEF Report, serving
<1>2. /\ conn' \in [Conn -> ConnType]
      /\ \A c \in Conn : /\ conn'[c].open = conn[c].open /\ conn'[c].at = conn[c].at
                         /\ conn'[c].seen = conn[c].seen /\ conn'[c].read = conn[c].read
  BY <1>1, Typed DEF ConnType
<1>3. PresenceTypeOK'
  BY <1>1, <1>2, Typed, TypedNext DEF agent, memory, database
<1>4. \A i \in Instance : Fades(i)
  BY <1>1 DEF Fades, memory, database
<1> QED
  BY <1>1, <1>2, <1>3, <1>4, StillStep, UnspentFacts DEF database

LEMMA ChangeKeeps ==
  ASSUME PresenceInv, CarrierIsHolder, Change
  PROVE  Kept
<1> USE Parts
<1>1. /\ content' = content + 1 /\ Spend("changes")
      /\ UNCHANGED <<live, parted, sockets, stage, held, under, memory, batch, hear, database>>
  BY DEF Change, serving
<1>2. /\ spent' \in [Bounded -> Nat] /\ Counted /\ spent'["leases"] = spent["leases"]
  BY <1>1, SpendFacts, Words DEF Faults
<1>3. PresenceTypeOK'
  BY <1>1, <1>2, Typed, TypedNext DEF sockets, memory, database
<1>4. \A i \in Instance : Fades(i)
  BY <1>1 DEF Fades, memory, database
<1> QED
  BY <1>1, <1>2, <1>3, <1>4, StillStep DEF sockets, database

LEMMA FallQuietKeeps ==
  ASSUME PresenceInv, CarrierIsHolder, FallQuiet
  PROVE  Kept
<1> USE Parts
<1>1. /\ Spend("quiets")
      /\ rec' = [i \in Instance |-> [rec[i] EXCEPT !.quiet = @ \/ rec[i].known]]
      /\ row' = [row EXCEPT !.quiet = row.stored]
      /\ batch' = [i \in Instance |-> [batch[i] EXCEPT !.quiet = batch[i].step = "read"]]
      /\ astray' = {[call EXCEPT !.quiet = TRUE] : call \in astray}
      /\ UNCHANGED <<agent, sockets, stage, held, under, written, noted, hear, leases>>
  BY DEF FallQuiet, serving
<1>2. /\ spent' \in [Bounded -> Nat] /\ Counted /\ spent'["leases"] = spent["leases"]
  BY <1>1, SpendFacts, Words DEF Faults
<1>3. /\ rec' \in [Instance -> RecType]
      /\ \A i \in Instance : /\ rec'[i].known = rec[i].known /\ rec'[i].owner = rec[i].owner
                             /\ rec'[i].connected = rec[i].connected
  BY <1>1, Typed, ZenonT(60) DEF RecType
<1>4. /\ row' \in RowType /\ row'.holder = row.holder /\ row'.takes = row.takes
      /\ row'.stored = row.stored /\ row'.connected = row.connected /\ row'.data = row.data
  BY <1>1, Typed DEF RowType
<1>5. /\ batch' \in [Instance -> BatchType]
      /\ \A i \in Instance : /\ batch'[i].holder = batch[i].holder /\ batch'[i].step = batch[i].step
                             /\ batch'[i].take = batch[i].take
                             /\ batch'[i].connected = batch[i].connected
  <2>1. \A b \in BatchType : LET e == [b EXCEPT !.quiet = b.step = "read"]
                             IN  /\ e \in BatchType /\ e.holder = b.holder /\ e.step = b.step
                                 /\ e.take = b.take /\ e.connected = b.connected
    BY DEF BatchType
  <2>2. batch \in [Instance -> BatchType]
    BY Typed
  <2> QED
    BY <1>1, <2>1, <2>2, Zenon
<1>6. astray' \subseteq CallType /\ (astray = {} => astray' = {})
  <2>1. \A call \in CallType : [call EXCEPT !.quiet = TRUE] \in CallType
    BY DEF CallType
  <2> QED
    BY <1>1, <2>1, Typed
<1>7. PresenceTypeOK'
  <2>1. \A i \in Instance : RecOK(rec'[i])
    BY <1>3, Typed DEF RecOK
  <2> QED
    BY <1>1, <1>2, <1>3, <1>4, <1>5, <1>6, <2>1, Typed, TypedNext DEF sockets, agent
<1>8. \A i \in Instance : Fades(i)
  BY <1>1, <1>3, <1>5 DEF Fades
<1> QED
  BY <1>1, <1>2, <1>4, <1>5, <1>6, <1>7, <1>8, StillStep DEF sockets

(* A socket may still be opened.                                           *)
LEMMA ConnsAllowed ==
  ASSUME PresenceTypeOK, Allowed("conns")
  PROVE  spent["conns"] + 1 \in Conn
<1>1. PICK limit \in Limits : spent["conns"] < limit["conns"]
  BY DEF Allowed
<1>2. limit["conns"] \in Nat /\ spent["conns"] \in Nat
  BY Typed, Words, LimitsAssumption
<1>3. spent["conns"] + 1 \in 1 .. limit["conns"]
  BY <1>1, <1>2
<1> QED
  BY <1>3 DEF Conn

LEMMA ConnectKeeps ==
  ASSUME PresenceInv, CarrierIsHolder, NEW i \in Instance, Connect(i)
  PROVE  Kept
<1> DEFINE c == spent["conns"] + 1
           opened == [Closed EXCEPT !.at = i, !.open = TRUE, !.mail = content]
<1>1. /\ PresenceTypeOK /\ CarriedOverOpenSocket /\ LeasesApart /\ SocketsServed
      /\ RowSound /\ NeverForgotten /\ DisconnectIsStale
      /\ UNCHANGED row => RowSound'
      /\ \A j \in Instance : /\ stage[j] = "down" => held[j] = NoLease
                             /\ held[j] # NoLease => held[j] \in leases
  BY Parts
<1>2. /\ stage[i] = "up" /\ Allowed("conns") /\ live' = c
      /\ UNCHANGED <<content, parted, ended, stage, held, under, memory, batch, hear, database>>
  BY DEF Connect, serving
<1>3. c \in Conn /\ spent["conns"] \in Nat /\ c \in Nat
  <2>1. "conns" \in Bounded
    BY DEF Bounded
  <2>2. spent["conns"] \in Nat
    BY <1>1, <2>1, Typed
  <2> QED
    BY <1>1, <1>2, <2>2, ConnsAllowed
<1>4. /\ \/ spent' = [spent EXCEPT !["conns"] = c]
         \/ spent' = [spent EXCEPT !["conns"] = c, !["late"] = @ + 1, !["together"] = @ + 1]
      /\ \/ conn' = [d \in Conn |-> IF d = c THEN opened
                                    ELSE IF d = live THEN [conn[d] EXCEPT !.mail = Absent]
                                    ELSE conn[d]]
         \/ conn' = [conn EXCEPT ![c] = opened]
  BY DEF Connect
<1>5. /\ spent' \in [Bounded -> Nat] /\ Counted /\ spent'["leases"] = spent["leases"]
      /\ spent'["conns"] = c /\ spent'["aborts"] = spent["aborts"]
  <2>1. /\ spent \in [Bounded -> Nat] /\ "conns" \in Bounded /\ "late" \in Bounded
        /\ "together" \in Bounded /\ "leases" \in Bounded /\ "aborts" \in Bounded
    BY <1>1, Typed DEF Bounded, Faults
  <2> HIDE DEF opened
  <2>2. CASE spent' = [spent EXCEPT !["conns"] = c]
    BY <1>3, <2>1, <2>2 DEF Counted
  <2>3. CASE spent' = [spent EXCEPT !["conns"] = c, !["late"] = @ + 1, !["together"] = @ + 1]
    BY <1>3, <2>1, <2>3 DEF Counted
  <2> QED
    BY <1>4, <2>2, <2>3
<1>6. /\ opened \in ConnType /\ opened.at = i /\ opened.open = TRUE /\ opened.read = Unread
  BY <1>1, Shapes, Typed DEF ConnType, Closed, Unread, Absent
<1> HIDE DEF opened
<1>7. /\ conn' \in [Conn -> ConnType] /\ conn'[c] = opened
      /\ \A d \in Conn \ {c} : /\ conn'[d].open = conn[d].open /\ conn'[d].at = conn[d].at
                               /\ conn'[d].seen = conn[d].seen /\ conn'[d].read = conn[d].read
  BY <1>1, <1>3, <1>4, <1>6, Typed DEF ConnType
<1> HIDE DEF c
<1>8. PresenceTypeOK'
  BY <1>1, <1>2, <1>3, <1>5, <1>7, Typed, TypedNext DEF memory, database
<1>9. LeasesApart'
  BY <1>1, <1>2, <1>5, <1>8, LeasesStep DEF database
<1>10. SocketsServed'
  <2>1. ASSUME NEW d \in Conn, conn'[d].open
        PROVE  d <= c /\ stage[conn'[d].at] \in Open
    <3>1. CASE d = c
      BY <1>2, <1>3, <1>6, <1>7, <3>1 DEF Open
    <3>2. CASE d # c
      <4>1. d <= spent["conns"] /\ stage[conn[d].at] \in Open
        BY <1>1, <1>7, <2>1, <3>2 DEF SocketsServed, Open
      <4>2. d \in Nat
        BY Constants
      <4> QED
        BY <1>3, <1>7, <3>2, <4>1, <4>2 DEF c
    <3> QED
      BY <3>1, <3>2
  <2>2. ASSUME NEW j \in Instance PROVE rec[j].owner <= c
    <3>1. rec[j].owner <= spent["conns"] /\ rec[j].owner \in Nat
      <4>1. rec[j].owner \in Conn \cup {NoConn}
        BY <1>1, Typed DEF RecType
      <4>2. rec[j].owner \in Nat
        <5>1. Conn \cup {NoConn} \subseteq Nat
          BY Constants DEF NoConn
        <5> QED
          BY <4>1, <5>1, Zenon
      <4> QED
        BY <1>1, <4>2 DEF SocketsServed
    <3> QED
      BY <1>3, <3>1 DEF c
  <2> QED
    BY <1>2, <1>5, <2>1, <2>2 DEF SocketsServed, Open, memory
<1>11. ASSUME NEW j \in Instance PROVE Carried(j)
  <2> SUFFICES ASSUME spent["forgets"] = 0, rec[j].connected
               PROVE  /\ spent["aborts"] = 0 => conn'[rec[j].owner].open
                      /\ conn'[rec[j].owner].open =>
                            /\ conn[rec[j].owner].open
                            /\ conn'[rec[j].owner].seen /\ conn'[rec[j].owner].at = j
    BY <1>2, <1>5 DEF Carried, memory
  <2>1. /\ rec[j].owner \in Conn /\ (spent["aborts"] = 0 => conn[rec[j].owner].open)
        /\ conn[rec[j].owner].open => conn[rec[j].owner].seen /\ conn[rec[j].owner].at = j
        /\ rec[j].owner <= spent["conns"]
    BY OwnerFacts
  <2>2. rec[j].owner # c
    BY <1>3, <2>1, Constants DEF c
  <2> QED
    BY <1>7, <2>1, <2>2
<1>12. \A d \in Conn : conn'[d].read \notin {Unread, Absent} =>
                        conn[d].read \notin {Unread, Absent} \/ row.stored
  BY <1>6, <1>7
<1>13. \A j \in Instance : Fades(j)
  BY <1>2 DEF Fades, memory, database
<1>14. NeverForgotten' /\ CarriedOverOpenSocket' /\ DisconnectIsStale' /\ CarrierIsHolder'
  BY <1>1, <1>2, <1>5, <1>8, <1>11, <1>12, <1>13, FadingStep DEF database
<1>15. spent'["fails"] = 0 => astray' = {}
  BY <1>2, <1>5, <1>8, AstrayStep DEF database
<1> QED
  BY <1>1, <1>2, <1>8, <1>9, <1>10, <1>14, <1>15, Assembled DEF database

-------------------------------------------------------------------------------
(* A report is read, and the newcomer of two is assigned another identity  *)

LEMMA HoldFromStoreKeeps ==
  ASSUME PresenceInv, CarrierIsHolder, NEW c \in Conn, HoldFromStore(c)
  PROVE  Kept
<1> USE Parts
<1>1. PICK data \in {row.data, Absent} : conn' = [conn EXCEPT ![c].read = data]
  BY DEF HoldFromStore
<1>2. /\ spent' = spent \/ Spend("fails")
      /\ UNCHANGED <<agent, ended, stage, held, under, memory, batch, hear, database>>
  BY DEF HoldFromStore, serving
<1>3. Counted /\ spent' \in [Bounded -> Nat] /\ spent'["leases"] = spent["leases"]
  BY <1>2, UnspentFacts, SpendFacts, Words DEF Faults
<1>4. data \in Nat \cup {Absent}
  BY Typed DEF RowType
<1>5. /\ conn' \in [Conn -> ConnType]
      /\ \A d \in Conn : /\ conn'[d].open = conn[d].open /\ conn'[d].at = conn[d].at
                         /\ conn'[d].seen = conn[d].seen
                         /\ conn'[d].read \in {conn[d].read, row.data, Absent}
  BY <1>1, <1>4, Typed DEF ConnType
<1>6. PresenceTypeOK'
  BY <1>2, <1>3, <1>5, Typed, TypedNext DEF agent, memory, database
<1>7. \A i \in Instance : Fades(i)
  BY <1>2 DEF Fades, memory, database
<1>8. ~row.stored => row.data = Absent
  BY DEF RowSound
<1> QED
  BY <1>2, <1>3, <1>5, <1>6, <1>7, <1>8, StillStep DEF database

LEMMA RekeyKeeps ==
  ASSUME PresenceInv, CarrierIsHolder, NEW c \in Conn, Rekey(c)
  PROVE  Kept
<1> USE Parts
<1>1. /\ conn' = [conn EXCEPT ![c].mail = Absent, ![c].read = Unread]
      /\ live' = (IF c = live THEN NoConn ELSE live) /\ parted' = (parted \/ c = live)
      /\ UNCHANGED <<content, ended, stage, held, under, memory, batch, hear, database, spent>>
  BY DEF Rekey, Handled, serving
<1>2. /\ conn' \in [Conn -> ConnType]
      /\ \A d \in Conn : /\ conn'[d].open = conn[d].open /\ conn'[d].at = conn[d].at
                         /\ conn'[d].seen = conn[d].seen
                         /\ conn'[d].read \in {conn[d].read, Unread}
  BY <1>1, Typed, ZenonT(60) DEF ConnType
<1>3. PresenceTypeOK'
  BY <1>1, <1>2, Typed, TypedNext DEF memory, database
<1>4. \A i \in Instance : Fades(i)
  BY <1>1 DEF Fades, memory, database
<1> QED
  BY <1>1, <1>2, <1>3, <1>4, StillStep, UnspentFacts DEF database

(* Only an Agent that was forgotten has its session ended.                 *)
LEMMA EndSessionKeeps ==
  ASSUME PresenceInv, CarrierIsHolder, NEW c \in Conn, EndSession(c)
  PROVE  Kept
<1> USE Parts
<1>1. /\ c \in ended /\ ended' = ended \ {c} /\ conn' = [conn EXCEPT ![c].seen = FALSE]
      /\ UNCHANGED <<agent, stage, held, under, memory, batch, hear, database, spent>>
  BY DEF EndSession, serving
<1>2. /\ conn' \in [Conn -> ConnType]
      /\ \A d \in Conn : conn'[d].open = conn[d].open /\ conn'[d].at = conn[d].at
  BY <1>1, Typed DEF ConnType
<1>3. PresenceTypeOK'
  BY <1>1, <1>2, Typed, TypedNext DEF agent, memory, database
<1>4. LeasesApart' /\ SocketsServed' /\ RowSound'
  BY <1>1, <1>2, <1>3, LeasesStep, SocketsStep, UnspentFacts DEF database, memory
<1>5. spent'["forgets"] # 0
  BY <1>1 DEF NeverForgotten
<1> QED
  BY <1>1, <1>3, <1>4, <1>5, Forgotten DEF database

-------------------------------------------------------------------------------
(* A report is processed                                                   *)

(* The record a report goes on from.                                       *)
LEMMA BaseFacts ==
  ASSUME PresenceInv, NEW c \in Conn, Ready(c)
  PROVE  /\ Base(c) \in RecType /\ RecOK(Base(c)) /\ Before(c) \in Nat \cup {Absent}
         /\ conn[c].open /\ conn[c].at \in Instance /\ conn[c].mail \in Nat
         /\ ~Base(c).known => ~row.stored /\ ~rec[conn[c].at].known
         /\ Base(c).connected => Base(c) = rec[conn[c].at]
         /\ spent["forgets"] = 0 /\ Base(c).known => row.stored
<1> DEFINE i == conn[c].at
<1>1. PresenceTypeOK /\ NeverForgotten
  BY Parts
<1>2. /\ conn[c].open /\ i \in Instance /\ conn[c].mail \in Nat /\ row.data \in Nat \cup {Absent}
      /\ rec[i] \in RecType /\ written[i] \in Nat \cup {Absent} /\ RecOK(rec[i])
      /\ conn[c].read \in Nat \cup {Absent, Unread} /\ row.stored \in BOOLEAN
      /\ rec[i].known \/ conn[c].read # Unread
  BY <1>1, Typed DEF Ready, Waiting, ConnType, RowType
<1>3. \A data \in Nat \cup {Absent} : /\ FromPersisted(data) \in RecType
                                      /\ RecOK(FromPersisted(data)) /\ FromPersisted(data).known = TRUE
                                      /\ FromPersisted(data).connected = FALSE
  BY Shapes DEF FromPersisted, RecType, RecOK, NoRecord
<1>4. CASE rec[i].known
  <2>1. Base(c) = rec[i] /\ Before(c) = written[i]
    BY <1>4 DEF Base, Before
  <2> QED
    BY <1>1, <1>2, <1>4, <2>1 DEF NeverForgotten
<1>5. CASE ~rec[i].known /\ conn[c].read # Absent
  <2>1. Base(c) = FromPersisted(conn[c].read) /\ conn[c].read \in Nat
    BY <1>2, <1>5 DEF Base
  <2>2. Base(c) \in RecType /\ RecOK(Base(c)) /\ Base(c).known = TRUE /\ Base(c).connected = FALSE
    BY <1>3, <2>1
  <2>3. Before(c) = Base(c).data /\ Base(c).data \in Nat \cup {Absent}
    BY <1>5, <2>2 DEF Before, RecType
  <2> QED
    BY <1>1, <1>2, <1>5, <2>2, <2>3 DEF NeverForgotten
<1>6. CASE ~rec[i].known /\ conn[c].read = Absent /\ row.stored
  <2>1. Base(c) = FromPersisted(row.data)
    BY <1>6 DEF Base
  <2>2. Base(c) \in RecType /\ RecOK(Base(c)) /\ Base(c).known = TRUE /\ Base(c).connected = FALSE
    BY <1>2, <1>3, <2>1
  <2>3. Before(c) = Base(c).data /\ Base(c).data \in Nat \cup {Absent}
    BY <1>6, <2>2 DEF Before, RecType
  <2> QED
    BY <1>2, <1>6, <2>2, <2>3
<1>7. CASE ~rec[i].known /\ conn[c].read = Absent /\ ~row.stored
  <2>1. Base(c) = NoRecord /\ Before(c) = written[i]
    BY <1>7, Shapes DEF Base, Before
  <2> QED
    BY <1>2, <1>7, <2>1, Shapes
<1> QED
  BY <1>2, <1>4, <1>5, <1>6, <1>7

(* What is noted of an Agent.                                              *)
LEMMA NotedFacts ==
  ASSUME PresenceTypeOK, NEW i \in Instance, NEW holder \in Lease \cup {NoLease}
  PROVE  /\ Under(noted[i], holder) \in NotedType /\ Unnoted(i) \in NotedType
         /\ Under(noted[i], holder).take \in {noted[i].take, Absent} /\ Unnoted(i).take = Absent
<1>1. noted[i] \in NotedType
  BY Typed
<1> QED
  BY <1>1, Shapes DEF Under, Unnoted, NotedType, NothingNoted

(* An announcement reaches the other instances that run.                   *)
LEMMA AnnounceFacts ==
  ASSUME PresenceTypeOK, NEW i, NEW what \in {"agent", "taken"}, Announce(i, what)
  PROVE  /\ hear' \in [Instance -> SUBSET {"agent", "taken"}]
         /\ \A j \in Instance : /\ hear[j] \subseteq hear'[j] /\ hear'[j] \subseteq hear[j] \cup {what}
                                /\ j # i /\ stage[j] # "down" => what \in hear'[j]
<1>1. hear \in [Instance -> SUBSET {"agent", "taken"}]
  BY Typed
<1> QED
  BY <1>1 DEF Announce

LEMMA TakenFacts ==
  ASSUME NEW r \in RowType, NEW holder \in Lease \cup {NoLease}
  PROVE  /\ Taken(r, holder) \in RowType /\ Taken(r, holder).stored = r.stored
         /\ Taken(r, holder).holder = holder /\ Taken(r, holder).connected = TRUE
         /\ Taken(r, holder).takes = r.takes + 1
<1> DEFINE t == Taken(r, holder)
<1>1. /\ t.stored = r.stored /\ t.holder = holder /\ t.connected = TRUE
      /\ t.takes = r.takes + 1 /\ t.data = r.data /\ t.quiet = FALSE
  BY DEF Taken, RowType
<1> DEFINE u == [r EXCEPT !.holder = holder]
           w == [u EXCEPT !.connected = TRUE, !.takes = r.takes + 1, !.quiet = FALSE]
<1>2. r.takes + 1 \in Nat
  BY DEF RowType
<1>3. u \in RowType
  BY DEF RowType
<1>4. t = w
  BY Zenon DEF Taken
<1> HIDE DEF u
<1>5. w \in RowType
  BY <1>2, <1>3 DEF RowType
<1> QED
  BY <1>1, <1>4, <1>5

(* A call given up on, and what becomes of those of a process that is gone. *)
LEMMA CallFacts ==
  ASSUME PresenceTypeOK, NEW i \in Instance, NEW holder \in Lease \cup {NoLease},
         NEW data \in Nat \cup {Absent}
  PROVE  /\ Call("create", i, holder) \in CallType /\ Call("take", i, holder) \in CallType
         /\ Call("flush", i, holder) \in CallType /\ Call("batch", i, holder) \in CallType
         /\ WriteCall(i, data) \in CallType
<1>1. spent["fails"] \in Nat
  BY Typed, Words
<1>2. \A kind \in {"create", "take", "write", "flush", "batch"} :
        \A h \in Lease \cup {NoLease} : Call(kind, i, h) \in CallType
  BY <1>1 DEF Call, CallType, Absent
<1>3. \A call \in CallType : [call EXCEPT !.data = data] \in CallType
  BY DEF CallType
<1> QED
  BY <1>2, <1>3 DEF WriteCall

LEMMA OrphanedFacts ==
  ASSUME NEW i \in Instance, NEW calls \in SUBSET CallType
  PROVE  Orphaned(i, calls) \subseteq CallType /\ (calls = {} => Orphaned(i, calls) = {})
<1>1. \A call \in CallType : [call EXCEPT !.by = IF @ = i THEN Nobody ELSE @] \in CallType
  BY DEF CallType
<1> QED
  BY <1>1 DEF Orphaned

LEMMA ProcessKeeps ==
  ASSUME PresenceInv, CarrierIsHolder, NEW c \in Conn, NEW fails \in SUBSET {"take", "write"},
         Process(c, fails), Counted, spent' \in [Bounded -> Nat],
         spent'["leases"] = spent["leases"], spent'["forgets"] = spent["forgets"],
         spent'["aborts"] = spent["aborts"], spent'["fails"] = 0 => fails = {}
  PROVE  Kept
<1> DEFINE i == conn[c].at
           v == conn[c].mail
           base == Base(c)
           created == ~base.known
           row1 == IF created THEN NewRow ELSE row
           connects == created \/ ~base.connected \/ base.owner # c
           takes == connects /\ held[i] # NoLease /\ row1.stored /\ "take" \notin fails
           row2 == IF takes THEN Taken(row1, held[i]) ELSE row1
           dirty == Before(c) # v
           forgotten == dirty /\ ~row2.stored /\ "write" \notin fails
           writes == dirty /\ row2.stored /\ "write" \notin fails
           moved == [noted[i] EXCEPT !.current = FALSE]
           now == [known |-> TRUE, connected |-> TRUE, owner |-> c, heard |-> TRUE,
                   data |-> v, quiet |-> FALSE]
           took == [Under(noted[i], held[i]) EXCEPT !.known = TRUE, !.connected = TRUE,
                                                    !.current = TRUE, !.take = row2.takes]
<1>1. /\ PresenceTypeOK /\ CarriedOverOpenSocket /\ LeasesApart /\ SocketsServed
      /\ RowSound /\ NeverForgotten /\ DisconnectIsStale
      /\ \A j \in Instance : /\ stage[j] = "down" => held[j] = NoLease
                             /\ held[j] # NoLease => held[j] \in leases
  BY Parts
<1>2. Ready(c) /\ UNCHANGED <<agent, stage, held, under, leases>>
  BY DEF Process, serving
<1>3. /\ base \in RecType /\ RecOK(base) /\ Before(c) \in Nat \cup {Absent}
      /\ conn[c].open /\ i \in Instance /\ v \in Nat
      /\ created => ~row.stored /\ ~rec[i].known
      /\ base.connected => base = rec[i]
      /\ spent["forgets"] = 0 /\ base.known => row.stored
  BY <1>2, BaseFacts
<1>4. row' = IF writes THEN [row2 EXCEPT !.data = v, !.quiet = FALSE] ELSE row2
  BY DEF Process
<1>5. IF takes /\ row1.holder \notin {NoLease, held[i]}
      THEN Announce(i, "taken") ELSE UNCHANGED hear
  BY DEF Process
<1>6. batch' = [batch EXCEPT ![i].current = FALSE]
  BY DEF Process
<1>7. \/ /\ forgotten
         /\ rec' = [rec EXCEPT ![i] = NoRecord]
         /\ written' = [written EXCEPT ![i] = Absent]
         /\ noted' = [noted EXCEPT ![i] = Unnoted(i)]
         /\ ended' = ended \cup {c}
         /\ conn' = [conn EXCEPT ![c].mail = Absent, ![c].read = Unread]
      \/ /\ ~forgotten
         /\ rec' = [rec EXCEPT ![i] = now]
         /\ written' = [written EXCEPT ![i] = IF writes THEN v ELSE Before(c)]
         /\ noted' = [noted EXCEPT ![i] = IF takes THEN took ELSE moved]
         /\ conn' = [[conn EXCEPT ![c].mail = Absent, ![c].read = Unread] EXCEPT ![c].seen = TRUE]
         /\ UNCHANGED ended
  BY DEF Process, Handled
<1>8. /\ row \in RowType /\ held[i] \in Lease \cup {NoLease} /\ rec \in [Instance -> RecType]
      /\ conn \in [Conn -> ConnType] /\ noted \in [Instance -> NotedType]
      /\ batch \in [Instance -> BatchType] /\ written \in [Instance -> Nat \cup {Absent}]
      /\ noted[i] \in NotedType /\ ended \subseteq Conn
  BY <1>1, <1>3, Typed
<1>9. /\ row1 \in RowType /\ row1.holder = row.holder /\ row1.takes = row.takes
      /\ created => row1.stored
      /\ row.stored => row1.stored
      /\ row1.holder # NoLease => row1.stored /\ row1.connected
      /\ ~row1.stored => row1.data = Absent /\ row1.takes = 0
  <2>1. CASE created
    <3>1. ~row.stored /\ row1 = NewRow
      BY <1>3, <2>1
    <3>2. row.holder = NoLease /\ row.takes = 0
      BY <1>1, <3>1 DEF RowSound
    <3> QED
      BY <2>1, <3>1, <3>2, Shapes
  <2>2. CASE ~created
    <3>1. row1 = row
      BY <2>2
    <3> QED
      BY <1>1, <1>8, <2>2, <3>1 DEF RowSound
  <2> QED
    BY <2>1, <2>2
<1>10. row1.stored \in BOOLEAN /\ row1.takes \in Nat
  BY <1>9 DEF RowType
<1> HIDE DEF row1
<1>11. /\ row2 \in RowType /\ row2.stored = row1.stored
       /\ takes => /\ row2.holder = held[i] /\ row2.connected /\ row2.stored
                   /\ row2.takes = row.takes + 1
       /\ ~takes => row2 = row1
  <2>1. CASE takes
    <3>1. row2 = Taken(row1, held[i]) /\ row1.stored = TRUE
      BY <1>10, <2>1
    <3>2. /\ row2 \in RowType /\ row2.stored = row1.stored /\ row2.holder = held[i]
          /\ row2.connected = TRUE /\ row2.takes = row1.takes + 1
      <4> HIDE DEF row2
      <4>1. held[i] \in Lease \cup {NoLease} /\ row1 \in RowType
        BY <1>8, <1>9
      <4> HIDE DEF i
      <4> QED
        BY <3>1, <4>1, TakenFacts
    <3> QED
      BY <1>9, <2>1, <3>1, <3>2
  <2>2. CASE ~takes
    BY <1>9, <2>2
  <2> QED
    BY <2>1, <2>2
<1> HIDE DEF row2
<1>12. /\ row' \in RowType /\ row'.stored = row1.stored /\ row'.holder = row2.holder
       /\ row'.takes = row2.takes /\ row'.connected = row2.connected
       /\ ~row1.stored => row'.data = row2.data
  BY <1>3, <1>4, <1>11 DEF RowType
<1>13. RowSound'
  <2>1. CASE takes
    BY <1>11, <1>12, <2>1 DEF RowSound
  <2>2. CASE ~takes
    BY <1>9, <1>11, <1>12, <2>2 DEF RowSound
  <2> QED
    BY <2>1, <2>2
<1>14. /\ row.takes <= row'.takes
       /\ row.stored => row'.stored
       /\ takes => row'.holder = held[i] /\ row'.takes = row.takes + 1
       /\ ~takes => row'.holder = row.holder
  BY <1>8, <1>9, <1>11, <1>12 DEF RowType
<1>15. /\ batch' \in [Instance -> BatchType]
       /\ \A j \in Instance : /\ batch'[j].holder = batch[j].holder /\ batch'[j].take = batch[j].take
                              /\ batch'[j].step = batch[j].step
                              /\ batch'[j].connected = batch[j].connected
  BY <1>6, <1>8, ZenonT(60) DEF BatchType
<1>16. /\ hear' \in [Instance -> SUBSET {"agent", "taken"}]
       /\ \A j \in Instance : /\ hear[j] \subseteq hear'[j]
                              /\ hear'[j] \subseteq hear[j] \cup {"taken"}
  <2>1. CASE Announce(i, "taken")
    BY <1>1, <1>3, <2>1, AnnounceFacts
  <2>2. CASE UNCHANGED hear
    BY <1>1, <2>2, Typed
  <2> QED
    BY <1>5, <2>1, <2>2
<1>17. now \in RecType /\ RecOK(now) /\ now.known /\ now.connected /\ now.owner = c
  BY <1>3 DEF RecType, RecOK
<1>18. /\ took \in NotedType /\ took.take = row2.takes
       /\ moved \in NotedType /\ moved.take = noted[i].take
       /\ Unnoted(i) \in NotedType /\ Unnoted(i).take = Absent
  <2>1. Under(noted[i], held[i]) \in NotedType /\ Unnoted(i) \in NotedType /\ Unnoted(i).take = Absent
    BY <1>1, <1>3, <1>8, NotedFacts
  <2>2. row2.takes \in Nat
    BY <1>11 DEF RowType
  <2> QED
    BY <1>8, <2>1, <2>2 DEF NotedType
<1> HIDE DEF now, took, moved, takes, forgotten, writes
<1>19. /\ conn' \in [Conn -> ConnType]
       /\ \A d \in Conn : /\ conn'[d].open = conn[d].open /\ conn'[d].at = conn[d].at
                          /\ conn'[d].read \in {conn[d].read, Unread}
                          /\ ~forgotten => (conn'[d].seen = (conn[d].seen \/ d = c))
  BY <1>7, <1>8, SMTT(60) DEF ConnType
<1>20. /\ rec' \in [Instance -> RecType] /\ written' \in [Instance -> Nat \cup {Absent}]
       /\ noted' \in [Instance -> NotedType] /\ ended' \subseteq Conn
       /\ \A j \in Instance \ {i} : rec'[j] = rec[j] /\ noted'[j] = noted[j]
       /\ ~forgotten => /\ rec'[i] = now /\ ended' = ended
                        /\ noted'[i].take = IF takes THEN row2.takes ELSE noted[i].take
       /\ rec'[i] \in {now, NoRecord}
  BY <1>3, <1>7, <1>8, <1>17, <1>18, Shapes
<1>21. astray' \subseteq CallType /\ (fails = {} => astray' = astray)
  <2>1. astray' = astray
              \cup (IF "take" \in fails THEN {Call("take", i, held[i])} ELSE {})
              \cup (IF "write" \in fails THEN {WriteCall(i, v)} ELSE {})
    BY DEF Process
  <2>2. Call("take", i, held[i]) \in CallType /\ WriteCall(i, v) \in CallType
    BY <1>1, <1>3, <1>8, CallFacts
  <2> QED
    BY <1>1, <2>1, <2>2, Typed
<1>22. PresenceTypeOK'
  <2>1. \A j \in Instance : RecOK(rec'[j])
    BY <1>1, <1>17, <1>20, Shapes, Typed
  <2> QED
    BY <1>1, <1>2, <1>12, <1>15, <1>16, <1>19, <1>20, <1>21, <2>1, Typed, TypedNext DEF agent
<1>23. LeasesApart' /\ SocketsServed'
  <2>1. \A j \in Instance : \/ rec'[j].owner = rec[j].owner \/ rec'[j].owner = NoConn
                            \/ rec'[j].owner <= spent["conns"]
    BY <1>1, <1>3, <1>17, <1>20, Shapes DEF SocketsServed
  <2> QED
    BY <1>1, <1>2, <1>15, <1>19, <1>22, <2>1, LeasesStep, SocketsStep
<1>24. spent'["fails"] = 0 => astray' = {}
  BY <1>21, <1>22, AstrayStep
<1>25. CASE spent["forgets"] # 0
  BY <1>13, <1>22, <1>23, <1>24, <1>25, Forgotten
<1>26. CASE spent["forgets"] = 0
  <2>1. row1.stored /\ row'.stored /\ ~forgotten
    <3>1. row1.stored
      BY <1>3, <1>9, <1>26
    <3> QED
      BY <1>11, <1>12, <3>1 DEF forgotten
  <2>2. takes <=> connects /\ held[i] # NoLease /\ "take" \notin fails
    BY <2>1 DEF takes
  <2>3. ASSUME NEW j \in Instance, Carries(j)', j # i \/ ~connects
        PROVE  Carries(j)
    <3>1. CASE j # i
      <4>1. rec[j].connected /\ rec[j].owner # NoConn /\ rec'[j] = rec[j]
        BY <1>20, <2>3, <3>1 DEF Carries
      <4>2. rec[j].owner \in Conn
        BY <1>26, <4>1, OwnerFacts
      <4> QED
        BY <1>19, <2>3, <4>1, <4>2 DEF Carries
    <3>2. CASE j = i
      <4>1. base.connected /\ base.owner = c /\ base = rec[i]
        BY <1>3, <2>3, <3>2
      <4> QED
        BY <1>3, <3>2, <4>1, Constants DEF Carries, NoConn
    <3> QED
      BY <3>1, <3>2
  <2>4. CarriedOverOpenSocket'
    <3> SUFFICES ASSUME NEW j \in Instance, rec'[j].connected
                 PROVE  /\ rec'[j].owner # NoConn
                        /\ spent["aborts"] = 0 => conn'[rec'[j].owner].open
                        /\ conn'[rec'[j].owner].open =>
                              conn'[rec'[j].owner].at = j /\ conn'[rec'[j].owner].seen
      BY DEF CarriedOverOpenSocket
    <3>1. CASE j = i
      <4>1. rec'[j].owner = c /\ c # NoConn
        BY <1>17, <1>20, <2>1, <3>1, Constants DEF NoConn
      <4>2. conn'[c].open /\ conn'[c].seen /\ conn'[c].at = i
        BY <1>3, <1>19, <2>1
      <4> QED
        BY <3>1, <4>1, <4>2
    <3>2. CASE j # i
      <4>1. rec[j].connected /\ rec'[j].owner = rec[j].owner
        BY <1>20, <3>2
      <4>2. /\ rec[j].owner \in Conn /\ rec[j].owner # NoConn
            /\ spent["aborts"] = 0 => conn[rec[j].owner].open
            /\ conn[rec[j].owner].open => conn[rec[j].owner].at = j /\ conn[rec[j].owner].seen
        BY <1>26, <4>1, OwnerFacts
      <4> QED
        BY <1>19, <2>1, <4>1, <4>2
    <3> QED
      BY <3>1, <3>2
  <2>5. NeverForgotten'
    <3>1. ended' = {} /\ \A d \in Conn : conn'[d].read \notin {Unread, Absent} => row'.stored
      BY <1>1, <1>20, <1>26, <2>1 DEF NeverForgotten
    <3>2. ASSUME NEW j \in Instance PROVE "agent" \notin hear'[j]
      BY <1>1, <1>16, <1>26 DEF NeverForgotten
    <3>3. ASSUME NEW j \in Instance
          PROVE  batch'[j].take <= row'.takes /\ noted'[j].take <= row'.takes
      <4>1. /\ batch[j].take <= row.takes /\ noted[j].take <= row.takes
            /\ batch[j].take \in Int /\ noted[j].take \in Int
            /\ row.takes \in Int /\ row'.takes \in Int
        BY <1>1, <1>8, <1>12, <1>26 DEF NeverForgotten, BatchType, NotedType, RowType, Absent
      <4>2. noted'[j].take = noted[j].take \/ noted'[j].take = row'.takes
        BY <1>12, <1>20, <2>1
      <4> QED
        BY <1>14, <1>15, <4>1, <4>2
    <3> QED
      BY <2>1, <3>1, <3>2, <3>3 DEF NeverForgotten
  <2>6. ASSUME spent'["fails"] = 0
        PROVE  spent["fails"] = 0 /\ fails = {}
    BY <1>1, <1>22, <2>6, StillZero, Words
  <2>7. DisconnectIsStale'
    <3> SUFFICES ASSUME NEW j \in Instance, spent'["fails"] = 0, batch'[j].step = "read",
                        ~batch'[j].connected, Carries(j)', held[j] # NoLease, under[j] = held[j]
                 PROVE  batch'[j].take < row'.takes
      BY <1>2 DEF DisconnectIsStale
    <3>1. /\ batch[j].take <= row.takes /\ batch[j].take \in Int
          /\ row.takes \in Int /\ row'.takes \in Int /\ spent["fails"] = 0 /\ fails = {}
      BY <1>1, <1>8, <1>12, <1>26, <2>6 DEF NeverForgotten, BatchType, RowType, Absent
    <3>2. CASE takes /\ j = i
      BY <1>14, <1>15, <3>1, <3>2
    <3>3. CASE ~takes \/ j # i
      <4>1. Carries(j)
        BY <2>2, <2>3, <3>1, <3>3
      <4>2. batch[j].take < row.takes
        BY <1>1, <1>15, <1>26, <3>1, <4>1 DEF DisconnectIsStale
      <4> QED
        BY <1>14, <1>15, <3>1, <4>2
    <3> QED
      BY <3>2, <3>3
  <2>8. CarrierIsHolder'
    <3> SUFFICES ASSUME NEW j \in Instance, Carries(j)', held[j] # NoLease, under[j] = held[j],
                        hear'[j] = {}, spent'["fails"] = 0
                 PROVE  row'.holder = held[j]
      BY <1>2, <1>13, <2>1 DEF CarrierIsHolder, RowSound
    <3>1. spent["fails"] = 0 /\ fails = {} /\ hear[j] = {}
      BY <1>16, <2>6
    <3>2. CASE takes /\ j = i
      BY <1>14, <3>2
    <3>3. CASE takes /\ j # i
      <4>1. row.stored /\ row.holder = held[j]
        BY <1>26, <2>3, <3>1, <3>3 DEF CarrierIsHolder
      <4>2. row1.holder \notin {NoLease, held[i]}
        BY <1>1, <1>3, <1>9, <3>3, <4>1 DEF LeasesApart
      <4>3. Announce(i, "taken") /\ stage[j] # "down"
        BY <1>1, <1>5, <3>3, <4>2
      <4>4. "taken" \in hear'[j]
        BY <1>1, <3>3, <4>3, AnnounceFacts
      <4> QED
        BY <4>4
    <3>4. CASE ~takes
      <4>1. Carries(j)
        BY <2>2, <2>3, <3>1, <3>4
      <4> QED
        BY <1>14, <1>26, <3>1, <3>4, <4>1 DEF CarrierIsHolder
    <3> QED
      BY <3>2, <3>3, <3>4
  <2> QED
    BY <1>13, <1>22, <1>23, <1>24, <2>4, <2>5, <2>7, <2>8, Assembled
<1> QED
  BY <1>25, <1>26

(* A report that cannot be stored is answered as unavailable.              *)
LEMMA CreateFailsKeeps ==
  ASSUME PresenceInv, CarrierIsHolder, NEW c \in Conn, CreateFails(c), Spend("fails")
  PROVE  Kept
<1> USE Parts
<1>1. /\ conn' = [conn EXCEPT ![c].mail = Absent, ![c].read = Unread]
      /\ astray' = astray \cup {Call("create", conn[c].at, NoLease)}
      /\ UNCHANGED <<agent, ended, stage, held, under, memory, batch, hear, row, leases>>
  BY DEF CreateFails, Handled, serving
<1>2. /\ spent' \in [Bounded -> Nat] /\ Counted /\ spent'["leases"] = spent["leases"]
      /\ spent'["fails"] # 0
  BY SpendFacts, Typed, Words DEF Faults
<1>3. /\ conn' \in [Conn -> ConnType]
      /\ \A d \in Conn : /\ conn'[d].open = conn[d].open /\ conn'[d].at = conn[d].at
                         /\ conn'[d].seen = conn[d].seen
                         /\ conn'[d].read \in {conn[d].read, Unread}
  BY <1>1, Typed, ZenonT(60) DEF ConnType
<1>4. astray' \subseteq CallType
  <2>1. conn[c].at \in Instance
    BY Typed DEF ConnType
  <2>2. Call("create", conn[c].at, NoLease) \in CallType
    BY <2>1, CallFacts
  <2> QED
    BY <1>1, <2>2, Typed
<1>5. PresenceTypeOK'
  BY <1>1, <1>2, <1>3, <1>4, Typed, TypedNext DEF memory, agent
<1>6. \A i \in Instance : Fades(i)
  BY <1>1 DEF Fades, memory
<1> QED
  BY <1>1, <1>2, <1>3, <1>5, <1>6, StillStep

LEMMA OnMessageKeeps ==
  ASSUME PresenceInv, CarrierIsHolder, NEW c \in Conn, OnMessage(c)
  PROVE  Kept
<1>1. CASE Rekey(c)
  BY <1>1, RekeyKeeps
<1>2. CASE Process(c, {}) /\ UNCHANGED spent
  BY <1>2, Parts, UnspentFacts, ProcessKeeps, Words
<1>3. ASSUME NEW fails \in SUBSET {"take", "write"}, Process(c, fails), Spend("fails")
      PROVE  Kept
  <2>1. /\ spent' \in [Bounded -> Nat] /\ Counted /\ spent'["fails"] = spent["fails"] + 1
        /\ spent'["leases"] = spent["leases"] /\ spent'["forgets"] = spent["forgets"]
        /\ spent'["aborts"] = spent["aborts"] /\ spent["fails"] \in Nat
    BY <1>3, Parts, SpendFacts, Typed, Words DEF Faults
  <2> QED
    BY <1>3, <2>1, ProcessKeeps
<1> QED
  BY <1>1, <1>2, <1>3, CreateFailsKeeps DEF OnMessage

-------------------------------------------------------------------------------
(* Sockets close                                                           *)

(* The sockets of one instance are closed.                                 *)
LEMMA CloseFacts ==
  ASSUME PresenceTypeOK, NEW C \in SUBSET Conn, CloseAll(C)
  PROVE  /\ conn' \in [Conn -> ConnType] /\ live' \in Conn \cup {NoConn}
         /\ \A c \in Conn \ C : conn'[c] = conn[c]
         /\ \A c \in C : ~conn'[c].open
         /\ \A c \in Conn : conn'[c].read \notin {Unread, Absent} => conn[c].read \notin {Unread, Absent}
  BY Typed, Shapes DEF CloseAll

LEMMA DisconnectedFacts ==
  ASSUME PresenceTypeOK, NEW i \in Instance, NEW C \in SUBSET Conn
  PROVE  /\ Disconnected(i, C) \in RecType /\ RecOK(Disconnected(i, C))
         /\ Disconnected(i, C).known = rec[i].known
         /\ Disconnected(i, C).connected =>
               /\ rec[i].connected /\ Disconnected(i, C).owner = rec[i].owner
               /\ \A c \in C : conn[c].seen => rec[i].owner # c
<1>1. rec[i] \in RecType /\ RecOK(rec[i])
  BY Typed
<1> QED
  BY <1>1, Constants DEF Disconnected, RecType, RecOK

(* No record is carried over a socket that was closed, where those of one  *)
(* instance close and its record is marked or goes, or a session is        *)
(* aborted.                                                                *)
LEMMA ClosedStep ==
  ASSUME PresenceInv, CarrierIsHolder, PresenceTypeOK', Counted,
         NEW i \in Instance, NEW C \in SUBSET At(i), CloseAll(C), ended' \subseteq ended,
         spent'["leases"] = spent["leases"],
         \A j \in Instance \ {i} : rec'[j] = rec[j] /\ stage'[j] = stage[j] /\ held'[j] = held[j],
         rec'[i] \in {Disconnected(i, C), NoRecord} \/ (rec'[i] = rec[i] /\ spent'["aborts"] # 0),
         held'[i] \in {held[i], NoLease}, stage'[i] = "down" => held'[i] = NoLease,
         C = At(i) \/ stage'[i] = stage[i],
         \A j \in Instance : /\ batch'[j].holder \in {batch[j].holder, NoLease}
                             /\ batch'[j] = batch[j] \/ batch'[j] = NoBatch
                             /\ noted'[j] = noted[j] \/ noted'[j] = NothingNoted
                             /\ hear'[j] = hear[j] \/ (j = i /\ hear'[j] = {} /\ held'[i] = NoLease),
         UNCHANGED <<under, row, leases>>, astray = {} => astray' = {}
  PROVE  Kept
<1>1. /\ PresenceTypeOK /\ CarriedOverOpenSocket /\ LeasesApart /\ SocketsServed
      /\ RowSound /\ NeverForgotten /\ DisconnectIsStale /\ RowSound'
      /\ \A j \in Instance : /\ stage[j] = "down" => held[j] = NoLease
                             /\ held[j] # NoLease => held[j] \in leases
      /\ spent'["fails"] = 0 => astray' = {}
  BY Parts, AstrayStep
<1>2. C \subseteq Conn /\ \A c \in C : conn[c].open /\ conn[c].at = i
  BY DEF At
<1>3. /\ \A c \in Conn \ C : conn'[c] = conn[c]
      /\ \A c \in C : ~conn'[c].open
      /\ \A c \in Conn : conn'[c].read \notin {Unread, Absent} => conn[c].read \notin {Unread, Absent}
  BY <1>1, <1>2, CloseFacts
<1>4. LeasesApart'
  <2>1. \A j \in Instance : /\ held'[j] \in {held[j], NoLease}
                            /\ held'[j] # NoLease => held'[j] \in leases'
                            /\ stage'[j] = "down" => held'[j] = NoLease
                            /\ batch'[j].holder \in {batch[j].holder, held[j], NoLease}
                            /\ under'[j] \in {under[j], held[j]}
    BY <1>1
  <2> QED
    BY <1>1, <2>1, LeasesStep
<1>5. /\ rec'[i].known => rec[i].known
      /\ rec'[i].connected => /\ rec[i].connected /\ rec'[i].owner = rec[i].owner
                              /\ \/ \A c \in C : conn[c].seen => rec[i].owner # c
                                 \/ spent'["aborts"] # 0
  BY <1>1, <1>2, DisconnectedFacts, Shapes
<1>6. SocketsServed'
  <2>1. ASSUME NEW c \in Conn, conn'[c].open
        PROVE  /\ conn[c].open /\ conn'[c].at = conn[c].at
               /\ stage'[conn[c].at] = stage[conn[c].at]
    <3>1. c \notin C /\ conn'[c] = conn[c] /\ conn[c].at \in Instance
      BY <1>1, <1>3, <2>1, Typed DEF ConnType
    <3>2. conn[c].at = i => C # At(i)
      BY <2>1, <3>1 DEF At
    <3> QED
      BY <2>1, <3>1, <3>2
  <2>2. \A j \in Instance : rec'[j].owner = rec[j].owner \/ rec'[j].owner = NoConn
    BY <1>5, TypedNext DEF RecOK
  <2> QED
    BY <1>1, <2>1, <2>2, SocketsStep
<1>7. ASSUME NEW j \in Instance PROVE Carried(j)
  <2> SUFFICES ASSUME spent["forgets"] = 0, rec'[j].connected
               PROVE  /\ spent'["aborts"] = 0 => conn'[rec[j].owner].open
                      /\ conn'[rec[j].owner].open =>
                            /\ conn[rec[j].owner].open
                            /\ conn'[rec[j].owner].seen /\ conn'[rec[j].owner].at = j
    BY DEF Carried
  <2>1. rec[j].connected
    BY <1>5
  <2>2. /\ rec[j].owner \in Conn /\ (spent["aborts"] = 0 => conn[rec[j].owner].open)
        /\ conn[rec[j].owner].open => conn[rec[j].owner].seen /\ conn[rec[j].owner].at = j
    BY <2>1, OwnerFacts
  <2>3. spent'["aborts"] = 0 => spent["aborts"] = 0
    BY <1>1, StillZero, Words
  <2>4. spent'["aborts"] = 0 => rec[j].owner \notin C
    BY <1>2, <1>5, <2>2, <2>3
  <2> QED
    BY <1>3, <2>2, <2>3, <2>4
<1>8. ASSUME NEW j \in Instance PROVE Fades(j)
  <2>1. /\ (held'[j] = held[j] /\ under'[j] = under[j]) \/ held'[j] = NoLease
        /\ rec'[j].known => rec[j].known
        /\ rec'[j].connected => rec[j].connected /\ rec'[j].owner = rec[j].owner
    BY <1>5
  <2>2. /\ "agent" \in hear'[j] => "agent" \in hear[j]
        /\ ("taken" \in hear[j] => "taken" \in hear'[j]) \/ held'[j] = NoLease
    OBVIOUS
  <2>3. /\ batch'[j].take <= row.takes \/ batch'[j].take = batch[j].take
        /\ noted'[j].take <= row.takes \/ noted'[j].take = noted[j].take
    <3>1. Absent <= row.takes
      BY <1>1, Typed DEF RowType, Absent
    <3> QED
      BY <3>1, Shapes
  <2>4. batch'[j].step = "read" => batch'[j] = batch[j]
    BY Shapes
  <2> QED
    BY <2>1, <2>2, <2>3, <2>4 DEF Fades
<1>9. NeverForgotten' /\ CarriedOverOpenSocket' /\ DisconnectIsStale' /\ CarrierIsHolder'
  BY <1>1, <1>3, <1>7, <1>8, FadingStep
<1> QED
  BY <1>1, <1>4, <1>6, <1>9, Assembled

LEMMA OnClosedKeeps ==
  ASSUME PresenceInv, CarrierIsHolder, NEW c \in Conn, OnClosed(c)
  PROVE  Kept
<1> DEFINE i == conn[c].at
<1>1. PresenceTypeOK
  BY Parts
<1>2. /\ conn[c].open /\ CloseAll({c}) /\ rec' = [rec EXCEPT ![i] = Disconnected(i, {c})]
      /\ ended' = ended \ {c}
      /\ UNCHANGED <<content, parted, stage, held, under, written, noted, batch, hear, database, spent>>
  BY DEF OnClosed, serving
<1>3. i \in Instance /\ {c} \in SUBSET At(i) /\ {c} \in SUBSET Conn
  BY <1>1, <1>2, Typed DEF ConnType, At
<1>4. /\ Counted /\ spent' \in [Bounded -> Nat] /\ spent'["leases"] = spent["leases"]
  BY <1>1, <1>2, UnspentFacts
<1>5. /\ rec' \in [Instance -> RecType] /\ \A j \in Instance : RecOK(rec'[j])
      /\ rec'[i] = Disconnected(i, {c}) /\ \A j \in Instance \ {i} : rec'[j] = rec[j]
  BY <1>1, <1>2, <1>3, DisconnectedFacts, Typed
<1>6. PresenceTypeOK'
  <2>1. conn' \in [Conn -> ConnType] /\ live' \in Conn \cup {NoConn}
    BY <1>1, <1>2, <1>3, CloseFacts
  <2> QED
    BY <1>1, <1>2, <1>4, <1>5, <2>1, Typed, TypedNext DEF database
<1>7. stage'[i] = "down" => held'[i] = NoLease
  BY <1>2, <1>3, Parts
<1> HIDE DEF i
<1> QED
  BY <1>2, <1>3, <1>4, <1>5, <1>6, <1>7, ClosedStep DEF database

(* The sessions of an instance are aborted: at the cut, and after a drain. *)
LEMMA AbortKeeps ==
  ASSUME PresenceInv, CarrierIsHolder, NEW i \in Instance, NEW next \in Stage \ {"down"},
         stage' = [stage EXCEPT ![i] = next], Abort(i),
         UNCHANGED <<content, parted, serving, memory, batch, hear, database>>
  PROVE  Kept
<1>1. PresenceTypeOK
  BY Parts
<1>2. CloseAll(At(i)) /\ ended' = ended /\ (IF At(i) = {} THEN UNCHANGED spent ELSE Spend("aborts"))
  BY DEF Abort
<1>3. At(i) \in SUBSET Conn /\ At(i) \in SUBSET At(i)
  BY DEF At
<1>4. /\ Counted /\ spent' \in [Bounded -> Nat] /\ spent'["leases"] = spent["leases"]
      /\ At(i) = {} \/ spent'["aborts"] # 0
  <2>1. spent["aborts"] \in Nat
    BY <1>1, Typed, Words
  <2> QED
    BY <1>1, <1>2, <2>1, UnspentFacts, SpendFacts, Words DEF Faults
<1>5. /\ stage' \in [Instance -> Stage] /\ stage'[i] # "down"
      /\ \A j \in Instance \ {i} : stage'[j] = stage[j]
  BY <1>1, Typed
<1>6. PresenceTypeOK'
  <2>1. conn' \in [Conn -> ConnType] /\ live' \in Conn \cup {NoConn}
    BY <1>1, <1>2, <1>3, CloseFacts
  <2> QED
    BY <1>1, <1>2, <1>4, <1>5, <2>1, Typed, TypedNext DEF database, serving, memory
<1>7. rec'[i] = Disconnected(i, At(i)) \/ (rec'[i] = rec[i] /\ spent'["aborts"] # 0)
  BY <1>4 DEF Disconnected, memory
<1> QED
  BY <1>2, <1>3, <1>4, <1>5, <1>6, <1>7, ClosedStep DEF database, serving, memory

LEMMA CutKeeps ==
  ASSUME PresenceInv, CarrierIsHolder, NEW i \in Instance, Cut(i) \/ Drained(i)
  PROVE  Kept
<1>1. PICK next \in {"waiting", "drained"} : stage' = [stage EXCEPT ![i] = next]
  BY DEF Cut, Drained
<1>2. next \in Stage \ {"down"}
  BY DEF Stage
<1> QED
  BY <1>1, <1>2, AbortKeeps DEF Cut, Drained

(* A step that only moves a process to another stage.                      *)
LEMMA StageKeeps ==
  ASSUME PresenceInv, CarrierIsHolder, NEW i \in Instance, NEW next \in Stage \ {"down"},
         stage' = [stage EXCEPT ![i] = next], stage[i] \in Open => next \in Open,
         Counted, spent' \in [Bounded -> Nat], spent'["leases"] = spent["leases"],
         UNCHANGED <<agent, sockets, serving, memory, batch, hear, database>>
  PROVE  Kept
<1>1. PresenceTypeOK
  BY Parts
<1>2. /\ stage' \in [Instance -> Stage] /\ stage'[i] = next
      /\ \A j \in Instance \ {i} : stage'[j] = stage[j]
  BY <1>1, Typed
<1>3. PresenceTypeOK'
  BY <1>1, <1>2, Typed, TypedNext DEF agent, sockets, serving, memory, database
<1>4. \A j \in Instance : Fades(j)
  BY DEF Fades, serving, memory, database
<1> QED
  BY <1>2, <1>3, <1>4, Parts, StillStep DEF sockets, database, serving

LEMMA StopKeeps ==
  ASSUME PresenceInv, CarrierIsHolder, NEW i \in Instance, Stop(i)
  PROVE  Kept
<1>1. /\ Spend("stops") /\ stage' = [stage EXCEPT ![i] = "draining"]
      /\ UNCHANGED <<agent, sockets, serving, memory, batch, hear, database>>
  BY DEF Stop
<1>2. /\ Counted /\ spent' \in [Bounded -> Nat] /\ spent'["leases"] = spent["leases"]
  BY <1>1, Parts, SpendFacts, Words DEF Faults
<1> QED
  BY <1>1, <1>2, StageKeeps DEF Stage, Open

LEMMA StartKeeps ==
  ASSUME PresenceInv, CarrierIsHolder, NEW i \in Instance, Start(i) \/ Bind(i)
  PROVE  Kept
<1>1. PICK next \in {"waiting", "binding"} : stage' = [stage EXCEPT ![i] = next]
  BY DEF Start, Bind
<1>2. /\ stage[i] \in {"down", "waiting"}
      /\ UNCHANGED <<agent, sockets, serving, memory, batch, hear, database, spent>>
  BY DEF Start, Bind
<1>3. /\ Counted /\ spent' \in [Bounded -> Nat] /\ spent'["leases"] = spent["leases"]
  BY <1>2, Parts, UnspentFacts
<1> QED
  BY <1>1, <1>2, <1>3, StageKeeps DEF Stage, Open

(* The planes open where no socket is.                                     *)
LEMMA OpenPlanesKeeps ==
  ASSUME PresenceInv, CarrierIsHolder, NEW i \in Instance, OpenPlanes(i)
  PROVE  Kept
<1>1. PresenceTypeOK
  BY Parts
<1>2. /\ stage[i] = "binding" /\ stage' = [stage EXCEPT ![i] = "up"]
      /\ under' = [under EXCEPT ![i] = held[i]]
      /\ UNCHANGED <<agent, sockets, held, memory, batch, hear, database, spent>>
  BY DEF OpenPlanes
<1>3. /\ stage' \in [Instance -> Stage] /\ stage'[i] = "up"
      /\ \A j \in Instance \ {i} : stage'[j] = stage[j]
  BY <1>1, <1>2, Typed DEF Stage
<1>4. /\ under' \in [Instance -> Lease \cup {NoLease}] /\ under'[i] = held[i]
      /\ \A j \in Instance \ {i} : under'[j] = under[j]
  BY <1>1, <1>2, Typed
<1>5. PresenceTypeOK'
  BY <1>1, <1>2, <1>3, <1>4, Typed, TypedNext DEF agent, sockets, memory, database
<1>6. ASSUME NEW j \in Instance PROVE Fades(j)
  <2>1. spent["forgets"] = 0 /\ rec[i].connected => ~conn[rec[i].owner].open
    BY <1>2, OwnerFacts DEF Open
  <2> QED
    BY <1>2, <1>4, <2>1 DEF Fades, memory, sockets, database
<1>7. Counted /\ spent'["leases"] = spent["leases"]
  BY <1>1, <1>2, UnspentFacts
<1> QED
  BY <1>2, <1>3, <1>4, <1>5, <1>6, <1>7, Parts, StillStep DEF sockets, database, Open

LEMMA LoseLeaseKeeps ==
  ASSUME PresenceInv, CarrierIsHolder, NEW i \in Instance, LoseLease(i)
  PROVE  Kept
<1>1. PresenceTypeOK
  BY Parts
<1>2. /\ Spend("losses") /\ held' = [held EXCEPT ![i] = NoLease]
      /\ UNCHANGED <<agent, sockets, stage, under, memory, batch, hear, database>>
  BY DEF LoseLease
<1>3. /\ Counted /\ spent' \in [Bounded -> Nat] /\ spent'["leases"] = spent["leases"]
  BY <1>1, <1>2, SpendFacts, Words DEF Faults
<1>4. /\ held' \in [Instance -> Lease \cup {NoLease}] /\ held'[i] = NoLease
      /\ \A j \in Instance \ {i} : held'[j] = held[j]
  BY <1>1, <1>2, Typed
<1>5. PresenceTypeOK'
  BY <1>1, <1>2, <1>3, <1>4, Typed, TypedNext DEF agent, sockets, memory, database
<1>6. \A j \in Instance : Fades(j)
  BY <1>2, <1>4 DEF Fades, memory, database
<1> QED
  BY <1>2, <1>3, <1>4, <1>5, <1>6, Parts, StillStep DEF sockets, database

(* A process that is gone holds nothing.                                   *)
LEMMA GoneFacts ==
  ASSUME PresenceTypeOK, NEW i \in Instance, Gone(i)
  PROVE  /\ stage' \in [Instance -> Stage] /\ held' \in [Instance -> Lease \cup {NoLease}]
         /\ written' \in [Instance -> Nat \cup {Absent}] /\ noted' \in [Instance -> NotedType]
         /\ batch' \in [Instance -> BatchType] /\ rec' \in [Instance -> RecType]
         /\ hear' \in [Instance -> SUBSET {"agent", "taken"}]
         /\ \A j \in Instance : RecOK(rec'[j])
         /\ stage'[i] = "down" /\ held'[i] = NoLease /\ rec'[i] = NoRecord /\ under' = under
         /\ batch'[i] = NoBatch /\ noted'[i] = NothingNoted /\ hear'[i] = {}
         /\ \A j \in Instance \ {i} :
               /\ stage'[j] = stage[j] /\ held'[j] = held[j] /\ rec'[j] = rec[j]
               /\ batch'[j] = batch[j] /\ noted'[j] = noted[j] /\ hear'[j] = hear[j]
  BY Typed, Shapes DEF Gone, Stage

LEMMA CrashKeeps ==
  ASSUME PresenceInv, CarrierIsHolder, NEW i \in Instance, Crash(i)
  PROVE  Kept
<1>1. PresenceTypeOK
  BY Parts
<1>2. /\ Spend("crashes") /\ CloseAll(At(i)) /\ Gone(i) /\ ended' = ended \ At(i)
      /\ astray' = Orphaned(i, astray) /\ UNCHANGED <<content, parted, row, leases>>
  BY DEF Crash
<1>3. At(i) \in SUBSET Conn
  BY DEF At
<1>4. /\ Counted /\ spent' \in [Bounded -> Nat] /\ spent'["leases"] = spent["leases"]
  BY <1>1, <1>2, SpendFacts, Words DEF Faults
<1>5. astray' \subseteq CallType /\ (astray = {} => astray' = {})
  BY <1>1, <1>2, OrphanedFacts, Typed
<1>6. PresenceTypeOK'
  <2>1. conn' \in [Conn -> ConnType] /\ live' \in Conn \cup {NoConn}
    BY <1>1, <1>2, <1>3, CloseFacts
  <2> QED
    BY <1>1, <1>2, <1>4, <1>5, <2>1, GoneFacts, Typed, TypedNext
<1>7. /\ stage'[i] = "down" /\ held'[i] = NoLease /\ rec'[i] = NoRecord /\ under' = under
      /\ \A j \in Instance \ {i} : rec'[j] = rec[j] /\ stage'[j] = stage[j] /\ held'[j] = held[j]
      /\ \A j \in Instance : /\ batch'[j] = batch[j] \/ batch'[j] = NoBatch
                             /\ batch'[j].holder \in {batch[j].holder, NoLease}
                             /\ noted'[j] = noted[j] \/ noted'[j] = NothingNoted
                             /\ hear'[j] = hear[j] \/ (j = i /\ hear'[j] = {} /\ held'[i] = NoLease)
  BY <1>1, <1>2, GoneFacts, Shapes
<1> QED
  BY <1>2, <1>3, <1>4, <1>5, <1>6, <1>7, ClosedStep

-------------------------------------------------------------------------------
(* The presence batch                                                      *)

LEMMA BatchedFacts ==
  ASSUME PresenceTypeOK, NEW i \in Instance
  PROVE  /\ Batched(i) \in BatchType /\ Batched(i).holder = held[i]
         /\ Batched(i).connected = rec[i].connected
         /\ Batched(i).take \in {noted[i].take, Absent}
<1>1. held[i] \in Lease \cup {NoLease} /\ rec[i] \in RecType /\ noted[i] \in NotedType
  BY Typed
<1>2. /\ Under(noted[i], held[i]).take \in {noted[i].take, Absent}
      /\ Under(noted[i], held[i]) \in NotedType
  BY <1>1, NotedFacts
<1>3. Under(noted[i], held[i]).take \in Nat \cup {Absent}
  BY <1>2 DEF NotedType
<1> QED
  BY <1>1, <1>2, <1>3 DEF Batched, BatchType, RecType

LEMMA ReadBatchKeeps ==
  ASSUME PresenceInv, CarrierIsHolder, NEW i \in Instance, ReadBatch(i)
  PROVE  Kept
<1> DEFINE kept == IF rec[i].known THEN noted[i] ELSE NothingNoted
<1>1. PresenceTypeOK /\ NeverForgotten
  BY Parts
<1>2. /\ batch' = [batch EXCEPT ![i] = IF Moved(i) THEN Batched(i) ELSE @]
      /\ noted' = [noted EXCEPT ![i] = Under(kept, held[i])]
      /\ UNCHANGED <<agent, sockets, stage, held, under, rec, written, hear, database, spent>>
  BY DEF ReadBatch, serving
<1>3. /\ Under(kept, held[i]) \in NotedType
      /\ Under(kept, held[i]).take \in {noted[i].take, Absent}
  <2>1. noted[i] \in NotedType /\ held[i] \in Lease \cup {NoLease}
    BY <1>1, Typed
  <2> QED
    BY <2>1, Shapes DEF Under, NotedType, NothingNoted
<1>4. /\ noted' \in [Instance -> NotedType]
      /\ \A j \in Instance : noted'[j].take \in {noted[j].take, Absent}
  BY <1>1, <1>2, <1>3, Typed
<1>5. /\ batch' \in [Instance -> BatchType]
      /\ \A j \in Instance : batch'[j] = batch[j] \/ (j = i /\ batch'[j] = Batched(j))
  BY <1>1, <1>2, BatchedFacts, Typed
<1>6. PresenceTypeOK'
  BY <1>1, <1>2, <1>4, <1>5, Typed, TypedNext DEF agent, sockets, database
<1>7. ASSUME NEW j \in Instance PROVE Fades(j)
  <2>1. Absent <= row.takes /\ (spent["forgets"] = 0 => noted[j].take <= row.takes)
    BY <1>1, Typed DEF NeverForgotten, RowType, Absent
  <2>2. /\ spent["forgets"] = 0 => batch'[j].take <= row.takes \/ batch'[j].take = batch[j].take
        /\ batch'[j] = batch[j] \/ batch'[j].connected = rec[j].connected
    BY <1>1, <1>5, <2>1, BatchedFacts
  <2> QED
    BY <1>2, <1>4, <2>1, <2>2 DEF Fades, database
<1>8. \A j \in Instance : batch'[j].holder \in {batch[j].holder, held[j], NoLease}
  BY <1>1, <1>5, BatchedFacts
<1>9. Counted /\ spent'["leases"] = spent["leases"]
  BY <1>1, <1>2, UnspentFacts
<1> QED
  BY <1>2, <1>6, <1>7, <1>8, <1>9, Parts, StillStep DEF sockets, database

(* What a batch makes of the row.                                          *)
LEMMA BatchRowFacts ==
  ASSUME PresenceTypeOK, NEW b, b.holder \in Lease \cup {NoLease}, b.quiet \in BOOLEAN,
         b.connected \in BOOLEAN
  PROVE  LET r == BatchRow(b) IN
         /\ r \in RowType /\ r.stored = row.stored /\ r.data = row.data
         /\ row.takes <= r.takes /\ (~row.stored => r.takes = row.takes)
         /\ \/ b.connected /\ row.stored /\ Free(b) /\ r.holder = b.holder /\ r.connected
            \/ /\ ~b.connected /\ row.holder = b.holder /\ row.takes = b.take
               /\ r.holder = NoLease
            \/ r.holder = row.holder /\ r.connected = row.connected
<1> DEFINE r == BatchRow(b)
<1>1. row \in RowType /\ row.takes \in Nat /\ row.stored \in BOOLEAN /\ row.quiet \in BOOLEAN
  BY Typed DEF RowType
<1>2. b.holder \in Lease \cup {NoLease} /\ b.quiet \in BOOLEAN /\ b.connected \in BOOLEAN
  OBVIOUS
<1>3. CASE b.connected /\ row.stored /\ Free(b)
  <2> DEFINE t == IF row.holder = b.holder THEN row.takes ELSE row.takes + 1
             u == [row EXCEPT !.holder = b.holder]
             w == [u EXCEPT !.connected = TRUE, !.takes = t, !.quiet = row.quiet /\ b.quiet]
  <2>1. t \in Nat /\ row.takes <= t
    BY <1>1
  <2>2. u \in RowType /\ u.stored = row.stored /\ u.data = row.data /\ u.holder = b.holder
    BY <1>1, <1>2 DEF RowType
  <2>3. r = w
    BY <1>3, Zenon DEF BatchRow
  <2> HIDE DEF u, t
  <2>4. /\ w \in RowType /\ w.stored = u.stored /\ w.data = u.data /\ w.holder = u.holder
        /\ w.connected = TRUE /\ w.takes = t
    BY <1>1, <1>2, <2>1, <2>2 DEF RowType
  <2> QED
    BY <1>3, <2>1, <2>2, <2>3, <2>4
<1>4. CASE b.connected /\ ~(row.stored /\ Free(b))
  <2>1. r = row
    BY <1>4 DEF BatchRow
  <2> QED
    BY <1>1, <2>1
<1>5. CASE ~b.connected /\ row.stored /\ row.holder = b.holder /\ row.takes = b.take
  <2> DEFINE u == [row EXCEPT !.holder = NoLease]
             w == [u EXCEPT !.connected = FALSE, !.quiet = row.quiet /\ b.quiet]
  <2>1. /\ u \in RowType /\ u.stored = row.stored /\ u.data = row.data /\ u.holder = NoLease
        /\ u.takes = row.takes
    BY <1>1, <1>2 DEF RowType
  <2>2. r = w
    BY <1>5, Zenon DEF BatchRow
  <2> HIDE DEF u
  <2>3. /\ w \in RowType /\ w.stored = u.stored /\ w.data = u.data /\ w.holder = u.holder
        /\ w.takes = u.takes
    BY <1>1, <1>2, <2>1 DEF RowType
  <2>4. /\ r \in RowType /\ r.stored = row.stored /\ r.data = row.data /\ r.holder = NoLease
        /\ r.takes = row.takes
    BY <2>1, <2>2, <2>3
  <2> HIDE DEF r, w
  <2>5. row.takes <= r.takes
    BY <1>1, <2>4
  <2> QED
    BY <1>5, <2>4, <2>5 DEF r
<1>6. CASE ~b.connected /\ ~(row.stored /\ row.holder = b.holder /\ row.takes = b.take)
  <2>1. r = [row EXCEPT !.quiet = row.quiet /\ b.quiet]
    BY <1>6 DEF BatchRow
  <2>2. /\ r \in RowType /\ r.stored = row.stored /\ r.data = row.data /\ r.holder = row.holder
        /\ r.takes = row.takes /\ r.connected = row.connected
    BY <1>1, <1>2, <2>1 DEF RowType
  <2> QED
    BY <1>1, <2>2
<1> QED
  BY <1>2, <1>3, <1>4, <1>5, <1>6

(* A batch takes the row from no instance that carries the Agent.          *)
LEMMA BatchStep ==
  ASSUME PresenceInv, CarrierIsHolder, PresenceTypeOK', Counted,
         NEW i \in Instance, NEW b \in BatchType, row' = BatchRow(b),
         \A j \in Instance : /\ spent["forgets"] = 0 /\ Carries(j)' => Carries(j)
                             /\ held'[j] \in {held[j], NoLease} /\ under'[j] = under[j]
                             /\ hear'[j] = hear[j] \/ held'[j] = NoLease,
         \A j \in Instance : held[j] # NoLease /\ held[j] = b.holder => j = i,
         /\ spent["fails"] = 0 /\ spent["forgets"] = 0 /\ ~b.connected
         /\ Carries(i)' /\ held'[i] # NoLease /\ under'[i] = held'[i]
         => b.take # row.takes
  PROVE  RowSound' /\ CarrierIsHolder' /\ row.takes <= row'.takes /\ row'.stored = row.stored
<1>1. PresenceTypeOK /\ RowSound /\ \A j \in Instance : held[j] # NoLease => held[j] \in leases
  BY Parts
<1>2. b.holder \in Lease \cup {NoLease} /\ b.quiet \in BOOLEAN /\ b.connected \in BOOLEAN
  BY DEF BatchType
<1>3. /\ row'.stored = row.stored /\ row'.data = row.data /\ row.takes <= row'.takes
      /\ ~row.stored => row'.takes = row.takes
      /\ \/ b.connected /\ row.stored /\ Free(b) /\ row'.holder = b.holder /\ row'.connected
         \/ /\ ~b.connected /\ row.holder = b.holder /\ row.takes = b.take
            /\ row'.holder = NoLease
         \/ row'.holder = row.holder /\ row'.connected = row.connected
  BY <1>1, <1>2, BatchRowFacts
<1>4. RowSound'
  BY <1>1, <1>3 DEF RowSound
<1>5. ASSUME NEW j \in Instance, Carries(j)', held'[j] # NoLease, under'[j] = held'[j],
             hear'[j] = {}, spent'["fails"] = 0, spent'["forgets"] = 0
      PROVE  row'.holder = held'[j]
  <2>1. spent["fails"] = 0 /\ spent["forgets"] = 0
    BY <1>1, <1>5, StillZero, Words
  <2>2. /\ Carries(j) /\ held'[j] = held[j] /\ held[j] # NoLease /\ hear[j] = {}
        /\ held[j] \in leases /\ under[j] = held[j]
    BY <1>1, <1>5, <2>1
  <2>3. row.holder = held[j]
    BY <2>1, <2>2 DEF CarrierIsHolder
  <2>4. CASE b.connected /\ row.stored /\ Free(b) /\ row'.holder = b.holder
    BY <2>2, <2>3, <2>4 DEF Free
  <2>5. CASE /\ ~b.connected /\ row.holder = b.holder /\ row.takes = b.take
    BY <1>5, <2>1, <2>2, <2>3, <2>5
  <2>6. CASE row'.holder = row.holder
    BY <2>2, <2>3, <2>6
  <2> QED
    BY <1>3, <2>4, <2>5, <2>6
<1>6. CarrierIsHolder'
  <2>1. ASSUME NEW j \in Instance, held'[j] # NoLease, row'.holder = held'[j]
        PROVE  row'.stored /\ row'.connected
    BY <1>4, <2>1 DEF RowSound
  <2> QED
    BY <1>5, <2>1 DEF CarrierIsHolder
<1> QED
  BY <1>3, <1>4, <1>6

LEMMA BatchCallFacts ==
  ASSUME PresenceTypeOK, NEW i \in Instance, NEW b \in BatchType
  PROVE  BatchCall(i, b) \in CallType
<1>1. /\ b.holder \in Lease \cup {NoLease} /\ b.quiet \in BOOLEAN /\ b.connected \in BOOLEAN
      /\ b.take \in Nat \cup {Absent}
  BY DEF BatchType
<1>2. Call("batch", i, b.holder) \in CallType
  BY <1>1, CallFacts DEF Absent
<1>3. \A call \in CallType :
        [call EXCEPT !.take = b.take, !.connected = b.connected, !.quiet = b.quiet] \in CallType
  BY <1>1 DEF CallType
<1> QED
  BY <1>2, <1>3 DEF BatchCall

LEMMA WriteBatchKeeps ==
  ASSUME PresenceInv, CarrierIsHolder, NEW i \in Instance, WriteBatch(i)
  PROVE  Kept
<1> DEFINE b == batch[i]
<1>1. /\ PresenceTypeOK /\ CarriedOverOpenSocket /\ LeasesApart /\ SocketsServed
      /\ RowSound /\ NeverForgotten /\ DisconnectIsStale
      /\ \A j \in Instance : /\ stage[j] = "down" => held[j] = NoLease
                             /\ held[j] # NoLease => held[j] \in leases
  BY Parts
<1>2. /\ b.step = "read"
      /\ UNCHANGED <<agent, sockets, stage, held, under, memory, hear, leases>>
  BY DEF WriteBatch, serving
<1>3. /\ b \in BatchType /\ row \in RowType /\ row.takes \in Nat
      /\ b.holder \in Lease \cup {NoLease} /\ b.quiet \in BOOLEAN /\ b.connected \in BOOLEAN
  BY <1>1, Typed DEF RowType, BatchType
<1>4. CASE /\ row' = BatchRow(b) /\ UNCHANGED <<astray, spent>>
           /\ batch' = [batch EXCEPT ![i].step = "written", ![i].take = BatchTake(batch[i])]
  <2>1. /\ row' \in RowType /\ row.takes <= row'.takes /\ row'.takes \in Nat
    BY <1>1, <1>3, <1>4, BatchRowFacts DEF RowType
  <2>2. BatchTake(b) \in Nat \cup {Absent} /\ BatchTake(b) <= row'.takes
    BY <1>4, <2>1 DEF BatchTake, Absent
  <2>3. /\ batch' \in [Instance -> BatchType]
        /\ \A j \in Instance \ {i} : batch'[j] = batch[j]
        /\ batch'[i].step = "written" /\ batch'[i].take = BatchTake(b) /\ batch'[i].holder = b.holder
    BY <1>1, <1>3, <1>4, <2>2, Typed DEF BatchType
  <2>4. spent' \in [Bounded -> Nat] /\ Counted /\ \A w \in Bounded : spent'[w] = spent[w]
    BY <1>1, <1>4, UnspentFacts
  <2>5. PresenceTypeOK'
    BY <1>1, <1>2, <1>4, <2>1, <2>3, <2>4, Typed, TypedNext DEF agent, sockets, memory
  <2>6. LeasesApart' /\ SocketsServed'
    <3>1. \A j \in Instance : batch'[j].holder \in {batch[j].holder, held[j], NoLease}
      BY <2>3
    <3> QED
      BY <1>1, <1>2, <2>4, <2>5, <3>1, LeasesStep, SocketsStep, Words DEF sockets, memory
  <2>7. \A j \in Instance : held[j] # NoLease /\ held[j] = b.holder => j = i
    BY <1>1 DEF LeasesApart
  <2>8. /\ spent["fails"] = 0 /\ spent["forgets"] = 0 /\ ~b.connected
        /\ Carries(i)' /\ held'[i] # NoLease /\ under'[i] = held'[i]
        => b.take # row.takes
    BY <1>1, <1>2, <1>3 DEF DisconnectIsStale, memory, sockets, Carries, BatchType, Absent
  <2>9. RowSound' /\ CarrierIsHolder' /\ row'.stored = row.stored
    <3>1. \A j \in Instance : Carries(j)' => Carries(j)
      BY <1>2 DEF Carries, memory, sockets
    <3> QED
      BY <1>2, <1>3, <1>4, <2>4, <2>5, <2>7, <2>8, <3>1, BatchStep
  <2>10. CarriedOverOpenSocket'
    BY <1>1, <1>2, <1>4 DEF CarriedOverOpenSocket, memory, sockets
  <2>11. NeverForgotten'
    <3> SUFFICES ASSUME spent["forgets"] = 0 PROVE NeverForgotten'
      BY <1>4 DEF NeverForgotten
    <3>1. ASSUME NEW j \in Instance
          PROVE  batch'[j].take <= row'.takes /\ noted'[j].take <= row'.takes
      <4>1. /\ batch[j].take <= row.takes /\ noted[j].take <= row.takes
            /\ batch[j].take \in Int /\ noted[j].take \in Int
        BY <1>1, Typed DEF NeverForgotten, BatchType, NotedType, Absent
      <4>2. batch'[j].take = batch[j].take \/ batch'[j].take = BatchTake(b)
        BY <2>3
      <4> QED
        BY <1>2, <1>3, <2>1, <2>2, <4>1, <4>2 DEF memory
    <3> QED
      BY <1>1, <1>2, <2>9, <3>1 DEF NeverForgotten, memory, sockets
  <2>12. DisconnectIsStale'
    <3> SUFFICES ASSUME NEW j \in Instance, spent["fails"] = 0, spent["forgets"] = 0,
                        batch'[j].step = "read", ~batch'[j].connected, Carries(j),
                        held[j] # NoLease, under[j] = held[j]
                 PROVE  batch'[j].take < row'.takes
      BY <1>2, <1>4 DEF DisconnectIsStale, Carries, memory, sockets
    <3>1. j # i /\ batch'[j] = batch[j]
      BY <2>3
    <3>2. batch[j].take < row.takes /\ batch[j].take \in Int
      BY <1>1, <3>1, Typed DEF DisconnectIsStale, BatchType, Absent
    <3> QED
      BY <1>3, <2>1, <3>1, <3>2
  <2>13. spent'["fails"] = 0 => astray' = {}
    BY <1>4, <2>4, <2>5, AstrayStep
  <2> QED
    BY <2>5, <2>6, <2>9, <2>10, <2>11, <2>12, <2>13, Assembled
<1>5. CASE /\ batch' = [batch EXCEPT ![i] = NoBatch] /\ Spend("fails") /\ UNCHANGED row
           /\ astray' = astray \cup {BatchCall(i, batch[i])}
  <2>1. /\ spent' \in [Bounded -> Nat] /\ Counted /\ spent'["leases"] = spent["leases"]
        /\ spent'["fails"] # 0
    BY <1>1, <1>5, SpendFacts, Typed, Words DEF Faults
  <2>2. /\ batch' \in [Instance -> BatchType]
        /\ \A j \in Instance : batch'[j] = batch[j] \/ batch'[j] = NoBatch
    BY <1>1, <1>5, Shapes, Typed
  <2>3. PresenceTypeOK'
    <3>1. astray' \subseteq CallType
      BY <1>1, <1>3, <1>5, BatchCallFacts, Typed
    <3> QED
      BY <1>1, <1>2, <1>5, <2>1, <2>2, <3>1, Typed, TypedNext DEF agent, sockets, memory
  <2>4. ASSUME NEW j \in Instance PROVE Fades(j)
    <3>1. Absent <= row.takes
      BY <1>3 DEF Absent
    <3>2. /\ batch'[j].take <= row.takes \/ batch'[j].take = batch[j].take
          /\ batch'[j].step = "read" => batch'[j] = batch[j]
      BY <2>2, <3>1, Shapes
    <3> QED
      BY <1>2, <3>2 DEF Fades, memory
  <2>5. \A j \in Instance : batch'[j].holder \in {batch[j].holder, held[j], NoLease}
    BY <2>2, Shapes
  <2> QED
    BY <1>1, <1>2, <1>5, <2>1, <2>3, <2>4, <2>5, StillStep DEF sockets
<1> QED
  BY <1>4, <1>5 DEF WriteBatch

LEMMA BatchAnsweredKeeps ==
  ASSUME PresenceInv, CarrierIsHolder, NEW i \in Instance, BatchAnswered(i)
  PROVE  Kept
<1> DEFINE b == batch[i]
           n == Under(noted[i], b.holder)
           t == IF b.take > n.take THEN b.take ELSE n.take
           m == [n EXCEPT !.known = TRUE, !.connected = b.connected, !.current = b.current, !.take = t]
<1>1. PresenceTypeOK /\ NeverForgotten
  BY Parts
<1>2. /\ b.step = "written" /\ noted' = [noted EXCEPT ![i] = m] /\ batch' = [batch EXCEPT ![i] = NoBatch]
      /\ UNCHANGED <<agent, sockets, stage, held, under, rec, written, hear, database, spent>>
  BY DEF BatchAnswered, serving
<1>3. /\ b \in BatchType /\ b.take \in Nat \cup {Absent} /\ b.connected \in BOOLEAN
      /\ b.current \in BOOLEAN /\ b.holder \in Lease \cup {NoLease}
  BY <1>1, Typed DEF BatchType
<1>4. n \in NotedType /\ n.take \in {noted[i].take, Absent} /\ n.take \in Nat \cup {Absent}
  BY <1>1, <1>3, NotedFacts DEF NotedType
<1>5. t \in Nat \cup {Absent} /\ t \in {b.take, n.take}
  BY <1>3, <1>4
<1> HIDE DEF n, t
<1>6. m \in NotedType /\ m.take = t
  BY <1>3, <1>4, <1>5 DEF NotedType
<1> HIDE DEF m
<1>7. /\ noted' \in [Instance -> NotedType] /\ noted'[i].take = t
      /\ \A j \in Instance \ {i} : noted'[j] = noted[j]
  BY <1>1, <1>2, <1>6, Typed
<1>8. /\ batch' \in [Instance -> BatchType]
      /\ \A j \in Instance : batch'[j] = batch[j] \/ batch'[j] = NoBatch
  BY <1>1, <1>2, Shapes, Typed
<1>9. PresenceTypeOK'
  BY <1>1, <1>2, <1>7, <1>8, Typed, TypedNext DEF agent, sockets, database
<1>10. ASSUME NEW j \in Instance PROVE Fades(j)
  <2>1. Absent <= row.takes
    BY <1>1, Typed DEF RowType, Absent
  <2>2. /\ batch'[j].take <= row.takes \/ batch'[j].take = batch[j].take
        /\ batch'[j].step = "read" => batch'[j] = batch[j]
    BY <1>8, <2>1, Shapes
  <2>3. spent["forgets"] = 0 => noted'[j].take <= row.takes
    BY <1>1, <1>4, <1>5, <1>7, <2>1 DEF NeverForgotten
  <2> QED
    BY <1>2, <2>2, <2>3 DEF Fades, database
<1>11. \A j \in Instance : batch'[j].holder \in {batch[j].holder, held[j], NoLease}
  BY <1>8, Shapes
<1>12. Counted /\ spent'["leases"] = spent["leases"]
  BY <1>1, <1>2, UnspentFacts
<1> QED
  BY <1>2, <1>9, <1>10, <1>11, <1>12, Parts, StillStep DEF sockets, database

-------------------------------------------------------------------------------
(* What other instances announce, and forgetting                           *)

LEMMA DroppedFacts ==
  ASSUME PresenceTypeOK, NEW i \in Instance, Dropped(i)
  PROVE  /\ rec' \in [Instance -> RecType] /\ written' \in [Instance -> Nat \cup {Absent}]
         /\ noted' \in [Instance -> NotedType] /\ ended' \subseteq Conn
         /\ \A j \in Instance : RecOK(rec'[j])
<1>1. Unnoted(i) \in NotedType
  BY Constants, NotedFacts DEF NoLease
<1>2. rec[i].owner \in Conn \cup {NoConn}
  BY Typed DEF RecType
<1> QED
  BY <1>1, <1>2, Typed, Shapes DEF Dropped

(* A forgetting is announced only once something was forgotten.            *)
LEMMA TakeUpKeeps ==
  ASSUME PresenceInv, CarrierIsHolder, NEW i \in Instance, TakeUp(i)
  PROVE  Kept
<1> USE Parts
<1>1. /\ "agent" \in hear[i] /\ hear' = [hear EXCEPT ![i] = @ \ {"agent"}]
      /\ Dropped(i) \/ UNCHANGED <<memory, ended>>
      /\ UNCHANGED <<agent, conn, stage, held, under, batch, database, spent>>
  BY DEF TakeUp, serving
<1>2. hear' \in [Instance -> SUBSET {"agent", "taken"}]
  BY <1>1, Typed
<1>3. PresenceTypeOK'
  <2>1. CASE Dropped(i)
    BY <1>1, <1>2, <2>1, DroppedFacts, Typed, TypedNext DEF agent, database
  <2>2. CASE UNCHANGED <<memory, ended>>
    BY <1>1, <1>2, <2>2, Typed, TypedNext DEF agent, database, memory
  <2> QED
    BY <1>1, <2>1, <2>2
<1>4. LeasesApart' /\ SocketsServed' /\ RowSound'
  <2>1. \A j \in Instance : rec'[j].owner = rec[j].owner \/ rec'[j].owner = NoConn
    BY <1>1, Typed, Shapes DEF Dropped, memory
  <2> QED
    BY <1>1, <1>3, <2>1, LeasesStep, SocketsStep, UnspentFacts DEF database
<1>5. spent'["forgets"] # 0
  BY <1>1 DEF NeverForgotten
<1> QED
  BY <1>1, <1>3, <1>4, <1>5, Forgotten DEF database

LEMMA ForgetKeeps ==
  ASSUME PresenceInv, CarrierIsHolder, NEW i \in Instance, Forget(i)
  PROVE  Kept
<1> USE Parts
<1>1. /\ Spend("forgets") /\ Dropped(i)
      /\ UNCHANGED <<agent, conn, stage, held, under, batch, leases, astray>>
      /\ \/ row' = NoRow /\ Announce(i, "agent")
         \/ UNCHANGED <<row, hear>>
  BY DEF Forget, serving
<1>2. /\ spent' \in [Bounded -> Nat] /\ Counted /\ spent'["leases"] = spent["leases"]
      /\ spent'["forgets"] = spent["forgets"] + 1 /\ spent["forgets"] \in Nat
  BY <1>1, SpendFacts, Words, Typed DEF Faults
<1>3. hear' \in [Instance -> SUBSET {"agent", "taken"}] /\ row' \in RowType
  <2>1. CASE row' = NoRow /\ Announce(i, "agent")
    BY <2>1, AnnounceFacts, Shapes
  <2>2. CASE UNCHANGED <<row, hear>>
    BY <2>2, Typed
  <2> QED
    BY <1>1, <2>1, <2>2
<1>4. PresenceTypeOK'
  BY <1>1, <1>2, <1>3, DroppedFacts, Typed, TypedNext DEF agent
<1>5. LeasesApart' /\ SocketsServed'
  <2>1. \A j \in Instance : rec'[j].owner = rec[j].owner \/ rec'[j].owner = NoConn
    BY <1>1, Typed, Shapes DEF Dropped
  <2> QED
    BY <1>1, <1>2, <1>4, <2>1, LeasesStep, SocketsStep
<1>6. RowSound'
  BY <1>1, Shapes DEF RowSound
<1>7. spent'["fails"] = 0 => astray' = {}
  BY <1>1, <1>2, <1>4, AstrayStep
<1> QED
  BY <1>2, <1>4, <1>5, <1>6, <1>7, Forgotten

LEMMA ReleaseTakenKeeps ==
  ASSUME PresenceInv, CarrierIsHolder, NEW i \in Instance, ReleaseTaken(i)
  PROVE  Kept
<1>1. PresenceTypeOK /\ NeverForgotten /\ RowSound
  BY Parts
<1>2. /\ "taken" \in hear[i] /\ hear' = [hear EXCEPT ![i] = @ \ {"taken"}]
      /\ UNCHANGED <<agent, sockets, stage, held, under, written, batch, database, spent>>
  BY DEF ReleaseTaken, serving
<1>3. /\ hear' \in [Instance -> SUBSET {"agent", "taken"}]
      /\ \A j \in Instance \ {i} : hear'[j] = hear[j]
      /\ hear'[i] \subseteq hear[i]
  BY <1>1, <1>2, Typed
<1>4. Counted /\ spent' \in [Bounded -> Nat] /\ spent'["leases"] = spent["leases"]
  BY <1>1, <1>2, UnspentFacts
<1>5. CASE held[i] # NoLease /\ rec[i].connected /\ row.stored /\ row.holder # held[i]
  <2>1. /\ rec' = [rec EXCEPT ![i].connected = FALSE, ![i].owner = NoConn]
        /\ noted' = IF noted[i].holder = held[i]
                    THEN [noted EXCEPT ![i].known = TRUE, ![i].connected = FALSE,
                                       ![i].current = TRUE]
                    ELSE noted
    BY <1>5 DEF ReleaseTaken
  <2>2. /\ rec' \in [Instance -> RecType] /\ \A j \in Instance \ {i} : rec'[j] = rec[j]
        /\ rec'[i].connected = FALSE /\ rec'[i].owner = NoConn /\ rec'[i].known = rec[i].known
    <3> DEFINE r == [rec[i] EXCEPT !.connected = FALSE, !.owner = NoConn]
    <3>1. rec' = [rec EXCEPT ![i] = r] /\ rec \in [Instance -> RecType] /\ rec[i] \in RecType
      BY <1>1, <2>1, Typed, Zenon
    <3>2. r \in RecType /\ r.connected = FALSE /\ r.owner = NoConn /\ r.known = rec[i].known
      BY <3>1 DEF RecType
    <3> HIDE DEF r
    <3> QED
      BY <3>1, <3>2
  <2>3. /\ noted' \in [Instance -> NotedType]
        /\ \A j \in Instance : noted'[j].take = noted[j].take
    <3> DEFINE n == [noted[i] EXCEPT !.known = TRUE, !.connected = FALSE, !.current = TRUE]
    <3>1. noted \in [Instance -> NotedType] /\ noted[i] \in NotedType
      BY <1>1, Typed
    <3>2. noted' = [noted EXCEPT ![i] = n] \/ noted' = noted
      BY <2>1, <3>1, Zenon
    <3>3. n \in NotedType /\ n.take = noted[i].take
      BY <3>1 DEF NotedType
    <3> HIDE DEF n
    <3> QED
      BY <3>1, <3>2, <3>3
  <2>4. \A j \in Instance : RecOK(rec'[j])
    BY <1>1, <2>2, Typed DEF RecOK
  <2>5. PresenceTypeOK'
    BY <1>1, <1>2, <1>3, <1>4, <2>2, <2>3, <2>4, Typed, TypedNext DEF agent, sockets, database
  <2>6. \A j \in Instance : Fades(j)
    BY <1>2, <1>3, <2>2, <2>3 DEF Fades
  <2> QED
    BY <1>2, <1>4, <2>5, <2>6, Parts, StillStep DEF sockets, database
<1>6. CASE ~(held[i] # NoLease /\ rec[i].connected /\ row.stored /\ row.holder # held[i])
  <2>1. UNCHANGED <<rec, noted>>
    BY <1>6 DEF ReleaseTaken
  <2>2. PresenceTypeOK'
    BY <1>1, <1>2, <1>3, <1>4, <2>1, Typed, TypedNext DEF agent, sockets, database
  <2>3. CASE spent["forgets"] # 0
    <3>1. LeasesApart' /\ SocketsServed' /\ RowSound'
      BY <1>2, <1>4, <2>1, <2>2, Parts, LeasesStep, SocketsStep DEF sockets, database
    <3> QED
      BY <1>2, <2>2, <2>3, <3>1, Parts, Forgotten DEF database
  <2>4. CASE spent["forgets"] = 0
    <3>1. \/ ~rec[i].connected \/ held[i] = NoLease
          \/ row.stored /\ row.connected /\ row.holder = held[i]
      <4>1. rec[i].connected => row.stored
        BY <1>1, <2>4, Typed DEF NeverForgotten, RecOK
      <4> QED
        BY <1>1, <1>6, <4>1 DEF RowSound
    <3>2. \A j \in Instance : Fades(j)
      BY <1>2, <1>3, <2>1, <3>1 DEF Fades
    <3> QED
      BY <1>2, <1>4, <2>1, <2>2, <3>2, Parts, StillStep DEF sockets, database
  <2> QED
    BY <2>3, <2>4
<1> QED
  BY <1>5, <1>6

-------------------------------------------------------------------------------
(* The instances come and go                                               *)

LEMMA TakeLeaseKeeps ==
  ASSUME PresenceInv, CarrierIsHolder, NEW i \in Instance, TakeLease(i)
  PROVE  Kept
<1> DEFINE l == NextLease
<1>1. /\ PresenceTypeOK /\ CarriedOverOpenSocket /\ LeasesApart /\ SocketsServed
      /\ RowSound /\ NeverForgotten /\ DisconnectIsStale
      /\ UNCHANGED row => RowSound'
      /\ \A j \in Instance : /\ stage[j] = "down" => held[j] = NoLease
                             /\ held[j] # NoLease => held[j] \in leases
  BY Parts
<1>2. /\ stage[i] # "down" /\ held[i] = NoLease /\ Spend("leases")
      /\ held' = [held EXCEPT ![i] = l] /\ leases' = leases \cup {l}
      /\ UNCHANGED <<agent, sockets, stage, under, memory, batch, hear, row, astray>>
  BY DEF TakeLease
<1>3. /\ spent' \in [Bounded -> Nat] /\ Counted /\ spent'["leases"] = spent["leases"] + 1
      /\ spent["leases"] \in Nat /\ Allowed("leases")
  BY <1>1, <1>2, SpendFacts, Words, Typed DEF Faults
<1>4. l \in Lease /\ l \in Nat /\ l # NoLease /\ NextLease' = l + 1
  <2>1. PICK limit \in Limits : spent["leases"] < limit["leases"]
    BY <1>3 DEF Allowed
  <2>2. limit["leases"] \in Nat /\ Cardinality(Instance) \in Nat
    BY Words, LimitsAssumption, Constants
  <2>3. l \in 1 .. Cardinality(Instance) + limit["leases"]
    BY <1>3, <2>1, <2>2 DEF NextLease
  <2> QED
    BY <1>3, <2>2, <2>3 DEF Lease, NextLease, NoLease
<1> HIDE DEF l
<1>5. /\ held' \in [Instance -> Lease \cup {NoLease}] /\ held'[i] = l
      /\ \A j \in Instance \ {i} : held'[j] = held[j]
  BY <1>1, <1>2, <1>4, Typed
<1>6. PresenceTypeOK'
  BY <1>1, <1>2, <1>3, <1>4, <1>5, Typed, TypedNext DEF agent, sockets, memory
<1>7. LeasesApart'
  <2>1. /\ \A j \in Instance : /\ batch[j].holder < l /\ batch[j].holder \in Nat
                               /\ under[j] < l /\ under[j] \in Nat
                               /\ held[j] # NoLease => held[j] < l /\ held[j] \in Nat
        /\ \A k \in leases : k < l /\ k \in Nat
    <3>1. /\ \A j \in Instance : /\ batch[j].holder < l /\ under[j] < l
                                 /\ held[j] # NoLease => held[j] \in leases
          /\ \A k \in leases : k < l
      BY <1>1 DEF LeasesApart, l
    <3>2. \A j \in Instance : batch[j].holder \in Nat /\ under[j] \in Nat
      <4>1. \A j \in Instance : /\ batch[j].holder \in Lease \cup {NoLease}
                                /\ under[j] \in Lease \cup {NoLease}
        BY <1>1, Typed DEF BatchType
      <4>2. Lease \subseteq Nat /\ NoLease \in Nat
        BY Constants DEF NoLease
      <4> QED
        BY <4>1, <4>2
    <3>3. \A k \in leases : k \in Nat
      BY <1>1, Typed, Constants
    <3> QED
      BY <3>1, <3>2, <3>3
  <2>2. ASSUME NEW j \in Instance
        PROVE  /\ held'[j] # NoLease => held'[j] \in leases'
               /\ batch'[j].holder < l + 1 /\ under'[j] < l + 1
               /\ stage'[j] = "down" => held'[j] = NoLease
    BY <1>1, <1>2, <1>4, <1>5, <2>1
  <2>3. \A k \in leases' : k < l + 1
    BY <1>2, <1>4, <2>1
  <2>4. ASSUME NEW j \in Instance, NEW k \in Instance,
               held'[k] # NoLease /\ held'[k] \in {held'[j], batch'[j].holder}
        PROVE  j = k
    <3>1. CASE k = i
      <4>1. held'[k] = l /\ l # batch[j].holder /\ (j # i => held[j] # l)
        BY <1>4, <1>5, <2>1, <3>1
      <4> QED
        BY <1>2, <1>5, <2>4, <3>1, <4>1
    <3>2. CASE k # i
      <4>1. held'[k] = held[k] /\ held[k] # l
        BY <1>4, <1>5, <2>1, <2>4, <3>2
      <4>2. held[k] \in {held[j], batch[j].holder}
        BY <1>2, <1>5, <2>4, <4>1
      <4> QED
        BY <1>1, <2>4, <4>1, <4>2 DEF LeasesApart
    <3> QED
      BY <3>1, <3>2
  <2>5. \A j \in Instance : /\ held'[j] # NoLease => held'[j] \in leases'
                            /\ batch'[j].holder < NextLease' /\ under'[j] < NextLease'
                            /\ stage'[j] = "down" => held'[j] = NoLease
    BY <1>4, <2>2
  <2> QED
    BY <1>4, <2>3, <2>4, <2>5 DEF LeasesApart
<1>8. SocketsServed'
  BY <1>1, <1>2, <1>3, <1>6, SocketsStep DEF sockets, memory
<1>9. /\ spent'["forgets"] = spent["forgets"] /\ spent'["aborts"] = spent["aborts"]
      /\ spent'["fails"] = 0 => astray' = {}
  BY <1>1, <1>2, <1>3, <1>6, SpendFacts, AstrayStep, Words DEF Faults
<1>10. CASE spent["forgets"] # 0
  BY <1>1, <1>2, <1>6, <1>7, <1>8, <1>9, <1>10, Forgotten
<1>11. CASE spent["forgets"] = 0
  <2>1. under[i] # l
    <3>1. under[i] < l /\ under[i] \in Lease \cup {NoLease}
      BY <1>1, Typed DEF LeasesApart, l
    <3> QED
      BY <1>4, <3>1, Constants DEF NoLease
  <2>2. \A j \in Instance : Fades(j)
    BY <1>2, <1>5, <2>1 DEF Fades, memory
  <2>3. ASSUME NEW j \in Instance PROVE Carried(j)
    BY <1>2, <1>9, <1>11, OwnerFacts DEF Carried, memory, sockets
  <2>4. NeverForgotten' /\ CarriedOverOpenSocket' /\ DisconnectIsStale' /\ CarrierIsHolder'
    BY <1>1, <1>2, <1>3, <1>6, <2>2, <2>3, FadingStep DEF sockets
  <2> QED
    BY <1>1, <1>2, <1>6, <1>7, <1>8, <1>9, <2>4, Assembled
<1> QED
  BY <1>10, <1>11

LEMMA LapseKeeps ==
  ASSUME PresenceInv, CarrierIsHolder, Lapse
  PROVE  Kept
<1>1. PresenceTypeOK /\ \A i \in Instance : held[i] # NoLease => held[i] \in leases
  BY Parts
<1>2. PICK l \in leases : (\A i \in Instance : held[i] # l) /\ leases' = leases \ {l}
  BY DEF Lapse, serving
<1>3. UNCHANGED <<agent, sockets, stage, held, under, memory, batch, hear, row, astray, spent>>
  BY DEF Lapse, serving
<1>4. PresenceTypeOK'
  BY <1>1, <1>2, <1>3, Typed, TypedNext DEF agent, sockets, memory
<1>5. \A i \in Instance : Fades(i) /\ (held[i] # NoLease => held[i] \in leases')
  BY <1>1, <1>2, <1>3 DEF Fades, memory
<1>6. Counted /\ spent'["leases"] = spent["leases"]
  BY <1>1, <1>3, UnspentFacts
<1> QED
  BY <1>2, <1>3, <1>4, <1>5, <1>6, StillStep DEF sockets

(* What a call that was given up on makes of the row.                      *)
LEMMA LandedFacts ==
  ASSUME PresenceTypeOK, RowSound, NEW call \in CallType
  PROVE  LET r == Landed(call) IN
         /\ r \in RowType /\ (row.stored => r.stored) /\ row.takes <= r.takes
         /\ r.holder # NoLease => r.stored /\ r.connected
         /\ ~r.stored => r.data = Absent /\ r.takes = 0
         /\ call.kind = "flush" => /\ r.stored = row.stored /\ r.holder = row.holder
                                   /\ r.takes = row.takes /\ r.connected = row.connected
                                   /\ ~row.stored => r.data = row.data
         /\ \/ call.kind \in {"write", "flush"} \/ r.data = row.data
            \/ ~row.stored /\ r.data = 0
<1> DEFINE r == Landed(call)
<1>1. /\ call.kind \in {"create", "take", "write", "flush", "batch"}
      /\ call.holder \in Lease \cup {NoLease} /\ call.take \in Nat \cup {Absent}
      /\ call.connected \in BOOLEAN /\ call.quiet \in BOOLEAN /\ call.data \in Nat \cup {Absent}
  BY DEF CallType
<1>2. /\ row \in RowType /\ row.takes \in Nat /\ row.stored \in BOOLEAN /\ row.quiet \in BOOLEAN
      /\ row.holder # NoLease => row.stored /\ row.connected
      /\ ~row.stored => row.data = Absent /\ row.takes = 0
  BY Typed DEF RowType, RowSound
<1>3. CASE call.kind = "create"
  <2> DEFINE new == [NewRow EXCEPT !.quiet = call.quiet]
  <2>1. r = IF row.stored THEN row ELSE new
    BY <1>3 DEF Landed
  <2>2. /\ new \in RowType /\ new.stored = TRUE /\ new.takes = 0 /\ new.data = 0
        /\ new.holder = NoLease
    BY <1>1, Shapes DEF NewRow, NoRow, RowType
  <2> HIDE DEF new
  <2> QED
    BY <1>2, <1>3, <2>1, <2>2
<1>4. CASE call.kind = "take"
  <2> DEFINE t == Taken(row, call.holder)
             u == [t EXCEPT !.quiet = row.quiet /\ call.quiet]
  <2>1. r = IF row.stored THEN u ELSE row
    BY <1>4 DEF Landed
  <2>2. /\ t \in RowType /\ t.stored = row.stored /\ t.connected = TRUE /\ t.takes = row.takes + 1
    BY <1>1, <1>2, TakenFacts
  <2>3. t.data = row.data
    BY <1>2 DEF Taken, RowType
  <2> HIDE DEF t
  <2>4. /\ u \in RowType /\ u.stored = t.stored /\ u.connected = t.connected
        /\ u.takes = t.takes /\ u.data = t.data
    BY <1>1, <1>2, <2>2 DEF RowType
  <2> HIDE DEF u
  <2> QED
    BY <1>2, <1>4, <2>1, <2>2, <2>3, <2>4
<1>5. CASE call.kind \in {"write", "flush"}
  <2> DEFINE u == [row EXCEPT !.data = call.data, !.quiet = row.quiet /\ call.quiet]
  <2>1. r = row \/ (row.stored /\ r = u)
    BY <1>5 DEF Landed, MayFlush
  <2>2. /\ u \in RowType /\ u.stored = row.stored /\ u.connected = row.connected
        /\ u.takes = row.takes /\ u.holder = row.holder
    BY <1>1, <1>2 DEF RowType
  <2> HIDE DEF u
  <2> QED
    BY <1>2, <1>5, <2>1, <2>2
<1>6. CASE call.kind = "batch"
  <2>1. r = BatchRow(call)
    BY <1>6 DEF Landed
  <2>2. /\ r \in RowType /\ r.stored = row.stored /\ r.data = row.data
        /\ row.takes <= r.takes /\ (~row.stored => r.takes = row.takes)
        /\ \/ row.stored /\ r.connected
           \/ r.holder = NoLease
           \/ r.holder = row.holder /\ r.connected = row.connected
    BY <1>1, <2>1, BatchRowFacts
  <2> HIDE DEF r
  <2> QED
    BY <1>2, <1>6, <2>2 DEF r
<1> QED
  BY <1>1, <1>3, <1>4, <1>5, <1>6

LEMMA LandKeeps ==
  ASSUME PresenceInv, CarrierIsHolder, NEW call \in astray, Land(call)
  PROVE  Kept
<1>1. /\ PresenceTypeOK /\ CarriedOverOpenSocket /\ LeasesApart /\ SocketsServed
      /\ RowSound /\ NeverForgotten /\ spent["fails"] # 0
      /\ \A j \in Instance : /\ stage[j] = "down" => held[j] = NoLease
                             /\ held[j] # NoLease => held[j] \in leases
  BY Parts
<1>2. PICK what \in {"landed writes", "landed"} : Spend(what)
  BY DEF Land
<1>3. /\ row' = Landed(call) /\ astray' = astray \ {call}
      /\ Announce(call.by, "taken") \/ UNCHANGED hear
      /\ UNCHANGED <<agent, sockets, stage, held, under, memory, batch, leases>>
  BY DEF Land, serving
<1>4. /\ spent' \in [Bounded -> Nat] /\ Counted /\ spent'["leases"] = spent["leases"]
      /\ spent'["fails"] # 0 /\ spent'["forgets"] = spent["forgets"]
      /\ spent'["aborts"] = spent["aborts"]
  BY <1>1, <1>2, SpendFacts, Words DEF Faults
<1>5. call \in CallType
  BY <1>1, Typed
<1>6. /\ row' \in RowType /\ (row.stored => row'.stored) /\ row.takes <= row'.takes
      /\ row'.holder # NoLease => row'.stored /\ row'.connected
      /\ ~row'.stored => row'.data = Absent /\ row'.takes = 0
  BY <1>1, <1>3, <1>5, LandedFacts
<1>7. /\ hear' \in [Instance -> SUBSET {"agent", "taken"}]
      /\ \A j \in Instance : hear'[j] \subseteq hear[j] \cup {"taken"}
  <2>1. CASE Announce(call.by, "taken")
    BY <1>1, <2>1, AnnounceFacts
  <2>2. CASE UNCHANGED hear
    BY <1>1, <2>2, Typed
  <2> QED
    BY <1>3, <2>1, <2>2
<1>8. PresenceTypeOK'
  BY <1>1, <1>3, <1>4, <1>6, <1>7, Typed, TypedNext DEF agent, sockets, memory
<1>9. LeasesApart' /\ SocketsServed' /\ RowSound'
  BY <1>1, <1>3, <1>4, <1>6, <1>8, LeasesStep, SocketsStep DEF sockets, memory, RowSound
<1>10. CarriedOverOpenSocket'
  BY <1>1, <1>3, <1>4 DEF CarriedOverOpenSocket, memory, sockets
<1>11. NeverForgotten'
  <2> SUFFICES ASSUME spent["forgets"] = 0 PROVE NeverForgotten'
    BY <1>4 DEF NeverForgotten
  <2>1. ASSUME NEW j \in Instance
        PROVE  batch[j].take <= row'.takes /\ noted[j].take <= row'.takes
    <3>1. batch[j].take <= row.takes /\ noted[j].take <= row.takes
      BY <1>1 DEF NeverForgotten
    <3>2. batch[j].take \in Nat \cup {Absent} /\ noted[j].take \in Nat \cup {Absent}
      BY <1>1, Typed DEF BatchType, NotedType
    <3>3. row.takes \in Nat /\ row'.takes \in Nat
      BY <1>1, <1>6, Typed DEF RowType
    <3>4. row.takes <= row'.takes
      BY <1>6
    <3> QED
      BY <3>1, <3>2, <3>3, <3>4, Order, Zenon
  <2> QED
    BY <1>1, <1>3, <1>6, <1>7, <2>1 DEF NeverForgotten, memory, sockets
<1>12. DisconnectIsStale' /\ CarrierIsHolder'
  BY <1>4 DEF DisconnectIsStale, CarrierIsHolder
<1> QED
  BY <1>4, <1>8, <1>9, <1>10, <1>11, <1>12, Assembled

LEMMA FlushKeeps ==
  ASSUME PresenceInv, CarrierIsHolder, NEW i \in Instance, Flush(i)
  PROVE  Kept
<1> DEFINE call == FlushCall(i)
<1>1. PresenceTypeOK /\ RowSound
  BY Parts
<1>2. /\ stage[i] = "drained" /\ stage' = [stage EXCEPT ![i] = "flushed"]
      /\ \/ row' \in {row, Landed(call)} /\ UNCHANGED <<astray, spent>>
         \/ Spend("fails") /\ astray' = astray \cup {call} /\ UNCHANGED row
      /\ UNCHANGED <<agent, sockets, held, under, memory, batch, hear, leases>>
  BY DEF Flush, serving
<1>3. call \in CallType /\ call.kind = "flush"
  <2>1. /\ held[i] \in Lease \cup {NoLease} /\ rec[i].data \in Nat \cup {Absent}
        /\ rec[i].quiet \in BOOLEAN /\ noted[i].take \in Nat \cup {Absent}
    BY <1>1, Typed DEF RecType, NotedType
  <2> DEFINE t == IF noted[i].holder = held[i] THEN noted[i].take ELSE Absent
             f == Call("flush", i, held[i])
  <2>2. t \in Nat \cup {Absent}
    BY <2>1
  <2>3. f \in CallType /\ f.kind = "flush"
    BY <1>1, <2>1, CallFacts DEF Call
  <2>4. call = [f EXCEPT !.take = t, !.data = rec[i].data, !.quiet = rec[i].quiet]
    BY Zenon DEF FlushCall
  <2> HIDE DEF t, f
  <2> QED
    BY <2>1, <2>2, <2>3, <2>4 DEF CallType
<1> HIDE DEF call
<1>4. /\ row' \in RowType /\ row'.holder = row.holder /\ row'.takes = row.takes
      /\ row'.stored = row.stored /\ row'.connected = row.connected
      /\ ~row.stored => row'.data = row.data
  BY <1>1, <1>2, <1>3, LandedFacts, Typed
<1>5. /\ stage' \in [Instance -> Stage] /\ stage'[i] = "flushed"
      /\ \A j \in Instance \ {i} : stage'[j] = stage[j]
  BY <1>1, <1>2, Typed DEF Stage
<1>6. /\ Counted /\ spent' \in [Bounded -> Nat] /\ spent'["leases"] = spent["leases"]
      /\ astray' = astray \/ spent'["fails"] # 0
  <2>1. spent["fails"] \in Nat
    BY <1>1, Typed, Words
  <2> QED
    BY <1>1, <1>2, <2>1, UnspentFacts, SpendFacts, Words DEF Faults
<1>7. PresenceTypeOK'
  BY <1>1, <1>2, <1>3, <1>4, <1>5, <1>6, Typed, TypedNext DEF agent, sockets, memory
<1>8. \A j \in Instance : Fades(j)
  BY <1>2 DEF Fades, memory
<1> QED
  BY <1>2, <1>4, <1>5, <1>6, <1>7, <1>8, Parts, StillStep DEF sockets, Open

(* The last batch of an instance that carries nothing any more.            *)
LEMMA LeaveKeeps ==
  ASSUME PresenceInv, CarrierIsHolder, NEW i \in Instance, Leave(i)
  PROVE  Kept
<1> DEFINE b == Batched(i)
<1>1. /\ PresenceTypeOK /\ CarriedOverOpenSocket /\ LeasesApart /\ SocketsServed
      /\ RowSound /\ NeverForgotten /\ DisconnectIsStale
      /\ UNCHANGED row => RowSound'
      /\ \A j \in Instance : /\ stage[j] = "down" => held[j] = NoLease
                             /\ held[j] # NoLease => held[j] \in leases
  BY Parts
<1>2. /\ stage[i] = "flushed" /\ leases' = leases \ {held[i]} /\ Gone(i)
      /\ row' = row \/ row' = BatchRow(b)
      /\ \/ astray' = Orphaned(i, astray) /\ UNCHANGED spent
         \/ astray' = Orphaned(i, astray \cup {BatchCall(i, b)}) /\ Spend("fails")
      /\ UNCHANGED <<agent, sockets>>
  BY DEF Leave
<1>3. /\ stage'[i] = "down" /\ held'[i] = NoLease /\ rec'[i] = NoRecord /\ under' = under
      /\ batch'[i] = NoBatch /\ noted'[i] = NothingNoted /\ hear'[i] = {}
      /\ \A j \in Instance \ {i} :
            /\ stage'[j] = stage[j] /\ held'[j] = held[j] /\ rec'[j] = rec[j]
            /\ batch'[j] = batch[j] /\ noted'[j] = noted[j] /\ hear'[j] = hear[j]
  BY <1>1, <1>2, GoneFacts
<1>4. /\ b \in BatchType /\ b.holder = held[i] /\ b.holder \in Lease \cup {NoLease}
      /\ b.quiet \in BOOLEAN /\ b.connected \in BOOLEAN
  BY <1>1, BatchedFacts DEF BatchType
<1> HIDE DEF b
<1>5. row' \in RowType /\ row \in RowType
  BY <1>1, <1>2, <1>4, BatchRowFacts, Typed
<1>6. /\ Counted /\ spent' \in [Bounded -> Nat] /\ spent'["leases"] = spent["leases"]
      /\ spent'["forgets"] = spent["forgets"] /\ spent'["aborts"] = spent["aborts"]
      /\ astray' \subseteq CallType /\ (astray = {} /\ spent'["fails"] = 0 => astray' = {})
  <2>1. CASE astray' = Orphaned(i, astray) /\ UNCHANGED spent
    BY <1>1, <2>1, OrphanedFacts, UnspentFacts, Typed, Words
  <2>2. CASE astray' = Orphaned(i, astray \cup {BatchCall(i, b)}) /\ Spend("fails")
    <3>1. astray \cup {BatchCall(i, b)} \in SUBSET CallType /\ spent["fails"] \in Nat
      BY <1>1, <1>4, BatchCallFacts, Typed, Words
    <3> QED
      BY <1>1, <2>2, <3>1, OrphanedFacts, SpendFacts, Words DEF Faults
  <2> QED
    BY <1>2, <2>1, <2>2
<1>7. PresenceTypeOK'
  BY <1>1, <1>2, <1>5, <1>6, GoneFacts, Typed, TypedNext DEF agent, sockets
<1>8. LeasesApart'
  <2>1. ASSUME NEW j \in Instance
        PROVE  /\ held'[j] \in {held[j], NoLease}
               /\ held'[j] # NoLease => held'[j] \in leases'
               /\ stage'[j] = "down" => held'[j] = NoLease
               /\ batch'[j].holder \in {batch[j].holder, held[j], NoLease}
               /\ under'[j] \in {under[j], held[j]}
    <3>1. CASE j = i
      BY <1>3, <3>1, Shapes
    <3>2. CASE j # i
      <4>1. held[j] # NoLease => held[j] # held[i]
        BY <1>1, <3>2 DEF LeasesApart
      <4> QED
        BY <1>1, <1>2, <1>3, <3>2, <4>1
    <3> QED
      BY <3>1, <3>2
  <2> QED
    BY <1>1, <1>2, <1>6, <1>7, <2>1, LeasesStep, Words
<1>9. SocketsServed'
  <2>1. ASSUME NEW c \in Conn, conn'[c].open
        PROVE  /\ conn[c].open /\ conn'[c].at = conn[c].at
               /\ stage'[conn[c].at] = stage[conn[c].at]
    <3>1. conn[c].open /\ conn[c].at \in Instance /\ stage[conn[c].at] \in Open
      BY <1>1, <1>2, <2>1, Typed DEF SocketsServed, sockets, ConnType, Open
    <3> QED
      BY <1>2, <1>3, <3>1 DEF sockets, Open
  <2>2. \A j \in Instance : rec'[j].owner = rec[j].owner \/ rec'[j].owner = NoConn
    BY <1>3, Shapes
  <2> QED
    BY <1>1, <1>6, <1>7, <2>1, <2>2, SocketsStep
<1>10. /\ RowSound' /\ CarrierIsHolder' /\ row'.stored = row.stored /\ row.takes <= row'.takes
  <2>1. ASSUME NEW j \in Instance
        PROVE  /\ Carries(j)' => Carries(j)
               /\ held'[j] \in {held[j], NoLease} /\ under'[j] = under[j]
               /\ hear'[j] = hear[j] \/ held'[j] = NoLease
    BY <1>2, <1>3, Shapes DEF Carries, sockets
  <2>2. CASE row' = BatchRow(b)
    <3>1. \A j \in Instance : held[j] # NoLease /\ held[j] = b.holder => j = i
      BY <1>1, <1>4 DEF LeasesApart
    <3> QED
      BY <1>2, <1>3, <1>4, <1>6, <1>7, <2>1, <2>2, <3>1, BatchStep
  <2>3. CASE row' = row
    <3>1. row.takes \in Nat
      BY <1>5 DEF RowType
    <3>2. ASSUME NEW j \in Instance, Carries(j)', held'[j] # NoLease, under'[j] = held'[j],
                 hear'[j] = {}, spent'["fails"] = 0, spent'["forgets"] = 0
          PROVE  row.stored /\ row.connected /\ row.holder = held'[j]
      <4>1. spent["fails"] = 0 /\ spent["forgets"] = 0
        BY <1>1, <1>6, <1>7, <3>2, StillZero, Words
      <4> QED
        BY <1>3, <2>1, <3>2, <4>1 DEF CarrierIsHolder
    <3>3. CarrierIsHolder'
      BY <2>3, <3>2 DEF CarrierIsHolder
    <3> QED
      BY <1>1, <2>3, <3>1, <3>3
  <2> QED
    BY <1>2, <2>2, <2>3
<1>11. CarriedOverOpenSocket'
  BY <1>1, <1>2, <1>3, <1>6, Shapes DEF CarriedOverOpenSocket, sockets
<1>12. row.takes \in Nat /\ row'.takes \in Nat
  BY <1>5 DEF RowType
<1>13. NeverForgotten'
  <2> SUFFICES ASSUME spent["forgets"] = 0 PROVE NeverForgotten'
    BY <1>6 DEF NeverForgotten
  <2>1. ASSUME NEW j \in Instance
        PROVE  /\ "agent" \notin hear'[j]
               /\ rec'[j].known => row'.stored
               /\ batch'[j].take <= row'.takes /\ noted'[j].take <= row'.takes
    <3>1. CASE j = i
      BY <1>3, <1>12, <3>1, Shapes DEF Absent
    <3>2. CASE j # i
      <4>1. /\ batch[j].take <= row.takes /\ noted[j].take <= row.takes
            /\ batch[j].take \in Int /\ noted[j].take \in Int
        BY <1>1, Typed DEF NeverForgotten, BatchType, NotedType, Absent
      <4> QED
        BY <1>1, <1>2, <1>3, <1>10, <1>12, <3>2, <4>1 DEF NeverForgotten, sockets
    <3> QED
      BY <3>1, <3>2
  <2> QED
    BY <1>1, <1>2, <1>10, <2>1 DEF NeverForgotten, sockets
<1>14. DisconnectIsStale'
  <2> SUFFICES ASSUME NEW j \in Instance, spent'["fails"] = 0, spent'["forgets"] = 0,
                      batch'[j].step = "read", ~batch'[j].connected, Carries(j)',
                      held'[j] # NoLease, under'[j] = held'[j]
               PROVE  batch'[j].take < row'.takes
    BY DEF DisconnectIsStale
  <2>1. /\ j # i /\ batch'[j] = batch[j] /\ held[j] # NoLease /\ under[j] = held[j] /\ Carries(j)
        /\ spent["fails"] = 0 /\ spent["forgets"] = 0
    <3>1. Carries(j)' => Carries(j)
      BY <1>2, <1>3, Shapes DEF Carries, sockets
    <3> QED
      BY <1>1, <1>3, <1>6, <1>7, <3>1, StillZero, Words
  <2>2. batch[j].take < row.takes /\ batch[j].take \in Int
    BY <1>1, <2>1, Typed DEF DisconnectIsStale, BatchType, Absent
  <2> QED
    BY <1>10, <1>12, <2>1, <2>2
<1>15. spent'["fails"] = 0 => astray' = {}
  BY <1>6, <1>7, AstrayStep
<1> QED
  BY <1>7, <1>8, <1>9, <1>10, <1>11, <1>13, <1>14, <1>15, Assembled

-------------------------------------------------------------------------------
(* Every step                                                              *)

LEMMA PresenceNext ==
  ASSUME PresenceInv, CarrierIsHolder, [Next]_vars
  PROVE  Kept
<1>1. CASE UNCHANGED vars
  BY <1>1 DEF vars, agent, sockets, serving, memory, database, Carries, Kept, PresenceInv, PresenceTypeOK,
              CarriedOverOpenSocket, LeasesApart, SocketsServed, RowSound, NeverForgotten,
              DisconnectIsStale, CarrierIsHolder, NextLease
<1>2. CASE Agent
  BY <1>2, ConnectKeeps, ReportKeeps, ChangeKeeps, FallQuietKeeps DEF Agent
<1>3. CASE Socket
  BY <1>3, HoldFromStoreKeeps, OnMessageKeeps, OnClosedKeeps, EndSessionKeeps DEF Socket
<1>4. CASE Server
  <2>1. PICK i \in Instance :
          \/ ReadBatch(i) \/ WriteBatch(i) \/ BatchAnswered(i) \/ TakeUp(i)
          \/ ReleaseTaken(i) \/ Forget(i) \/ LoseLease(i) \/ TakeLease(i)
          \/ Cut(i) \/ Bind(i) \/ OpenPlanes(i)
          \/ Stop(i) \/ Drained(i) \/ Flush(i) \/ Leave(i) \/ Crash(i) \/ Start(i)
    BY <1>4 DEF Server
  <2> QED
    BY <2>1, ReadBatchKeeps, WriteBatchKeeps, BatchAnsweredKeeps, TakeUpKeeps,
       ReleaseTakenKeeps, ForgetKeeps, LoseLeaseKeeps, TakeLeaseKeeps, CutKeeps,
       OpenPlanesKeeps, StopKeeps, FlushKeeps, LeaveKeeps, CrashKeeps, StartKeeps
<1>5. CASE Lapse \/ \E call \in astray : Land(call)
  BY <1>5, LapseKeeps, LandKeeps
<1> QED
  BY <1>1, <1>2, <1>3, <1>4, <1>5 DEF Next

(* What the instances, the sockets and the row say of an Agent fits        *)
(* together in every behaviour: a lease, and a batch read under it, are one *)
(* instance's; sockets are open only to an instance whose planes are; a    *)
(* record is carried over an open socket of its instance until something is *)
(* forgotten or a session was aborted; and a disconnect on its way to the   *)
(* row of an Agent that is carried again was read under an earlier take    *)
(* (write_presence, mark_disconnected, release_taken, on_closed).          *)
THEOREM PresenceInvariant == Spec => []PresenceInv
<1>1. Init => PresenceInv /\ CarrierIsHolder
  BY PresenceInit
<1>2. PresenceInv /\ CarrierIsHolder /\ [Next]_vars => (PresenceInv /\ CarrierIsHolder)'
  BY PresenceNext DEF Kept
<1> QED
  BY <1>1, <1>2, PTL DEF Spec

(* While no call fails and nothing is forgotten, the instance that carries  *)
(* an Agent over a socket admitted under the lease it holds, and has taken *)
(* up every announcement, is the one its row names: for any number of      *)
(* instances, sockets, moves, stops, crashes, lost leases and aborted      *)
(* sessions no batch, take or disconnect of another instance leaves the row *)
(* without it, and no two instances carry it so (write_connected,          *)
(* write_presence, release_taken).                                         *)
THEOREM CarrierHolds == Spec => []CarrierIsHolder
<1>1. Init => PresenceInv /\ CarrierIsHolder
  BY PresenceInit
<1>2. PresenceInv /\ CarrierIsHolder /\ [Next]_vars => (PresenceInv /\ CarrierIsHolder)'
  BY PresenceNext DEF Kept
<1> QED
  BY <1>1, <1>2, PTL DEF Spec

-------------------------------------------------------------------------------
(* What the row holds                                                      *)

(* Nothing happened after which an older content may reach the row.        *)
Undisturbed ==
  /\ spent["late"] = 0 /\ spent["stops"] = 0 /\ spent["forgets"] = 0
  /\ spent["landed writes"] = 0

Stopping == {"draining", "drained", "flushed"}
NoFlush(calls) == \A call \in calls : call.kind # "flush"

(* Until an instance stops, a report is read late, the Agent is forgotten   *)
(* or a write that was given up on lands, only the socket the Agent uses    *)
(* has a report on its way; what an instance wrote or read is no newer than *)
(* the row, and the row no newer than that report and than what was last    *)
(* heard over that socket.                                                 *)
ContentAdvances ==
  Undisturbed =>
  /\ row.data <= content /\ NoFlush(astray)
  /\ \A c \in Conn : /\ conn[c].read <= row.data
                     /\ conn[c].mail # Absent =>
                           c = live /\ row.data <= conn[c].mail /\ conn[c].mail <= content
  /\ \A i \in Instance :
        /\ written[i] <= row.data /\ stage[i] \notin Stopping
        /\ rec[i].connected /\ rec[i].owner = live => row.data <= rec[i].data

LEMMA StillUndisturbed ==
  ASSUME PresenceTypeOK, PresenceTypeOK', Counted, Undisturbed'
  PROVE  Undisturbed
  BY StillZero, Words DEF Undisturbed

(* The numbers the contents are.                                           *)
LEMMA ContentTypes ==
  ASSUME PresenceTypeOK
  PROVE  /\ content \in Nat /\ row.data \in Nat \cup {Absent}
         /\ \A c \in Conn : /\ conn[c].mail \in Nat \cup {Absent}
                            /\ conn[c].read \in Nat \cup {Absent, Unread}
         /\ \A i \in Instance : /\ written[i] \in Nat \cup {Absent}
                                /\ rec[i].data \in Nat \cup {Absent}
                                /\ rec[i].owner \in Conn \cup {NoConn}
                                /\ stage[i] \in Stage
         /\ \A w \in Bounded : spent[w] \in Nat
  BY Typed DEF ConnType, RecType, RowType

(* A step that writes no content: reports are lost, sockets close and       *)
(* records go.                                                             *)
LEMMA ContentStep ==
  ASSUME PresenceInv, PresenceTypeOK', ContentAdvances, Counted, content' = content,
         Undisturbed' =>
         /\ row'.data = row.data /\ live' \in {live, NoConn}
         /\ NoFlush(astray) => NoFlush(astray')
         /\ \A c \in Conn : /\ conn'[c].read \in {conn[c].read, Unread}
                            /\ conn'[c].mail = Absent
                               \/ (conn'[c].mail = conn[c].mail /\ live' = live)
                               \/ (conn'[c].mail = conn[c].mail /\ c # live)
         /\ \A i \in Instance :
               /\ written'[i] \in {written[i], Absent}
               /\ stage'[i] = stage[i] \/ stage'[i] \notin Stopping
               /\ rec'[i].connected => /\ rec[i].connected /\ rec'[i].data = rec[i].data
                                       /\ rec'[i].owner = rec[i].owner
  PROVE  ContentAdvances'
<1>1. PresenceTypeOK
  BY Parts
<1> SUFFICES ASSUME Undisturbed'
             PROVE  ContentAdvances'
  BY DEF ContentAdvances
<1>2. Undisturbed /\ spent["forgets"] = 0
  BY <1>1, StillUndisturbed DEF Undisturbed
<1>3. /\ row'.data <= content' /\ NoFlush(astray')
      /\ \A c \in Conn : conn'[c].read <= row'.data
  BY <1>1, <1>2, ContentTypes DEF ContentAdvances, Absent, Unread
<1>4. ASSUME NEW c \in Conn, conn'[c].mail # Absent
      PROVE  c = live' /\ row'.data <= conn'[c].mail /\ conn'[c].mail <= content'
  BY <1>1, <1>2, <1>4 DEF ContentAdvances
<1>5. ASSUME NEW i \in Instance
      PROVE  /\ written'[i] <= row'.data /\ stage'[i] \notin Stopping
             /\ rec'[i].connected /\ rec'[i].owner = live' => row'.data <= rec'[i].data
  <2>1. written'[i] <= row'.data /\ stage'[i] \notin Stopping
    BY <1>1, <1>2, ContentTypes DEF ContentAdvances, Absent
  <2>2. rec'[i].connected => rec[i].owner # NoConn
    BY <1>2, OwnerFacts
  <2>3. ASSUME rec'[i].connected, rec'[i].owner = live'
        PROVE  row'.data <= rec'[i].data
    BY <1>2, <2>2, <2>3 DEF ContentAdvances
  <2> QED
    BY <2>1, <2>3
<1> QED
  BY <1>3, <1>4, <1>5 DEF ContentAdvances

LEMMA ContentInit == Init => ContentAdvances
<1> SUFFICES ASSUME Init PROVE ContentAdvances
  OBVIOUS
<1>1. /\ content = 1 /\ live = NoConn /\ row.data = Absent
      /\ \A c \in Conn : conn[c] = Closed
      /\ \A i \in Instance : written[i] = Absent /\ rec[i] = NoRecord /\ stage[i] = "up"
      /\ astray = {}
  BY Shapes DEF Init
<1> QED
  BY <1>1, Shapes DEF ContentAdvances, NoFlush, Stopping, Absent, Unread, NoConn

(* What closing sockets leaves.                                            *)
LEMMA ContentClosed ==
  ASSUME PresenceTypeOK, NEW C \in SUBSET Conn, CloseAll(C)
  PROVE  /\ live' \in {live, NoConn}
         /\ \A c \in Conn : /\ conn'[c].read \in {conn[c].read, Unread}
                            /\ conn'[c].mail = Absent
                               \/ (conn'[c].mail = conn[c].mail /\ live' = live)
                               \/ (conn'[c].mail = conn[c].mail /\ c # live)
<1>1. conn \in [Conn -> ConnType]
  BY Typed
<1> QED
  BY <1>1, Shapes DEF CloseAll

LEMMA ContentDisconnected ==
  ASSUME PresenceTypeOK, NEW i \in Instance, NEW C \in SUBSET Conn,
         rec' = [rec EXCEPT ![i] = Disconnected(i, C)]
  PROVE  \A j \in Instance : rec'[j].connected =>
            /\ rec[j].connected /\ rec'[j].data = rec[j].data /\ rec'[j].owner = rec[j].owner
<1>1. rec \in [Instance -> RecType]
  BY Typed
<1>2. Disconnected(i, C).connected => Disconnected(i, C) = rec[i]
  BY <1>1 DEF Disconnected, RecType
<1> QED
  BY <1>1, <1>2

(* The steps that write no content.                                        *)
LEMMA ContentAgent ==
  ASSUME PresenceInv, PresenceTypeOK', ContentAdvances, FallQuiet
  PROVE  ContentAdvances'
<1>1. PresenceTypeOK
  BY Parts
<1>2. /\ Spend("quiets")
      /\ rec' = [i \in Instance |-> [rec[i] EXCEPT !.quiet = @ \/ rec[i].known]]
      /\ row' = [row EXCEPT !.quiet = row.stored]
      /\ astray' = {[call EXCEPT !.quiet = TRUE] : call \in astray}
      /\ UNCHANGED <<agent, sockets, stage, written>>
  BY DEF FallQuiet
<1>3. Counted
  BY <1>1, <1>2, SpendFacts DEF Faults
<1>4. row'.data = row.data
  BY <1>1, <1>2, Typed DEF RowType
<1>5. \A i \in Instance : /\ rec'[i].connected = rec[i].connected
                          /\ rec'[i].data = rec[i].data /\ rec'[i].owner = rec[i].owner
  BY <1>1, <1>2, Typed DEF RecType
<1>6. NoFlush(astray) => NoFlush(astray')
  <2>1. \A call \in CallType : [call EXCEPT !.quiet = TRUE].kind = call.kind
    BY DEF CallType
  <2>2. astray \subseteq CallType
    BY <1>1, Typed
  <2> QED
    BY <1>2, <2>1, <2>2, Zenon DEF NoFlush
<1> QED
  BY <1>2, <1>3, <1>4, <1>5, <1>6, ContentStep DEF agent, sockets

(* A report that is handled without being taken into a record.             *)
LEMMA ContentHandled ==
  ASSUME PresenceInv, PresenceTypeOK', ContentAdvances, NEW c \in Conn, Counted,
         conn' = Handled(c), live' \in {live, NoConn}, live' # live => c = live,
         NoFlush(astray) => NoFlush(astray'), UNCHANGED <<content, stage, memory, row>>
  PROVE  ContentAdvances'
<1>1. conn' = [conn EXCEPT ![c].mail = Absent, ![c].read = Unread] /\ conn \in [Conn -> ConnType]
  BY Parts, Typed DEF Handled
<1>2. \A d \in Conn : /\ conn'[d].read \in {conn[d].read, Unread}
                      /\ conn'[d].mail = IF d = c THEN Absent ELSE conn[d].mail
  BY <1>1 DEF ConnType
<1>3. \A d \in Conn : \/ conn'[d].mail = Absent
                      \/ conn'[d].mail = conn[d].mail /\ live' = live
                      \/ conn'[d].mail = conn[d].mail /\ d # live
  BY <1>2
<1> QED
  BY <1>2, <1>3, ContentStep DEF memory

LEMMA ContentRekey ==
  ASSUME PresenceInv, PresenceTypeOK', ContentAdvances, NEW c \in Conn, Rekey(c)
  PROVE  ContentAdvances'
<1>1. /\ conn' = Handled(c) /\ live' = (IF c = live THEN NoConn ELSE live)
      /\ UNCHANGED <<content, stage, memory, database, spent>>
  BY DEF Rekey
<1>2. Counted
  BY <1>1, Parts, UnspentFacts
<1> QED
  BY <1>1, <1>2, ContentHandled DEF database

LEMMA ContentCreateFails ==
  ASSUME PresenceInv, PresenceTypeOK', ContentAdvances, NEW c \in Conn, CreateFails(c),
         Spend("fails")
  PROVE  ContentAdvances'
<1>1. /\ conn' = Handled(c) /\ astray' = astray \cup {Call("create", conn[c].at, NoLease)}
      /\ UNCHANGED <<agent, stage, memory, row>>
  BY DEF CreateFails
<1>2. Counted
  BY Parts, SpendFacts DEF Faults
<1>3. NoFlush(astray) => NoFlush(astray')
  BY <1>1 DEF NoFlush, Call
<1> QED
  BY <1>1, <1>2, <1>3, ContentHandled DEF agent

LEMMA ContentSocket ==
  ASSUME PresenceInv, PresenceTypeOK', ContentAdvances, NEW c \in Conn,
         OnClosed(c) \/ EndSession(c)
  PROVE  ContentAdvances'
<1>1. PresenceTypeOK
  BY Parts
<1>2. CASE OnClosed(c)
  <2> DEFINE i == conn[c].at
  <2>1. /\ CloseAll({c}) /\ rec' = [rec EXCEPT ![i] = Disconnected(i, {c})]
        /\ UNCHANGED <<content, stage, written, database, spent>>
    BY <1>2 DEF OnClosed
  <2>2. i \in Instance /\ {c} \in SUBSET Conn
    BY <1>1, Typed DEF ConnType
  <2> HIDE DEF i
  <2> QED
    BY <1>1, <2>1, <2>2, UnspentFacts, ContentClosed, ContentDisconnected, ContentStep DEF database
<1>3. CASE EndSession(c)
  <2>1. /\ conn' = [conn EXCEPT ![c].seen = FALSE]
        /\ UNCHANGED <<agent, stage, memory, database, spent>>
    BY <1>3 DEF EndSession
  <2>2. \A d \in Conn : conn'[d].mail = conn[d].mail /\ conn'[d].read = conn[d].read
    BY <1>1, <2>1, Typed DEF ConnType
  <2> QED
    BY <1>1, <2>1, <2>2, UnspentFacts, ContentStep DEF agent, memory, database
<1> QED
  BY <1>2, <1>3

LEMMA ContentServer ==
  ASSUME PresenceInv, PresenceTypeOK', ContentAdvances, NEW i \in Instance,
         \/ ReadBatch(i) \/ WriteBatch(i) \/ BatchAnswered(i) \/ TakeUp(i)
         \/ ReleaseTaken(i) \/ TakeLease(i) \/ LoseLease(i)
  PROVE  ContentAdvances'
<1>1. PresenceTypeOK
  BY Parts
<1>2. CASE ReadBatch(i) \/ BatchAnswered(i)
  BY <1>1, <1>2, UnspentFacts, ContentStep
     DEF ReadBatch, BatchAnswered, agent, sockets, database
<1>3. CASE WriteBatch(i)
  <2>1. UNCHANGED <<agent, sockets, stage, memory>>
    BY <1>3 DEF WriteBatch
  <2>2. row' = BatchRow(batch[i]) \/ row' = row
    BY <1>3 DEF WriteBatch
  <2>3. row'.data = row.data
    <3>1. /\ batch[i].holder \in Lease \cup {NoLease} /\ batch[i].quiet \in BOOLEAN
          /\ batch[i].connected \in BOOLEAN
      BY <1>1, Typed DEF BatchType
    <3> QED
      BY <1>1, <2>2, <3>1, BatchRowFacts
  <2>4. Counted
    BY <1>1, <1>3, UnspentFacts, SpendFacts DEF WriteBatch, Faults
  <2>5. NoFlush(astray) => NoFlush(astray')
    <3>1. BatchCall(i, batch[i]).kind = "batch"
      BY DEF BatchCall, Call
    <3> QED
      BY <1>3, <3>1 DEF WriteBatch, NoFlush
  <2> QED
    BY <2>1, <2>3, <2>4, <2>5, ContentStep DEF agent, sockets, memory
<1>4. CASE TakeUp(i)
  <2>1. spent["forgets"] # 0 /\ spent' = spent
    BY <1>4, Parts DEF TakeUp, NeverForgotten
  <2> QED
    BY <2>1 DEF ContentAdvances, Undisturbed
<1>5. CASE ReleaseTaken(i)
  <2>1. /\ rec' = rec \/ rec' = [rec EXCEPT ![i].connected = FALSE, ![i].owner = NoConn]
        /\ UNCHANGED <<agent, sockets, stage, written, database, spent>>
    BY <1>5 DEF ReleaseTaken
  <2>2. \A j \in Instance : rec'[j].connected => rec'[j] = rec[j]
    BY <1>1, <2>1, Typed DEF RecType
  <2> QED
    BY <1>1, <2>1, <2>2, UnspentFacts, ContentStep DEF agent, sockets, database
<1>6. CASE TakeLease(i) \/ LoseLease(i)
  <2>1. /\ Spend("leases") \/ Spend("losses")
        /\ UNCHANGED <<agent, sockets, stage, memory, row, astray>>
    BY <1>6 DEF TakeLease, LoseLease, database
  <2>2. Counted
    BY <1>1, <2>1, SpendFacts DEF Faults
  <2> QED
    BY <2>1, <2>2, ContentStep DEF agent, sockets, memory
<1> QED
  BY <1>2, <1>3, <1>4, <1>5, <1>6

LEMMA ContentPlanes ==
  ASSUME PresenceInv, PresenceTypeOK', ContentAdvances, NEW i \in Instance,
         Start(i) \/ Bind(i) \/ OpenPlanes(i) \/ Cut(i) \/ Drained(i)
  PROVE  ContentAdvances'
<1>1. PresenceTypeOK /\ At(i) \in SUBSET Conn
  BY Parts DEF At
<1>2. CASE Start(i) \/ Bind(i) \/ OpenPlanes(i)
  <2>1. PICK next \in {"waiting", "binding", "up"} : stage' = [stage EXCEPT ![i] = next]
    BY <1>2 DEF Start, Bind, OpenPlanes
  <2>2. UNCHANGED <<agent, sockets, memory, database, spent>>
    BY <1>2 DEF Start, Bind, OpenPlanes
  <2>3. \A j \in Instance : stage'[j] = stage[j] \/ stage'[j] \notin Stopping
    BY <1>1, <2>1, Typed DEF Stopping
  <2> QED
    BY <1>1, <2>2, <2>3, UnspentFacts, ContentStep DEF agent, sockets, memory, database
<1>3. CASE Cut(i)
  <2>1. /\ stage' = [stage EXCEPT ![i] = "waiting"] /\ CloseAll(At(i))
        /\ UNCHANGED spent \/ Spend("aborts")
        /\ UNCHANGED <<content, memory, database>>
    BY <1>3 DEF Cut, Abort
  <2>2. Counted
    BY <1>1, <2>1, UnspentFacts, SpendFacts DEF Faults
  <2>3. \A j \in Instance : stage'[j] = stage[j] \/ stage'[j] \notin Stopping
    BY <1>1, <2>1, Typed DEF Stopping
  <2> QED
    BY <1>1, <2>1, <2>2, <2>3, ContentClosed, ContentStep DEF memory, database
<1>4. CASE Drained(i)
  <2>1. stage[i] \in Stopping /\ (UNCHANGED spent \/ Spend("aborts"))
    BY <1>4 DEF Drained, Abort, Stopping
  <2>2. Counted
    BY <1>1, <2>1, UnspentFacts, SpendFacts DEF Faults
  <2> QED
    BY <1>1, <2>1, <2>2, StillUndisturbed DEF ContentAdvances
<1> QED
  BY <1>2, <1>3, <1>4

LEMMA ContentLeft ==
  ASSUME PresenceInv, PresenceTypeOK', ContentAdvances, NEW i \in Instance,
         \/ Crash(i) \/ Leave(i) \/ Flush(i) \/ Stop(i) \/ Forget(i)
  PROVE  ContentAdvances'
<1>1. PresenceTypeOK /\ At(i) \in SUBSET Conn
  BY Parts DEF At
<1>2. CASE Crash(i)
  <2>1. /\ Spend("crashes") /\ CloseAll(At(i)) /\ Gone(i) /\ astray' = Orphaned(i, astray)
        /\ UNCHANGED <<content, row>>
    BY <1>2 DEF Crash
  <2>2. Counted
    BY <1>1, <2>1, SpendFacts DEF Faults
  <2>3. \A j \in Instance : /\ written'[j] \in {written[j], Absent}
                            /\ stage'[j] = stage[j] \/ stage'[j] \notin Stopping
                            /\ rec'[j].connected => rec'[j] = rec[j]
    <3>1. \A j \in Instance : written'[j] \in {written[j], Absent}
      BY <1>1, <2>1, Typed DEF Gone
    <3> QED
      BY <1>1, <2>1, <3>1, GoneFacts, Shapes DEF Stopping
  <2>4. NoFlush(astray) => NoFlush(astray')
    <3>1. \A call \in CallType : [call EXCEPT !.by = IF @ = i THEN Nobody ELSE @].kind = call.kind
      BY DEF CallType
    <3>2. astray \subseteq CallType
      BY <1>1, Typed
    <3>3. ASSUME NoFlush(astray), NEW call \in astray'
          PROVE  call.kind # "flush"
      <4>1. PICK old \in astray : call = [old EXCEPT !.by = IF @ = i THEN Nobody ELSE @]
        BY <2>1, <3>3 DEF Orphaned
      <4>2. call.kind = old.kind
        BY <3>1, <3>2, <4>1
      <4> QED
        BY <3>3, <4>2 DEF NoFlush
    <3> QED
      BY <3>3 DEF NoFlush
  <2> QED
    BY <1>1, <2>1, <2>2, <2>3, <2>4, ContentClosed, ContentStep
<1>3. CASE Leave(i) \/ Flush(i)
  <2>1. stage[i] \in Stopping /\ (UNCHANGED spent \/ Spend("fails"))
    BY <1>3 DEF Leave, Flush, Stopping
  <2>2. Counted
    BY <1>1, <2>1, UnspentFacts, SpendFacts DEF Faults
  <2> QED
    BY <1>1, <2>1, <2>2, StillUndisturbed DEF ContentAdvances
<1>4. CASE Stop(i) \/ Forget(i)
  <2>1. Spend("stops") \/ Spend("forgets")
    BY <1>4 DEF Stop, Forget
  <2>2. spent'["stops"] # 0 \/ spent'["forgets"] # 0
    <3>1. spent["stops"] \in Nat /\ spent["forgets"] \in Nat
      BY <1>1, ContentTypes, Words
    <3> QED
      BY <1>1, <2>1, <3>1, SpendFacts DEF Faults
  <2> QED
    BY <2>2 DEF ContentAdvances, Undisturbed
<1> QED
  BY <1>2, <1>3, <1>4

(* A call that was given up on lands: of those that may put something      *)
(* older there, a write is counted and a flush is not on its way.          *)
LEMMA ContentLand ==
  ASSUME PresenceInv, PresenceTypeOK', ContentAdvances, NEW call \in astray, Land(call)
  PROVE  ContentAdvances'
<1>1. PresenceTypeOK /\ RowSound /\ call \in CallType
  BY Parts, Typed
<1>2. /\ Spend(IF call.kind = "write" THEN "landed writes" ELSE "landed")
      /\ row' = Landed(call) /\ astray' = astray \ {call}
      /\ UNCHANGED <<agent, sockets, stage, memory>>
  BY DEF Land
<1> SUFFICES ASSUME Undisturbed'
             PROVE  ContentAdvances'
  BY DEF ContentAdvances
<1>3. call.kind # "write"
  <2>1. ASSUME call.kind = "write" PROVE FALSE
    <3>1. Spend("landed writes")
      BY <1>2, <2>1
    <3>2. spent'["landed writes"] # 0
      BY <1>1, <3>1, SpendFacts DEF Faults
    <3> QED
      BY <3>2 DEF Undisturbed
  <2> QED
    BY <2>1
<1>4. Counted
  BY <1>1, <1>2, <1>3, SpendFacts DEF Faults
<1>5. Undisturbed /\ spent["forgets"] = 0
  BY <1>1, <1>4, StillUndisturbed DEF Undisturbed
<1>6. call.kind # "flush" /\ NoFlush(astray')
  BY <1>2, <1>5 DEF ContentAdvances, NoFlush
<1>7. row'.data = row.data \/ (~row.stored /\ row'.data = 0)
  BY <1>1, <1>2, <1>3, <1>6, LandedFacts
<1>8. CASE row'.data = row.data
  BY <1>2, <1>4, <1>6, <1>8, ContentStep DEF agent, sockets, memory
<1>9. CASE ~row.stored /\ row'.data = 0
  <2>1. row.data = Absent /\ \A i \in Instance : ~rec[i].known
    BY <1>5, <1>9, Parts DEF RowSound, NeverForgotten
  <2>2. \A i \in Instance : ~rec[i].connected
    BY <1>1, <2>1, Typed DEF RecOK
  <2>3. /\ \A c \in Conn : conn[c].read <= 0 /\ (conn[c].mail # Absent => 0 <= conn[c].mail)
        /\ \A i \in Instance : written[i] <= 0
        /\ 0 <= content
    BY <1>1, <1>5, <2>1, ContentTypes DEF ContentAdvances, Absent, Unread
  <2> QED
    BY <1>2, <1>5, <1>6, <1>9, <2>2, <2>3 DEF ContentAdvances, agent, sockets, memory
<1> QED
  BY <1>7, <1>8, <1>9

(* The Agent reports, changes, and opens another socket.                   *)
LEMMA ContentReport ==
  ASSUME PresenceInv, ContentAdvances, Report \/ Change
  PROVE  ContentAdvances'
<1>1. PresenceTypeOK
  BY Parts
<1>2. CASE Report
  <2>1. /\ live \in Conn /\ conn' = [conn EXCEPT ![live].mail = content]
        /\ UNCHANGED <<agent, ended, stage, held, under, memory, batch, hear, database, spent>>
    BY <1>1, <1>2, Typed DEF Report, serving
  <2>2. \A c \in Conn : /\ conn'[c].read = conn[c].read
                        /\ conn'[c].mail = IF c = live THEN content ELSE conn[c].mail
    BY <1>1, <2>1, Typed DEF ConnType
  <2>3. content <= content
    BY <1>1, ContentTypes
  <2> QED
    BY <2>1, <2>2, <2>3 DEF ContentAdvances, Undisturbed, agent, memory, database
<1>3. CASE Change
  <2>1. /\ content' = content + 1 /\ Spend("changes")
        /\ UNCHANGED <<live, parted, sockets, stage, held, under, memory, batch, hear, database>>
    BY <1>3 DEF Change, serving
  <2>2. /\ spent'["late"] = spent["late"] /\ spent'["stops"] = spent["stops"]
        /\ spent'["forgets"] = spent["forgets"]
        /\ spent'["landed writes"] = spent["landed writes"]
    BY <1>1, <2>1, SpendFacts, Words DEF Faults
  <2>3. \A v \in Nat \cup {Absent} : v <= content => v <= content'
    BY <1>1, <2>1, ContentTypes DEF Absent
  <2> QED
    BY <1>1, <2>1, <2>2, <2>3, ContentTypes DEF ContentAdvances, Undisturbed, sockets, memory, database
<1> QED
  BY <1>2, <1>3

LEMMA ContentConnect ==
  ASSUME PresenceInv, ContentAdvances, NEW i \in Instance, Connect(i)
  PROVE  ContentAdvances'
<1> DEFINE c == spent["conns"] + 1
           opened == [Closed EXCEPT !.at = i, !.open = TRUE, !.mail = content]
<1>1. PresenceTypeOK /\ conn \in [Conn -> ConnType]
  BY Parts, Typed
<1>2. /\ Allowed("conns") /\ live' = c
      /\ UNCHANGED <<content, parted, ended, stage, held, under, memory, batch, hear, database>>
      /\ \/ /\ spent' = [spent EXCEPT !["conns"] = c]
            /\ conn' = [d \in Conn |-> IF d = c THEN opened
                                       ELSE IF d = live THEN [conn[d] EXCEPT !.mail = Absent]
                                       ELSE conn[d]]
         \/ spent' = [spent EXCEPT !["conns"] = c, !["late"] = @ + 1, !["together"] = @ + 1]
  BY DEF Connect, serving
<1>3. c \in Conn /\ spent["conns"] \in Nat /\ spent["late"] \in Nat /\ spent \in [Bounded -> Nat]
  BY <1>1, <1>2, ConnsAllowed, ContentTypes, Words, Typed
<1>4. CASE spent' = [spent EXCEPT !["conns"] = c, !["late"] = @ + 1, !["together"] = @ + 1]
  <2>1. "late" \in Bounded /\ "late" # "together"
    BY DEF Bounded, Faults
  <2>2. spent'["late"] = spent["late"] + 1
    BY <1>3, <1>4, <2>1
  <2>3. spent'["late"] # 0
    BY <1>3, <2>2
  <2> QED
    BY <2>3 DEF ContentAdvances, Undisturbed
<1>5. CASE /\ spent' = [spent EXCEPT !["conns"] = c]
           /\ conn' = [d \in Conn |-> IF d = c THEN opened
                                      ELSE IF d = live THEN [conn[d] EXCEPT !.mail = Absent]
                                      ELSE conn[d]]
  <2> SUFFICES ASSUME Undisturbed'
               PROVE  ContentAdvances'
    BY DEF ContentAdvances
  <2>1. Undisturbed /\ spent["forgets"] = 0
    BY <1>3, <1>5, Words DEF Undisturbed
  <2>2. opened.read = Unread /\ opened.mail = content
    BY Shapes DEF Closed
  <2> HIDE DEF opened
  <2>3. \A d \in Conn : /\ conn'[d].read = IF d = c THEN Unread ELSE conn[d].read
                        /\ conn'[d].mail = IF d = c THEN content
                                           ELSE IF d = live THEN Absent ELSE conn[d].mail
    BY <1>1, <1>5, <2>2 DEF ConnType
  <2>4. \A j \in Instance : rec[j].connected => rec[j].owner # c
    <3> SUFFICES ASSUME NEW j \in Instance, rec[j].connected
                 PROVE  rec[j].owner # c
      OBVIOUS
    <3>1. rec[j].owner <= spent["conns"]
      BY <2>1, OwnerFacts
    <3> QED
      BY <1>3, <3>1
  <2> HIDE DEF c
  <2>5. row.data <= content /\ content <= content /\ Unread <= row.data
    BY <1>1, <2>1, ContentTypes DEF ContentAdvances, Unread, Absent
  <2> QED
    BY <1>2, <2>1, <2>3, <2>4, <2>5 DEF ContentAdvances, memory, database
<1> QED
  BY <1>2, <1>4, <1>5

LEMMA ContentHeld ==
  ASSUME PresenceInv, PresenceTypeOK', ContentAdvances, NEW c \in Conn, HoldFromStore(c)
  PROVE  ContentAdvances'
<1>1. PresenceTypeOK
  BY Parts
<1>2. PICK data \in {row.data, Absent} : conn' = [conn EXCEPT ![c].read = data]
  BY DEF HoldFromStore
<1>3. /\ spent' = spent \/ Spend("fails")
      /\ UNCHANGED <<agent, ended, stage, held, under, memory, batch, hear, database>>
  BY DEF HoldFromStore, serving
<1>4. \A d \in Conn : conn'[d].mail = conn[d].mail /\ conn'[d].read \in {conn[d].read, data}
  BY <1>1, <1>2, Typed DEF ConnType
<1>5. row.data <= row.data /\ Absent <= row.data
  BY <1>1, ContentTypes DEF Absent
<1>6. Undisturbed' => Undisturbed
  BY <1>1, <1>3, UnspentFacts, SpendFacts, StillUndisturbed DEF Faults
<1> QED
  BY <1>3, <1>4, <1>5, <1>6 DEF ContentAdvances, agent, memory, database

(* A report that is processed is no older than the row, and the record it   *)
(* goes on from is no newer.                                               *)
LEMMA ContentProcess ==
  ASSUME PresenceInv, PresenceTypeOK', ContentAdvances, NEW c \in Conn,
         NEW fails \in SUBSET {"take", "write"}, Process(c, fails), Counted
  PROVE  ContentAdvances'
<1> DEFINE i == conn[c].at
           v == conn[c].mail
           base == Base(c)
           created == ~base.known
           row1 == IF created THEN NewRow ELSE row
           connects == created \/ ~base.connected \/ base.owner # c
           takes == connects /\ held[i] # NoLease /\ row1.stored /\ "take" \notin fails
           row2 == IF takes THEN Taken(row1, held[i]) ELSE row1
           dirty == Before(c) # v
           forgotten == dirty /\ ~row2.stored /\ "write" \notin fails
           writes == dirty /\ row2.stored /\ "write" \notin fails
           now == [known |-> TRUE, connected |-> TRUE, owner |-> c, heard |-> TRUE,
                   data |-> v, quiet |-> FALSE]
<1>1. PresenceTypeOK
  BY Parts
<1> SUFFICES ASSUME Undisturbed'
             PROVE  ContentAdvances'
  BY DEF ContentAdvances
<1>2. Undisturbed /\ spent["forgets"] = 0
  BY <1>1, StillUndisturbed DEF Undisturbed
<1>3. Ready(c) /\ UNCHANGED <<agent, stage, held, under, leases>>
  BY DEF Process, serving
<1>4. /\ Before(c) \in Nat \cup {Absent} /\ i \in Instance /\ v \in Nat
      /\ created => ~row.stored /\ ~rec[i].known
      /\ base.known => row.stored
  BY <1>2, <1>3, BaseFacts
<1>5. row \in RowType /\ held[i] \in Lease \cup {NoLease} /\ row.data \in Nat \cup {Absent}
  BY <1>1, <1>4, Typed DEF RowType
<1>6. /\ row1 \in RowType /\ row1.stored = TRUE
      /\ row1.data = IF created THEN 0 ELSE row.data
  <2>1. NewRow.data = 0 /\ NewRow.stored = TRUE
    BY DEF NewRow, NoRow
  <2>2. row.stored \in BOOLEAN
    BY <1>5 DEF RowType
  <2> QED
    BY <1>4, <1>5, <2>1, <2>2, Shapes
<1>7. row2 \in RowType /\ row2.stored = TRUE /\ row2.data = row1.data
  <2> HIDE DEF row1
  <2>1. LET t == Taken(row1, held[i]) IN t \in RowType /\ t.stored = row1.stored
    BY <1>5, <1>6, TakenFacts
  <2>2. Taken(row1, held[i]).data = row1.data
    BY <1>6 DEF Taken, RowType
  <2> QED
    BY <1>6, <2>1, <2>2
<1>8. Before(c) <= row1.data
  <2>1. /\ row.data <= row.data /\ written[i] <= row.data /\ conn[c].read <= row.data
        /\ ~row.stored => row.data = Absent
    BY <1>2, <1>4, <1>5, Parts DEF ContentAdvances, RowSound, Absent
  <2>2. CASE created
    <3>1. Before(c) = written[i] /\ written[i] <= Absent /\ row1.data = 0
      BY <1>4, <1>6, <2>1, <2>2 DEF Before
    <3> QED
      BY <1>4, <3>1 DEF Absent
  <2>3. CASE ~created
    <3>1. row1.data = row.data
      BY <1>6, <2>3
    <3>2. CASE rec[i].known
      BY <2>1, <3>1, <3>2 DEF Before
    <3>3. CASE ~rec[i].known
      <4>1. Before(c) = base.data
        BY <2>3, <3>3 DEF Before
      <4>2. \A data \in Nat \cup {Absent, Unread} : FromPersisted(data).data = data
        BY DEF FromPersisted, NoRecord
      <4>3. base \in {FromPersisted(conn[c].read), FromPersisted(row.data)}
        BY <2>3, <3>3, Shapes DEF Base
      <4>4. conn[c].read \in Nat \cup {Absent, Unread}
        BY <1>1, ContentTypes
      <4> HIDE DEF base
      <4>5. base.data \in {conn[c].read, row.data}
        BY <1>5, <4>2, <4>3, <4>4
      <4> QED
        BY <2>1, <3>1, <4>1, <4>5
    <3> QED
      BY <3>2, <3>3
  <2> QED
    BY <2>2, <2>3
<1>9. ~forgotten /\ row' = IF writes THEN [row2 EXCEPT !.data = v, !.quiet = FALSE] ELSE row2
  BY <1>7, Zenon DEF Process
<1>10. /\ rec' = [rec EXCEPT ![i] = now]
       /\ written' = [written EXCEPT ![i] = IF writes THEN v ELSE Before(c)]
       /\ conn' = [Handled(c) EXCEPT ![c].seen = TRUE]
  BY <1>9, Zenon DEF Process
<1>11. row'.data = IF writes THEN v ELSE row1.data
  <2> HIDE DEF row2, row1, writes, i, v
  <2> QED
    BY <1>4, <1>7, <1>9 DEF RowType
<1>12. c = live /\ row.data <= v /\ v <= content
  <2>1. v # Absent
    BY <1>4 DEF Absent
  <2> QED
    BY <1>2, <2>1 DEF ContentAdvances
<1>13. created => row.data = Absent
  BY <1>4, Parts DEF RowSound
<1> HIDE DEF created, row1, row2, writes, i, v, base, forgotten, takes, dirty, connects
<1>14. row.data <= row'.data /\ row'.data <= v /\ row'.data \in Nat \cup {Absent}
  BY <1>4, <1>5, <1>6, <1>11, <1>12, <1>13 DEF Absent
<1>15. \A w \in Nat \cup {Absent, Unread} : w <= row.data => w <= row'.data
  BY <1>5, <1>14 DEF Absent, Unread
<1>16. row'.data <= content'
  BY <1>1, <1>3, <1>4, <1>12, <1>14, ContentTypes DEF Absent, agent
<1>17. ASSUME NEW d \in Conn
       PROVE  /\ conn'[d].read <= row'.data
              /\ conn'[d].mail # Absent =>
                    d = live' /\ row'.data <= conn'[d].mail /\ conn'[d].mail <= content'
  <2>1. /\ conn'[d].read = IF d = c THEN Unread ELSE conn[d].read
        /\ conn'[d].mail = IF d = c THEN Absent ELSE conn[d].mail
    BY <1>1, <1>10, Typed DEF Handled, ConnType
  <2>2. Unread <= row'.data
    BY <1>14 DEF Absent, Unread
  <2>3. conn[d].mail # Absent => d = c
    BY <1>2, <1>12 DEF ContentAdvances
  <2>4. conn[d].read <= row'.data
    BY <1>1, <1>2, <1>15, ContentTypes DEF ContentAdvances
  <2> QED
    BY <2>1, <2>2, <2>3, <2>4
<1>18. ASSUME NEW j \in Instance
       PROVE  /\ written'[j] <= row'.data /\ stage'[j] \notin Stopping
              /\ rec'[j].connected /\ rec'[j].owner = live' => row'.data <= rec'[j].data
  <2>1. stage'[j] \notin Stopping
    BY <1>2, <1>3 DEF ContentAdvances
  <2>2. CASE j = i
    <3>1. rec'[j].data = v /\ written'[j] = IF writes THEN v ELSE Before(c)
      BY <1>1, <1>4, <1>10, <2>2, Typed
    <3>2. v <= v
      BY <1>4
    <3> QED
      BY <1>8, <1>11, <1>14, <2>1, <3>1, <3>2
  <2>3. CASE j # i
    <3>1. rec'[j] = rec[j] /\ written'[j] = written[j]
      BY <1>1, <1>4, <1>10, <2>3, Typed
    <3>2. written[j] <= row'.data
      BY <1>1, <1>2, <1>15, ContentTypes DEF ContentAdvances
    <3>3. rec[j].connected => rec[j].owner # c
      <4>1. conn[c].open /\ c \in Conn
        BY <1>3 DEF Ready, Waiting
      <4>2. rec[j].connected /\ rec[j].owner = c => conn[c].at = j
        BY <1>2, <4>1, OwnerFacts
      <4> QED
        BY <2>3, <4>2 DEF i
    <3> QED
      BY <1>3, <1>12, <2>1, <3>1, <3>2, <3>3 DEF agent
  <2> QED
    BY <2>2, <2>3
<1>19. NoFlush(astray')
  <2>1. astray' = astray
              \cup (IF "take" \in fails THEN {Call("take", i, held[i])} ELSE {})
              \cup (IF "write" \in fails THEN {WriteCall(i, v)} ELSE {})
    BY DEF Process, i, v
  <2>2. Call("take", i, held[i]).kind = "take" /\ WriteCall(i, v).kind = "write"
    BY DEF Call, WriteCall
  <2>3. NoFlush(astray)
    BY <1>2 DEF ContentAdvances
  <2> QED
    BY <2>1, <2>2, <2>3 DEF NoFlush
<1> QED
  BY <1>16, <1>17, <1>18, <1>19 DEF ContentAdvances

LEMMA ContentNext ==
  ASSUME PresenceInv, CarrierIsHolder, ContentAdvances, [Next]_vars
  PROVE  ContentAdvances'
<1>1. PresenceTypeOK /\ PresenceTypeOK'
  BY Parts, PresenceNext DEF Kept, PresenceInv
<1>2. CASE UNCHANGED vars
  BY <1>2 DEF vars, agent, sockets, memory, database, ContentAdvances, Undisturbed
<1>3. CASE Agent
  BY <1>1, <1>3, ContentConnect, ContentReport, ContentAgent DEF Agent
<1>4. CASE Socket
  <2>1. PICK c \in Conn : HoldFromStore(c) \/ OnMessage(c) \/ OnClosed(c) \/ EndSession(c)
    BY <1>4 DEF Socket
  <2>2. CASE OnMessage(c)
    <3>1. CASE Process(c, {}) /\ UNCHANGED spent
      BY <1>1, <3>1, UnspentFacts, ContentProcess
    <3>2. ASSUME NEW fails \in SUBSET {"take", "write"}, Process(c, fails), Spend("fails")
          PROVE  ContentAdvances'
      BY <1>1, <3>2, SpendFacts, ContentProcess DEF Faults
    <3> QED
      BY <1>1, <2>2, <3>1, <3>2, ContentRekey, ContentCreateFails DEF OnMessage
  <2> QED
    BY <1>1, <2>1, <2>2, ContentHeld, ContentSocket
<1>5. CASE Server
  <2>1. PICK i \in Instance :
          \/ ReadBatch(i) \/ WriteBatch(i) \/ BatchAnswered(i) \/ TakeUp(i)
          \/ ReleaseTaken(i) \/ Forget(i) \/ LoseLease(i) \/ TakeLease(i)
          \/ Cut(i) \/ Bind(i) \/ OpenPlanes(i)
          \/ Stop(i) \/ Drained(i) \/ Flush(i) \/ Leave(i) \/ Crash(i) \/ Start(i)
    BY <1>5 DEF Server
  <2> QED
    BY <1>1, <2>1, ContentServer, ContentPlanes, ContentLeft
<1>6. CASE Lapse
  BY <1>1, <1>6, UnspentFacts, ContentStep DEF Lapse, agent, sockets, memory
<1>7. CASE \E call \in astray : Land(call)
  BY <1>1, <1>7, ContentLand
<1> QED
  BY <1>2, <1>3, <1>4, <1>5, <1>6, <1>7 DEF Next

(* Until an instance stops or the Agent is forgotten, the row holds what    *)
(* the Agent last reported over the socket it uses, once that was processed *)
(* and its write did not fail: for any number of instances, sockets, moves, *)
(* changes, crashes, lost leases, aborted sessions and failures, those      *)
(* included whose takes, creates and batches land late, no report, batch or *)
(* record read before the lock puts something older there, and no instance  *)
(* takes a digest it holds for newer than the row (persist,                *)
(* hold_from_store). RowIsCurrent itself leaves out a report read late and  *)
(* a write that lands late.                                                *)
THEOREM RowKeepsUp ==
  Spec => [](spent["stops"] = 0 /\ spent["forgets"] = 0 => RowIsCurrent)
<1> DEFINE Inv == PresenceInv /\ CarrierIsHolder /\ ContentAdvances
           Current == spent["stops"] = 0 /\ spent["forgets"] = 0 => RowIsCurrent
<1>1. Init => Inv
  BY PresenceInit, ContentInit
<1>2. Inv /\ [Next]_vars => Inv'
  BY PresenceNext, ContentNext DEF Kept
<1>3. Inv => Current
  <2> SUFFICES ASSUME Inv, spent["stops"] = 0, spent["forgets"] = 0, spent["late"] = 0,
                      spent["landed writes"] = 0,
                      NEW i \in Instance, rec[i].connected, rec[i].owner = live,
                      written[i] = rec[i].data
               PROVE  row.data = rec[i].data
    BY DEF RowIsCurrent
  <2>1. row.data <= rec[i].data /\ rec[i].data <= row.data
    BY DEF ContentAdvances, Undisturbed
  <2>2. row.data \in Nat \cup {Absent} /\ rec[i].data \in Nat \cup {Absent}
    BY Parts, ContentTypes
  <2> QED
    BY <2>1, <2>2, Order, Zenon
<1> HIDE DEF Inv, Current
<1>4. Spec => []Current
  BY <1>1, <1>2, <1>3, PTL DEF Spec
<1> QED
  BY <1>4 DEF Current

===============================================================================
