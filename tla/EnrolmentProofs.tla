---------------------------- MODULE EnrolmentProofs ----------------------------
(***************************************************************************)
(* Proofs about module Enrolment, for every set of instances, hosts and    *)
(* bootstrap certificates, and every bound: what the instances make of the *)
(* one queue in the database they decide from copies of.                   *)
(***************************************************************************)
EXTENDS Enrolment, FiniteSetTheorems, TLAPS

Queue == UNION {[hosts -> Request] : hosts \in SUBSET Host}
Store == [window : 0 .. MaxTime, requests : Queue, list : SUBSET Bootstrap, reg : SUBSET Certificate]
Memory == [window : 0 .. MaxTime, entries : Queue, list : SUBSET Bootstrap]

(* A queue is a function on some of the hosts.                             *)
LEMMA QueueFacts ==
  ASSUME NEW queue
  PROVE  /\ IsQueue(queue) <=> queue \in Queue
         /\ queue \in Queue => DOMAIN queue \in SUBSET Host /\ \A h \in DOMAIN queue : queue[h] \in Request
BY DEF IsQueue, Queue

LEMMA EmptyQueue == <<>> \in Queue /\ DOMAIN <<>> = {} /\ \A q \in Queue : DOMAIN q = {} => q = <<>>
<1>1. <<>> \in [{} -> Request] /\ DOMAIN <<>> = {}
  OBVIOUS
<1>2. ASSUME NEW q \in Queue, DOMAIN q = {} PROVE q = <<>>
  BY <1>2 DEF Queue
<1> QED
  BY <1>1, <1>2 DEF Queue

LEMMA RequestFacts ==
  /\ Waiting \in Request /\ Rejected \in Request /\ \A c \in Certificate : Approved(c) \in Request
  /\ Waiting.decision = "waiting" /\ Rejected.decision = "rejected"
  /\ \A c \in Certificate : Approved(c).decision = "approved" /\ Approved(c).certificate = c
  /\ Waiting # Rejected /\ \A c \in Certificate : Approved(c) # Waiting
BY DEF Waiting, Rejected, Approved, Request

LEMMA PutFacts ==
  ASSUME NEW q \in Queue, NEW h \in Host, NEW r \in Request
  PROVE  /\ Put(q, h, r) \in Queue /\ DOMAIN Put(q, h, r) = DOMAIN q \cup {h}
         /\ Put(q, h, r)[h] = r /\ \A g \in DOMAIN q \ {h} : Put(q, h, r)[g] = q[g]
<1>1. PICK hosts \in SUBSET Host : q \in [hosts -> Request]
  BY DEF Queue
<1>2. Put(q, h, r) \in [hosts \cup {h} -> Request]
  BY <1>1 DEF Put
<1> QED
  BY <1>1, <1>2 DEF Queue, Put

LEMMA DropFacts ==
  ASSUME NEW q \in Queue, NEW hosts
  PROVE  /\ Drop(q, hosts) \in Queue /\ DOMAIN Drop(q, hosts) = DOMAIN q \ hosts
         /\ \A g \in DOMAIN q \ hosts : Drop(q, hosts)[g] = q[g]
<1>1. PICK D \in SUBSET Host : q \in [D -> Request]
  BY DEF Queue
<1>2. Drop(q, hosts) \in [D \ hosts -> Request]
  BY <1>1 DEF Drop, Restrict
<1> QED
  BY <1>1, <1>2 DEF Queue, Drop, Restrict

(* The two halves of the type invariant as memberships, before and after a *)
(* step.                                                                   *)
LEMMA TypeFacts ==
  ASSUME EnrolmentTypeOK
  PROVE  /\ db \in Store /\ IsFiniteSet(db.reg)
         /\ mem \in [Server -> Memory] /\ \A s \in Server : mem[s].list \subseteq db.list
         /\ act \in [Server -> Act] /\ due \in [Server -> BOOLEAN] /\ now \in 1 .. MaxTime
         /\ taken \in [Host -> Nat] /\ spent \in [Bounded -> Nat]
<1>1. db \in Store /\ IsFiniteSet(db.reg)
  BY QueueFacts DEF EnrolmentTypeOK, StoreTypeOK, Store
<1>2. \A s \in Server : /\ [window |-> mem[s].window, entries |-> mem[s].entries, list |-> mem[s].list] \in Memory
                        /\ mem[s].list \subseteq db.list
  BY <1>1, QueueFacts DEF EnrolmentTypeOK, MemTypeOK, Memory, Store
<1>3. mem \in [Server -> Memory]
  BY <1>2 DEF EnrolmentTypeOK, MemTypeOK
<1> QED
  BY <1>1, <1>2, <1>3 DEF EnrolmentTypeOK

LEMMA TypeFactsNext ==
  ASSUME db' \in Store, IsFiniteSet(db'.reg), mem' \in [Server -> Memory],
         \A s \in Server : mem'[s].list \subseteq db'.list
  PROVE  StoreTypeOK' /\ MemTypeOK'
<1>1. StoreTypeOK'
  BY QueueFacts DEF StoreTypeOK, Store
<1>2. \A s \in Server : mem'[s] \in Memory
  OBVIOUS
<1>3. \A s \in Server : mem'[s] = [window |-> mem'[s].window, entries |-> mem'[s].entries, list |-> mem'[s].list]
  BY <1>2 DEF Memory
<1>4. MemTypeOK'
  BY <1>2, <1>3, QueueFacts DEF MemTypeOK, Memory
<1> QED
  BY <1>1, <1>4
-------------------------------------------------------------------------------
(* What a step may do to what is stored                                    *)

SameRest == db'.window = db.window /\ db'.reg = db.reg /\ taken' = taken
Keeps == db'.requests = db.requests /\ SameRest
Opens == db'.requests = db.requests /\ db'.reg = db.reg /\ taken' = taken /\ db'.window \in 1 .. MaxTime
Closes == db'.window = 0 /\ db'.requests = <<>> /\ db'.reg = db.reg /\ taken' = taken /\ ~QueueHeld
Adds ==
    \E h \in Host :
        /\ h \notin DOMAIN db.requests /\ Room(db.requests, h)
        /\ db'.requests = Put(db.requests, h, Waiting)
        /\ db'.window = db.window /\ db.window # 0 /\ db'.reg = db.reg
        /\ taken' = [taken EXCEPT ![h] = @ + 1] /\ act' = act
\* Whoever takes a waiting request away or decides it, nobody holds its row afterwards.
Withdraws ==
    /\ SameRest
    /\ \E hosts \in SUBSET Host :
        /\ db'.requests = Drop(db.requests, {h \in hosts : Waits(db.requests, h)})
        /\ \A h \in hosts : ~RowHeld(h)'
DecidesOne ==
    /\ SameRest
    /\ \E h \in Host, r \in Request :
        /\ Waits(db.requests, h) /\ r # Waiting /\ db'.requests = Put(db.requests, h, r)
        /\ ~RowHeld(h)'
Signs ==
    /\ db'.requests = db.requests /\ db'.window = db.window /\ taken' = taken
    /\ \E h \in Host : db'.reg = db.reg \cup {NextCertificate(h)}

StoreMove ==
    /\ db' \in Store /\ IsFiniteSet(db'.reg) /\ db.list \subseteq db'.list
    /\ Keeps \/ Opens \/ Closes \/ Adds \/ Withdraws \/ DecidesOne \/ Signs

(* The forms of a write.                                                   *)
LEMMA StoreKept ==
  ASSUME EnrolmentInv, db' = db, taken' = taken
  PROVE  StoreMove
BY TypeFacts DEF EnrolmentInv, StoreMove, Keeps, SameRest

LEMMA StoreClosed ==
  ASSUME EnrolmentInv, db' = CloseWindow, ~QueueHeld, taken' = taken
  PROVE  StoreMove
<1>1. db \in Store /\ IsFiniteSet(db.reg)
  BY TypeFacts DEF EnrolmentInv
<1>2. 0 \in 0 .. MaxTime
  BY EnrolmentAssumption
<1>3. /\ db' \in Store /\ db'.window = 0 /\ db'.requests = <<>> /\ db'.reg = db.reg
      /\ db'.list = db.list
  BY <1>1, <1>2, EmptyQueue DEF CloseWindow, Store
<1> QED
  BY <1>1, <1>3 DEF StoreMove, Closes

LEMMA StoreWithdrawn ==
  ASSUME EnrolmentInv, NEW hosts \in SUBSET Host, db' = Withdrawn(hosts), taken' = taken,
         \A h \in hosts : ~RowHeld(h)'
  PROVE  StoreMove
<1> DEFINE gone == {h \in hosts : Waits(db.requests, h)}
<1>1. db \in Store /\ IsFiniteSet(db.reg) /\ db.requests \in Queue
  BY TypeFacts DEF EnrolmentInv, Store
<1>2. db' = [db EXCEPT !.requests = Drop(db.requests, gone)]
  BY DEF Withdrawn
<1> HIDE DEF gone
<1>3. Drop(db.requests, gone) \in Queue
  BY <1>1, DropFacts
<1>4. /\ db' \in Store /\ db'.window = db.window /\ db'.requests = Drop(db.requests, gone)
      /\ db'.reg = db.reg /\ db'.list = db.list
  BY <1>1, <1>2, <1>3 DEF Store
<1>5. Withdraws
  BY <1>4 DEF Withdraws, SameRest, gone
<1> QED
  BY <1>1, <1>4, <1>5 DEF StoreMove

LEMMA StoreDecided ==
  ASSUME EnrolmentInv, NEW h \in Host, NEW r \in Request, Waits(db.requests, h), r # Waiting,
         db' = Decided(h, r), taken' = taken, ~RowHeld(h)'
  PROVE  StoreMove
<1>1. db \in Store /\ IsFiniteSet(db.reg) /\ db.requests \in Queue
  BY TypeFacts DEF EnrolmentInv, Store
<1>2. Put(db.requests, h, r) \in Queue
  BY <1>1, PutFacts
<1>3. /\ db' \in Store /\ db'.window = db.window /\ db'.requests = Put(db.requests, h, r)
      /\ db'.reg = db.reg /\ db'.list = db.list
  BY <1>1, <1>2 DEF Store, Decided
<1>4. DecidesOne
  BY <1>3 DEF DecidesOne, SameRest
<1> QED
  BY <1>1, <1>3, <1>4 DEF StoreMove

-------------------------------------------------------------------------------
(* Approved requests and the register                                      *)

\* Every certificate a queue carries is in the register, as its host's.
RegisteredIn(queue, reg) ==
    \A h \in DOMAIN queue : queue[h].decision = "approved" =>
        queue[h].certificate \in reg /\ queue[h].certificate[1] = h

LEMMA RegisteredFacts ==
  ASSUME NEW q \in Queue, NEW reg, RegisteredIn(q, reg)
  PROVE  /\ \A hosts : RegisteredIn(Drop(q, hosts), reg)
         /\ \A h \in Host, r \in Request :
              (r.decision = "approved" => r.certificate \in reg /\ r.certificate[1] = h)
                => RegisteredIn(Put(q, h, r), reg)
         /\ \A more : reg \subseteq more => RegisteredIn(q, more)
<1>1. ASSUME NEW hosts PROVE RegisteredIn(Drop(q, hosts), reg)
  <2> DEFINE d == Drop(q, hosts)
  <2>1. DOMAIN d = DOMAIN q \ hosts /\ \A g \in DOMAIN q \ hosts : d[g] = q[g]
    BY DropFacts
  <2> HIDE DEF d
  <2>2. RegisteredIn(d, reg)
    BY <2>1 DEF RegisteredIn
  <2> QED
    BY <2>2 DEF d
<1>2. ASSUME NEW h \in Host, NEW r \in Request,
             r.decision = "approved" => r.certificate \in reg /\ r.certificate[1] = h
      PROVE  RegisteredIn(Put(q, h, r), reg)
  <2> DEFINE d == Put(q, h, r)
  <2>1. DOMAIN d = DOMAIN q \cup {h} /\ d[h] = r /\ \A g \in DOMAIN q \ {h} : d[g] = q[g]
    BY PutFacts, ZenonT(60)
  <2> HIDE DEF d
  <2>2. RegisteredIn(d, reg)
    BY <1>2, <2>1 DEF RegisteredIn
  <2> QED
    BY <2>2 DEF d
<1>3. ASSUME NEW more, reg \subseteq more PROVE RegisteredIn(q, more)
  BY <1>3 DEF RegisteredIn
<1> QED
  BY <1>1, <1>2, <1>3

LEMMA EmptyRegistered == \A reg : RegisteredIn(<<>>, reg)
BY EmptyQueue DEF RegisteredIn

LEMMA HandedFacts ==
  ASSUME EnrolmentInv
  PROVE  /\ handed \subseteq db.reg /\ RegisteredIn(db.requests, db.reg)
         /\ \A s \in Server : /\ RegisteredIn(mem[s].entries, db.reg)
                              /\ act[s].pc = "commit" => /\ act[s].certificate \in db.reg
                                                          /\ act[s].certificate[1] = act[s].host
BY DEF EnrolmentInv, HandedIsRegistered, Registered, RegisteredIn, Certificates

LEMMA HandedNext ==
  ASSUME /\ handed' \subseteq db'.reg /\ RegisteredIn(db'.requests, db'.reg)
         /\ \A s \in Server : /\ RegisteredIn(mem'[s].entries, db'.reg)
                              /\ act'[s].pc = "commit" => /\ act'[s].certificate \in db'.reg
                                                           /\ act'[s].certificate[1] = act'[s].host
  PROVE  HandedIsRegistered'
BY DEF HandedIsRegistered, Registered, RegisteredIn, Certificates

-------------------------------------------------------------------------------
(* Who holds a row                                                         *)

\* A row is held after a step by who held it before, or by who just took it, free and
\* of a request that waits.
RowMove ==
    \A s \in Server : Deciding(s)' /\ act'[s].held =>
        \/ Deciding(s) /\ act[s].held /\ act'[s].host = act[s].host
        \/ /\ db'.requests = db.requests
           /\ Waits(db.requests, act'[s].host) /\ ~RowHeld(act'[s].host)
           /\ \A t \in Server \ {s} : act'[t] = act[t]

LEMMA ActFacts ==
  ASSUME NEW a \in Act
  PROVE  /\ a.pc \in {"idle", "load", "sign", "commit", "drop", "withdraw", "reload", "loading"}
         /\ a.pc = "drop" => a.host \in Host
         /\ a.pc \in {"sign", "commit"} => a.host \in Host /\ a.held \in BOOLEAN
         /\ a.pc = "commit" => a.certificate \in Certificate
         /\ a.pc = "withdraw" => a.bootstrap \in Bootstrap
         /\ a.pc \in {"reload", "loading"} => a.window \in 0 .. MaxTime
BY DEF Act

LEMMA ActShapes ==
  /\ Idle \in Act /\ Idle.pc = "idle" /\ [pc |-> "load"] \in Act
  /\ \A h \in Host, held \in BOOLEAN : [pc |-> "sign", host |-> h, held |-> held] \in Act
  /\ \A h \in Host, held \in BOOLEAN, c \in Certificate :
        [pc |-> "commit", host |-> h, held |-> held, certificate |-> c] \in Act
  /\ \A h \in Host : [pc |-> "drop", host |-> h] \in Act
  /\ \A b \in Bootstrap : [pc |-> "withdraw", bootstrap |-> b] \in Act
  /\ \A w \in 0 .. MaxTime : [pc |-> "reload", window |-> w] \in Act /\ [pc |-> "loading", window |-> w] \in Act
BY DEF Act, Idle

(* A call that ends, or one that holds no row, is no holder.               *)
LEMMA RowsLeft ==
  ASSUME EnrolmentInv, NEW s \in Server, NEW a \in Act, act' = [act EXCEPT ![s] = a],
         a.pc \notin {"sign", "commit"}
  PROVE  /\ act' \in [Server -> Act] /\ act'[s] = a /\ \A t \in Server \ {s} : act'[t] = act[t]
         /\ RowMove
         /\ \A h : ~RowHeld(h) => ~RowHeld(h)'
         /\ \A h : (Deciding(s) /\ act[s].held /\ act[s].host = h) => ~RowHeld(h)'
<1>1. act \in [Server -> Act]
  BY TypeFacts DEF EnrolmentInv
<1>2. act' \in [Server -> Act] /\ act'[s] = a /\ \A t \in Server \ {s} : act'[t] = act[t]
  BY <1>1
<1>3. RowMove
  BY <1>2 DEF RowMove, Deciding
<1>4. \A h : ~RowHeld(h) => ~RowHeld(h)'
  BY <1>2 DEF RowHeld
<1>5. ASSUME NEW h, Deciding(s), act[s].held, act[s].host = h PROVE ~RowHeld(h)'
  BY <1>2, <1>5 DEF EnrolmentInv, RowsStand, RowHeld, Deciding
<1> QED
  BY <1>2, <1>3, <1>4, <1>5

LEMMA RowsSame ==
  ASSUME EnrolmentInv, act' = act
  PROVE  RowMove /\ act' \in [Server -> Act] /\ \A h : ~RowHeld(h) => ~RowHeld(h)'
BY TypeFacts DEF EnrolmentInv, RowMove, Deciding, RowHeld

-------------------------------------------------------------------------------
(* The copies and the connections                                          *)

LEMMA MemSet ==
  ASSUME EnrolmentInv, NEW s \in Server, NEW m \in Memory, mem' = [mem EXCEPT ![s] = m]
  PROVE  mem' \in [Server -> Memory] /\ mem'[s] = m /\ \A t \in Server \ {s} : mem'[t] = mem[t]
BY TypeFacts DEF EnrolmentInv

(* A copy of the queue changes, and nothing else in memory.                *)
LEMMA EntriesSet ==
  ASSUME EnrolmentInv, NEW s \in Server, NEW q \in Queue, mem' = [mem EXCEPT ![s].entries = q]
  PROVE  /\ mem' \in [Server -> Memory] /\ mem'[s].entries = q
         /\ \A t \in Server \ {s} : mem'[t].entries = mem[t].entries
         /\ \A t \in Server : mem'[t].list = mem[t].list /\ mem'[t].window = mem[t].window
<1>1. mem \in [Server -> Memory]
  BY TypeFacts DEF EnrolmentInv
<1> QED
  BY <1>1 DEF Memory

LEMMA MemFacts ==
  ASSUME EnrolmentInv, NEW s \in Server
  PROVE  /\ mem[s] \in Memory /\ mem[s].entries \in Queue /\ mem[s].window \in 0 .. MaxTime
         /\ mem[s].list \subseteq db.list /\ db.list \subseteq Bootstrap /\ db.requests \in Queue
         /\ db.window \in 0 .. MaxTime /\ db \in Store
         /\ Emptied(mem[s]) \in Memory /\ Emptied(mem[s]).entries = <<>>
         /\ Emptied(mem[s]).list = mem[s].list /\ Emptied(mem[s]).window = 0
<1>1. mem[s] \in Memory /\ mem[s].list \subseteq db.list /\ db \in Store
  BY TypeFacts DEF EnrolmentInv
<1>2. 0 \in 0 .. MaxTime
  BY EnrolmentAssumption
<1> QED
  BY <1>1, <1>2, EmptyQueue DEF Memory, Store, Emptied

LEMMA AnnouncedType ==
  ASSUME EnrolmentInv, NEW s \in Server, NEW change, Announced(s, change)
  PROVE  due' \in [Server -> BOOLEAN]
BY TypeFacts DEF EnrolmentInv, Announced

LEMMA SpendFacts ==
  ASSUME EnrolmentInv, NEW what \in Bounded, Spend(what)
  PROVE  /\ spent' \in [Bounded -> Nat] /\ (spent'[what] = spent[what] + 1 \/ what = "together")
         /\ \A w \in Bounded \ {what, "together"} : spent'[w] = spent[w]
         /\ \A w \in Bounded : spent[w] \in Nat
BY TypeFacts DEF EnrolmentInv, Spend, Bounded

LEMMA EndsFacts ==
  ASSUME EnrolmentInv
  PROVE  /\ conn \in [Host -> Connection \cup {None}] /\ woken \subseteq Host /\ unchecked \subseteq Host
         /\ \A h \in woken \cup unchecked : conn[h] # None
         /\ \A s : At(s) \subseteq Host /\ \A h \in At(s) : conn[h] # None
BY DEF EnrolmentInv, EnrolmentTypeOK, EndsTypeOK, At

(* Connections that stay, some of them woken or to look at the list.       *)
LEMMA EndsStay ==
  ASSUME EnrolmentInv, conn' = conn, woken' \subseteq woken \cup {h \in Host : conn[h] # None},
         unchecked' \subseteq unchecked \cup {h \in Host : conn[h] # None}
  PROVE  EndsTypeOK'
BY EndsFacts DEF EndsTypeOK

(* Connections that end.                                                   *)
LEMMA EndsEnd ==
  ASSUME EnrolmentInv, NEW hosts, Ended(hosts), woken' = woken \ hosts
  PROVE  EndsTypeOK'
BY EndsFacts DEF Ended, EndsTypeOK

-------------------------------------------------------------------------------
(* One lemma per action: it keeps the types and the register's word, and   *)
(* is one of the moves above.                                              *)

StepOK == EnrolmentTypeOK' /\ HandedIsRegistered' /\ StoreMove /\ RowMove

LEMMA StepMade ==
  ASSUME EnrolmentInv, StoreMove, RowMove, EndsTypeOK', now' \in 1 .. MaxTime,
         mem' \in [Server -> Memory], \A s \in Server : mem'[s].list \subseteq db'.list,
         act' \in [Server -> Act], due' \in [Server -> BOOLEAN],
         taken' \in [Host -> Nat], spent' \in [Bounded -> Nat],
         handed' \subseteq db'.reg, RegisteredIn(db'.requests, db'.reg),
         \A s \in Server : RegisteredIn(mem'[s].entries, db'.reg),
         \A s \in Server : act'[s].pc = "commit" =>
            act'[s].certificate \in db'.reg /\ act'[s].certificate[1] = act'[s].host
  PROVE  StepOK
<1>1. StoreTypeOK' /\ MemTypeOK'
  BY TypeFactsNext DEF StoreMove
<1>2. EnrolmentTypeOK'
  BY <1>1 DEF EnrolmentTypeOK
<1> QED
  BY <1>2, HandedNext DEF StepOK

(* A step of the connections or the clock.                                 *)
LEMMA QuietStep ==
  ASSUME EnrolmentInv, UNCHANGED <<db, mem, act, due, handed, taken>>,
         spent' \in [Bounded -> Nat], EndsTypeOK', now' \in 1 .. MaxTime
  PROVE  StepOK
<1>1. StoreMove /\ RowMove /\ act' \in [Server -> Act]
  BY StoreKept, RowsSame
<1>2. /\ mem' \in [Server -> Memory] /\ \A s \in Server : mem'[s].list \subseteq db'.list
      /\ due' \in [Server -> BOOLEAN] /\ taken' \in [Host -> Nat]
  BY TypeFacts DEF EnrolmentInv
<1> QED
  BY <1>1, <1>2, HandedFacts, StepMade

(* A step of a call that writes nothing and remembers nothing.             *)
LEMMA CallStep ==
  ASSUME EnrolmentInv, UNCHANGED <<now, db, mem, conn, woken, unchecked, handed, taken>>,
         due' \in [Server -> BOOLEAN], spent' \in [Bounded -> Nat],
         act' \in [Server -> Act], RowMove,
         \A s \in Server : act'[s].pc = "commit" =>
            act[s].pc = "commit" /\ act'[s].certificate = act[s].certificate /\ act'[s].host = act[s].host
  PROVE  StepOK
<1>1. StoreMove
  BY StoreKept
<1>2. /\ mem' \in [Server -> Memory] /\ \A s \in Server : mem'[s].list \subseteq db'.list
      /\ taken' \in [Host -> Nat] /\ now' \in 1 .. MaxTime
  BY TypeFacts DEF EnrolmentInv
<1>3. EndsTypeOK'
  BY EndsStay
<1> QED
  BY <1>1, <1>2, <1>3, HandedFacts, StepMade

LEMMA TickStep == EnrolmentInv /\ Tick => StepOK
<1> SUFFICES ASSUME EnrolmentInv, Tick PROVE StepOK
  OBVIOUS
<1>1. now' \in 1 .. MaxTime
  BY EnrolmentAssumption DEF Tick, EnrolmentInv, EnrolmentTypeOK
<1>2. EndsTypeOK' /\ spent' \in [Bounded -> Nat]
  BY EndsStay, TypeFacts DEF Tick, ends, EnrolmentInv
<1> QED
  BY <1>1, <1>2, QuietStep DEF Tick, ghosts

LEMMA LostStep == ASSUME EnrolmentInv, NEW h \in Host, Lost(h) PROVE StepOK
<1>1. spent' \in [Bounded -> Nat] /\ now' \in 1 .. MaxTime
  BY SpendFacts, TypeFacts DEF Lost, Bounded, EnrolmentInv
<1>2. EndsTypeOK'
  BY EndsEnd DEF Lost
<1> QED
  BY <1>1, <1>2, QuietStep DEF Lost, ghosts

LEMMA TrippedStep == ASSUME EnrolmentInv, NEW s \in Server, NEW h \in Host, Tripped(s, h) PROVE StepOK
<1>1. spent' \in [Bounded -> Nat] /\ now' \in 1 .. MaxTime
  BY TypeFacts DEF Tripped, EnrolmentInv
<1>2. EndsTypeOK'
  BY EndsEnd, EndsStay DEF Tripped
<1> QED
  BY <1>1, <1>2, QuietStep DEF Tripped, ghosts

LEMMA ConnectStep == ASSUME EnrolmentInv, NEW s \in Server, NEW h \in Host, Connect(s, h) PROVE StepOK
<1>1. spent' \in [Bounded -> Nat] /\ now' \in 1 .. MaxTime
  BY SpendFacts, TypeFacts DEF Connect, Bounded, EnrolmentInv
<1>2. [at |-> s, asked |-> FALSE] \in Connection
  BY DEF Connection
<1>3. EndsTypeOK'
  BY <1>2, EndsFacts, EnrolmentAssumption DEF Connect, EndsTypeOK
<1> QED
  BY <1>1, <1>3, QuietStep DEF Connect, ghosts

LEMMA FailStep == ASSUME EnrolmentInv, NEW s \in Server, Fail(s) PROVE StepOK
<1>1. act' = [act EXCEPT ![s] = Idle] /\ Idle \in Act /\ Idle.pc = "idle"
  BY ActShapes DEF Fail
<1>2. act' \in [Server -> Act] /\ act'[s] = Idle /\ RowMove /\ \A t \in Server \ {s} : act'[t] = act[t]
  BY <1>1, RowsLeft
<1>3. spent' \in [Bounded -> Nat]
  BY SpendFacts, TypeFacts DEF Fail, Bounded, EnrolmentInv
<1>4. due' \in [Server -> BOOLEAN]
  BY TypeFacts DEF Fail, EnrolmentInv
<1> QED
  BY <1>1, <1>2, <1>3, <1>4, CallStep DEF Fail, ends, ghosts

LEMMA LoseRowStep == ASSUME EnrolmentInv, NEW s \in Server, LoseRow(s) PROVE StepOK
<1>1. act \in [Server -> Act] /\ due' \in [Server -> BOOLEAN]
  BY TypeFacts DEF LoseRow, EnrolmentInv
<1>2. spent' \in [Bounded -> Nat]
  BY SpendFacts DEF LoseRow, Bounded
<1>3. /\ [act[s] EXCEPT !.held = FALSE] \in Act
      /\ [act[s] EXCEPT !.held = FALSE].pc = act[s].pc
      /\ [act[s] EXCEPT !.held = FALSE].host = act[s].host
      /\ [act[s] EXCEPT !.held = FALSE].held = FALSE
      /\ act[s].pc = "commit" => [act[s] EXCEPT !.held = FALSE].certificate = act[s].certificate
  <2>1. CASE act[s] \in [pc : {"sign"}, host : Host, held : BOOLEAN]
    BY <2>1 DEF Act
  <2>2. CASE act[s] \in [pc : {"commit"}, host : Host, held : BOOLEAN, certificate : Certificate]
    BY <2>2 DEF Act
  <2> QED
    BY <1>1, <2>1, <2>2 DEF LoseRow, Act
<1>4. /\ act' \in [Server -> Act] /\ \A t \in Server \ {s} : act'[t] = act[t]
      /\ act'[s].pc = act[s].pc /\ act'[s].host = act[s].host /\ act'[s].held = FALSE
      /\ act[s].pc = "commit" => act'[s].certificate = act[s].certificate
  BY <1>1, <1>3 DEF LoseRow
<1>5. RowMove
  BY <1>4 DEF RowMove, Deciding
<1> QED
  BY <1>1, <1>2, <1>4, <1>5, CallStep DEF LoseRow, ends, ghosts

LEMMA ReloadStep == ASSUME EnrolmentInv, NEW s \in Server, Reload(s) PROVE StepOK
<1> DEFINE a == [pc |-> "reload", window |-> db.window]
<1>1. act' = [act EXCEPT ![s] = a] /\ a \in Act /\ a.pc = "reload"
  BY ActShapes, MemFacts DEF Reload
<1> HIDE DEF a
<1>2. act' \in [Server -> Act] /\ act'[s] = a /\ RowMove /\ \A t \in Server \ {s} : act'[t] = act[t]
  BY <1>1, RowsLeft
<1>3. spent' \in [Bounded -> Nat] /\ due' \in [Server -> BOOLEAN]
  BY TypeFacts DEF Reload, EnrolmentInv
<1> QED
  BY <1>1, <1>2, <1>3, CallStep DEF Reload, ends, ghosts

LEMMA OpenOnStep == ASSUME EnrolmentInv, NEW s \in Server, OpenOn(s) PROVE StepOK
<1> DEFINE a == [pc |-> "loading", window |-> db.window]
<1>1. act' = [act EXCEPT ![s] = a] /\ a \in Act /\ a.pc = "loading"
  BY ActShapes, MemFacts DEF OpenOn
<1> HIDE DEF a
<1>2. act' \in [Server -> Act] /\ act'[s] = a /\ RowMove /\ \A t \in Server \ {s} : act'[t] = act[t]
  BY <1>1, RowsLeft
<1>3. spent' \in [Bounded -> Nat] /\ due' \in [Server -> BOOLEAN]
  BY TypeFacts DEF OpenOn, EnrolmentInv
<1> QED
  BY <1>1, <1>2, <1>3, CallStep DEF OpenOn, ends, ghosts

(* What the register vouched for it vouches for still.                     *)
LEMMA StillRegistered ==
  ASSUME EnrolmentInv, db.reg \subseteq db'.reg
  PROVE  /\ handed \subseteq db'.reg /\ RegisteredIn(db.requests, db'.reg)
         /\ \A s \in Server : /\ RegisteredIn(mem[s].entries, db'.reg)
                              /\ act[s].pc = "commit" => /\ act[s].certificate \in db'.reg
                                                          /\ act[s].certificate[1] = act[s].host
<1>1. db.requests \in Queue /\ \A s \in Server : mem[s].entries \in Queue
  BY TypeFacts DEF EnrolmentInv, Store, Memory
<1> QED
  BY <1>1, HandedFacts, RegisteredFacts

LEMMA OpenStep ==
  ASSUME EnrolmentInv, NEW s \in Server, NEW until \in 1 .. MaxTime, Open(s, until)
  PROVE  StepOK
<1>1. db \in Store /\ mem \in [Server -> Memory] /\ until \in 0 .. MaxTime /\ IsFiniteSet(db.reg)
  BY TypeFacts, EnrolmentAssumption DEF EnrolmentInv
<1>2. /\ db' \in Store /\ db'.window = until /\ db'.requests = db.requests /\ db'.reg = db.reg
      /\ db'.list = db.list
  BY <1>1 DEF Open, Store
<1>3. /\ mem' \in [Server -> Memory]
      /\ \A t \in Server : mem'[t].entries = mem[t].entries /\ mem'[t].list = mem[t].list
  BY <1>1 DEF Open, Memory
<1>4. StoreMove
  BY <1>1, <1>2 DEF StoreMove, Opens, Open, ghosts
<1>5. RowMove /\ act' \in [Server -> Act]
  BY RowsSame DEF Open
<1>6. EndsTypeOK'
  BY EndsStay, EndsFacts DEF Open, Changed
<1>7. due' \in [Server -> BOOLEAN] /\ spent' \in [Bounded -> Nat]
  BY AnnouncedType, SpendFacts DEF Open, Bounded
<1>8. /\ now' \in 1 .. MaxTime /\ taken' \in [Host -> Nat] /\ handed' = handed /\ act' = act
      /\ \A t \in Server : mem[t].list \subseteq db.list
  BY TypeFacts DEF EnrolmentInv, Open, ghosts
<1> QED
  BY <1>2, <1>3, <1>4, <1>5, <1>6, <1>7, <1>8, StillRegistered, StepMade

(* A copy emptied with its window, and the store's window ended or not.    *)
LEMMA EmptyStep ==
  ASSUME EnrolmentInv, NEW s \in Server, mem' = [mem EXCEPT ![s] = Emptied(@)],
         db' = db \/ (db' = CloseWindow /\ ~QueueHeld),
         due' \in [Server -> BOOLEAN], spent' \in [Bounded -> Nat], Changed(s),
         UNCHANGED <<now, act, conn, unchecked, handed, taken>>
  PROVE  StepOK
<1>1. StoreMove
  BY StoreKept, StoreClosed
<1>2. RowMove /\ act' \in [Server -> Act]
  BY RowsSame
<1>3. /\ mem' \in [Server -> Memory] /\ mem'[s].entries = <<>>
      /\ \A t \in Server \ {s} : mem'[t] = mem[t]
  BY MemFacts, MemSet, TypeFacts DEF EnrolmentInv
<1>4. db'.list = db.list /\ db'.reg = db.reg /\ db'.requests \in {db.requests, <<>>}
  BY TypeFacts DEF EnrolmentInv, CloseWindow, Store
<1>5. mem'[s].list = mem[s].list
  BY MemFacts, MemSet
<1>6. \A t \in Server : mem'[t].list \subseteq db'.list
  BY <1>3, <1>4, <1>5, TypeFacts DEF EnrolmentInv
<1>7. EndsTypeOK'
  BY EndsStay, EndsFacts DEF Changed
<1>8. /\ now' \in 1 .. MaxTime /\ taken' \in [Host -> Nat]
  BY TypeFacts DEF EnrolmentInv
<1> QED
  BY <1>1, <1>2, <1>3, <1>4, <1>6, <1>7, <1>8, StillRegistered, EmptyRegistered, StepMade

LEMMA CloseStep == ASSUME EnrolmentInv, NEW s \in Server, Close(s) PROVE StepOK
<1>1. due' \in [Server -> BOOLEAN] /\ spent' \in [Bounded -> Nat]
  BY AnnouncedType, SpendFacts, TypeFacts DEF Close, Bounded, EnrolmentInv
<1> QED
  BY <1>1, EmptyStep DEF Close, ghosts

LEMMA ExpireStep == ASSUME EnrolmentInv, NEW s \in Server, Expire(s) PROVE StepOK
<1>1. due' \in [Server -> BOOLEAN] /\ spent' \in [Bounded -> Nat]
  BY AnnouncedType, TypeFacts DEF Expire, EnrolmentInv
<1>2. db' = db \/ (db' = CloseWindow /\ ~QueueHeld)
  BY DEF Expire, EndWindow
<1> QED
  BY <1>1, <1>2, EmptyStep DEF Expire, ghosts

LEMMA TakeUpListStep == ASSUME EnrolmentInv, NEW s \in Server, TakeUpList(s) PROVE StepOK
<1>1. db \in Store /\ mem \in [Server -> Memory] /\ db.list \subseteq Bootstrap
  BY TypeFacts DEF EnrolmentInv, Store
<1>2. StoreMove /\ RowMove /\ act' \in [Server -> Act]
  BY StoreKept, RowsSame DEF TakeUpList, ghosts
<1>3. /\ mem' \in [Server -> Memory] /\ mem'[s].list = db.list
      /\ \A t \in Server : mem'[t].entries = mem[t].entries
      /\ \A t \in Server \ {s} : mem'[t].list = mem[t].list
  BY <1>1 DEF TakeUpList, Memory
<1>4. \A t \in Server : mem'[t].list \subseteq db'.list
  BY <1>3, TypeFacts DEF EnrolmentInv, TakeUpList
<1>5. EndsTypeOK'
  BY EndsStay, EndsFacts DEF TakeUpList
<1>6. /\ now' \in 1 .. MaxTime /\ taken' \in [Host -> Nat] /\ handed' = handed /\ act' = act
      /\ due' \in [Server -> BOOLEAN] /\ spent' \in [Bounded -> Nat] /\ db' = db
  BY TypeFacts DEF EnrolmentInv, TakeUpList, ghosts
<1> QED
  BY <1>2, <1>3, <1>4, <1>5, <1>6, StillRegistered, StepMade

LEMMA ReloadedStep == ASSUME EnrolmentInv, NEW s \in Server, Reloaded(s) PROVE StepOK
<1>1. db \in Store /\ mem \in [Server -> Memory] /\ act[s] \in Act /\ db.requests \in Queue
  BY TypeFacts DEF EnrolmentInv, Store
<1>2. act[s].window \in 0 .. MaxTime
  BY <1>1, ActFacts DEF Reloaded
<1>3. /\ mem' \in [Server -> Memory] /\ mem'[s].entries = db.requests
      /\ \A t \in Server : mem'[t].list = mem[t].list
      /\ \A t \in Server \ {s} : mem'[t].entries = mem[t].entries
  BY <1>1, <1>2 DEF Reloaded, Memory
<1>4. act' = [act EXCEPT ![s] = Idle] /\ Idle \in Act /\ Idle.pc = "idle"
  BY ActShapes DEF Reloaded
<1>5. act' \in [Server -> Act] /\ act'[s] = Idle /\ RowMove /\ \A t \in Server \ {s} : act'[t] = act[t]
  BY <1>4, RowsLeft
<1>6. StoreMove
  BY StoreKept DEF Reloaded, ghosts
<1>7. EndsTypeOK'
  BY EndsStay, EndsFacts DEF Reloaded, Changed
<1>8. /\ now' \in 1 .. MaxTime /\ taken' \in [Host -> Nat] /\ handed' = handed
      /\ due' \in [Server -> BOOLEAN] /\ spent' \in [Bounded -> Nat] /\ db' = db
      /\ \A t \in Server : mem[t].list \subseteq db.list
  BY TypeFacts DEF EnrolmentInv, Reloaded, ghosts
<1>9. /\ \A t \in Server : RegisteredIn(mem'[t].entries, db'.reg)
      /\ \A t \in Server : act'[t].pc = "commit" =>
            act'[t].certificate \in db'.reg /\ act'[t].certificate[1] = act'[t].host
  BY <1>3, <1>4, <1>5, <1>8, StillRegistered
<1> QED
  BY <1>3, <1>5, <1>6, <1>7, <1>8, <1>9, StillRegistered, StepMade

LEMMA CrashStep == ASSUME EnrolmentInv, NEW s \in Server, Crash(s) PROVE StepOK
<1> DEFINE a == [pc |-> "load"]
           m == [Emptied(mem[s]) EXCEPT !.list = {}]
<1>1. act' = [act EXCEPT ![s] = a] /\ a \in Act /\ a.pc = "load"
  BY ActShapes DEF Crash
<1>2. m \in Memory /\ m.entries = <<>> /\ m.list = {}
  BY MemFacts DEF Memory
<1>3. mem' = [mem EXCEPT ![s] = m]
  BY DEF Crash
<1> HIDE DEF a, m
<1>4. act' \in [Server -> Act] /\ act'[s] = a /\ RowMove /\ \A t \in Server \ {s} : act'[t] = act[t]
  BY <1>1, RowsLeft
<1>5. mem' \in [Server -> Memory] /\ mem'[s] = m /\ \A t \in Server \ {s} : mem'[t] = mem[t]
  BY <1>2, <1>3, MemSet
<1>6. StoreMove
  BY StoreKept DEF Crash, ghosts
<1>7. EndsTypeOK'
  BY EndsEnd DEF Crash
<1>8. /\ now' \in 1 .. MaxTime /\ taken' \in [Host -> Nat] /\ handed' = handed
      /\ due' \in [Server -> BOOLEAN] /\ db' = db
      /\ \A t \in Server : mem[t].list \subseteq db.list
  BY TypeFacts DEF EnrolmentInv, Crash, ghosts
<1>9. spent' \in [Bounded -> Nat]
  BY SpendFacts DEF Crash, Bounded
<1>10. \A t \in Server : /\ RegisteredIn(mem'[t].entries, db'.reg) /\ mem'[t].list \subseteq db'.list
                         /\ act'[t].pc = "commit" =>
                              act'[t].certificate \in db'.reg /\ act'[t].certificate[1] = act'[t].host
  BY <1>1, <1>2, <1>4, <1>5, <1>8, StillRegistered, EmptyRegistered
<1> QED
  BY <1>4, <1>5, <1>6, <1>7, <1>8, <1>9, <1>10, StillRegistered, StepMade

LEMMA OpenedOnStep == ASSUME EnrolmentInv, NEW s \in Server, OpenedOn(s) PROVE StepOK
<1>1. db \in Store /\ mem \in [Server -> Memory] /\ act[s] \in Act /\ db.requests \in Queue /\ db.list \subseteq Bootstrap
  BY TypeFacts DEF EnrolmentInv, Store
<1>2. act[s].window \in 0 .. MaxTime
  BY <1>1, ActFacts DEF OpenedOn
<1>3. db' = db \/ (db' = CloseWindow /\ ~QueueHeld)
  BY DEF OpenedOn, EndWindow
<1>4. StoreMove
  BY <1>3, StoreKept, StoreClosed DEF OpenedOn, ghosts
<1>5. db'.list = db.list /\ db'.reg = db.reg /\ db'.requests \in {db.requests, <<>>}
  BY <1>1, <1>3 DEF CloseWindow, Store
<1>6. /\ mem' \in [Server -> Memory] /\ mem'[s].entries \in {db.requests, mem[s].entries}
      /\ mem'[s].list = db.list /\ \A t \in Server \ {s} : mem'[t] = mem[t]
  <2>1. CASE mem' = [mem EXCEPT ![s].list = db.list]
    BY <2>1, <1>1 DEF Memory
  <2>2. CASE mem' = [mem EXCEPT ![s] = [window |-> act[s].window, entries |-> db.requests, list |-> db.list]]
    BY <2>2, <1>1, <1>2 DEF Memory
  <2> QED
    BY <2>1, <2>2 DEF OpenedOn
<1>7. act' = [act EXCEPT ![s] = Idle] /\ Idle \in Act /\ Idle.pc = "idle"
  BY ActShapes DEF OpenedOn
<1>8. act' \in [Server -> Act] /\ act'[s] = Idle /\ RowMove /\ \A t \in Server \ {s} : act'[t] = act[t]
  BY <1>7, RowsLeft
<1>9. EndsTypeOK'
  BY EndsStay, EndsFacts DEF OpenedOn, ends
<1>10. /\ now' \in 1 .. MaxTime /\ taken' \in [Host -> Nat] /\ handed' = handed
       /\ spent' \in [Bounded -> Nat] /\ \A t \in Server : mem[t].list \subseteq db.list
  BY TypeFacts DEF EnrolmentInv, OpenedOn, ghosts
<1>11. due' \in [Server -> BOOLEAN]
  BY TypeFacts DEF EnrolmentInv, OpenedOn
<1>12. \A t \in Server : /\ RegisteredIn(mem'[t].entries, db'.reg) /\ mem'[t].list \subseteq db'.list
                         /\ act'[t].pc = "commit" =>
                              act'[t].certificate \in db'.reg /\ act'[t].certificate[1] = act'[t].host
  BY <1>5, <1>6, <1>7, <1>8, <1>10, StillRegistered
<1>13. RegisteredIn(db'.requests, db'.reg)
  BY <1>5, StillRegistered, EmptyRegistered
<1> QED
  BY <1>4, <1>5, <1>6, <1>8, <1>9, <1>10, <1>11, <1>12, <1>13, StillRegistered, StepMade

(* What a withdrawal leaves, in the store and in a copy.                   *)
LEMMA WithdrawnFacts ==
  ASSUME EnrolmentInv, NEW hosts, db' = Withdrawn(hosts)
  PROVE  db'.list = db.list /\ db'.reg = db.reg /\ RegisteredIn(db'.requests, db'.reg)
<1>1. db \in Store /\ db.requests \in Queue
  BY TypeFacts DEF EnrolmentInv, Store
<1> DEFINE gone == {h \in hosts : Waits(db.requests, h)}
<1>2. db' = [db EXCEPT !.requests = Drop(db.requests, gone)]
  BY DEF Withdrawn
<1> HIDE DEF gone
<1>3. db'.list = db.list /\ db'.reg = db.reg /\ db'.requests = Drop(db.requests, gone)
  BY <1>1, <1>2 DEF Store
<1> QED
  BY <1>1, <1>3, HandedFacts, RegisteredFacts

LEMMA DropEntries ==
  ASSUME EnrolmentInv, NEW s \in Server, NEW hosts, mem' = [mem EXCEPT ![s].entries = Drop(@, hosts)],
         db.reg \subseteq db'.reg, db.list \subseteq db'.list
  PROVE  /\ mem' \in [Server -> Memory]
         /\ \A t \in Server : mem'[t].list \subseteq db'.list /\ RegisteredIn(mem'[t].entries, db'.reg)
<1> DEFINE q == Drop(mem[s].entries, hosts)
<1>1. mem[s].entries \in Queue /\ RegisteredIn(mem[s].entries, db'.reg)
  BY MemFacts, StillRegistered
<1>2. q \in Queue /\ RegisteredIn(q, db'.reg)
  BY <1>1, DropFacts, RegisteredFacts
<1>3. mem' = [mem EXCEPT ![s].entries = q]
  OBVIOUS
<1> HIDE DEF q
<1>4. /\ mem' \in [Server -> Memory] /\ mem'[s].entries = q
      /\ \A t \in Server \ {s} : mem'[t].entries = mem[t].entries
      /\ \A t \in Server : mem'[t].list = mem[t].list
  BY <1>2, <1>3, EntriesSet
<1> QED
  BY <1>2, <1>4, StillRegistered, TypeFacts DEF EnrolmentInv

(* A request is put into a copy of the queue.                              *)
LEMMA PutEntries ==
  ASSUME EnrolmentInv, NEW s \in Server, NEW h \in Host, NEW r \in Request,
         mem' = [mem EXCEPT ![s].entries = Put(@, h, r)],
         r.decision = "approved" => r.certificate \in db'.reg /\ r.certificate[1] = h,
         db.reg \subseteq db'.reg, db.list \subseteq db'.list
  PROVE  /\ mem' \in [Server -> Memory]
         /\ \A t \in Server : mem'[t].list \subseteq db'.list /\ RegisteredIn(mem'[t].entries, db'.reg)
<1> DEFINE q == Put(mem[s].entries, h, r)
<1>1. mem[s].entries \in Queue /\ RegisteredIn(mem[s].entries, db'.reg)
  BY MemFacts, StillRegistered
<1>2. q \in Queue /\ RegisteredIn(q, db'.reg)
  BY <1>1, PutFacts, RegisteredFacts, ZenonT(60)
<1>3. mem' = [mem EXCEPT ![s].entries = q]
  OBVIOUS
<1> HIDE DEF q
<1>4. /\ mem' \in [Server -> Memory] /\ mem'[s].entries = q
      /\ \A t \in Server \ {s} : mem'[t].entries = mem[t].entries
      /\ \A t \in Server : mem'[t].list = mem[t].list
  BY <1>2, <1>3, EntriesSet
<1> QED
  BY <1>2, <1>4, StillRegistered, TypeFacts DEF EnrolmentInv

LEMMA RevokeStep == ASSUME EnrolmentInv, NEW s \in Server, NEW b \in Bootstrap, Revoke(s, b) PROVE StepOK
<1> DEFINE a == [pc |-> "withdraw", bootstrap |-> b]
<1>1. db \in Store /\ mem \in [Server -> Memory] /\ IsFiniteSet(db.reg)
  BY TypeFacts DEF EnrolmentInv
<1>2. /\ db' \in Store /\ db'.list = db.list \cup {b} /\ db'.reg = db.reg /\ db'.requests = db.requests
      /\ db'.window = db.window
  BY <1>1 DEF Revoke, Store
<1>3. StoreMove
  BY <1>1, <1>2 DEF StoreMove, Keeps, SameRest, Revoke, ghosts
<1>4. /\ mem' \in [Server -> Memory] /\ mem'[s].list = mem[s].list \cup {b}
      /\ \A t \in Server : mem'[t].entries = mem[t].entries
      /\ \A t \in Server \ {s} : mem'[t].list = mem[t].list
  BY <1>1 DEF Revoke, Memory
<1>5. act' = [act EXCEPT ![s] = a] /\ a \in Act /\ a.pc = "withdraw"
  BY ActShapes DEF Revoke
<1> HIDE DEF a
<1>6. act' \in [Server -> Act] /\ act'[s] = a /\ RowMove /\ \A t \in Server \ {s} : act'[t] = act[t]
  BY <1>5, RowsLeft
<1>7. EndsTypeOK'
  BY EndsStay, EndsFacts DEF Revoke
<1>8. /\ now' \in 1 .. MaxTime /\ taken' \in [Host -> Nat] /\ handed' = handed
      /\ due' \in [Server -> BOOLEAN] /\ \A t \in Server : mem[t].list \subseteq db.list
  BY TypeFacts DEF EnrolmentInv, Revoke, ghosts
<1>9. spent' \in [Bounded -> Nat]
  BY SpendFacts DEF Revoke, Bounded
<1>10. \A t \in Server : /\ RegisteredIn(mem'[t].entries, db'.reg) /\ mem'[t].list \subseteq db'.list
                         /\ act'[t].pc = "commit" =>
                              act'[t].certificate \in db'.reg /\ act'[t].certificate[1] = act'[t].host
  BY <1>2, <1>4, <1>5, <1>6, <1>8, StillRegistered
<1> QED
  BY <1>2, <1>3, <1>4, <1>6, <1>7, <1>8, <1>9, <1>10, StillRegistered, StepMade

LEMMA WithdrawRevokedStep == ASSUME EnrolmentInv, NEW s \in Server, WithdrawRevoked(s) PROVE StepOK
<1> DEFINE hosts == {h \in Host : BootstrapOf[h] = act[s].bootstrap}
           held == {h \in hosts : Waits(mem[s].entries, h)}
<1>1. act' = [act EXCEPT ![s] = Idle] /\ Idle \in Act /\ Idle.pc = "idle"
  BY ActShapes DEF WithdrawRevoked
<1>2. /\ act' \in [Server -> Act] /\ act'[s] = Idle /\ RowMove /\ \A t \in Server \ {s} : act'[t] = act[t]
      /\ \A h : ~RowHeld(h) => ~RowHeld(h)'
  BY <1>1, RowsLeft
<1>3. db' = db \/ (db' = Withdrawn(hosts) /\ \A h \in hosts : ~RowHeld(h))
  BY DEF WithdrawRevoked
<1>4. taken' = taken /\ handed' = handed /\ hosts \in SUBSET Host
  BY DEF WithdrawRevoked, ghosts
<1>5. StoreMove /\ db'.list = db.list /\ db'.reg = db.reg /\ RegisteredIn(db'.requests, db'.reg)
  <2> HIDE DEF hosts
  <2> QED
    BY <1>2, <1>3, <1>4, StoreKept, StoreWithdrawn, WithdrawnFacts, StillRegistered
<1>6. mem' = [mem EXCEPT ![s].entries = Drop(@, held)]
  BY DEF WithdrawRevoked
<1>7. /\ mem' \in [Server -> Memory]
      /\ \A t \in Server : mem'[t].list \subseteq db'.list /\ RegisteredIn(mem'[t].entries, db'.reg)
  <2> HIDE DEF held
  <2> QED
    BY <1>5, <1>6, DropEntries
<1>8. EndsTypeOK'
  BY EndsStay, EndsFacts DEF WithdrawRevoked, Changed
<1>9. due' \in [Server -> BOOLEAN] /\ spent' \in [Bounded -> Nat] /\ now' \in 1 .. MaxTime /\ taken' \in [Host -> Nat]
  BY AnnouncedType, TypeFacts DEF EnrolmentInv, WithdrawRevoked, ghosts
<1>10. \A t \in Server : act'[t].pc = "commit" =>
          act'[t].certificate \in db'.reg /\ act'[t].certificate[1] = act'[t].host
  BY <1>1, <1>2, <1>5, StillRegistered
<1> HIDE DEF hosts, held
<1> QED
  BY <1>2, <1>4, <1>5, <1>7, <1>8, <1>9, <1>10, StillRegistered, StepMade

LEMMA RejectStep == ASSUME EnrolmentInv, NEW s \in Server, NEW h \in Host, Reject(s, h) PROVE StepOK
<1>1. act' = act /\ taken' = taken /\ handed' = handed
  BY DEF Reject, ghosts
<1>2. RowMove /\ act' \in [Server -> Act] /\ ~RowHeld(h)'
  BY <1>1, RowsSame DEF Reject, Holds
<1>3. /\ StoreMove /\ db'.list = db.list /\ db'.reg = db.reg /\ RegisteredIn(db'.requests, db'.reg)
      /\ mem' \in [Server -> Memory]
      /\ \A t \in Server : mem'[t].list \subseteq db'.list /\ RegisteredIn(mem'[t].entries, db'.reg)
  <2>1. CASE db' = Decided(h, Rejected) /\ Decides(h) /\ mem' = [mem EXCEPT ![s].entries = Put(@, h, Rejected)]
    <3>1. Rejected \in Request /\ Rejected # Waiting /\ Rejected.decision # "approved"
      BY RequestFacts
    <3>2. db'.list = db.list /\ db'.reg = db.reg /\ db'.requests = Put(db.requests, h, Rejected)
      BY <2>1, MemFacts DEF Decided, Store
    <3>3. StoreMove
      BY <1>1, <1>2, <2>1, <3>1, StoreDecided DEF Decides
    <3>4. RegisteredIn(db'.requests, db'.reg)
      BY <3>1, <3>2, MemFacts, StillRegistered, RegisteredFacts
    <3> QED
      BY <2>1, <3>1, <3>2, <3>3, <3>4, PutEntries
  <2>2. CASE db' = db /\ mem' = [mem EXCEPT ![s].entries = Drop(@, {h})]
    BY <1>1, <2>2, StoreKept, StillRegistered, DropEntries
  <2> QED
    BY <2>1, <2>2 DEF Reject
<1>4. EndsTypeOK'
  BY EndsStay, EndsFacts DEF Reject, Changed
<1>5. due' \in [Server -> BOOLEAN] /\ now' \in 1 .. MaxTime /\ taken' \in [Host -> Nat]
  BY AnnouncedType, TypeFacts DEF EnrolmentInv, Reject, ghosts
<1>6. spent' \in [Bounded -> Nat]
  BY SpendFacts DEF Reject, Bounded
<1> QED
  BY <1>1, <1>2, <1>3, <1>4, <1>5, <1>6, StillRegistered, StepMade

LEMMA ApproveStep == ASSUME EnrolmentInv, NEW s \in Server, NEW h \in Host, Approve(s, h) PROVE StepOK
<1> DEFINE a == [pc |-> "sign", host |-> h, held |-> TRUE]
<1>1. taken' = taken /\ handed' = handed
  BY DEF Approve, ghosts
<1>2. /\ RowMove /\ act' \in [Server -> Act] /\ \A t \in Server : act'[t].pc = "commit" => act'[t] = act[t]
      /\ (act' = act /\ ~RowHeld(h)) => ~RowHeld(h)'
  <2>1. CASE act' = act
    BY <2>1, RowsSame
  <2>2. CASE db' = db /\ Holds(h) /\ Waits(db.requests, h) /\ act' = [act EXCEPT ![s] = a]
    <3>1. a \in Act /\ a.pc = "sign" /\ a.host = h
      BY ActShapes
    <3> HIDE DEF a
    <3>2. act' \in [Server -> Act] /\ act'[s] = a /\ \A t \in Server \ {s} : act'[t] = act[t]
      BY <2>2, <3>1, TypeFacts DEF EnrolmentInv
    <3>3. RowMove
      BY <2>2, <3>1, <3>2 DEF RowMove, Deciding, Holds
    <3>4. act' # act
      BY <3>1, <3>2 DEF Approve, Free, Idle
    <3> QED
      BY <3>1, <3>2, <3>3, <3>4
  <2> QED
    BY <2>1, <2>2 DEF Approve
<1>3. /\ mem' = mem \/ mem' = [mem EXCEPT ![s].entries = Drop(@, {h})]
      /\ db' = db \/ (db' = Withdrawn({h}) /\ Holds(h) /\ act' = act)
  BY DEF Approve
<1>4. StoreMove /\ db'.list = db.list /\ db'.reg = db.reg /\ RegisteredIn(db'.requests, db'.reg)
  <2>1. CASE db' = db
    BY <1>1, <2>1, StoreKept, StillRegistered
  <2>2. CASE db' = Withdrawn({h}) /\ Holds(h) /\ act' = act
    <3>1. {h} \in SUBSET Host /\ \A g \in {h} : ~RowHeld(g)'
      BY <1>2, <2>2 DEF Holds
    <3> QED
      BY <1>1, <2>2, <3>1, StoreWithdrawn, WithdrawnFacts
  <2> QED
    BY <1>3, <2>1, <2>2
<1>5. /\ mem' \in [Server -> Memory]
      /\ \A t \in Server : mem'[t].list \subseteq db'.list /\ RegisteredIn(mem'[t].entries, db'.reg)
  BY <1>3, <1>4, DropEntries, StillRegistered, TypeFacts DEF EnrolmentInv
<1>6. EndsTypeOK'
  BY EndsStay, EndsFacts DEF Approve, Changed
<1>7. due' \in [Server -> BOOLEAN] /\ now' \in 1 .. MaxTime /\ taken' \in [Host -> Nat]
  BY AnnouncedType, TypeFacts DEF EnrolmentInv, Approve, ghosts
<1>8. spent' \in [Bounded -> Nat]
  BY SpendFacts DEF Approve, Bounded
<1> HIDE DEF a
<1> QED
  BY <1>1, <1>2, <1>4, <1>5, <1>6, <1>7, <1>8, StillRegistered, StepMade

(* The next certificate of a host is new to the register, and its own.     *)
LEMMA NextFacts ==
  ASSUME EnrolmentInv, NEW h \in Host
  PROVE  /\ NextCertificate(h) \in Certificate /\ NextCertificate(h)[1] = h
         /\ IsFiniteSet(Certificates(h)) /\ Cardinality(Certificates(h)) \in Nat
<1>1. IsFiniteSet(db.reg) /\ Certificates(h) \subseteq db.reg
  BY TypeFacts DEF EnrolmentInv, Certificates
<1>2. IsFiniteSet(Certificates(h)) /\ Cardinality(Certificates(h)) \in Nat
  BY <1>1, FS_Subset, FS_CardinalityType
<1> QED
  BY <1>2 DEF NextCertificate, Certificate

LEMMA SignStep == ASSUME EnrolmentInv, NEW s \in Server, Sign(s) PROVE StepOK
<1>0. PICK h \in Host : h = act[s].host
  BY TypeFacts, ActFacts DEF EnrolmentInv, Sign
<1> DEFINE c == NextCertificate(h)
           a == [pc |-> "commit", host |-> h, held |-> act[s].held, certificate |-> c]
<1>1. act \in [Server -> Act] /\ h \in Host /\ act[s].held \in BOOLEAN /\ act[s].pc = "sign"
  BY <1>0, TypeFacts, ActFacts DEF EnrolmentInv, Sign
<1>2. taken' = taken /\ handed' = handed
  BY DEF Sign, ghosts
<1>3. EndsTypeOK'
  BY EndsStay, EndsFacts DEF Sign, ends
<1>4. due' \in [Server -> BOOLEAN] /\ now' \in 1 .. MaxTime /\ taken' \in [Host -> Nat] /\ spent' \in [Bounded -> Nat]
  BY AnnouncedType, TypeFacts DEF EnrolmentInv, Sign, ghosts
<1>5. CASE Refused(s, h)
  <2> DEFINE d == [pc |-> "drop", host |-> h]
  <2>1. act' = [act EXCEPT ![s] = d] /\ d \in Act /\ d.pc = "drop"
    BY <1>0, <1>5, ActShapes DEF Sign
  <2>2. db' = db /\ mem' = mem
    BY <1>0, <1>5 DEF Sign
  <2> HIDE DEF d
  <2>3. act' \in [Server -> Act] /\ act'[s] = d /\ RowMove /\ \A t \in Server \ {s} : act'[t] = act[t]
    BY <2>1, RowsLeft
  <2>4. StoreMove
    BY <1>2, <2>2, StoreKept
  <2>5. mem' \in [Server -> Memory] /\ \A t \in Server : mem'[t].list \subseteq db'.list
    BY <2>2, TypeFacts DEF EnrolmentInv
  <2> QED
    BY <1>2, <1>3, <1>4, <2>1, <2>2, <2>3, <2>4, <2>5, StillRegistered, StepMade
<1>6. CASE ~Refused(s, h)
  <2>1. db' = [db EXCEPT !.reg = db.reg \cup {c}] /\ mem' = mem /\ act' = [act EXCEPT ![s] = a]
    BY <1>0, <1>6 DEF Sign, Recorded
  <2>2. c \in Certificate /\ c[1] = h
    BY <1>1, NextFacts
  <2>3. a \in Act /\ a.pc = "commit" /\ a.host = h /\ a.held = act[s].held /\ a.certificate = c
    BY <1>1, <2>2, ActShapes
  <2> HIDE DEF c, a
  <2>4. db \in Store /\ IsFiniteSet(db.reg)
    BY TypeFacts DEF EnrolmentInv
  <2>5. /\ db' \in Store /\ db'.reg = db.reg \cup {c} /\ db'.window = db.window
        /\ db'.requests = db.requests /\ db'.list = db.list
    BY <2>1, <2>2, <2>4 DEF Store
  <2>6. IsFiniteSet(db'.reg)
    BY <2>4, <2>5, FS_AddElement
  <2>7. StoreMove
    BY <1>1, <1>2, <2>5, <2>6 DEF StoreMove, Signs, c
  <2>8. act' \in [Server -> Act] /\ act'[s] = a /\ \A t \in Server \ {s} : act'[t] = act[t]
    BY <1>1, <2>1, <2>3
  <2>9. RowMove
    BY <1>0, <1>1, <2>3, <2>8 DEF RowMove, Deciding
  <2>10. \A t \in Server : act'[t].pc = "commit" =>
            act'[t].certificate \in db'.reg /\ act'[t].certificate[1] = act'[t].host
    BY <2>2, <2>3, <2>5, <2>8, StillRegistered
  <2>11. mem' \in [Server -> Memory] /\ \A t \in Server : mem'[t].list \subseteq db'.list
    BY <2>1, <2>5, TypeFacts DEF EnrolmentInv
  <2> QED
    BY <1>2, <1>3, <1>4, <2>1, <2>5, <2>7, <2>8, <2>9, <2>10, <2>11, StillRegistered, StepMade
<1> QED
  BY <1>5, <1>6

LEMMA WithdrawRefusedStep == ASSUME EnrolmentInv, NEW s \in Server, WithdrawRefused(s) PROVE StepOK
<1>0. PICK h \in Host : h = act[s].host
  BY TypeFacts, ActFacts DEF EnrolmentInv, WithdrawRefused
<1>1. act' = [act EXCEPT ![s] = Idle] /\ Idle \in Act /\ Idle.pc = "idle"
  BY ActShapes DEF WithdrawRefused
<1>2. /\ act' \in [Server -> Act] /\ act'[s] = Idle /\ RowMove /\ \A t \in Server \ {s} : act'[t] = act[t]
      /\ \A g : ~RowHeld(g) => ~RowHeld(g)'
  BY <1>1, RowsLeft
<1>3. db' = db \/ (db' = Withdrawn({h}) /\ \A g \in {h} : ~RowHeld(g))
  BY <1>0 DEF WithdrawRefused, Holds
<1>4. taken' = taken /\ handed' = handed /\ {h} \in SUBSET Host
  BY DEF WithdrawRefused, ghosts
<1>5. StoreMove /\ db'.list = db.list /\ db'.reg = db.reg /\ RegisteredIn(db'.requests, db'.reg)
  BY <1>2, <1>3, <1>4, StoreKept, StoreWithdrawn, WithdrawnFacts, StillRegistered
<1>6. mem' = [mem EXCEPT ![s].entries = Drop(@, {h})]
  BY <1>0 DEF WithdrawRefused
<1>7. /\ mem' \in [Server -> Memory]
      /\ \A t \in Server : mem'[t].list \subseteq db'.list /\ RegisteredIn(mem'[t].entries, db'.reg)
  BY <1>5, <1>6, DropEntries
<1>8. EndsTypeOK'
  BY EndsStay, EndsFacts DEF WithdrawRefused, Changed
<1>9. due' \in [Server -> BOOLEAN] /\ now' \in 1 .. MaxTime /\ taken' \in [Host -> Nat]
  BY AnnouncedType, TypeFacts DEF EnrolmentInv, WithdrawRefused, ghosts
<1>10. spent' \in [Bounded -> Nat]
  BY SpendFacts, TypeFacts DEF WithdrawRefused, Bounded, EnrolmentInv
<1> QED
  BY <1>1, <1>2, <1>4, <1>5, <1>7, <1>8, <1>9, <1>10, StillRegistered, StepMade

LEMMA CommitStep == ASSUME EnrolmentInv, NEW s \in Server, Commit(s) PROVE StepOK
<1>0. PICK h \in Host : h = act[s].host
  BY TypeFacts, ActFacts DEF EnrolmentInv, Commit
<1> DEFINE r == Approved(act[s].certificate)
<1>1. act[s] \in Act /\ h \in Host /\ act[s].certificate \in Certificate
  BY TypeFacts, ActFacts DEF EnrolmentInv, Commit
<1>2. taken' = taken /\ handed' = handed
  BY DEF Commit, ghosts
<1>3. EndsTypeOK'
  BY EndsStay, EndsFacts DEF Commit, Changed
<1>4. due' \in [Server -> BOOLEAN] /\ now' \in 1 .. MaxTime /\ taken' \in [Host -> Nat]
  BY AnnouncedType, TypeFacts DEF EnrolmentInv, Commit, ghosts
<1>5. spent' \in [Bounded -> Nat]
  BY SpendFacts, TypeFacts DEF Commit, Bounded, EnrolmentInv
<1>6. r \in Request /\ r # Waiting /\ r.certificate = act[s].certificate
  BY <1>1, RequestFacts
<1>7. act' = [act EXCEPT ![s] = Idle] /\ Idle \in Act /\ Idle.pc = "idle"
  BY ActShapes DEF Commit
<1>8. Deciding(s) /\ act[s].held /\ act[s].pc = "commit" /\ Waits(db.requests, h)
  BY <1>0 DEF Commit, Deciding, EnrolmentInv, RowsStand
<1>9. /\ db' = Decided(h, r)
      /\ mem' = mem \/ mem' = [mem EXCEPT ![s].entries = Put(@, h, r)]
  <2>1. mem \in [Server -> Memory]
    BY TypeFacts DEF EnrolmentInv
  <2>2. CASE mem' = [mem EXCEPT ![s].entries = IF h \in DOMAIN @ THEN Put(@, h, r) ELSE @]
    <3>1. CASE h \in DOMAIN mem[s].entries
      BY <1>0, <2>2, <3>1 DEF Commit
    <3>2. CASE h \notin DOMAIN mem[s].entries
      <4>1. mem' = [mem EXCEPT ![s].entries = mem[s].entries]
        BY <2>2, <3>2
      <4>2. mem' = mem
        BY <2>1, <4>1 DEF Memory
      <4> QED
        BY <1>0, <4>2 DEF Commit
    <3> QED
      BY <3>1, <3>2
  <2> QED
    BY <1>0, <2>2 DEF Commit
<1> HIDE DEF r
<1>10. /\ act' \in [Server -> Act] /\ act'[s] = Idle /\ RowMove /\ \A t \in Server \ {s} : act'[t] = act[t]
       /\ ~RowHeld(h)'
  BY <1>7, <1>8, <1>0, RowsLeft
<1>11. db'.list = db.list /\ db'.reg = db.reg /\ db'.requests = Put(db.requests, h, r) /\ db.requests \in Queue
  BY <1>9, MemFacts DEF Decided, Store
<1>12. r.certificate \in db'.reg /\ r.certificate[1] = h
  BY <1>6, <1>8, <1>11, <1>0, HandedFacts
<1>13. StoreMove
  BY <1>1, <1>2, <1>6, <1>8, <1>9, <1>10, StoreDecided
<1>14. RegisteredIn(db'.requests, db'.reg)
  BY <1>1, <1>6, <1>11, <1>12, HandedFacts, RegisteredFacts
<1>15. /\ mem' \in [Server -> Memory]
       /\ \A t \in Server : mem'[t].list \subseteq db'.list /\ RegisteredIn(mem'[t].entries, db'.reg)
  BY <1>1, <1>6, <1>9, <1>11, <1>12, PutEntries, StillRegistered, TypeFacts DEF EnrolmentInv
<1> QED
  BY <1>2, <1>3, <1>4, <1>5, <1>7, <1>10, <1>11, <1>13, <1>14, <1>15, StillRegistered, StepMade

(* A request that is sent or asked for again, from either side.            *)
LEMMA SubmitStep ==
  ASSUME EnrolmentInv, NEW s \in Server, NEW h \in Host, Submit(s, h), EndsTypeOK',
         UNCHANGED <<now, act, spent>>
  PROVE  StepOK
<1> DEFINE entries == mem[s].entries
           held == h \in DOMAIN entries
           stored == ~held /\ Takes /\ h \in DOMAIN db.requests
           added == ~held /\ Takes /\ h \notin DOMAIN db.requests /\ Room(db.requests, h)
           r == IF held THEN entries[h] ELSE IF stored THEN db.requests[h] ELSE Waiting
<1>1. db \in Store /\ IsFiniteSet(db.reg) /\ db.requests \in Queue /\ entries \in Queue /\ taken \in [Host -> Nat]
  BY TypeFacts, MemFacts DEF EnrolmentInv
<1>2. r \in Request /\ (r.decision = "approved" => r.certificate \in db.reg /\ r.certificate[1] = h)
  <2>1. CASE held
    BY <1>1, <2>1, QueueFacts, HandedFacts DEF RegisteredIn
  <2>2. CASE ~held /\ stored
    BY <1>1, <2>2, QueueFacts, HandedFacts DEF RegisteredIn
  <2>3. CASE ~held /\ ~stored
    BY <2>3, RequestFacts
  <2> QED
    BY <2>1, <2>2, <2>3
<1>3. /\ db' = IF added THEN [db EXCEPT !.requests = Put(db.requests, h, Waiting)] ELSE db
      /\ mem' = IF stored \/ added THEN [mem EXCEPT ![s].entries = Put(@, h, r)] ELSE mem
      /\ taken' = IF added THEN [taken EXCEPT ![h] = @ + 1] ELSE taken
      /\ handed' = IF r.decision = "approved" THEN handed \cup {r.certificate} ELSE handed
      /\ Announced(s, added)
  BY DEF Submit
<1>4. added => Takes /\ h \notin DOMAIN db.requests /\ Room(db.requests, h)
  OBVIOUS
<1> HIDE DEF entries, held, stored, added, r
<1>5. Waiting \in Request /\ Waiting.decision # "approved" /\ Put(db.requests, h, Waiting) \in Queue
  BY <1>1, RequestFacts, PutFacts
<1>6. /\ StoreMove /\ db'.list = db.list /\ db'.reg = db.reg /\ RegisteredIn(db'.requests, db'.reg)
      /\ taken' \in [Host -> Nat]
  <2>1. CASE added
    <3>1. /\ db' \in Store /\ db'.requests = Put(db.requests, h, Waiting) /\ db'.window = db.window
          /\ db'.reg = db.reg /\ db'.list = db.list
      BY <1>1, <1>3, <1>5, <2>1 DEF Store
    <3>2. db.window # 0
      BY <1>4, <2>1, TypeFacts DEF Takes, EnrolmentInv, Store
    <3>3. Adds
      BY <1>3, <1>4, <2>1, <3>1, <3>2 DEF Adds
    <3>4. RegisteredIn(db'.requests, db'.reg)
      BY <1>1, <1>5, <3>1, HandedFacts, RegisteredFacts
    <3>5. taken' \in [Host -> Nat]
      BY <1>1, <1>3, <2>1
    <3> QED
      BY <1>1, <3>1, <3>3, <3>4, <3>5 DEF StoreMove
  <2>2. CASE ~added
    BY <1>1, <1>3, <2>2, StoreKept, HandedFacts
  <2> QED
    BY <2>1, <2>2
<1>7. /\ mem' \in [Server -> Memory]
      /\ \A t \in Server : mem'[t].list \subseteq db'.list /\ RegisteredIn(mem'[t].entries, db'.reg)
  BY <1>2, <1>3, <1>6, PutEntries, StillRegistered, TypeFacts DEF EnrolmentInv
<1>8. due' \in [Server -> BOOLEAN]
  BY <1>3, AnnouncedType
<1>9. spent' \in [Bounded -> Nat] /\ now' \in 1 .. MaxTime
  BY TypeFacts DEF EnrolmentInv
<1>10. handed' \subseteq db'.reg
  BY <1>2, <1>3, <1>6, HandedFacts
<1>11. RowMove /\ act' \in [Server -> Act]
  BY RowsSame
<1> QED
  BY <1>6, <1>7, <1>8, <1>9, <1>10, <1>11, StillRegistered, StepMade

LEMMA EnrolStep == ASSUME EnrolmentInv, NEW s \in Server, NEW h \in Host, Enrol(s, h) PROVE StepOK
<1>1. conn[h] \in Connection /\ woken' \subseteq woken \cup At(s)
  BY EndsFacts DEF Enrol, Submit, At
<1>2. [conn[h] EXCEPT !.asked = TRUE] \in Connection
  BY <1>1 DEF Connection
<1>3. EndsTypeOK'
  BY <1>1, <1>2, EndsFacts, EnrolmentAssumption DEF Enrol, EndsTypeOK
<1> QED
  BY <1>3, SubmitStep DEF Enrol

LEMMA PushStep == ASSUME EnrolmentInv, NEW s \in Server, NEW h \in Host, Push(s, h) PROVE StepOK
<1>1. spent' \in [Bounded -> Nat] /\ now' \in 1 .. MaxTime
  BY TypeFacts DEF Push, EnrolmentInv
<1>2. CASE Ended({h}) /\ woken' = woken \ {h} /\ UNCHANGED <<db, mem, due, ghosts>>
  BY <1>1, <1>2, EndsEnd, QuietStep DEF Push, ghosts
<1>3. CASE Submit(s, h) /\ UNCHANGED <<conn, unchecked>>
  <2>1. EndsTypeOK'
    BY <1>3, EndsStay, EndsFacts DEF Submit
  <2> QED
    BY <1>3, <2>1, SubmitStep DEF Push
<1>4. CASE woken' = woken \ {h} /\ UNCHANGED <<db, mem, due, conn, unchecked, ghosts>>
  BY <1>1, <1>4, EndsStay, QuietStep DEF Push, ghosts
<1> QED
  BY <1>2, <1>3, <1>4 DEF Push

LEMMA StutterStep == EnrolmentInv /\ UNCHANGED vars => StepOK
<1> SUFFICES ASSUME EnrolmentInv, UNCHANGED vars PROVE StepOK
  OBVIOUS
<1>1. EndsTypeOK' /\ spent' \in [Bounded -> Nat] /\ now' \in 1 .. MaxTime
  BY EndsStay, TypeFacts DEF EnrolmentInv, vars, ends
<1> QED
  BY <1>1, QuietStep DEF vars, ends, ghosts

(* So every step of the specification is one.                              *)
LEMMA EveryStep == EnrolmentInv /\ [Next]_vars => StepOK
BY TickStep, LostStep, CloseStep, ExpireStep, SignStep, CommitStep, FailStep, LoseRowStep,
   WithdrawRefusedStep, WithdrawRevokedStep, TakeUpListStep, ReloadStep, ReloadedStep, CrashStep, OpenOnStep,
   OpenedOnStep, OpenStep, RevokeStep, ConnectStep, EnrolStep, PushStep, TrippedStep,
   ApproveStep, RejectStep, StutterStep DEF Next

-------------------------------------------------------------------------------
(* What the moves leave standing                                           *)

LEMMA ClosedStep == ASSUME EnrolmentInv, StoreMove PROVE ClosedIsEmpty'
<1>1. db.requests \in Queue /\ db'.requests \in Queue /\ (db.window = 0 => db.requests = <<>>)
  BY TypeFacts DEF EnrolmentInv, Store, StoreMove, ClosedIsEmpty
<1>2. CASE Keeps \/ Opens \/ Closes \/ Adds \/ Signs
  BY <1>1, <1>2 DEF Keeps, SameRest, Opens, Closes, Adds, Signs, ClosedIsEmpty
<1>3. CASE Withdraws
  <2>1. PICK hosts : db'.requests = Drop(db.requests, hosts)
    BY <1>3 DEF Withdraws
  <2>2. DOMAIN db'.requests \subseteq DOMAIN db.requests
    BY <1>1, <2>1 DEF Drop, Restrict
  <2> QED
    BY <1>1, <1>3, <2>2, EmptyQueue DEF ClosedIsEmpty, Withdraws, SameRest
<1>4. CASE DecidesOne
  BY <1>1, <1>4, EmptyQueue DEF ClosedIsEmpty, DecidesOne, SameRest, Waits
<1> QED
  BY <1>2, <1>3, <1>4 DEF StoreMove

\* The bounds, of the hosts that have a request.
Fits(hosts) ==
    /\ Cardinality(hosts) <= MAX_PENDING
    /\ \A b \in Bootstrap : Cardinality({h \in hosts : BootstrapOf[h] = b}) <= MaxPerBootstrap

LEMMA FitsFewer ==
  ASSUME NEW hosts \in SUBSET Host, NEW fewer \in SUBSET hosts, Fits(hosts)
  PROVE  Fits(fewer)
<1>1. IsFiniteSet(hosts) /\ IsFiniteSet(fewer)
  BY EnrolmentAssumption, FS_Subset
<1>2. Cardinality(fewer) <= Cardinality(hosts) /\ Cardinality(fewer) \in Nat /\ Cardinality(hosts) \in Nat
  BY <1>1, FS_Subset, FS_CardinalityType
<1>3. ASSUME NEW b \in Bootstrap
      PROVE  Cardinality({h \in fewer : BootstrapOf[h] = b}) <= MaxPerBootstrap
  <2> DEFINE X == {h \in hosts : BootstrapOf[h] = b}
             Y == {h \in fewer : BootstrapOf[h] = b}
  <2>1. X \subseteq hosts /\ Y \subseteq X /\ Cardinality(X) <= MaxPerBootstrap
    BY DEF Fits
  <2> HIDE DEF X, Y
  <2>2. IsFiniteSet(X) /\ IsFiniteSet(Y) /\ Cardinality(Y) <= Cardinality(X)
    BY <1>1, <2>1, FS_Subset
  <2>3. Cardinality(X) \in Nat /\ Cardinality(Y) \in Nat
    BY <2>2, FS_CardinalityType
  <2>4. Cardinality(Y) <= MaxPerBootstrap
    BY <2>1, <2>2, <2>3, EnrolmentAssumption
  <2> QED
    BY <2>4 DEF Y
<1> QED
  BY <1>2, <1>3, EnrolmentAssumption DEF Fits

LEMMA FitsMore ==
  ASSUME NEW queue \in Queue, NEW h \in Host, Fits(DOMAIN queue), Room(queue, h)
  PROVE  Fits(DOMAIN queue \cup {h})
<1> DEFINE hosts == DOMAIN queue
<1>1. hosts \subseteq Host
  BY QueueFacts
<1>2. Cardinality(hosts) < MAX_PENDING
  BY DEF Room
<1>3. Cardinality({g \in hosts : BootstrapOf[g] = BootstrapOf[h]}) < MaxPerBootstrap
  BY DEF Room, OfBootstrap
<1>4. Fits(hosts)
  OBVIOUS
<1> HIDE DEF hosts
<1>5. IsFiniteSet(hosts)
  BY <1>1, EnrolmentAssumption, FS_Subset
<1>6. Cardinality(hosts) \in Nat /\ Cardinality(hosts \cup {h}) \in {Cardinality(hosts), Cardinality(hosts) + 1}
  BY <1>5, FS_CardinalityType, FS_AddElement
<1>7. ASSUME NEW b \in Bootstrap
      PROVE  Cardinality({g \in hosts \cup {h} : BootstrapOf[g] = b}) <= MaxPerBootstrap
  <2> DEFINE X == {g \in hosts : BootstrapOf[g] = b}
             Y == {g \in hosts \cup {h} : BootstrapOf[g] = b}
  <2>1. X \subseteq hosts /\ Cardinality(X) <= MaxPerBootstrap
    BY <1>4 DEF Fits
  <2>2. Y = IF BootstrapOf[h] = b THEN X \cup {h} ELSE X
    OBVIOUS
  <2>3. BootstrapOf[h] = b => Cardinality(X) < MaxPerBootstrap
    BY <1>3
  <2> HIDE DEF X, Y
  <2>4. IsFiniteSet(X) /\ Cardinality(X) \in Nat
    BY <1>5, <2>1, FS_Subset, FS_CardinalityType
  <2>5. Cardinality(X \cup {h}) \in {Cardinality(X), Cardinality(X) + 1}
    BY <2>4, FS_AddElement
  <2>6. Cardinality(Y) <= MaxPerBootstrap
    BY <2>1, <2>2, <2>3, <2>4, <2>5, EnrolmentAssumption
  <2> QED
    BY <2>6 DEF Y
<1>8. Fits(hosts \cup {h})
  BY <1>2, <1>6, <1>7, EnrolmentAssumption DEF Fits
<1> QED
  BY <1>8 DEF hosts

LEMMA BoundedStep == ASSUME EnrolmentInv, StoreMove PROVE QueueBounded'
<1>1. db.requests \in Queue /\ db'.requests \in Queue /\ DOMAIN db.requests \in SUBSET Host
  BY TypeFacts, QueueFacts DEF EnrolmentInv, Store, StoreMove
<1>2. Fits(DOMAIN db.requests)
  BY DEF EnrolmentInv, QueueBounded, OfBootstrap, Fits
<1>3. Fits(DOMAIN db'.requests)
  <2>1. CASE Keeps \/ Opens \/ Signs
    BY <1>2, <2>1 DEF Keeps, Opens, Signs
  <2>2. CASE Closes
    BY <1>1, <1>2, <2>2, EmptyQueue, FitsFewer DEF Closes
  <2>3. CASE Adds
    <3>1. PICK h \in Host : Room(db.requests, h) /\ db'.requests = Put(db.requests, h, Waiting)
      BY <2>3 DEF Adds
    <3>2. DOMAIN db'.requests = DOMAIN db.requests \cup {h}
      BY <1>1, <3>1, RequestFacts DEF Put
    <3> QED
      BY <1>1, <1>2, <3>1, <3>2, FitsMore
  <2>4. CASE Withdraws
    <3>1. PICK hosts : db'.requests = Drop(db.requests, hosts)
      BY <2>4 DEF Withdraws
    <3>2. DOMAIN db'.requests \in SUBSET DOMAIN db.requests
      BY <1>1, <3>1 DEF Drop, Restrict
    <3> QED
      BY <1>1, <1>2, <3>2, FitsFewer
  <2>5. CASE DecidesOne
    <3>1. PICK h \in Host, r \in Request : Waits(db.requests, h) /\ db'.requests = Put(db.requests, h, r)
      BY <2>5 DEF DecidesOne
    <3>2. DOMAIN db'.requests = DOMAIN db.requests
      BY <1>1, <3>1 DEF Put, Waits
    <3> QED
      BY <1>2, <3>2
  <2> QED
    BY <2>1, <2>2, <2>3, <2>4, <2>5 DEF StoreMove
<1> QED
  BY <1>3 DEF QueueBounded, OfBootstrap, Fits

(* A request whose row is held waits on, whatever the others do.           *)
LEMMA RowsStep == ASSUME EnrolmentInv, StoreMove, RowMove PROVE RowsStand'
<1>1. db.requests \in Queue /\ act \in [Server -> Act]
  BY TypeFacts DEF EnrolmentInv, Store
<1> SUFFICES ASSUME NEW s \in Server, Deciding(s)', act'[s].held
             PROVE  /\ Waits(db'.requests, act'[s].host)
                    /\ \A t \in Server : Deciding(t)' /\ act'[t].held /\ act'[t].host = act'[s].host => t = s
  BY DEF RowsStand
<1>2. PICK h : h = act'[s].host
  OBVIOUS
<1>3. Waits(db.requests, h) /\ RowHeld(h)'
  BY <1>2 DEF RowMove, EnrolmentInv, RowsStand, RowHeld, Deciding
<1>4. Waits(db'.requests, h)
  <2>1. CASE Keeps \/ Opens \/ Signs
    BY <1>3, <2>1 DEF Keeps, Opens, Signs
  <2>2. CASE Closes
    BY <1>2, <1>3, <2>2 DEF Closes, QueueHeld, RowHeld, RowMove, Deciding, Waits
  <2>3. CASE Adds
    <3>1. PICK g \in Host : g \notin DOMAIN db.requests /\ db'.requests = Put(db.requests, g, Waiting)
      BY <2>3 DEF Adds
    <3> QED
      BY <1>1, <1>3, <3>1, RequestFacts DEF Put, Waits
  <2>4. CASE Withdraws
    <3>1. PICK hosts : /\ db'.requests = Drop(db.requests, {g \in hosts : Waits(db.requests, g)})
                       /\ \A g \in hosts : ~RowHeld(g)'
      BY <2>4 DEF Withdraws
    <3> DEFINE gone == {g \in hosts : Waits(db.requests, g)}
    <3>2. h \notin gone
      BY <1>3, <3>1
    <3>3. db'.requests = Drop(db.requests, gone)
      BY <3>1
    <3> HIDE DEF gone
    <3> QED
      BY <1>1, <1>3, <3>2, <3>3 DEF Drop, Restrict, Waits
  <2>5. CASE DecidesOne
    <3>1. PICK g \in Host, r \in Request : db'.requests = Put(db.requests, g, r) /\ ~RowHeld(g)'
      BY <2>5 DEF DecidesOne
    <3>2. g # h
      BY <1>3, <3>1
    <3> QED
      BY <1>1, <1>3, <3>1, <3>2 DEF Put, Waits
  <2> QED
    BY <2>1, <2>2, <2>3, <2>4, <2>5 DEF StoreMove
<1>5. ASSUME NEW t \in Server, Deciding(t)', act'[t].held, act'[t].host = h PROVE t = s
  BY <1>2, <1>5 DEF RowMove, RowHeld, EnrolmentInv, RowsStand, Deciding
<1> QED
  BY <1>2, <1>4, <1>5

-------------------------------------------------------------------------------
(* How often a request may still be signed                                 *)

SignedHeld(h) == \E s \in Server : act[s].pc = "commit" /\ act[s].held /\ act[s].host = h

LEMMA OwedFacts ==
  ASSUME EnrolmentInv, NEW h \in Host
  PROVE  /\ IsFiniteSet(Certificates(h)) /\ Cardinality(Certificates(h)) \in Nat
         /\ IsFiniteSet(RowLost(h)) /\ Cardinality(RowLost(h)) \in Nat
         /\ MaySign(h) \in {0, 1} /\ (MaySign(h) = 1 <=> Waits(db.requests, h) /\ ~SignedHeld(h))
         /\ taken[h] \in Nat /\ spent["fails"] \in Nat /\ spent["crashes"] \in Nat
         /\ Cardinality(Certificates(h)) + MaySign(h) + Cardinality(RowLost(h))
               <= taken[h] + spent["fails"] + spent["crashes"]
<1>1. RowLost(h) \subseteq Server
  BY DEF RowLost
<1>2. IsFiniteSet(RowLost(h)) /\ Cardinality(RowLost(h)) \in Nat
  BY <1>1, EnrolmentAssumption, FS_Subset, FS_CardinalityType
<1>3. MaySign(h) \in {0, 1} /\ (MaySign(h) = 1 <=> Waits(db.requests, h) /\ ~SignedHeld(h))
  BY DEF MaySign, SignedHeld
<1>4. taken[h] \in Nat /\ spent["fails"] \in Nat /\ spent["crashes"] \in Nat
  BY TypeFacts DEF EnrolmentInv, Bounded
<1> QED
  BY <1>2, <1>3, <1>4, NextFacts DEF EnrolmentInv, SigningsOwed

LEMMA OwedNext ==
  ASSUME EnrolmentTypeOK', NEW h \in Host
  PROVE  /\ IsFiniteSet(Certificates(h)') /\ Cardinality(Certificates(h)') \in Nat
         /\ IsFiniteSet(RowLost(h)') /\ Cardinality(RowLost(h)') \in Nat
         /\ MaySign(h)' \in {0, 1} /\ (MaySign(h)' = 1 <=> Waits(db'.requests, h) /\ ~SignedHeld(h)')
         /\ taken'[h] \in Nat /\ spent'["fails"] \in Nat /\ spent'["crashes"] \in Nat
<1>1. IsFiniteSet(db'.reg) /\ Certificates(h)' \subseteq db'.reg /\ RowLost(h)' \subseteq Server
  BY DEF EnrolmentTypeOK, StoreTypeOK, Certificates, RowLost
<1>2. IsFiniteSet(Certificates(h)') /\ Cardinality(Certificates(h)') \in Nat
  BY <1>1, FS_Subset, FS_CardinalityType
<1>3. IsFiniteSet(RowLost(h)') /\ Cardinality(RowLost(h)') \in Nat
  BY <1>1, EnrolmentAssumption, FS_Subset, FS_CardinalityType
<1>4. MaySign(h)' \in {0, 1} /\ (MaySign(h)' = 1 <=> Waits(db'.requests, h) /\ ~SignedHeld(h)')
  BY DEF MaySign, SignedHeld
<1>5. taken'[h] \in Nat /\ spent'["fails"] \in Nat /\ spent'["crashes"] \in Nat
  BY DEF EnrolmentTypeOK, Bounded
<1> QED
  BY <1>2, <1>3, <1>4, <1>5

(* No move but a taking-in makes a request wait.                           *)
LEMMA WaitsMove ==
  ASSUME EnrolmentInv, StoreMove, NEW h \in Host, Waits(db'.requests, h)
  PROVE  Waits(db.requests, h) \/ taken'[h] = taken[h] + 1
<1>1. db.requests \in Queue /\ taken \in [Host -> Nat]
  BY TypeFacts DEF EnrolmentInv, Store
<1>2. CASE Keeps \/ Opens \/ Signs \/ Closes
  BY <1>2, EmptyQueue DEF Keeps, Opens, Signs, Closes, SameRest, Waits
<1>3. CASE Adds
  <2>1. PICK g \in Host : db'.requests = Put(db.requests, g, Waiting) /\ taken' = [taken EXCEPT ![g] = @ + 1]
    BY <1>3 DEF Adds
  <2> QED
    BY <1>1, <2>1 DEF Put, Waits
<1>4. CASE Withdraws
  <2>1. PICK hosts : db'.requests = Drop(db.requests, hosts) /\ taken' = taken
    BY <1>4 DEF Withdraws, SameRest
  <2> QED
    BY <2>1 DEF Drop, Restrict, Waits
<1>5. CASE DecidesOne
  <2>1. PICK g, r : db'.requests = Put(db.requests, g, r) /\ taken' = taken /\ r # Waiting
    BY <1>5 DEF DecidesOne, SameRest
  <2> QED
    BY <2>1 DEF Put, Waits
<1> QED
  BY <1>2, <1>3, <1>4, <1>5 DEF StoreMove

LEMMA TakenGrows ==
  ASSUME EnrolmentInv, StoreMove, NEW h \in Host
  PROVE  taken'[h] >= taken[h] /\ taken[h] \in Nat
<1>1. taken \in [Host -> Nat]
  BY TypeFacts DEF EnrolmentInv
<1>2. taken' = taken \/ \E g \in Host : taken' = [taken EXCEPT ![g] = @ + 1]
  BY DEF StoreMove, Keeps, Opens, Closes, Adds, Withdraws, DecidesOne, Signs, SameRest
<1> QED
  BY <1>1, <1>2

\* A step that signs nothing and whose calls lose no row: one that ends with the row held
\* and the certificate signed has decided the request.
Steady ==
    /\ db'.reg = db.reg /\ spent'["fails"] >= spent["fails"] /\ spent'["crashes"] >= spent["crashes"]
    /\ \A s \in Server :
        \/ act'[s] = act[s]
        \/ /\ act'[s].pc = "sign" => act'[s].held
           /\ act[s].pc = "commit" /\ act[s].held => ~Waits(db'.requests, act[s].host)

LEMMA OwedSteady == ASSUME EnrolmentInv, StepOK, Steady PROVE SigningsOwed'
<1> SUFFICES ASSUME NEW h \in Host
             PROVE  Cardinality(Certificates(h)') + MaySign(h)' + Cardinality(RowLost(h)')
                      <= taken'[h] + spent'["fails"] + spent'["crashes"]
  BY DEF SigningsOwed
<1>1. Certificates(h)' = Certificates(h)
  BY DEF Steady, Certificates
<1>2. RowLost(h)' \subseteq RowLost(h)
  BY DEF Steady, RowLost
<1>3. Cardinality(RowLost(h)') <= Cardinality(RowLost(h))
  BY <1>2, OwedFacts, FS_Subset
<1>4. MaySign(h)' <= MaySign(h) \/ (taken'[h] = taken[h] + 1 /\ MaySign(h)' <= MaySign(h) + 1)
  <2>1. CASE MaySign(h)' = 1
    <3>1. Waits(db'.requests, h) /\ ~SignedHeld(h)'
      BY <2>1, OwedNext DEF StepOK
    <3>2. ~SignedHeld(h)
      BY <3>1 DEF Steady, SignedHeld
    <3> QED
      BY <2>1, <3>1, <3>2, OwedFacts, WaitsMove DEF StepOK
  <2> QED
    BY <2>1, OwedFacts, OwedNext DEF StepOK
<1>5. taken'[h] >= taken[h]
  BY TakenGrows DEF StepOK
<1> QED
  BY <1>1, <1>3, <1>4, <1>5, OwedFacts, OwedNext DEF StepOK, Steady

\* A failure: one more is counted, and at most one row is lost, or one signature.
LEMMA OwedFailed ==
  ASSUME EnrolmentInv, StepOK, db' = db, taken' = taken,
         spent'["fails"] + spent'["crashes"] = spent["fails"] + spent["crashes"] + 1,
         \/ \A h \in Host : RowLost(h)' \subseteq RowLost(h)
         \/ \E s \in Server : /\ \A h \in Host : RowLost(h)' \subseteq RowLost(h) \cup {s}
                              /\ \A h \in Host : SignedHeld(h) => SignedHeld(h)'
  PROVE  SigningsOwed'
<1> SUFFICES ASSUME NEW h \in Host
             PROVE  Cardinality(Certificates(h)') + MaySign(h)' + Cardinality(RowLost(h)')
                      <= taken'[h] + spent'["fails"] + spent'["crashes"]
  BY DEF SigningsOwed
<1>1. Certificates(h)' = Certificates(h)
  BY DEF Certificates
<1>2. MaySign(h)' + Cardinality(RowLost(h)') <= MaySign(h) + Cardinality(RowLost(h)) + 1
  <2>1. CASE RowLost(h)' \subseteq RowLost(h)
    <3>1. Cardinality(RowLost(h)') <= Cardinality(RowLost(h))
      BY <2>1, OwedFacts, FS_Subset
    <3> QED
      BY <3>1, OwedFacts, OwedNext DEF StepOK
  <2>2. ASSUME NEW s \in Server, RowLost(h)' \subseteq RowLost(h) \cup {s}, SignedHeld(h) => SignedHeld(h)'
        PROVE  MaySign(h)' + Cardinality(RowLost(h)') <= MaySign(h) + Cardinality(RowLost(h)) + 1
    <3>1. /\ IsFiniteSet(RowLost(h) \cup {s})
          /\ Cardinality(RowLost(h) \cup {s}) \in {Cardinality(RowLost(h)), Cardinality(RowLost(h)) + 1}
      BY OwedFacts, FS_AddElement
    <3>2. Cardinality(RowLost(h)') <= Cardinality(RowLost(h) \cup {s})
      BY <2>2, <3>1, FS_Subset
    <3>3. MaySign(h)' <= MaySign(h)
      BY <2>2, OwedFacts, OwedNext DEF StepOK
    <3> QED
      BY <3>1, <3>2, <3>3, OwedFacts, OwedNext DEF StepOK
  <2> QED
    BY <2>1, <2>2
<1> QED
  BY <1>1, <1>2, OwedFacts, OwedNext DEF StepOK

(* A certificate is signed: by the one that holds the row, for the first   *)
(* time, or by one that lost it.                                           *)
LEMMA OwedSigned ==
  ASSUME EnrolmentInv, StepOK, NEW s \in Server, Sign(s), ~Refused(s, act[s].host)
  PROVE  SigningsOwed'
<1> SUFFICES ASSUME NEW h \in Host
             PROVE  Cardinality(Certificates(h)') + MaySign(h)' + Cardinality(RowLost(h)')
                      <= taken'[h] + spent'["fails"] + spent'["crashes"]
  BY DEF SigningsOwed
<1>1. PICK g \in Host : g = act[s].host
  BY TypeFacts, ActFacts DEF EnrolmentInv, Sign
<1>2. /\ act'[s].pc = "commit" /\ act'[s].host = g /\ act'[s].held = act[s].held /\ act[s].pc = "sign"
      /\ \A t \in Server \ {s} : act'[t] = act[t]
  BY <1>1, TypeFacts DEF EnrolmentInv, Sign
<1>3. /\ db'.requests = db.requests /\ db'.reg = db.reg \cup {NextCertificate(g)}
      /\ taken' = taken /\ spent' = spent
  BY <1>1, TypeFacts DEF EnrolmentInv, Sign, Recorded, Store, ghosts
<1>4. NextCertificate(g)[1] = g
  BY NextFacts
<1>5. SignedHeld(h) => SignedHeld(h)'
  BY <1>2 DEF SignedHeld
<1>6. MaySign(h)' <= MaySign(h)
  BY <1>3, <1>5, OwedFacts, OwedNext DEF StepOK
<1>7. RowLost(h)' \subseteq RowLost(h)
  BY <1>2 DEF RowLost
<1>8. Cardinality(RowLost(h)') <= Cardinality(RowLost(h))
  BY <1>7, OwedFacts, FS_Subset
<1>9. CASE h # g
  <2>1. Certificates(h)' = Certificates(h)
    BY <1>3, <1>4, <1>9 DEF Certificates
  <2> QED
    BY <1>3, <1>6, <1>8, <2>1, OwedFacts, OwedNext DEF StepOK
<1>10. CASE h = g
  <2>1. Certificates(h)' = Certificates(h) \cup {NextCertificate(h)}
    BY <1>3, <1>4, <1>10 DEF Certificates
  <2>2. Cardinality(Certificates(h)') <= Cardinality(Certificates(h)) + 1
    <3>1. Cardinality(Certificates(h) \cup {NextCertificate(h)})
            \in {Cardinality(Certificates(h)), Cardinality(Certificates(h)) + 1}
      BY OwedFacts, FS_AddElement
    <3> QED
      BY <2>1, <3>1, OwedFacts
  <2>3. CASE act[s].held
    <3>1. Waits(db.requests, h) /\ ~SignedHeld(h)
      BY <1>1, <1>2, <1>10, <2>3 DEF EnrolmentInv, RowsStand, Deciding, SignedHeld
    <3>2. SignedHeld(h)'
      BY <1>2, <1>10, <2>3 DEF SignedHeld
    <3>3. MaySign(h)' = 0 /\ MaySign(h) = 1
      BY <3>1, <3>2, OwedFacts, OwedNext DEF StepOK
    <3> QED
      BY <1>3, <1>8, <2>2, <3>3, OwedFacts, OwedNext DEF StepOK
  <2>4. CASE ~act[s].held
    <3>1. s \in RowLost(h)
      BY <1>1, <1>2, <1>10, <2>4 DEF RowLost
    <3>2. RowLost(h)' \subseteq RowLost(h) \ {s}
      BY <1>2 DEF RowLost
    <3>3. IsFiniteSet(RowLost(h) \ {s}) /\ Cardinality(RowLost(h) \ {s}) = Cardinality(RowLost(h)) - 1
      BY <3>1, OwedFacts, FS_RemoveElement
    <3>4. Cardinality(RowLost(h)') <= Cardinality(RowLost(h)) - 1
      BY <3>2, <3>3, FS_Subset
    <3> QED
      BY <1>3, <1>6, <2>2, <3>4, OwedFacts, OwedNext DEF StepOK
  <2> QED
    BY <1>1, <1>2, <2>3, <2>4, TypeFacts, ActFacts DEF EnrolmentInv
<1> QED
  BY <1>9, <1>10

LEMMA SpendGrows ==
  ASSUME EnrolmentInv, NEW what \in Bounded, Spend(what)
  PROVE  /\ spent'["fails"] >= spent["fails"] /\ spent'["crashes"] >= spent["crashes"]
         /\ what \in {"fails", "crashes"} =>
              spent'["fails"] + spent'["crashes"] = spent["fails"] + spent["crashes"] + 1
BY TypeFacts DEF EnrolmentInv, Spend, Bounded

LEMMA OwedFail == ASSUME EnrolmentInv, StepOK, NEW s \in Server, Fail(s) PROVE SigningsOwed'
<1>1. act'[s] = Idle /\ Idle.pc = "idle" /\ \A t \in Server \ {s} : act'[t] = act[t]
  BY TypeFacts DEF EnrolmentInv, Fail, Idle
<1>2. \A h \in Host : RowLost(h)' \subseteq RowLost(h)
  BY <1>1 DEF RowLost
<1>3. CASE act[s].held /\ Spend("fails")
  BY <1>2, <1>3, SpendGrows, OwedFailed DEF Fail, Bounded, ghosts
<1>4. CASE ~act[s].held /\ spent' = spent
  <2>1. spent'["fails"] >= spent["fails"] /\ spent'["crashes"] >= spent["crashes"]
    BY <1>4, TypeFacts DEF EnrolmentInv, Bounded
  <2>2. Steady
    BY <1>1, <1>4, <2>1 DEF Steady, Fail
  <2> QED
    BY <2>2, OwedSteady
<1> QED
  BY <1>3, <1>4 DEF Fail

LEMMA OwedLoseRow == ASSUME EnrolmentInv, StepOK, NEW s \in Server, LoseRow(s) PROVE SigningsOwed'
<1>1. act[s] \in Act /\ act \in [Server -> Act]
  BY TypeFacts DEF EnrolmentInv
<1>2. act'[s] = [act[s] EXCEPT !.held = FALSE] /\ \A t \in Server \ {s} : act'[t] = act[t]
  BY <1>1 DEF LoseRow
<1>3. [act[s] EXCEPT !.held = FALSE].pc = act[s].pc
  BY <1>1 DEF Act
<1>4. CASE act[s].pc = "sign"
  <2>1. \A h \in Host : RowLost(h)' \subseteq RowLost(h) \cup {s}
    BY <1>2 DEF RowLost
  <2>2. \A h \in Host : SignedHeld(h) => SignedHeld(h)'
    BY <1>2, <1>4 DEF SignedHeld
  <2> QED
    BY <2>1, <2>2, SpendGrows, OwedFailed DEF LoseRow, Bounded, ghosts
<1>5. CASE act[s].pc = "commit"
  <2>1. \A h \in Host : RowLost(h)' \subseteq RowLost(h)
    BY <1>2, <1>3, <1>5 DEF RowLost
  <2> QED
    BY <2>1, SpendGrows, OwedFailed DEF LoseRow, Bounded, ghosts
<1> QED
  BY <1>4, <1>5 DEF LoseRow

LEMMA OwedCrash == ASSUME EnrolmentInv, StepOK, NEW s \in Server, Crash(s) PROVE SigningsOwed'
<1>1. act'[s].pc = "load" /\ \A t \in Server \ {s} : act'[t] = act[t]
  BY TypeFacts DEF EnrolmentInv, Crash
<1>2. \A h \in Host : RowLost(h)' \subseteq RowLost(h)
  BY <1>1 DEF RowLost
<1> QED
  BY <1>2, SpendGrows, OwedFailed DEF Crash, Bounded, ghosts

(* Every other step is steady.                                             *)
LEMMA SteadySame ==
  ASSUME EnrolmentInv, act' = act, db'.reg = db.reg,
         spent' = spent \/ \E what \in Bounded : Spend(what)
  PROVE  Steady
BY SpendGrows, TypeFacts DEF EnrolmentInv, Steady, Bounded

LEMMA SteadyCall ==
  ASSUME EnrolmentInv, NEW s \in Server, NEW a \in Act, act' = [act EXCEPT ![s] = a],
         act[s].pc # "commit", a.pc = "sign" => a.held, db'.reg = db.reg,
         spent' = spent \/ \E what \in Bounded : Spend(what)
  PROVE  Steady
<1>1. act'[s] = a /\ \A t \in Server \ {s} : act'[t] = act[t]
  BY TypeFacts DEF EnrolmentInv
<1> QED
  BY <1>1, SpendGrows, TypeFacts DEF EnrolmentInv, Steady, Bounded

LEMMA OwedStep == ASSUME EnrolmentInv, [Next]_vars PROVE SigningsOwed'
<1>1. StepOK
  BY EveryStep
<1>2. CASE Tick \/ (\E h \in Host : Lost(h)) \/ UNCHANGED vars
  BY <1>1, <1>2, SteadySame, OwedSteady DEF Tick, Lost, vars, Bounded
<1>3. ASSUME NEW s \in Server,
             \/ Close(s) \/ Expire(s) \/ TakeUpList(s)
             \/ \E until \in 1 .. MaxTime : Open(s, until)
             \/ \E h \in Host : Connect(s, h) \/ Tripped(s, h) \/ Reject(s, h)
      PROVE  SigningsOwed'
  <2>1. db'.reg = db.reg
    <3>1. \/ db' = db \/ db' = CloseWindow \/ \E until : db' = [db EXCEPT !.window = until]
          \/ \E h : db' = Decided(h, Rejected)
      BY <1>3 DEF Close, Expire, EndWindow, TakeUpList, Open, Connect, Tripped, Reject
    <3> QED
      BY <3>1, TypeFacts DEF EnrolmentInv, Store, CloseWindow, Withdrawn, Decided
  <2>2. act' = act /\ (spent' = spent \/ \E what \in Bounded : Spend(what))
    BY <1>3 DEF Close, Expire, TakeUpList, Open, Connect, Tripped, Reject, Bounded
  <2> QED
    BY <1>1, <2>1, <2>2, SteadySame, OwedSteady
<1>4. ASSUME NEW s \in Server, NEW h \in Host, Enrol(s, h) \/ Push(s, h) PROVE SigningsOwed'
  <2>1. db'.reg = db.reg
    <3>1. Submit(s, h) => db'.reg = db.reg
      BY TypeFacts DEF EnrolmentInv, Store, Submit
    <3> QED
      BY <1>4, <3>1 DEF Enrol, Push
  <2>2. act' = act /\ spent' = spent
    BY <1>4 DEF Enrol, Push
  <2> QED
    BY <1>1, <2>1, <2>2, SteadySame, OwedSteady
<1>5. ASSUME NEW s \in Server,
             \/ WithdrawRevoked(s) \/ Reload(s) \/ Reloaded(s) \/ OpenOn(s) \/ OpenedOn(s)
             \/ WithdrawRefused(s)
             \/ \E b \in Bootstrap : Revoke(s, b)
             \/ \E h \in Host : Approve(s, h)
             \/ Sign(s) /\ Refused(s, act[s].host)
      PROVE  SigningsOwed'
  <2>1. db'.reg = db.reg
    <3>1. \/ db' = db \/ db' = CloseWindow \/ \E hosts : db' = Withdrawn(hosts)
          \/ \E list : db' = [db EXCEPT !.list = list]
      BY <1>5 DEF WithdrawRefused, WithdrawRevoked, Reload, Reloaded, OpenOn, OpenedOn, EndWindow, Revoke, Approve, Sign
    <3> QED
      BY <3>1, TypeFacts DEF EnrolmentInv, Store, CloseWindow, Withdrawn, Decided
  <2>2. spent' = spent \/ \E what \in Bounded : Spend(what)
    BY <1>5 DEF WithdrawRefused, WithdrawRevoked, Reload, Reloaded, OpenOn, OpenedOn, Revoke, Approve, Sign, Bounded
  <2>3. act[s].pc # "commit"
    <3>1. act[s].pc \in {"drop", "withdraw", "reload", "load", "loading", "sign"} \/ Free(s)
      BY <1>5 DEF WithdrawRefused, WithdrawRevoked, Reload, Reloaded, OpenOn, OpenedOn, Revoke, Approve, Sign
    <3> QED
      BY <3>1 DEF Free, Idle
  <2>4. act' = act \/ \E a \in Act : act' = [act EXCEPT ![s] = a] /\ (a.pc = "sign" => a.held)
    <3>1. db.window \in 0 .. MaxTime
      BY TypeFacts DEF EnrolmentInv, Store
    <3>2. ASSUME Sign(s), Refused(s, act[s].host)
          PROVE  \E a \in Act : act' = [act EXCEPT ![s] = a] /\ a.pc = "drop"
      <4>1. act[s].host \in Host
        BY <3>2, TypeFacts, ActFacts DEF EnrolmentInv, Sign
      <4> DEFINE d == [pc |-> "drop", host |-> act[s].host]
      <4>2. d \in Act /\ d.pc = "drop" /\ act' = [act EXCEPT ![s] = d]
        BY <3>2, <4>1, ActShapes DEF Sign
      <4> QED
        BY <4>2
    <3> QED
      BY <1>5, <3>1, <3>2, ActShapes
         DEF WithdrawRefused, WithdrawRevoked, Reload, Reloaded, OpenOn, OpenedOn, Revoke, Approve
  <2> QED
    BY <1>1, <2>1, <2>2, <2>3, <2>4, SteadySame, SteadyCall, OwedSteady
<1>6. ASSUME NEW s \in Server, Commit(s) PROVE SigningsOwed'
  <2>1. db'.reg = db.reg /\ (spent' = spent \/ Spend("lost"))
    BY <1>6, TypeFacts DEF EnrolmentInv, Store, Commit, Decided
  <2>2. act'[s].pc = "idle" /\ \A t \in Server \ {s} : act'[t] = act[t]
    BY <1>6, TypeFacts DEF EnrolmentInv, Commit, Idle
  <2>3. ~Waits(db'.requests, act[s].host)
    <3>1. act[s].certificate \in Certificate
      BY <1>6, TypeFacts, ActFacts DEF EnrolmentInv, Commit
    <3>2. db'.requests = Put(db.requests, act[s].host, Approved(act[s].certificate))
      BY <1>6, TypeFacts DEF EnrolmentInv, Store, Commit, Decided
    <3>3. Approved(act[s].certificate) # Waiting
      BY <3>1, RequestFacts
    <3> QED
      BY <3>2, <3>3 DEF Put, Waits
  <2>4. Steady
    BY <2>1, <2>2, <2>3, SpendGrows, TypeFacts DEF EnrolmentInv, Steady, Bounded
  <2> QED
    BY <1>1, <2>4, OwedSteady
<1> QED
  BY <1>1, <1>2, <1>3, <1>4, <1>5, <1>6, OwedSigned, OwedFail, OwedLoseRow, OwedCrash DEF Next

-------------------------------------------------------------------------------
(* The theorems                                                            *)

LEMMA EnrolmentInit == Init => EnrolmentInv
<1> SUFFICES ASSUME Init PROVE EnrolmentInv
  OBVIOUS
<1>1. IsFiniteSet({}) /\ Cardinality({}) = 0
  BY FS_EmptySet
<1>2. DOMAIN <<>> = {} /\ IsQueue(<<>>)
  BY EmptyQueue, QueueFacts
<1>3. EnrolmentTypeOK
  <2>1. StoreTypeOK
    BY <1>1, <1>2, EnrolmentAssumption DEF Init, StoreTypeOK
  <2>2. MemTypeOK
    BY <1>2, EnrolmentAssumption DEF Init, MemTypeOK
  <2>3. EndsTypeOK
    BY DEF Init, EndsTypeOK
  <2>4. act \in [Server -> Act] /\ due \in [Server -> BOOLEAN] /\ taken \in [Host -> Nat] /\ spent \in [Bounded -> Nat]
    BY ActShapes DEF Init
  <2>5. now \in 1 .. MaxTime
    BY EnrolmentAssumption DEF Init
  <2> QED
    BY <2>1, <2>2, <2>3, <2>4, <2>5 DEF EnrolmentTypeOK
<1>4. HandedIsRegistered
  BY <1>2 DEF Init, HandedIsRegistered, Registered, Idle
<1>5. QueueBounded
  <2>1. DOMAIN db.requests = {} /\ \A b : OfBootstrap(db.requests, b) = {}
    BY <1>2 DEF Init, OfBootstrap
  <2> QED
    BY <1>1, <2>1, EnrolmentAssumption DEF QueueBounded
<1>6. ClosedIsEmpty /\ RowsStand
  BY DEF Init, ClosedIsEmpty, RowsStand, Deciding, Idle
<1>7. SigningsOwed
  <2> SUFFICES ASSUME NEW h \in Host
               PROVE  Cardinality(Certificates(h)) + MaySign(h) + Cardinality(RowLost(h))
                        <= taken[h] + spent["fails"] + spent["crashes"]
    BY DEF SigningsOwed
  <2>1. Certificates(h) = {} /\ RowLost(h) = {}
    BY DEF Init, Certificates, RowLost, Idle
  <2>2. MaySign(h) = 0
    BY <1>2 DEF Init, MaySign, Waits
  <2>3. taken[h] = 0 /\ spent["fails"] = 0 /\ spent["crashes"] = 0
    BY DEF Init, Bounded
  <2> QED
    BY <1>1, <2>1, <2>2, <2>3
<1> QED
  BY <1>3, <1>4, <1>5, <1>6, <1>7 DEF EnrolmentInv

(* The queue is sound whichever instances act on it, in whatever order: it *)
(* keeps its bounds, stands empty while the window is closed, carries only *)
(* certificates the register holds, and the row an approval holds is of a  *)
(* request that still waits and nobody else decides.                       *)
THEOREM EnrolmentInvariant == Spec => []EnrolmentInv
<1>1. EnrolmentInv /\ [Next]_vars => EnrolmentInv'
  <2> SUFFICES ASSUME EnrolmentInv, [Next]_vars PROVE EnrolmentInv'
    OBVIOUS
  <2>1. EnrolmentTypeOK' /\ HandedIsRegistered' /\ StoreMove /\ RowMove
    BY EveryStep DEF StepOK
  <2>2. QueueBounded' /\ ClosedIsEmpty' /\ RowsStand' /\ SigningsOwed'
    BY <2>1, BoundedStep, ClosedStep, RowsStep, OwedStep
  <2> QED
    BY <2>1, <2>2 DEF EnrolmentInv
<1> QED
  BY <1>1, EnrolmentInit, PTL DEF Spec

(* However many instances approve a request at once, its key is signed     *)
(* once for each time it was taken in: every further certificate is paid   *)
(* for by a failure or a crash after the signing.                          *)
THEOREM SignedOnceAlways == Spec => []SignedOnce
<1>1. EnrolmentInv => SignedOnce
  <2> SUFFICES ASSUME EnrolmentInv, NEW h \in Host
               PROVE  Cardinality(Certificates(h)) <= taken[h] + spent["fails"] + spent["crashes"]
    BY DEF SignedOnce
  <2> QED
    BY OwedFacts
<1> QED
  BY <1>1, EnrolmentInvariant, PTL

(* A decision stands as it was written until the window takes its request  *)
(* along; a request that goes sooner was waiting.                          *)
THEOREM DecisionsStand == Spec => DecisionStands
<1> DEFINE Stands ==
      \A h \in DOMAIN db.requests : ~Waits(db.requests, h) =>
        \/ h \in DOMAIN db'.requests /\ db'.requests[h] = db.requests[h]
        \/ db'.window = 0
<1>1. EnrolmentInv /\ [Next]_vars => Stands
  <2> SUFFICES ASSUME EnrolmentInv, [Next]_vars, NEW h \in DOMAIN db.requests, ~Waits(db.requests, h)
               PROVE  \/ h \in DOMAIN db'.requests /\ db'.requests[h] = db.requests[h]
                      \/ db'.window = 0
    OBVIOUS
  <2>1. StoreMove
    BY EveryStep DEF StepOK
  <2>2. CASE Keeps \/ Opens \/ Signs \/ Closes
    BY <2>2 DEF Keeps, Opens, Signs, Closes
  <2>3. CASE Adds
    <3>1. PICK g : g \notin DOMAIN db.requests /\ db'.requests = Put(db.requests, g, Waiting)
      BY <2>3 DEF Adds
    <3> QED
      BY <3>1 DEF Put
  <2>4. CASE Withdraws
    <3>1. PICK hosts : db'.requests = Drop(db.requests, {g \in hosts : Waits(db.requests, g)})
      BY <2>4 DEF Withdraws
    <3> DEFINE gone == {g \in hosts : Waits(db.requests, g)}
    <3>2. h \notin gone /\ db'.requests = Drop(db.requests, gone)
      BY <3>1
    <3> HIDE DEF gone
    <3> QED
      BY <3>2 DEF Drop, Restrict
  <2>5. CASE DecidesOne
    <3>1. PICK g, r : Waits(db.requests, g) /\ db'.requests = Put(db.requests, g, r)
      BY <2>5 DEF DecidesOne
    <3> QED
      BY <3>1 DEF Put
  <2> QED
    BY <2>1, <2>2, <2>3, <2>4, <2>5 DEF StoreMove
<1>2. EnrolmentInv /\ [Next]_vars => [Stands]_vars
  BY <1>1
<1> QED
  BY <1>2, EnrolmentInvariant, PTL DEF Spec, DecisionStands

(* A window that has not run out is ended only by an operator who closes   *)
(* it, or by an instance that starts between reading a closed window and   *)
(* the requests of the one opened since.                                   *)
THEOREM WindowsHold == Spec => WindowHolds
<1> DEFINE Held ==
      db.window > now /\ db'.window = 0 =>
        \/ spent'["closes"] # spent["closes"]
        \/ \E s \in Server : act[s].pc = "loading" /\ act[s].window = 0
<1>1. EnrolmentInv /\ [Next]_vars => Held
  <2> SUFFICES ASSUME EnrolmentInv, [Next]_vars, db.window > now, db'.window = 0
               PROVE  \/ spent'["closes"] # spent["closes"]
                      \/ \E s \in Server : act[s].pc = "loading" /\ act[s].window = 0
    OBVIOUS
  <2>1. db \in Store /\ now \in 1 .. MaxTime /\ db.window # 0 /\ db.window \in 0 .. MaxTime
    BY TypeFacts, EnrolmentAssumption DEF EnrolmentInv, Store
  <2>2. db' # db
    BY <2>1
  <2>3. ASSUME NEW h \in Host, NEW s \in Server, Submit(s, h) PROVE FALSE
    BY <2>1, <2>3 DEF Submit, Store
  <2>4. ASSUME NEW s \in Server, Close(s) PROVE spent'["closes"] # spent["closes"]
    BY <2>4, SpendFacts DEF Close, Bounded
  <2>5. ASSUME NEW s \in Server, Expire(s) PROVE FALSE
    BY <2>1, <2>2, <2>5, TypeFacts DEF Expire, EndWindow, Ends, IsOpen, EnrolmentInv, Memory
  <2>6. ASSUME NEW s \in Server, OpenedOn(s) PROVE act[s].pc = "loading" /\ act[s].window = 0
    BY <2>1, <2>2, <2>6, TypeFacts DEF OpenedOn, EndWindow, Ends
  <2>7. ASSUME NEW s \in Server,
               \/ \E h \in Host : Approve(s, h) \/ Reject(s, h)
               \/ Sign(s) \/ WithdrawRefused(s) \/ Commit(s) \/ WithdrawRevoked(s)
               \/ \E b \in Bootstrap : Revoke(s, b)
        PROVE  FALSE
    <3>1. \/ db' = db \/ \E hosts : db' = Withdrawn(hosts) \/ \E h, r : db' = Decided(h, r)
          \/ \E h : db' = Recorded(h) \/ \E list : db' = [db EXCEPT !.list = list]
      BY <2>7 DEF Approve, Reject, Sign, WithdrawRefused, Commit, WithdrawRevoked, Revoke
    <3> QED
      BY <2>1, <3>1 DEF Store, Withdrawn, Decided, Recorded
  <2>8. ASSUME NEW s \in Server, NEW until \in 1 .. MaxTime, Open(s, until) PROVE FALSE
    BY <2>1, <2>8, EnrolmentAssumption DEF Open, Store
  <2>9. ~UNCHANGED vars /\ ~Tick /\ ~\E h \in Host : Lost(h)
    BY <2>2 DEF vars, Tick, Lost
  <2>10. ASSUME NEW s \in Server, Fail(s) \/ LoseRow(s) \/ TakeUpList(s) \/ Reload(s) \/ Reloaded(s) \/ Crash(s) \/ OpenOn(s)
         PROVE  FALSE
    BY <2>2, <2>10 DEF Fail, LoseRow, TakeUpList, Reload, Reloaded, Crash, OpenOn
  <2>11. ASSUME NEW s \in Server, NEW h \in Host, Connect(s, h) \/ Enrol(s, h) \/ Push(s, h) \/ Tripped(s, h)
         PROVE  FALSE
    BY <2>2, <2>3, <2>11 DEF Connect, Enrol, Push, Tripped
  <2> QED
    BY <2>4, <2>5, <2>6, <2>7, <2>8, <2>9, <2>10, <2>11 DEF Next
<1>2. EnrolmentInv /\ [Next]_vars => [Held]_vars
  BY <1>1
<1> QED
  BY <1>2, EnrolmentInvariant, PTL DEF Spec, WindowHolds
===============================================================================
