----------------------------- MODULE AuditChain -----------------------------
(***************************************************************************)
(* The audit record on PostgreSQL: one hash chain per lease (fleet-server: *)
(* audit_log.rs, postgres/audit.rs).  Decisions go through a bounded       *)
(* channel to one writer per instance, which gives them their place in the *)
(* chain of the lease held now and writes them in batches.                 *)
(*                                                                         *)
(* Leases come and go as module Lease has it; here only what the record    *)
(* sees of them is kept: a lease is live, has lapsed, or is gone, and the  *)
(* instance learns of a loss at any time before or after the database.     *)
(*                                                                         *)
(* The hash of a line is the sequence of everything the line commits to:   *)
(* the bodies of the lines up to it.  Two hashes are equal exactly when    *)
(* the texts chained by them are.                                          *)
(***************************************************************************)
EXTENDS Naturals, Sequences, FiniteSets

CONSTANTS Instance, Decision,
          MaxLeases,   \* bound on the leases ever taken
          Capacity,    \* CHANNEL_CAPACITY
          Setups,      \* bounds of one behaviour: its decisions, faults and prune rounds
          LateWrites,  \* whether a write given up on may outlast its lease
          Archive      \* whether a file record precedes the first chain

ASSUME AuditBounds == /\ MaxLeases \in Nat /\ Capacity \in Nat \ {0}
                      /\ LateWrites \in BOOLEAN
                      /\ Archive \in BOOLEAN

VARIABLES
  lease,    \* the row of each lease: "none", "live", "lapsed" or "gone"
  entries,  \* table audit_entries: the lines of each chain still stored
  base,     \* how many lines were pruned from the chain's start
  closed,   \* closed_hash of each chain, <<>> while it is open
  writes,   \* the write transactions in flight
  held,     \* the lease each instance holds, by its watch channel
  up,       \* "down", "up" or "stopping"
  queue,    \* the channel to the writer
  w,        \* the Writer
  answer,   \* what the writer answered to Drain or Close
  setup,    \* one of Setups
  faults,   \* how much went wrong so far
  fate,     \* history: what became of each decision when it was recorded
  pruned    \* history: the decisions whose lines were pruned

dbVars    == <<lease, entries, base, closed, writes>>
auditVars == <<dbVars, held, up, queue, w, answer, setup, faults, fate, pruned>>

Lease   == 1 .. MaxLeases
NoLease == 0
NoLink  == [chain |-> NoLease, last |-> 0, hash |-> <<>>]
Nothing == 0   \* no decision: an entry of the record itself

\* An Entry; decisions are told apart, the record's own entries by their event.
Entry(event, d, link, pred) == [event |-> event, d |-> d, link |-> link, pred |-> pred]
Own(event) == Entry(event, Nothing, NoLink, FALSE)

\* line_hash
Hash(line) == Append(line.prev, [line EXCEPT !.prev = <<>>])

LastSeq(c)  == base[c] + Len(entries[c])
TailOf(c) == IF entries[c] = <<>> THEN <<>> ELSE Hash(entries[c][Len(entries[c])])

Fault == faults < setup.faults /\ faults' = faults + 1
FaultIf(p) == IF p THEN Fault ELSE UNCHANGED faults

NoAnswer == [drain |-> "none", close |-> "none"]
NoWriter == [batch |-> <<>>, chain |-> NoLease, seq |-> 0, prev |-> <<>>,
             failing |-> FALSE, unrecorded |-> 0, st |-> "free", then |-> "free"]

AuditInit ==
  /\ lease = [c \in Lease |-> "none"]
  /\ entries = [c \in Lease |-> <<>>]
  /\ base = [c \in Lease |-> 0]
  /\ closed = [c \in Lease |-> <<>>]
  /\ writes = {}
  /\ held = [i \in Instance |-> NoLease]
  /\ up = [i \in Instance |-> "down"]
  /\ queue = [i \in Instance |-> <<>>]
  /\ w = [i \in Instance |-> NoWriter]
  /\ answer = [i \in Instance |-> NoAnswer]
  /\ setup \in Setups
  /\ faults = 0
  /\ fate = [d \in Decision |-> "new"]
  /\ pruned = {}

-----------------------------------------------------------------------------
(* Leases and their chains.                                                *)

\* The line a lease's transaction adds to the chain c, which ends in line n.
OwnLine(c, n, prev, e) ==
  [e |-> e, unrec |-> 0, under |-> NoLease, chain |-> c, seq |-> n + 1, prev |-> prev]

\* open_chain: the first chain ever names the archive as its predecessor.
OpenChain(c) ==
  OwnLine(c, 0, <<>>, Entry("opened", Nothing, NoLink,
                            Archive /\ \A o \in Lease : lease[o] = "none"))

\* close_lapsed of every chain of C that is open.
ClosingLine(c) == OwnLine(c, LastSeq(c), TailOf(c), Own("closed"))

IsOpen(c)   == lease[c] # "none" /\ closed[c] = <<>>
EntriesClosed(C) == [c \in Lease |-> IF c \in C /\ IsOpen(c)
                                     THEN Append(entries[c], ClosingLine(c)) ELSE entries[c]]
HashesClosed(C) == [c \in Lease |-> IF c \in C /\ IsOpen(c) THEN Hash(ClosingLine(c))
                                                            ELSE closed[c]]

\* A write that ran its statements holds the row of its chain (FOR UPDATE).
Locked(c) == \E r \in writes : r.st = "ready" /\ r.chain = c

\* take_lease: takes over leases lapsed by its now() and opens its chain.  The answer
\* may be lost, and the next take is under another id.  A process takes its first lease
\* before it starts the writer (AuditLog::start_under), which takes up that chain.
TakeLease(i, C, answered) ==
  LET n == CHOOSE c \in Lease : lease[c] = "none" /\ \A o \in Lease : lease[o] = "none" => c <= o
      line == OpenChain(n)
  IN  /\ held[i] = NoLease /\ up[i] # "stopping"
      /\ \E c \in Lease : lease[c] = "none"
      /\ \A c \in C : lease[c] = "lapsed" /\ ~Locked(c)
      /\ lease' = [c \in Lease |-> IF c \in C THEN "gone"
                                   ELSE IF c = n THEN "live" ELSE lease[c]]
      /\ entries' = [EntriesClosed(C) EXCEPT ![n] = <<line>>]
      /\ closed' = HashesClosed(C)
      /\ held' = [held EXCEPT ![i] = IF answered THEN n ELSE NoLease]
      /\ up' = [up EXCEPT ![i] = IF answered THEN "up" ELSE @]
      /\ w' = [w EXCEPT ![i] = IF answered /\ up[i] = "down"
                               THEN [NoWriter EXCEPT !.chain = n, !.seq = 1, !.prev = Hash(line)]
                               ELSE @]
      /\ FaultIf(~answered)
      /\ UNCHANGED <<base, writes, queue, answer, fate, pruned, setup>>

\* take_over_lapsed, after a renewal.
TakeOverLapsed(i, C) ==
  /\ held[i] # NoLease /\ C # {}
  /\ \A c \in C : lease[c] = "lapsed" /\ ~Locked(c) /\ c # held[i]
  /\ lease' = [c \in Lease |-> IF c \in C THEN "gone" ELSE lease[c]]
  /\ entries' = EntriesClosed(C)
  /\ closed' = HashesClosed(C)
  /\ UNCHANGED <<base, writes, held, up, queue, w, answer, faults, fate, pruned, setup>>

\* The lease lapses by the database's clock; the instance learns of it on its own.
Lapse(c) ==
  /\ lease[c] = "live"
  /\ lease' = [lease EXCEPT ![c] = "lapsed"]
  /\ UNCHANGED <<entries, base, closed, writes, held, up, queue, w, answer, faults, fate, pruned, setup>>

LoseLease(i) ==
  /\ held[i] # NoLease
  /\ held' = [held EXCEPT ![i] = NoLease]
  /\ Fault
  /\ UNCHANGED <<dbVars, up, queue, w, answer, fate, pruned, setup>>

-----------------------------------------------------------------------------
(* Recording a decision, and the writer's batch.                           *)

Message(k, e, under) == [k |-> k, e |-> e, under |-> under]

\* Mutant: a decision is let through while the record is failing and the channel is full.
RecordBlind(i, d) ==
  /\ up[i] = "up" /\ d \in setup.decisions /\ fate[d] = "new"
  /\ fate' = [fate EXCEPT ![d] = "accepted"]
  /\ queue' = IF Len(queue[i]) < Capacity
              THEN [queue EXCEPT ![i] = Append(@, Message("entry",
                                   Entry("decision", d, NoLink, FALSE), held[i]))]
              ELSE queue
  /\ UNCHANGED <<dbVars, held, up, w, answer, faults, pruned, setup>>

\* Audit::record: Unavailable while the last write failed or the channel is full.
Record(i, d) ==
  /\ up[i] = "up" /\ d \in setup.decisions /\ fate[d] = "new"
  /\ IF w[i].failing \/ Len(queue[i]) >= Capacity
     THEN /\ w' = [w EXCEPT ![i].unrecorded = @ + 1]
          /\ fate' = [fate EXCEPT ![d] = "refused"]
          /\ UNCHANGED queue
     ELSE /\ queue' = [queue EXCEPT ![i] =
                         Append(@, Message("entry", Entry("decision", d, NoLink, FALSE), held[i]))]
          /\ fate' = [fate EXCEPT ![d] = "accepted"]
          /\ UNCHANGED w
  /\ UNCHANGED <<dbVars, held, up, answer, faults, pruned, setup>>

\* place: the next seq, chained to the line before.
Place(wr, line) ==
  LET placed == [line EXCEPT !.chain = wr.chain, !.seq = wr.seq + 1, !.prev = wr.prev]
  IN  [wr EXCEPT !.batch = Append(@, placed), !.seq = @ + 1, !.prev = Hash(placed)]

\* append: the line tells the decisions that went unrecorded before it.
Put(wr, e, under) ==
  [Place(wr, [e |-> e, unrec |-> wr.unrecorded, under |-> under,
              chain |-> NoLease, seq |-> 0, prev |-> <<>>]) EXCEPT !.unrecorded = 0]

PlaceAll(wr, lines) ==
  LET go[n \in 0 .. Len(lines)] ==
        IF n = 0 THEN [wr EXCEPT !.batch = <<>>] ELSE Place(go[n - 1], lines[n])
  IN  go[Len(lines)]

\* The next message is handled: an entry joins the batch, Drain and Close write it out.
Handle(i) ==
  LET m == Head(queue[i])
  IN  /\ up[i] # "down" /\ w[i].st = "free" /\ queue[i] # <<>>
      /\ queue' = [queue EXCEPT ![i] = Tail(@)]
      /\ w' = [w EXCEPT ![i] = IF m.k = "entry" THEN Put(@, m.e, m.under)
                               ELSE [@ EXCEPT !.st = "commit", !.then = m.k]]
      /\ UNCHANGED <<dbVars, held, up, answer, faults, fate, pruned, setup>>

\* tick while the record is failing: the batch is tried again, or, when it is
\* empty, an entry that says the record goes on.
Tick(i) ==
  /\ up[i] # "down" /\ w[i].st = "free" /\ w[i].failing
  /\ w' = [w EXCEPT ![i] = [(IF @.batch = <<>> THEN Put(@, Own("resumed"), NoLease) ELSE @)
                            EXCEPT !.st = "commit", !.then = "ticked"]]
  /\ UNCHANGED <<dbVars, held, up, queue, answer, faults, fate, pruned, setup>>

Ticked(i) ==
  /\ up[i] # "down" /\ w[i].st = "ticked"
  /\ w' = [w EXCEPT ![i] = IF ~@.failing /\ @.unrecorded > 0
                           THEN [Put(@, Own("resumed"), NoLease)
                                 EXCEPT !.st = "commit", !.then = "free"]
                           ELSE [@ EXCEPT !.st = "free"]]
  /\ UNCHANGED <<dbVars, held, up, queue, answer, faults, fate, pruned, setup>>

-----------------------------------------------------------------------------
(* commit_as.                                                              *)

\* AuditStore::stored: the lines of c from seq on.
Stored(c, seq) ==
  SubSeq(entries[c], IF seq > base[c] THEN seq - base[c] ELSE 1, Len(entries[c]))

\* Mutant: what landed in the old chain is not looked for.
LandedUnread(wr) == 0

\* switch_to: how many lines of the batch the old chain holds already.
Landed(wr) ==
  IF wr.chain = NoLease \/ wr.batch = <<>> THEN 0
  ELSE LET stored == Stored(wr.chain, wr.batch[1].seq)
           agree == {n \in 0 .. Len(wr.batch) :
                       n <= Len(stored) /\ \A k \in 1 .. n : wr.batch[k] = stored[k]}
       IN  CHOOSE n \in agree : \A m \in agree : m <= n

Dropped(wr) == SubSeq(wr.batch, Landed(wr) + 1, Len(wr.batch))

\* switch_to: the batch is placed again at the end of the chain c.
SwitchTo(wr, c) ==
  PlaceAll([wr EXCEPT !.chain = c, !.seq = LastSeq(c), !.prev = TailOf(c)], Dropped(wr))

\* follow_chain: each outcome with the writer it leaves.  The two reads of a switch
\* may fail; the second fails after the lines that landed were dropped.
FollowChain(i) ==
  LET wr == w[i]
      switching == held[i] # NoLease /\ held[i] # wr.chain
  IN  IF held[i] = NoLease THEN {[ok |-> FALSE, wr |-> wr]}
      ELSE IF ~switching THEN {[ok |-> TRUE, wr |-> wr]}
      ELSE {[ok |-> FALSE, wr |-> wr], [ok |-> FALSE, wr |-> [wr EXCEPT !.batch = Dropped(wr)]],
            [ok |-> TRUE, wr |-> SwitchTo(wr, held[i])]}
ReadFailed(i, f) == ~f.ok /\ held[i] # NoLease

\* A write nobody waits for is over before its lease is: unless LateWrites.
Settled(i) ==
  LateWrites \/ held[i] \in {NoLease, w[i].chain}
             \/ ~\E r \in writes : r.by = i /\ r.chain = w[i].chain

\* The transaction's now(), by which the lease is live, is fixed where it begins.
Write(i, wr, closing) ==
  [by |-> i, chain |-> wr.chain, lines |-> wr.batch, closing |-> closing,
   st |-> "sent", live |-> lease[wr.chain] = "live", waited |-> TRUE]

\* Where the writer goes on once commit_as returns; run commits what it took from the
\* channel and takes more.
Then(wr) == IF wr.st = "free" THEN "free" ELSE wr.then

\* commit_as up to the store's call.
Commit(i) ==
  /\ up[i] # "down" /\ Settled(i)
  /\ w[i].st = "commit" \/ (w[i].st = "free" /\ w[i].batch # <<>>)
  /\ IF w[i].batch = <<>>
     THEN /\ w' = [w EXCEPT ![i].st = Then(w[i])]
          /\ UNCHANGED <<writes, faults>>
     ELSE \E f \in FollowChain(i) :
            /\ FaultIf(ReadFailed(i, f))
            /\ IF f.ok /\ f.wr.batch # <<>>
               THEN /\ w' = [w EXCEPT ![i] = [f.wr EXCEPT !.st = "writing", !.then = Then(w[i])]]
                    /\ writes' = writes \cup {Write(i, f.wr, Then(w[i]) = "closing")}
               ELSE /\ w' = [w EXCEPT ![i] =
                               [f.wr EXCEPT !.st = Then(w[i]),
                                            !.failing = IF f.ok THEN FALSE
                                                        ELSE @ \/ f.wr.batch # <<>>]]
                    /\ UNCHANGED writes
  /\ UNCHANGED <<lease, entries, base, closed, held, up, queue, answer, fate, pruned, setup>>
-----------------------------------------------------------------------------
(* PgAuditStore::write: a transaction driven by the writer that waits for  *)
(* it, up to its COMMIT.                                                   *)

\* commit_as goes on with the store's answer, or without one (run_within).
GoOn(i, written) ==
  w' = [w EXCEPT ![i] = IF written
                        THEN [@ EXCEPT !.batch = <<>>, !.failing = FALSE, !.st = w[i].then]
                        ELSE [@ EXCEPT !.failing = TRUE, !.st = w[i].then]]

\* How many of the lines the chain holds already.
Already(r) == LastSeq(r.chain) + 1 - r.lines[1].seq

\* The chain ends before the lines, or on one of them.
Fits(r) ==
  /\ LastSeq(r.chain) + 1 >= r.lines[1].seq
  /\ Already(r) <= Len(r.lines)
  /\ Already(r) > 0 =>
       entries[r.chain] # <<>> /\ entries[r.chain][Len(entries[r.chain])] = r.lines[Already(r)]

Writable(r) == closed[r.chain] = <<>> /\ lease[r.chain] # "gone" /\ r.live

\* The row of the chain is locked and the checks are made; COMMIT is sent.
ExecWrite(r) ==
  /\ r.st = "sent" /\ ~Locked(r.chain)
  /\ IF Writable(r) /\ Fits(r)
     THEN /\ writes' = (writes \ {r}) \cup {[r EXCEPT !.st = "ready"]}
          /\ UNCHANGED w
     ELSE /\ writes' = writes \ {r}
          /\ GoOn(r.by, FALSE)
  /\ UNCHANGED <<lease, entries, base, closed, held, up, queue, answer, faults, fate, pruned, setup>>

Rest(r) == SubSeq(r.lines, Already(r) + 1, Len(r.lines))

\* The commit lands: the lines not stored already, and the end of the chain.  Its
\* answer may be lost.
LandWrite(r, answered) ==
  /\ r.st = "ready" /\ (answered => r.waited)
  /\ entries' = [entries EXCEPT ![r.chain] = @ \o Rest(r)]
  /\ closed' = IF r.closing THEN [closed EXCEPT ![r.chain] = Hash(r.lines[Len(r.lines)])]
               ELSE closed
  /\ writes' = writes \ {r}
  /\ IF r.waited THEN GoOn(r.by, answered) ELSE UNCHANGED w
  /\ FaultIf(r.waited /\ ~answered)
  /\ UNCHANGED <<lease, base, held, up, queue, answer, fate, pruned, setup>>

\* The commit never arrives and the database rolls back.
AbortWrite(r) ==
  /\ r.st = "ready"
  /\ writes' = writes \ {r}
  /\ IF r.waited THEN GoOn(r.by, FALSE) ELSE UNCHANGED w
  /\ FaultIf(r.waited)
  /\ UNCHANGED <<lease, entries, base, closed, held, up, queue, answer, fate, pruned, setup>>

\* run_within gives up: without its client only a COMMIT that was sent goes on.
Left(r) == IF r.st = "ready" THEN {[r EXCEPT !.waited = FALSE]} ELSE {}
GiveUp(r) ==
  /\ r.waited
  /\ writes' = (writes \ {r}) \cup Left(r)
  /\ GoOn(r.by, FALSE)
  /\ Fault
  /\ UNCHANGED <<lease, entries, base, closed, held, up, queue, answer, fate, pruned, setup>>

-----------------------------------------------------------------------------
(* Drain, Close and the end of the process.                                *)

Drained(i) ==
  /\ up[i] # "down" /\ w[i].st = "drain"
  /\ answer' = [answer EXCEPT ![i].drain = IF w[i].failing THEN "no" ELSE "yes"]
  /\ w' = [w EXCEPT ![i].st = "free"]
  /\ UNCHANGED <<dbVars, held, up, queue, faults, fate, pruned, setup>>

\* main after the planes are drained: AuditLog::close.
Shutdown(i) ==
  /\ up[i] = "up" /\ Len(queue[i]) < Capacity
  /\ up' = [up EXCEPT ![i] = "stopping"]
  /\ queue' = [queue EXCEPT ![i] = Append(@, Message("close", Own("none"), NoLease))]
  /\ UNCHANGED <<dbVars, held, w, answer, faults, fate, pruned, setup>>

\* close_chain: the closing line, in the chain of the lease held now.
CloseChain(i) ==
  /\ up[i] # "down" /\ w[i].st = "close" /\ Settled(i)
  /\ \/ /\ w[i].failing
        /\ answer' = [answer EXCEPT ![i].close = "no"]
        /\ w' = [w EXCEPT ![i].st = "free"]
        /\ UNCHANGED faults
     \/ /\ ~w[i].failing
        /\ \E f \in FollowChain(i) :
             /\ FaultIf(ReadFailed(i, f))
             /\ IF f.ok
                THEN /\ w' = [w EXCEPT ![i] = [Put(f.wr, Own("closed"), NoLease)
                                              EXCEPT !.st = "commit", !.then = "closing"]]
                     /\ UNCHANGED answer
                ELSE /\ w' = [w EXCEPT ![i] = [f.wr EXCEPT !.st = "free"]]
                     /\ answer' = [answer EXCEPT ![i].close = "no"]
  /\ UNCHANGED <<dbVars, held, up, queue, fate, pruned, setup>>

\* A closing line that could not be written is taken back.
TakenBack(wr) ==
  LET n == Len(wr.batch)
  IN  IF n > 0 /\ wr.batch[n].e.event = "closed"
      THEN [wr EXCEPT !.batch = SubSeq(@, 1, n - 1), !.seq = @ - 1, !.prev = wr.batch[n].prev]
      ELSE wr

ChainClosed(i) ==
  /\ up[i] # "down" /\ w[i].st = "closing"
  /\ answer' = [answer EXCEPT ![i].close = IF w[i].failing THEN "no" ELSE "yes"]
  /\ w' = [w EXCEPT ![i] = [(IF w[i].failing THEN TakenBack(@) ELSE @) EXCEPT !.st = "free"]]
  /\ UNCHANGED <<dbVars, held, up, queue, faults, fate, pruned, setup>>

InHand(i) == {queue[i][k].e.d : k \in 1 .. Len(queue[i])}
             \cup {w[i].batch[k].e.d : k \in 1 .. Len(w[i].batch)}

Places(d) == UNION {{<<c, k>> : k \in {k \in DOMAIN entries[c] : entries[c][k].e.d = d}} :
                    c \in Lease}
Copies(d) == Cardinality(Places(d)) + (IF d \in pruned THEN 1 ELSE 0)

\* The process is gone, and its writer thread with it.
Exit(i) ==
  /\ up' = [up EXCEPT ![i] = "down"]
  /\ held' = [held EXCEPT ![i] = NoLease]
  /\ queue' = [queue EXCEPT ![i] = <<>>]
  /\ w' = [w EXCEPT ![i] = NoWriter]
  /\ answer' = [answer EXCEPT ![i] = NoAnswer]
  /\ writes' = {r \in writes : r.by # i} \cup UNION {Left(r) : r \in {o \in writes : o.by = i}}
  /\ fate' = [d \in Decision |-> IF d \in InHand(i) /\ Copies(d) = 0 THEN "abandoned" ELSE fate[d]]
  /\ UNCHANGED <<entries, base, closed, pruned, setup>>

\* main releases the lease once the chain is closed, and leaves it to lapse else.
Leave(i) ==
  /\ up[i] = "stopping" /\ answer[i].close # "none"
  /\ lease' = [c \in Lease |-> IF answer[i].close = "yes" /\ c = held[i] THEN "gone" ELSE lease[c]]
  /\ UNCHANGED faults
  /\ Exit(i)

Crash(i) ==
  /\ up[i] # "down"
  /\ UNCHANGED lease
  /\ Fault
  /\ Exit(i)

-----------------------------------------------------------------------------
InstanceSteps(i) ==
  \/ \E C \in SUBSET Lease : TakeOverLapsed(i, C) \/ \E a \in BOOLEAN : TakeLease(i, C, a)
  \/ LoseLease(i) \/ Handle(i) \/ Tick(i) \/ Ticked(i) \/ Commit(i)
  \/ Drained(i) \/ Shutdown(i) \/ CloseChain(i) \/ ChainClosed(i) \/ Leave(i) \/ Crash(i)
  \/ \E d \in Decision : Record(i, d)

WriteSteps(r) ==
  ExecWrite(r) \/ (\E a \in BOOLEAN : LandWrite(r, a)) \/ AbortWrite(r) \/ GiveUp(r)

AuditNext ==
  \/ \E i \in Instance : InstanceSteps(i)
  \/ \E r \in writes : WriteSteps(r)
  \/ \E c \in Lease : Lapse(c)

AuditSpec == AuditInit /\ [][AuditNext]_auditVars

-----------------------------------------------------------------------------
(* audit-verify: ChainWalk and verify_on.                                  *)

\* The links the pruned entries of the chain c name for the chain of.
LinksIn(c, of) ==
  {[last |-> entries[c][k].e.link.last, hash |-> entries[c][k].e.link.hash] :
     k \in {k \in 1 .. Len(entries[c]) : /\ entries[c][k].e.event = "pruned"
                                         /\ entries[c][k].e.link.chain = of}}

\* ChainWalk::step of the line stored as the k-th, and finish.
StepHolds(c, k, links) ==
  LET line == entries[c][k]
  IN  /\ line.seq = base[c] + k
      /\ line.chain = c
      /\ IF k > 1 THEN /\ line.prev = Hash(entries[c][k - 1])
                       /\ entries[c][k - 1].e.event # "closed"
         ELSE IF base[c] = 0 THEN line.e.event = "opened" /\ line.prev = <<>>
         ELSE [last |-> base[c], hash |-> line.prev] \in links

FinishHolds(c, links) ==
  IF entries[c] = <<>> THEN \E l \in links : closed[c] # <<>> /\ l.hash = closed[c]
  ELSE LET line == entries[c][Len(entries[c])]
       IN  IF closed[c] = <<>> THEN line.e.event # "closed"
           ELSE closed[c] = Hash(line) /\ line.e.event = "closed"

Walks(c, links) == FinishHolds(c, links) /\ \A k \in 1 .. Len(entries[c]) : StepHolds(c, k, links)

Chains == {c \in Lease : lease[c] # "none"}

\* verify: a link counts only from the chain itself or from one that holds, so the
\* chains that hold are found in rounds until a round finds no more.
Holding ==
  LET round[n \in 0 .. MaxLeases] ==
        IF n = 0 THEN {}
        ELSE {c \in Chains : Walks(c, UNION {LinksIn(s, c) : s \in round[n - 1] \cup {c}})}
  IN  round[MaxLeases]

\* The chains that name the archive as their predecessor, from which it counts.
Named == {c \in Chains : \E k \in 1 .. Len(entries[c]) :
                           entries[c][k].e.pred /\ (c \in Holding \/ entries[c][k].seq = 1)}

-----------------------------------------------------------------------------
(* Properties.                                                             *)

\* The shape of the state: the channel within its capacity, and at most one write the
\* writer waits for (commit_as waits until the store answers or run_within gives up).
AuditTypeOK ==
  /\ lease \in [Lease -> {"none", "live", "lapsed", "gone"}]
  /\ held \in [Instance -> Lease \cup {NoLease}]
  /\ up \in [Instance -> {"down", "up", "stopping"}]
  /\ \A i \in Instance : Len(queue[i]) <= Capacity /\ w[i].failing \in BOOLEAN
  /\ \A i \in Instance : Cardinality({r \in writes : r.by = i /\ r.waited}) <= 1
  /\ fate \in [Decision -> {"new", "refused", "accepted", "abandoned"}]

(* Whatever was lost, retried, taken over or closed, audit-verify finds the record to  *)
(* hold: every chain is unbroken from its opening, or from what an audit.pruned names, *)
(* to the entry it was closed on (postgres/audit.rs verify over audit_log.rs ChainWalk).*)
RecordHolds == Chains \subseteq Holding /\ (Archive /\ Chains # {} => Named # {})

(* A decision is in the record once, or refused, and one that was accepted is written  *)
(* down unless its process ended first (audit_log.rs, head comment and switch_to).     *)
Promise == INSTANCE AuditPromise WITH copies <- [d \in Decision |-> Copies(d)]
KeepsPromise == Promise!PromiseSpec

(* A write whose answer was lost is not written twice (audit_log.rs:762).              *)
WrittenOnce == \A d \in Decision : Copies(d) <= 1

(* An accepted decision that is not in the record is in its instance's hands still:    *)
(* a batch that failed is kept, through a change of lease too (Writer::switch_to).     *)
NothingDropped ==
  \A d \in Decision : fate[d] = "accepted" /\ Copies(d) = 0 =>
                       \E i \in Instance : d \in InHand(i)

(* The writer is sound: its shape, at most one write awaited, and nothing accepted     *)
(* that it has neither written nor in hand (Writer in audit_log.rs).                   *)
AuditInv == AuditTypeOK /\ NothingDropped
=============================================================================
