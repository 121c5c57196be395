------------------------------- MODULE Lease -------------------------------
(***************************************************************************)
(* The lease every Server instance on one PostgreSQL database holds while  *)
(* it serves (fleet-server: instance.rs, postgres/lease.rs, and the        *)
(* exclusive lock of postgres/mod.rs).                                     *)
(*                                                                         *)
(* The database side is the table `leases' (rows, expires), the advisory   *)
(* lock under which leases are taken one at a time (txn), the session lock *)
(* of an instance that must be alone (lock) and the open/closed state of   *)
(* the audit chain of each lease (chain).  The instance side is the thread *)
(* `renew': what it holds, when it sent the last confirmed request, what   *)
(* it waits for.  A request the instance has given up on may still commit. *)
(*                                                                         *)
(* One clock stands for the database's now() and every instance's          *)
(* Instant: they are only compared across one request, where the code      *)
(* relies on "sent" being no later than the database's time of it.         *)
(***************************************************************************)
EXTENDS Integers, FiniteSets

CONSTANTS Instance,   \* Server processes that may run on this database
          Alone,      \* the ones whose configuration makes them Exclusive::Alone
          Lapse,      \* LeaseTimes::lapse, in ticks
          MaxTime,    \* bound of the clock
          MaxIds,     \* bound on the instance ids made
          MaxRenewals,\* bound on the renewals in flight at once
          Nobody      \* no instance

ASSUME AloneAssumption == Alone \subseteq Instance
ASSUME NobodyAssumption == Nobody \notin Instance
ASSUME BoundsAssumption == /\ Lapse \in Nat \ {0} /\ MaxTime \in Nat
                           /\ MaxIds \in Nat /\ MaxRenewals \in Nat

VARIABLES
  clock,     \* the time
  lock,      \* holder of EXCLUSIVE_LOCK as the database has it, or Nobody
  rows,      \* ids with a row in `leases'
  expires,   \* expires_at of each row
  chain,     \* the audit chain of each id: "none", "open" or "closed"
  take,      \* the take_lease_within of each id
  txn,       \* the take that holds LEASES_LOCK with its COMMIT sent, or NoId
  renewals,  \* renew_lease statements in flight
  made,      \* how many instance ids were made
  phase,     \* where the instance's `renew' thread is
  cur,       \* the id it takes or holds
  sent,      \* when the last confirmed request for it was sent
  rsent,     \* when the renewal it waits for was sent
  answer,    \* what the database answered to that renewal
  held,      \* the watch channel `held'
  closing    \* the audit writer closed the chain of an orderly shutdown

dbVars   == <<lock, rows, expires, chain, take, txn, renewals, made>>
instVars == <<phase, cur, sent, rsent, answer, held, closing>>
vars     == <<clock, dbVars, instVars>>

Id      == 1 .. MaxIds
NoId    == 0
Time    == 0 .. MaxTime
Taking  == {"first take", "taking"}
Phase   == {"down", "starting", "held", "renewing", "takeover", "lost", "ended",
            "releasing"} \cup Taking
TakeSt  == {"unused", "sent", "begun", "ready", "granted", "refused"}
Take    == [st : TakeSt, by : Instance \cup {Nobody}, sent : Time, now : Time]
NoTake  == [st |-> "unused", by |-> Nobody, sent |-> 0, now |-> 0]
Renewal == [id : Id, sent : Time]

\* The take t in its next state; a time that no longer matters is 0.
Become(t, st, at, now) == [st |-> st, by |-> t.by, sent |-> at, now |-> now]

DbTypeOK ==
  /\ clock \in Time
  /\ lock \in Alone \cup {Nobody}
  /\ rows \subseteq Id
  /\ expires \in [Id -> Nat]
  /\ chain \in [Id -> {"none", "open", "closed"}]
  /\ take \in [Id -> Take]
  /\ txn \in Id \cup {NoId}
  /\ renewals \subseteq Renewal
  /\ made \in 0 .. MaxIds

InstTypeOK ==
  /\ phase \in [Instance -> Phase]
  /\ cur \in [Instance -> Id \cup {NoId}]
  /\ held \in [Instance -> Id \cup {NoId}]
  /\ sent \in [Instance -> Time]
  /\ rsent \in [Instance -> Time]
  /\ answer \in [Instance -> {"none", "renewed", "gone"}]
  /\ closing \in [Instance -> BOOLEAN]

TypeOK == DbTypeOK /\ InstTypeOK

Init ==
  /\ clock = 0
  /\ lock = Nobody
  /\ rows = {}
  /\ expires = [id \in Id |-> 0]
  /\ chain = [id \in Id |-> "none"]
  /\ take = [id \in Id |-> NoTake]
  /\ txn = NoId
  /\ renewals = {}
  /\ made = 0
  /\ phase = [i \in Instance |-> "down"]
  /\ cur = [i \in Instance |-> NoId]
  /\ sent = [i \in Instance |-> 0]
  /\ rsent = [i \in Instance |-> 0]
  /\ answer = [i \in Instance |-> "none"]
  /\ held = [i \in Instance |-> NoId]
  /\ closing = [i \in Instance |-> FALSE]

Deadline(i) == sent[i] + Lapse

\* The instance deems its lease held: it has one and its own deadline has not come.
Provable(i) == held[i] # NoId /\ clock < Deadline(i)

MustBeAlone(id) == take[id].by \in Alone

-----------------------------------------------------------------------------
(* The process: start, crash, the exclusive lock.                          *)

\* Database::connect_as: an instance that must be alone takes the session lock
\* first, which fails while it is held, also shared by a take in its transaction.
Start(i) ==
  /\ phase[i] = "down"
  /\ \/ i \notin Alone /\ UNCHANGED lock
     \/ /\ i \in Alone
        /\ lock = Nobody
        /\ txn # NoId => MustBeAlone(txn)
        /\ lock' = i
  /\ phase' = [phase EXCEPT ![i] = "starting"]
  /\ UNCHANGED <<clock, rows, expires, chain, take, txn, renewals, made,
                 cur, sent, rsent, answer, held, closing>>

\* The process ends, with its session lock; what it sent may still commit.
Ends(i) ==
  /\ phase' = [phase EXCEPT ![i] = "down"]
  /\ held' = [held EXCEPT ![i] = NoId]
  /\ cur' = [cur EXCEPT ![i] = NoId]
  /\ answer' = [answer EXCEPT ![i] = "none"]
  /\ sent' = [sent EXCEPT ![i] = 0]
  /\ rsent' = [rsent EXCEPT ![i] = 0]
  /\ closing' = [closing EXCEPT ![i] = FALSE]
  /\ lock' = IF lock = i THEN Nobody ELSE lock
  /\ UNCHANGED <<clock, expires, chain, take, txn, renewals, made>>

\* A crash, or the exit without a release of main after a failed close.
Crash(i) ==
  /\ phase[i] # "down"
  /\ Ends(i)
  /\ UNCHANGED rows

\* The database ends the session that holds the lock; the instance is not told yet.
LockSessionEnds ==
  /\ lock # Nobody
  /\ lock' = Nobody
  /\ UNCHANGED <<clock, rows, expires, chain, take, txn, renewals, made, instVars>>

\* The instance notices (LockWatch, polled by until_deadline) and serves no more.
NoticeLockLost(i) ==
  /\ i \in Alone /\ lock # i
  /\ phase[i] \in {"held", "renewing", "takeover", "lost"}
  /\ phase' = [phase EXCEPT ![i] = "ended"]
  /\ held' = [held EXCEPT ![i] = NoId]
  /\ UNCHANGED <<clock, dbVars, cur, sent, rsent, answer, closing>>

-----------------------------------------------------------------------------
(* Taking a lease: take_in_time over take_lease_within.                    *)

SendTake(i) ==
  /\ phase[i] \in {"starting", "lost"}
  /\ made < MaxIds
  /\ made' = made + 1
  /\ take' = [take EXCEPT ![made + 1] =
                [st |-> "sent", by |-> i, sent |-> clock, now |-> 0]]
  /\ cur' = [cur EXCEPT ![i] = made + 1]
  /\ phase' = [phase EXCEPT ![i] = IF phase[i] = "starting" THEN "first take"
                                                           ELSE "taking"]
  /\ UNCHANGED <<clock, lock, rows, expires, chain, txn, renewals,
                 sent, rsent, answer, held, closing>>

\* The statements of the transaction are driven by the client that waits for it.
Driven(id) == \E i \in Instance : phase[i] \in Taking /\ cur[i] = id

\* BEGIN: now() is fixed here, before the wait for LEASES_LOCK.
BeginTake(id) ==
  /\ take[id].st = "sent" /\ Driven(id)
  /\ take' = [take EXCEPT ![id] = Become(@, "begun", @.sent, clock)]
  /\ UNCHANGED <<clock, lock, rows, expires, chain, txn, renewals, made, instVars>>

\* Mutant: the leases live by the statement's time, not the transaction's.
LiveSharedLater(id) == {r \in rows : expires[r] > clock /\ ~MustBeAlone(r)}

\* The leases live by the transaction's now(), parted by must_be_alone.
LiveShared(id) == {r \in rows : expires[r] > take[id].now /\ ~MustBeAlone(r)}
LiveAlone(id)  == {r \in rows : expires[r] > take[id].now /\ MustBeAlone(r)}

\* Mutant: a shared take does not look at the lock.
RefusedUnlocked(id) == MustBeAlone(id) /\ LiveShared(id) # {}

\* Whether the match on Exclusive refuses the take.
Refused(id) ==
  IF MustBeAlone(id) THEN LiveShared(id) # {} ELSE lock # Nobody

\* LEASES_LOCK is had and the statements are run; a take not refused sends COMMIT.
ExecTake(id) ==
  /\ take[id].st = "begun" /\ Driven(id) /\ txn = NoId
  /\ \/ /\ Refused(id)
        /\ take' = [take EXCEPT ![id] = Become(@, "refused", 0, 0)]
        /\ UNCHANGED txn
     \/ /\ ~Refused(id)
        /\ take' = [take EXCEPT ![id] = Become(@, "ready", @.sent, @.now)]
        /\ txn' = id
  /\ UNCHANGED <<clock, lock, rows, expires, chain, renewals, made, instVars>>

\* The DELETE of the take: what it takes over.
TakenOver(id) == {r \in rows : expires[r] <= take[id].now} \cup LiveAlone(id)

\* Mutant: the takeover leaves the chains to somebody else.
ChainsLeftOpen(ids) == chain

CloseChains(ids) ==
  [c \in Id |-> IF c \in ids /\ chain[c] = "open" THEN "closed" ELSE chain[c]]

\* The commit lands, also when nobody waits for it any more.
CommitTake(id) ==
  /\ txn = id
  /\ rows' = (rows \ TakenOver(id)) \cup {id}
  /\ expires' = [expires EXCEPT ![id] = take[id].now + Lapse]
  /\ chain' = [CloseChains(TakenOver(id)) EXCEPT ![id] = "open"]
  /\ take' = [take EXCEPT ![id] = Become(@, "granted", @.sent, 0)]
  /\ txn' = NoId
  /\ UNCHANGED <<clock, lock, renewals, made, instVars>>

\* The commit is lost with the connection and the database rolls back.
AbortTake(id) ==
  /\ txn = id
  /\ take' = [take EXCEPT ![id] = Become(@, "refused", 0, 0)]
  /\ txn' = NoId
  /\ UNCHANGED <<clock, lock, rows, expires, chain, renewals, made, instVars>>

\* Mutant: the lease is counted from the answer.
TakeAnsweredFrom(i) ==
  /\ phase[i] \in Taking /\ take[cur[i]].st = "granted"
  /\ phase' = [phase EXCEPT ![i] = "held"]
  /\ sent' = [sent EXCEPT ![i] = clock]
  /\ held' = [held EXCEPT ![i] = cur[i]]
  /\ UNCHANGED <<clock, dbVars, cur, rsent, answer, closing>>

\* take_in_time answers a lease that has not lapsed since it was sent.
TakeAnswered(i) ==
  /\ phase[i] \in Taking /\ take[cur[i]].st = "granted"
  /\ clock < take[cur[i]].sent + Lapse
  /\ phase' = [phase EXCEPT ![i] = "held"]
  /\ sent' = [sent EXCEPT ![i] = take[cur[i]].sent]
  /\ held' = [held EXCEPT ![i] = cur[i]]
  /\ UNCHANGED <<clock, dbVars, cur, rsent, answer, closing>>

\* Refused, answered too late, or not answered within the bound: the first take
\* fails startup, a later one is tried again under yet another id.
FirstTakeFails(i) ==
  /\ phase[i] = "first take"
  /\ Ends(i)
  /\ UNCHANGED rows

TakeFails(i) ==
  /\ phase[i] = "taking"
  /\ phase' = [phase EXCEPT ![i] = "lost"]
  /\ cur' = [cur EXCEPT ![i] = NoId]
  /\ UNCHANGED <<clock, dbVars, sent, rsent, answer, held, closing>>

-----------------------------------------------------------------------------
(* Renewing it: the inner loop of renew.                                   *)

\* Where the wait and the deadline are due together, select! takes either.
SendRenewal(i) ==
  /\ phase[i] = "held"
  /\ Cardinality(renewals) < MaxRenewals
  /\ renewals' = renewals \cup {[id |-> cur[i], sent |-> clock]}
  /\ rsent' = [rsent EXCEPT ![i] = clock]
  /\ answer' = [answer EXCEPT ![i] = "none"]
  /\ phase' = [phase EXCEPT ![i] = "renewing"]
  /\ UNCHANGED <<clock, lock, rows, expires, chain, take, txn, made,
                 cur, sent, held, closing>>

\* The statement runs: one UPDATE, only of a row still live.
Renew(r) ==
  LET live == r.id \in rows /\ expires[r.id] > clock
      waiting == {i \in Instance : /\ phase[i] = "renewing"
                                   /\ cur[i] = r.id /\ rsent[i] = r.sent}
  IN  /\ r \in renewals
      /\ renewals' = renewals \ {r}
      /\ expires' = IF live THEN [expires EXCEPT ![r.id] = clock + Lapse] ELSE expires
      /\ answer' = [i \in Instance |-> IF i \in waiting
                                       THEN IF live THEN "renewed" ELSE "gone"
                                       ELSE answer[i]]
      /\ UNCHANGED <<clock, lock, rows, chain, take, txn, made,
                     phase, cur, sent, rsent, held, closing>>

Renewed(i) ==
  /\ phase[i] = "renewing" /\ answer[i] = "renewed"
  /\ sent' = [sent EXCEPT ![i] = rsent[i]]
  /\ rsent' = [rsent EXCEPT ![i] = 0]
  /\ answer' = [answer EXCEPT ![i] = "none"]
  /\ phase' = [phase EXCEPT ![i] = "takeover"]
  /\ UNCHANGED <<clock, dbVars, cur, held, closing>>

\* No answer within the bound: tried again, the statement may still run.
RenewalFails(i) ==
  /\ phase[i] = "renewing"
  /\ phase' = [phase EXCEPT ![i] = "held"]
  /\ rsent' = [rsent EXCEPT ![i] = 0]
  /\ answer' = [answer EXCEPT ![i] = "none"]
  /\ UNCHANGED <<clock, dbVars, cur, sent, held, closing>>

\* The lapsed leases of others go, their chains closed in the same transaction.
TakeOverLapsed(i) ==
  LET lapsed == {r \in rows \ {cur[i]} : expires[r] <= clock}
  IN  /\ phase[i] = "takeover"
      /\ rows' = rows \ lapsed
      /\ chain' = CloseChains(lapsed)
      /\ phase' = [phase EXCEPT ![i] = "held"]
      /\ UNCHANGED <<clock, lock, expires, take, txn, renewals, made,
                     cur, sent, rsent, answer, held, closing>>

TakeOverFails(i) ==
  /\ phase[i] = "takeover"
  /\ phase' = [phase EXCEPT ![i] = "held"]
  /\ UNCHANGED <<clock, dbVars, cur, sent, rsent, answer, held, closing>>

\* The lease is lost: the database says so, or the deadline has come.
LeaseLost(i) ==
  /\ \/ phase[i] = "renewing" /\ answer[i] = "gone"
     \/ phase[i] \in {"held", "renewing"} /\ clock >= Deadline(i)
  /\ phase' = [phase EXCEPT ![i] = "lost"]
  /\ held' = [held EXCEPT ![i] = NoId]
  /\ cur' = [cur EXCEPT ![i] = NoId]
  /\ sent' = [sent EXCEPT ![i] = 0]
  /\ rsent' = [rsent EXCEPT ![i] = 0]
  /\ answer' = [answer EXCEPT ![i] = "none"]
  /\ UNCHANGED <<clock, dbVars, closing>>

-----------------------------------------------------------------------------
(* The orderly shutdown: AuditLog::close, then Lease::release.             *)

Running(i) == phase[i] \in {"taking", "held", "renewing", "takeover", "lost"}

\* The writer closes the chain of the lease held, which must be open and live.
CloseChain(i) ==
  /\ Running(i) /\ ~closing[i] /\ held[i] # NoId
  /\ held[i] \in rows /\ expires[held[i]] > clock /\ chain[held[i]] = "open"
  /\ chain' = [chain EXCEPT ![held[i]] = "closed"]
  /\ closing' = [closing EXCEPT ![i] = TRUE]
  /\ UNCHANGED <<clock, lock, rows, expires, take, txn, renewals, made,
                 phase, cur, sent, rsent, answer, held>>

\* Lease::release stops the renewals and reads which lease is held now.
StopRenewing(i) ==
  /\ closing[i] /\ Running(i)
  /\ phase' = [phase EXCEPT ![i] = "releasing"]
  /\ cur' = [cur EXCEPT ![i] = held[i]]
  /\ UNCHANGED <<clock, dbVars, sent, rsent, answer, held, closing>>

Release(i) ==
  /\ phase[i] = "releasing"
  /\ rows' = rows \ {cur[i]}
  /\ Ends(i)

-----------------------------------------------------------------------------
Tick ==
  /\ clock < MaxTime
  /\ clock' = clock + 1
  /\ UNCHANGED <<dbVars, instVars>>

Next ==
  \/ Tick
  \/ LockSessionEnds
  \/ \E i \in Instance :
       \/ Start(i) \/ Crash(i) \/ NoticeLockLost(i)
       \/ SendTake(i) \/ TakeAnswered(i) \/ FirstTakeFails(i) \/ TakeFails(i)
       \/ SendRenewal(i) \/ Renewed(i) \/ RenewalFails(i)
       \/ TakeOverLapsed(i) \/ TakeOverFails(i) \/ LeaseLost(i)
       \/ CloseChain(i) \/ StopRenewing(i) \/ Release(i)
  \/ \E id \in Id : BeginTake(id) \/ ExecTake(id) \/ CommitTake(id) \/ AbortTake(id)
  \/ \E r \in renewals : Renew(r)

Spec == Init /\ [][Next]_vars

-----------------------------------------------------------------------------
(* The inductive invariant behind LeaseProvable and AloneIsAlone.          *)

Holding == {"held", "renewing", "takeover", "releasing"}

\* Ids are made once, and one take at a time holds LEASES_LOCK.
TakesInv ==
  /\ \A id \in Id : id > made => take[id].st = "unused" /\ id \notin rows
  /\ \A id \in Id : take[id].st = "ready" <=> txn = id

\* What an instance works on is a take of its own, granted once it holds it.
OwnTake(i) ==
  /\ cur[i] # NoId => take[cur[i]].by = i /\ take[cur[i]].st # "unused"
  /\ phase[i] \in Taking \cup {"held", "renewing", "takeover"} => cur[i] # NoId
  /\ phase[i] \in Holding /\ cur[i] # NoId => take[cur[i]].st = "granted"
  /\ held[i] = IF phase[i] \in Holding THEN cur[i] ELSE NoId

IdsInv == TakesInv /\ \A i \in Instance : OwnTake(i)

\* A request is sent no later than the database's time of it.
TakeTimes(id) ==
  /\ take[id].sent <= clock /\ take[id].now <= clock
  /\ take[id].st \in {"begun", "ready"} => take[id].sent <= take[id].now

TimesInv ==
  /\ \A id \in Id : TakeTimes(id)
  /\ \A i \in Instance : sent[i] <= clock /\ rsent[i] <= clock

\* The database counts the row as live for at least a lapse after t.
GrantedFrom(id, t) == clock < t + Lapse => id \in rows /\ t + Lapse <= expires[id]

\* What an instance can prove, or will be able to prove once it reads the
\* answer, the database grants for at least as long.
Granted(i) ==
  /\ held[i] # NoId => GrantedFrom(held[i], sent[i])
  /\ phase[i] = "renewing" /\ answer[i] = "renewed" => GrantedFrom(cur[i], rsent[i])
  /\ phase[i] \in Taking /\ take[cur[i]].st = "granted" =>
       GrantedFrom(cur[i], take[cur[i]].sent)

GrantInv == \A i \in Instance \ Alone : Granted(i)

\* From the statements of an alone instance's take on, no shared lease is live.
NoSharedLeft(i) ==
  /\ held[i] # NoId \/ (phase[i] \in Taking /\ take[cur[i]].st = "granted") =>
       \A r \in rows : MustBeAlone(r)
  /\ phase[i] \in Taking /\ take[cur[i]].st = "ready" =>
       \A r \in rows : MustBeAlone(r) \/ expires[r] <= take[cur[i]].now

AloneInv ==
  /\ txn # NoId /\ ~MustBeAlone(txn) => lock = Nobody
  /\ lock # Nobody => NoSharedLeft(lock)

\* A lease and its audit chain begin in one transaction.
ChainInv == \A id \in rows : chain[id] # "none"

\* The inductive invariant: what an instance of instance.rs believes of its lease, its
\* requests in flight included, agrees with the tables of postgres/lease.rs.
LeaseInv == TypeOK /\ IdsInv /\ TimesInv /\ GrantInv /\ AloneInv /\ ChainInv

-----------------------------------------------------------------------------
(* Properties.                                                             *)

\* An instance that shares the database deems its lease lapsed no later than
\* the database does (module doc of instance.rs): while it can prove a lease by
\* its own deadline, the row is there and the database still counts it as live,
\* whatever requests it has given up on, and whatever others take over.
LeaseProvable ==
  \A i \in Instance \ Alone :
    Provable(i) => held[i] \in rows /\ clock < expires[held[i]]

\* While an instance that must be alone holds its lock and a lease, no instance
\* that shares the database can prove one (ADR-0041 clause 2, Refused).
AloneIsAlone ==
  \A i \in Alone, k \in Instance \ Alone :
    ~(lock = i /\ Provable(i) /\ Provable(k))

\* Whoever removes the lease of an instance that is gone closes its audit chain
\* in the same transaction; only a release by the holder itself leaves that to
\* the holder (ADR-0042 clause 3, close_lapsed).
TakeoverClosesChain ==
  [][\A id \in rows \ rows' :
        \/ chain'[id] = "closed"
        \/ \E i \in Instance : phase[i] = "releasing" /\ cur[i] = id]_vars

=============================================================================
