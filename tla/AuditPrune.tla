----------------------------- MODULE AuditPrune -----------------------------
(***************************************************************************)
(* How long the audit record goes back (postgres/audit_prune.rs), composed *)
(* with the chains and their writers: an instance plans what it removes,   *)
(* records one audit.pruned for each chain through its own writer, waits   *)
(* until they are written, and deletes.  It prunes its own chain, and the  *)
(* closed ones while it holds the prune lock, in rounds of a budget.       *)
(*                                                                         *)
(* A round takes minutes and an entry grows old in days, so entries grow   *)
(* old between rounds only.                                                *)
(***************************************************************************)
EXTENDS AuditChain, SequencesExt

CONSTANT Budget     \* ROUND_ENTRIES

ASSUME PruneBounds == Budget \in Nat \ {0}

VARIABLES
  old,     \* the entries of each chain up to this seq are past retain_days
  prune,   \* the round of each instance
  locked,  \* the holder of PRUNE_LOCK, as a set of at most one
  rounds

pruneVars == <<old, prune, locked, rounds>>

\* A round: the chain the day's prune began under, the links it still has to record,
\* and the ones it deletes by.
NoRound == [st |-> "none", own |-> NoLease, todo |-> <<>>, chains |-> <<>>, capped |-> FALSE]

PruneInit ==
  /\ AuditInit
  /\ old = [c \in Lease |-> 0]
  /\ prune = [i \in Instance |-> NoRound]
  /\ locked = {}
  /\ rounds = 0

Quiet == \A i \in Instance : prune[i].st = "none"

\* The entries of an instance that goes on deciding are never all old.
Oldest(c) == IF closed[c] # <<>> THEN LastSeq(c) ELSE LastSeq(c) - 1

Age(c) ==
  /\ Quiet /\ c \in Chains
  /\ \E n \in (old[c] + 1) .. Oldest(c) : old' = [old EXCEPT ![c] = n]
  /\ UNCHANGED <<auditVars, prune, locked, rounds>>

\* round_under: the own chain while it is open, then the closed ones, oldest first.
Candidates(own, lock) ==
  (IF own # NoLease /\ IsOpen(own) THEN <<own>> ELSE <<>>)
  \o SetToSortSeq({c \in Chains : lock /\ closed[c] # <<>>}, <)

Minimum(a, b) == IF a < b THEN a ELSE b

\* plan: the longest run of old entries from each chain's start, within the budget.
RunEnd(c, budget) == Minimum(Minimum(old[c], LastSeq(c)), base[c] + budget)

Runs(cs) ==
  LET go[n \in 0 .. Len(cs)] ==
        IF n = 0 THEN [budget |-> Budget, ends |-> <<>>, capped |-> FALSE]
        ELSE LET p == go[n - 1]
                 c == cs[n]
                 end == RunEnd(c, p.budget)
             IN  IF p.budget = 0 THEN [p EXCEPT !.capped = TRUE]
                 ELSE IF end <= base[c] THEN p
                 ELSE [budget |-> p.budget - (end - base[c]),
                       ends |-> Append(p.ends, [chain |-> c, last |-> end,
                                                hash |-> Hash(entries[c][end - base[c]])]),
                       capped |-> p.budget = end - base[c]]
  IN  go[Len(cs)]

\* The lines a plan removes.
Removed(ends) ==
  UNION {{entries[l.chain][k] : k \in 1 .. (l.last - base[l.chain])} : l \in Range(ends)}

\* Whether a link is what its chain's start, or its whole removal, hangs on.
Needed(l) ==
  IF entries[l.chain] # <<>> THEN base[l.chain] = l.last ELSE closed[l.chain] = l.hash

Carried(ends) ==
  {l \in {line.e.link : line \in {r \in Removed(ends) : r.e.event = "pruned"}} :
     l.chain \notin {e.chain : e \in Range(ends)} /\ Needed(l)}

\* entries: one audit.pruned for each chain and each link carried on, the
\* predecessor on the first.
PrunedEntries(ends) ==
  LET links == ends \o SetToSeq(Carried(ends))
      pred == \E r \in Removed(ends) : r.e.pred
  IN  [n \in 1 .. Len(links) |-> Entry("pruned", Nothing, links[n], pred /\ n = 1)]

\* prune_round_of, up to the plan.
PlanRound(i, own) ==
  LET lock == locked = {}
      plan == Runs(Candidates(own, lock))
  IN  /\ up[i] = "up" /\ rounds < setup.rounds
      /\ rounds' = rounds + 1
      /\ locked' = IF lock /\ plan.ends # <<>> THEN {i} ELSE locked
      /\ prune' = [prune EXCEPT ![i] =
                     IF plan.ends = <<>> THEN NoRound
                     ELSE [st |-> "recording", own |-> own, todo |-> PrunedEntries(plan.ends),
                           chains |-> plan.ends, capped |-> plan.capped]]
      /\ UNCHANGED <<auditVars, old>>

StartPrune(i) == prune[i].st = "none" /\ PlanRound(i, held[i])
NextRound(i)  == prune[i].st = "again" /\ PlanRound(i, prune[i].own)

Unlock(i) == locked' = locked \ {i}

\* The round fails: nothing is deleted, what was recorded stays recorded.
RoundFails(i) ==
  /\ prune' = [prune EXCEPT ![i] = NoRound]
  /\ Unlock(i)
  /\ answer' = [answer EXCEPT ![i].drain = "none"]
  /\ UNCHANGED <<dbVars, held, up, queue, w, fate, pruned, setup, old, rounds>>

\* AuditLog::record of the next audit.pruned, or, when they are all queued, drain.
RecordPruned(i) ==
  /\ up[i] # "down" /\ prune[i].st = "recording" /\ prune[i].todo # <<>>
  /\ IF w[i].failing \/ Len(queue[i]) >= Capacity THEN RoundFails(i) /\ UNCHANGED faults
     ELSE /\ queue' = [queue EXCEPT ![i] =
                         Append(@, Message("entry", Head(prune[i].todo), held[i]))]
          /\ prune' = [prune EXCEPT ![i].todo = Tail(@)]
          /\ UNCHANGED <<dbVars, held, up, w, answer, faults, fate, pruned, setup, old, locked, rounds>>

AskDrain(i) ==
  /\ up[i] # "down" /\ prune[i].st = "recording" /\ prune[i].todo = <<>>
  /\ Len(queue[i]) < Capacity
  /\ queue' = [queue EXCEPT ![i] = Append(@, Message("drain", Own("none"), NoLease))]
  /\ prune' = [prune EXCEPT ![i].st = "draining"]
  /\ UNCHANGED <<dbVars, held, up, w, answer, faults, fate, pruned, setup, old, locked, rounds>>

\* Mutant: the entries are deleted once they are queued.
WrittenUnasked(i) == answer[i].drain # "no"

\* The entries are written: the drain says so.
AllWritten(i) == answer[i].drain = "yes"

NotWritten(i) ==
  /\ prune[i].st = "draining" /\ up[i] # "down" /\ answer[i].drain = "no"
  /\ UNCHANGED faults
  /\ RoundFails(i)

\* delete: a chain another instance pruned further is left; one transaction.
Delete(i) ==
  LET cut(c) == {l \in Range(prune[i].chains) : l.chain = c /\ base[c] < l.last
                                                /\ l.last <= LastSeq(c)}
      end(c) == IF cut(c) = {} THEN base[c] ELSE (CHOOSE l \in cut(c) : TRUE).last
  IN  /\ prune[i].st = "draining" /\ up[i] # "down" /\ AllWritten(i)
      /\ \A c \in Lease : \A l \in cut(c) : Hash(entries[c][l.last - base[c]]) = l.hash
      /\ base' = [c \in Lease |-> end(c)]
      /\ entries' = [c \in Lease |-> SubSeq(entries[c], end(c) - base[c] + 1, Len(entries[c]))]
      /\ pruned' = pruned \cup ({line.e.d : line \in Removed(prune[i].chains)} \cap Decision)
      /\ prune' = [prune EXCEPT ![i] = IF @.capped THEN [NoRound EXCEPT !.st = "again", !.own = prune[i].own]
                                       ELSE NoRound]
      /\ Unlock(i)
      /\ answer' = [answer EXCEPT ![i].drain = "none"]
      /\ UNCHANGED <<lease, closed, writes, held, up, queue, w, faults, fate, setup, old, rounds>>

\* The database fails the transaction, or the round has run out of time.
DeleteFails(i) ==
  /\ prune[i].st = "draining" /\ up[i] # "down" /\ AllWritten(i)
  /\ Fault
  /\ RoundFails(i)

\* The rest of the system goes on; a process that ends takes its round with it.
RecordSteps ==
  /\ AuditNext
  /\ prune' = [i \in Instance |-> IF up'[i] = "down" THEN NoRound ELSE prune[i]]
  /\ locked' = {i \in locked : up'[i] # "down"}
  /\ UNCHANGED <<old, rounds>>

PruneNext ==
  \/ RecordSteps
  \/ \E c \in Lease : Age(c)
  \/ \E i \in Instance : \/ StartPrune(i) \/ NextRound(i) \/ RecordPruned(i) \/ AskDrain(i)
                         \/ NotWritten(i) \/ Delete(i) \/ DeleteFails(i)

PruneSpec == PruneInit /\ [][PruneNext]_<<auditVars, pruneVars>>
=============================================================================
