---------------------------- MODULE LeaseProofs ----------------------------
(***************************************************************************)
(* Proofs about modules Lease and Serve, for every set of instances, every *)
(* lapse and every bound.                                                  *)
(***************************************************************************)
EXTENDS Serve, TLAPS

(* What is needed of the ranges, so that their definitions stay closed.     *)
LEMMA TypeFacts ==
  /\ 0 \in Time /\ Time \subseteq Nat
  /\ NoId \notin Id /\ Id \subseteq Nat
  /\ \A n \in 0 .. MaxIds : n < MaxIds => n + 1 \in Id /\ n + 1 \in 0 .. MaxIds
  /\ Alone \subseteq Instance /\ Nobody \notin Instance
  /\ Lapse \in Nat /\ Lapse > 0 /\ MaxIds \in Nat
  /\ \A t \in Time : t + Lapse \in Nat /\ (t < MaxTime => t + 1 \in Time)
BY AloneAssumption, NobodyAssumption, BoundsAssumption DEF Time, Id, NoId

(* A take in its next state is a take.                                       *)
LEMMA BecomeType ==
  ASSUME NEW t \in Take, NEW st \in TakeSt, NEW at \in Time, NEW now \in Time
  PROVE  Become(t, st, at, now) \in Take /\ t.sent \in Time /\ t.now \in Time
BY DEF Become, Take

(* The id a take is made under is a new one.                                *)
LEMMA NextId ==
  ASSUME TypeOK, made < MaxIds
  PROVE  made + 1 \in Id /\ made \in Nat /\ made + 1 > made /\ made + 1 # NoId
BY BoundsAssumption DEF TypeOK, DbTypeOK, Id, NoId

(* An instance that takes, holds or renews has an id.                       *)
LEMMA WorksOnId ==
  ASSUME TypeOK, NEW i \in Instance, OwnTake(i),
         phase[i] \in Taking \cup {"held", "renewing", "takeover"}
  PROVE  cur[i] \in Id /\ take[cur[i]] \in Take
BY DEF TypeOK, DbTypeOK, InstTypeOK, OwnTake, NoId


(* The database side keeps its types.                                       *)
LEMMA DbTypeStep ==
  ASSUME TypeOK, IdsInv, [Next]_vars
  PROVE  DbTypeOK'
<1>1. CASE Tick
  BY <1>1, TypeFacts DEF Tick, TypeOK, DbTypeOK, dbVars, instVars
<1>2. CASE LockSessionEnds
  BY <1>2, TypeFacts DEF LockSessionEnds, TypeOK, DbTypeOK, dbVars, instVars
<1>3. ASSUME NEW i \in Instance, Start(i) PROVE DbTypeOK'
  BY <1>3, TypeFacts DEF Start, TypeOK, DbTypeOK, dbVars, instVars
<1>4. ASSUME NEW i \in Instance, Crash(i) PROVE DbTypeOK'
  BY <1>4, TypeFacts DEF Crash, Ends, TypeOK, DbTypeOK, dbVars, instVars
<1>5. ASSUME NEW i \in Instance, NoticeLockLost(i) PROVE DbTypeOK'
  BY <1>5, TypeFacts DEF NoticeLockLost, TypeOK, DbTypeOK, dbVars, instVars
<1>6. ASSUME NEW i \in Instance, SendTake(i) PROVE DbTypeOK'
  BY <1>6, TypeFacts DEF SendTake, TypeOK, DbTypeOK, dbVars, instVars, Take, TakeSt
<1>7. ASSUME NEW i \in Instance, TakeAnswered(i) PROVE DbTypeOK'
  BY <1>7, TypeFacts DEF TakeAnswered, TypeOK, DbTypeOK, dbVars, instVars
<1>8. ASSUME NEW i \in Instance, FirstTakeFails(i) PROVE DbTypeOK'
  BY <1>8, TypeFacts DEF FirstTakeFails, Ends, TypeOK, DbTypeOK, dbVars, instVars
<1>9. ASSUME NEW i \in Instance, TakeFails(i) PROVE DbTypeOK'
  BY <1>9, TypeFacts DEF TakeFails, TypeOK, DbTypeOK, dbVars, instVars
<1>10. ASSUME NEW i \in Instance, SendRenewal(i) PROVE DbTypeOK'
  <2>1. cur[i] \in Id
    BY <1>10, WorksOnId DEF SendRenewal, IdsInv
  <2>2. [id |-> cur[i], sent |-> clock] \in Renewal
    BY <2>1 DEF Renewal, TypeOK, DbTypeOK
  <2> QED
    BY <1>10, <2>2 DEF SendRenewal, TypeOK, DbTypeOK
<1>11. ASSUME NEW i \in Instance, Renewed(i) PROVE DbTypeOK'
  BY <1>11, TypeFacts DEF Renewed, TypeOK, DbTypeOK, dbVars, instVars
<1>12. ASSUME NEW i \in Instance, RenewalFails(i) PROVE DbTypeOK'
  BY <1>12, TypeFacts DEF RenewalFails, TypeOK, DbTypeOK, dbVars, instVars
<1>13. ASSUME NEW i \in Instance, TakeOverLapsed(i) PROVE DbTypeOK'
  BY <1>13, TypeFacts DEF TakeOverLapsed, TypeOK, DbTypeOK, dbVars, instVars, CloseChains
<1>14. ASSUME NEW i \in Instance, TakeOverFails(i) PROVE DbTypeOK'
  BY <1>14, TypeFacts DEF TakeOverFails, TypeOK, DbTypeOK, dbVars, instVars
<1>15. ASSUME NEW i \in Instance, LeaseLost(i) PROVE DbTypeOK'
  BY <1>15, TypeFacts DEF LeaseLost, TypeOK, DbTypeOK, dbVars, instVars
<1>16. ASSUME NEW i \in Instance, CloseChain(i) PROVE DbTypeOK'
  BY <1>16, TypeFacts DEF CloseChain, TypeOK, DbTypeOK, dbVars, instVars
<1>17. ASSUME NEW i \in Instance, StopRenewing(i) PROVE DbTypeOK'
  BY <1>17, TypeFacts DEF StopRenewing, TypeOK, DbTypeOK, dbVars, instVars
<1>18. ASSUME NEW i \in Instance, Release(i) PROVE DbTypeOK'
  BY <1>18, TypeFacts DEF Release, Ends, TypeOK, DbTypeOK, dbVars, instVars
<1>19. ASSUME NEW id \in Id, BeginTake(id) PROVE DbTypeOK'
  BY <1>19, TypeFacts, BecomeType DEF BeginTake, TypeOK, DbTypeOK, dbVars, instVars, TakeSt
<1>20. ASSUME NEW id \in Id, ExecTake(id) PROVE DbTypeOK'
  <2>1. take[id] \in Take
    BY DEF TypeOK, DbTypeOK
  <2>2. /\ Become(take[id], "refused", 0, 0) \in Take
        /\ Become(take[id], "ready", take[id].sent, take[id].now) \in Take
    BY <2>1, TypeFacts, BecomeType DEF Take, TakeSt
  <2> QED
    BY <1>20, <2>2 DEF ExecTake, TypeOK, DbTypeOK
<1>21. ASSUME NEW id \in Id, CommitTake(id) PROVE DbTypeOK'
  BY <1>21, TypeFacts, BecomeType DEF CommitTake, TypeOK, DbTypeOK, dbVars, instVars,
     CloseChains, TakeSt
<1>22. ASSUME NEW id \in Id, AbortTake(id) PROVE DbTypeOK'
  BY <1>22, TypeFacts, BecomeType DEF AbortTake, TypeOK, DbTypeOK, dbVars, instVars, TakeSt
<1>23. ASSUME NEW r \in renewals, Renew(r) PROVE DbTypeOK'
  BY <1>23, TypeFacts DEF Renew, TypeOK, DbTypeOK, dbVars, instVars
<1>24. CASE UNCHANGED vars
  BY <1>24, TypeFacts DEF vars, TypeOK, DbTypeOK, dbVars, instVars
<1> QED
  BY <1>1, <1>2, <1>3, <1>4, <1>5, <1>6, <1>7, <1>8, <1>9, <1>10, <1>11, <1>12,
     <1>13, <1>14, <1>15, <1>16, <1>17, <1>18, <1>19, <1>20, <1>21, <1>22, <1>23, <1>24 DEF Next

(* The instance side keeps its types.                                       *)
LEMMA InstTypeStep ==
  ASSUME TypeOK, IdsInv, [Next]_vars
  PROVE  InstTypeOK'
<1>1. CASE Tick
  BY <1>1, TypeFacts DEF Tick, TypeOK, InstTypeOK, dbVars, instVars, Phase, Taking
<1>2. CASE LockSessionEnds
  BY <1>2, TypeFacts DEF LockSessionEnds, TypeOK, InstTypeOK, dbVars, instVars, Phase, Taking
<1>3. ASSUME NEW i \in Instance, Start(i) PROVE InstTypeOK'
  BY <1>3, TypeFacts DEF Start, TypeOK, InstTypeOK, dbVars, instVars, Phase, Taking
<1>4. ASSUME NEW i \in Instance, Crash(i) PROVE InstTypeOK'
  BY <1>4, TypeFacts DEF Crash, Ends, TypeOK, InstTypeOK, dbVars, instVars, Phase, Taking
<1>5. ASSUME NEW i \in Instance, NoticeLockLost(i) PROVE InstTypeOK'
  BY <1>5, TypeFacts DEF NoticeLockLost, TypeOK, InstTypeOK, dbVars, instVars, Phase, Taking
<1>6. ASSUME NEW i \in Instance, SendTake(i) PROVE InstTypeOK'
  BY <1>6, TypeFacts DEF SendTake, TypeOK, InstTypeOK, dbVars, instVars, Phase, Taking, DbTypeOK
<1>7. ASSUME NEW i \in Instance, TakeAnswered(i) PROVE InstTypeOK'
  <2>1. cur[i] \in Id /\ take[cur[i]] \in Take
    BY <1>7, WorksOnId DEF TakeAnswered, IdsInv
  <2>2. take[cur[i]].sent \in Time
    BY <2>1 DEF Take
  <2> QED
    BY <1>7, <2>1, <2>2 DEF TakeAnswered, TypeOK, InstTypeOK, Phase
<1>8. ASSUME NEW i \in Instance, FirstTakeFails(i) PROVE InstTypeOK'
  BY <1>8, TypeFacts DEF FirstTakeFails, Ends, TypeOK, InstTypeOK, dbVars, instVars, Phase, Taking
<1>9. ASSUME NEW i \in Instance, TakeFails(i) PROVE InstTypeOK'
  BY <1>9, TypeFacts DEF TakeFails, TypeOK, InstTypeOK, dbVars, instVars, Phase, Taking
<1>10. ASSUME NEW i \in Instance, SendRenewal(i) PROVE InstTypeOK'
  BY <1>10, TypeFacts DEF SendRenewal, TypeOK, InstTypeOK, dbVars, instVars, Phase, Taking,
     DbTypeOK
<1>11. ASSUME NEW i \in Instance, Renewed(i) PROVE InstTypeOK'
  BY <1>11, TypeFacts DEF Renewed, TypeOK, InstTypeOK, dbVars, instVars, Phase, Taking
<1>12. ASSUME NEW i \in Instance, RenewalFails(i) PROVE InstTypeOK'
  BY <1>12, TypeFacts DEF RenewalFails, TypeOK, InstTypeOK, dbVars, instVars, Phase, Taking
<1>13. ASSUME NEW i \in Instance, TakeOverLapsed(i) PROVE InstTypeOK'
  BY <1>13, TypeFacts DEF TakeOverLapsed, TypeOK, InstTypeOK, dbVars, instVars, Phase, Taking
<1>14. ASSUME NEW i \in Instance, TakeOverFails(i) PROVE InstTypeOK'
  BY <1>14, TypeFacts DEF TakeOverFails, TypeOK, InstTypeOK, dbVars, instVars, Phase, Taking
<1>15. ASSUME NEW i \in Instance, LeaseLost(i) PROVE InstTypeOK'
  BY <1>15, TypeFacts DEF LeaseLost, TypeOK, InstTypeOK, dbVars, instVars, Phase, Taking
<1>16. ASSUME NEW i \in Instance, CloseChain(i) PROVE InstTypeOK'
  BY <1>16, TypeFacts DEF CloseChain, TypeOK, InstTypeOK, dbVars, instVars, Phase, Taking
<1>17. ASSUME NEW i \in Instance, StopRenewing(i) PROVE InstTypeOK'
  BY <1>17, TypeFacts DEF StopRenewing, TypeOK, InstTypeOK, dbVars, instVars, Phase, Taking
<1>18. ASSUME NEW i \in Instance, Release(i) PROVE InstTypeOK'
  BY <1>18, TypeFacts DEF Release, Ends, TypeOK, InstTypeOK, dbVars, instVars, Phase, Taking
<1>19. ASSUME NEW id \in Id, BeginTake(id) PROVE InstTypeOK'
  BY <1>19, TypeFacts DEF BeginTake, TypeOK, InstTypeOK, dbVars, instVars, Phase, Taking
<1>20. ASSUME NEW id \in Id, ExecTake(id) PROVE InstTypeOK'
  BY <1>20, TypeFacts DEF ExecTake, TypeOK, InstTypeOK, dbVars, instVars, Phase, Taking
<1>21. ASSUME NEW id \in Id, CommitTake(id) PROVE InstTypeOK'
  BY <1>21, TypeFacts DEF CommitTake, TypeOK, InstTypeOK, dbVars, instVars, Phase, Taking
<1>22. ASSUME NEW id \in Id, AbortTake(id) PROVE InstTypeOK'
  BY <1>22, TypeFacts DEF AbortTake, TypeOK, InstTypeOK, dbVars, instVars, Phase, Taking
<1>23. ASSUME NEW r \in renewals, Renew(r) PROVE InstTypeOK'
  BY <1>23, TypeFacts DEF Renew, TypeOK, InstTypeOK, dbVars, instVars, Phase, Taking
<1>24. CASE UNCHANGED vars
  BY <1>24, TypeFacts DEF vars, TypeOK, InstTypeOK, dbVars, instVars, Phase, Taking
<1> QED
  BY <1>1, <1>2, <1>3, <1>4, <1>5, <1>6, <1>7, <1>8, <1>9, <1>10, <1>11, <1>12,
     <1>13, <1>14, <1>15, <1>16, <1>17, <1>18, <1>19, <1>20, <1>21, <1>22, <1>23, <1>24 DEF Next

(* Each instance keeps working on a take of its own.                        *)
LEMMA OwnTakeStep ==
  ASSUME TypeOK, TakesInv, NEW j \in Instance, OwnTake(j), [Next]_vars
  PROVE  OwnTake(j)'
<1>1. CASE Tick
  BY <1>1 DEF Tick, TypeOK, InstTypeOK, OwnTake, Holding, Taking, dbVars, instVars
<1>2. CASE LockSessionEnds
  BY <1>2 DEF LockSessionEnds, TypeOK, InstTypeOK, OwnTake, Holding, Taking, dbVars, instVars
<1>3. ASSUME NEW i \in Instance, Start(i) PROVE OwnTake(j)'
  BY <1>3 DEF Start, TypeOK, InstTypeOK, OwnTake, Holding, Taking, dbVars, instVars
<1>4. ASSUME NEW i \in Instance, Crash(i) PROVE OwnTake(j)'
  BY <1>4 DEF Crash, Ends, TypeOK, InstTypeOK, OwnTake, Holding, Taking, dbVars, instVars
<1>5. ASSUME NEW i \in Instance, NoticeLockLost(i) PROVE OwnTake(j)'
  BY <1>5 DEF NoticeLockLost, TypeOK, InstTypeOK, OwnTake, Holding, Taking, dbVars, instVars
<1>6. ASSUME NEW i \in Instance, SendTake(i) PROVE OwnTake(j)'
  <2>1. made + 1 \in Id /\ made + 1 > made /\ made + 1 # NoId
    BY <1>6, NextId DEF SendTake
  <2>2. take[made + 1].st = "unused"
    BY <2>1 DEF TakesInv
  <2>3. /\ \A t \in Id : t # made + 1 => take'[t] = take[t]
        /\ take'[made + 1].by = i /\ take'[made + 1].st = "sent"
    BY <1>6, <2>1 DEF SendTake, TypeOK, DbTypeOK
  <2>4. CASE j = i
    BY <1>6, <2>1, <2>3, <2>4 DEF SendTake, OwnTake, Holding, Taking, TypeOK, InstTypeOK
  <2>5. CASE j # i
    BY <1>6, <2>2, <2>3, <2>5 DEF SendTake, OwnTake, TypeOK, InstTypeOK
  <2> QED
    BY <2>4, <2>5
<1>7. ASSUME NEW i \in Instance, TakeAnswered(i) PROVE OwnTake(j)'
  BY <1>7 DEF TakeAnswered, TypeOK, InstTypeOK, OwnTake, Holding, Taking, dbVars, instVars
<1>8. ASSUME NEW i \in Instance, FirstTakeFails(i) PROVE OwnTake(j)'
  BY <1>8 DEF FirstTakeFails, Ends, TypeOK, InstTypeOK, OwnTake, Holding, Taking, dbVars, instVars
<1>9. ASSUME NEW i \in Instance, TakeFails(i) PROVE OwnTake(j)'
  BY <1>9 DEF TakeFails, TypeOK, InstTypeOK, OwnTake, Holding, Taking, dbVars, instVars
<1>10. ASSUME NEW i \in Instance, SendRenewal(i) PROVE OwnTake(j)'
  BY <1>10 DEF SendRenewal, TypeOK, InstTypeOK, OwnTake, Holding, Taking, dbVars, instVars
<1>11. ASSUME NEW i \in Instance, Renewed(i) PROVE OwnTake(j)'
  BY <1>11 DEF Renewed, TypeOK, InstTypeOK, OwnTake, Holding, Taking, dbVars, instVars
<1>12. ASSUME NEW i \in Instance, RenewalFails(i) PROVE OwnTake(j)'
  BY <1>12 DEF RenewalFails, TypeOK, InstTypeOK, OwnTake, Holding, Taking, dbVars, instVars
<1>13. ASSUME NEW i \in Instance, TakeOverLapsed(i) PROVE OwnTake(j)'
  BY <1>13 DEF TakeOverLapsed, TypeOK, InstTypeOK, OwnTake, Holding, Taking, dbVars, instVars
<1>14. ASSUME NEW i \in Instance, TakeOverFails(i) PROVE OwnTake(j)'
  BY <1>14 DEF TakeOverFails, TypeOK, InstTypeOK, OwnTake, Holding, Taking, dbVars, instVars
<1>15. ASSUME NEW i \in Instance, LeaseLost(i) PROVE OwnTake(j)'
  BY <1>15 DEF LeaseLost, TypeOK, InstTypeOK, OwnTake, Holding, Taking, dbVars, instVars
<1>16. ASSUME NEW i \in Instance, CloseChain(i) PROVE OwnTake(j)'
  BY <1>16 DEF CloseChain, TypeOK, InstTypeOK, OwnTake, Holding, Taking, dbVars, instVars
<1>17. ASSUME NEW i \in Instance, StopRenewing(i) PROVE OwnTake(j)'
  BY <1>17 DEF StopRenewing, TypeOK, InstTypeOK, OwnTake, Holding, Taking, dbVars, instVars,
     Running
<1>18. ASSUME NEW i \in Instance, Release(i) PROVE OwnTake(j)'
  BY <1>18 DEF Release, Ends, TypeOK, InstTypeOK, OwnTake, Holding, Taking, dbVars, instVars
<1>19. ASSUME NEW id \in Id, BeginTake(id) PROVE OwnTake(j)'
  <2>1. /\ \A t \in Id : take'[t].by = take[t].by /\ (t # id => take'[t] = take[t])
        /\ take[id].st # "granted" /\ take'[id].st # "unused"
    BY <1>19 DEF BeginTake, Become, TypeOK, DbTypeOK, TakesInv
  <2>2. UNCHANGED <<phase, cur, held>>
    BY <1>19 DEF BeginTake, instVars
  <2> QED
    BY <2>1, <2>2 DEF OwnTake, Holding, Taking, TypeOK, InstTypeOK
<1>20. ASSUME NEW id \in Id, ExecTake(id) PROVE OwnTake(j)'
  <2>1. /\ \A t \in Id : take'[t].by = take[t].by /\ (t # id => take'[t] = take[t])
        /\ take[id].st # "granted" /\ take'[id].st # "unused"
    BY <1>20 DEF ExecTake, Become, TypeOK, DbTypeOK, TakesInv
  <2>2. UNCHANGED <<phase, cur, held>>
    BY <1>20 DEF ExecTake, instVars
  <2> QED
    BY <2>1, <2>2 DEF OwnTake, Holding, Taking, TypeOK, InstTypeOK
<1>21. ASSUME NEW id \in Id, CommitTake(id) PROVE OwnTake(j)'
  <2>1. /\ \A t \in Id : take'[t].by = take[t].by /\ (t # id => take'[t] = take[t])
        /\ take[id].st # "granted" /\ take'[id].st # "unused"
    BY <1>21 DEF CommitTake, Become, TypeOK, DbTypeOK, TakesInv
  <2>2. UNCHANGED <<phase, cur, held>>
    BY <1>21 DEF CommitTake, instVars
  <2> QED
    BY <2>1, <2>2 DEF OwnTake, Holding, Taking, TypeOK, InstTypeOK
<1>22. ASSUME NEW id \in Id, AbortTake(id) PROVE OwnTake(j)'
  <2>1. /\ \A t \in Id : take'[t].by = take[t].by /\ (t # id => take'[t] = take[t])
        /\ take[id].st # "granted" /\ take'[id].st # "unused"
    BY <1>22 DEF AbortTake, Become, TypeOK, DbTypeOK, TakesInv
  <2>2. UNCHANGED <<phase, cur, held>>
    BY <1>22 DEF AbortTake, instVars
  <2> QED
    BY <2>1, <2>2 DEF OwnTake, Holding, Taking, TypeOK, InstTypeOK
<1>23. ASSUME NEW r \in renewals, Renew(r) PROVE OwnTake(j)'
  BY <1>23 DEF Renew, TypeOK, InstTypeOK, OwnTake, Holding, Taking, dbVars, instVars
<1>24. CASE UNCHANGED vars
  BY <1>24 DEF vars, TypeOK, InstTypeOK, OwnTake, Holding, Taking, dbVars, instVars
<1> QED
  BY <1>1, <1>2, <1>3, <1>4, <1>5, <1>6, <1>7, <1>8, <1>9, <1>10, <1>11, <1>12,
     <1>13, <1>14, <1>15, <1>16, <1>17, <1>18, <1>19, <1>20, <1>21, <1>22, <1>23, <1>24 DEF Next

(* Ids stay apart, and one take holds LEASES_LOCK.                          *)
LEMMA TakesStep ==
  ASSUME TypeOK, TakesInv, [Next]_vars
  PROVE  TakesInv'
<1>1. CASE Tick
  BY <1>1 DEF Tick, TypeOK, DbTypeOK, TakesInv, dbVars, instVars
<1>2. CASE LockSessionEnds
  BY <1>2 DEF LockSessionEnds, TypeOK, DbTypeOK, TakesInv, dbVars, instVars
<1>3. ASSUME NEW i \in Instance, Start(i) PROVE TakesInv'
  BY <1>3 DEF Start, TypeOK, DbTypeOK, TakesInv, dbVars, instVars
<1>4. ASSUME NEW i \in Instance, Crash(i) PROVE TakesInv'
  BY <1>4 DEF Crash, Ends, TypeOK, DbTypeOK, TakesInv, dbVars, instVars
<1>5. ASSUME NEW i \in Instance, NoticeLockLost(i) PROVE TakesInv'
  BY <1>5 DEF NoticeLockLost, TypeOK, DbTypeOK, TakesInv, dbVars, instVars
<1>6. ASSUME NEW i \in Instance, SendTake(i) PROVE TakesInv'
  <2>1. made + 1 \in Id /\ made \in Nat /\ made + 1 > made
    BY <1>6, NextId DEF SendTake
  <2>2. \A t \in Id : t > made + 1 => t > made /\ t # made + 1
    BY <2>1, TypeFacts
  <2>3. /\ \A t \in Id : t # made + 1 => take'[t] = take[t]
        /\ take'[made + 1].st = "sent"
    BY <1>6, <2>1 DEF SendTake, TypeOK, DbTypeOK
  <2>4. made' = made + 1 /\ UNCHANGED <<rows, txn>> /\ take[made + 1].st = "unused"
    BY <1>6, <2>1 DEF SendTake, TakesInv
  <2> QED
    BY <2>2, <2>3, <2>4 DEF TakesInv
<1>7. ASSUME NEW i \in Instance, TakeAnswered(i) PROVE TakesInv'
  BY <1>7 DEF TakeAnswered, TypeOK, DbTypeOK, TakesInv, dbVars, instVars
<1>8. ASSUME NEW i \in Instance, FirstTakeFails(i) PROVE TakesInv'
  BY <1>8 DEF FirstTakeFails, Ends, TypeOK, DbTypeOK, TakesInv, dbVars, instVars
<1>9. ASSUME NEW i \in Instance, TakeFails(i) PROVE TakesInv'
  BY <1>9 DEF TakeFails, TypeOK, DbTypeOK, TakesInv, dbVars, instVars
<1>10. ASSUME NEW i \in Instance, SendRenewal(i) PROVE TakesInv'
  BY <1>10 DEF SendRenewal, TypeOK, DbTypeOK, TakesInv, dbVars, instVars
<1>11. ASSUME NEW i \in Instance, Renewed(i) PROVE TakesInv'
  BY <1>11 DEF Renewed, TypeOK, DbTypeOK, TakesInv, dbVars, instVars
<1>12. ASSUME NEW i \in Instance, RenewalFails(i) PROVE TakesInv'
  BY <1>12 DEF RenewalFails, TypeOK, DbTypeOK, TakesInv, dbVars, instVars
<1>13. ASSUME NEW i \in Instance, TakeOverLapsed(i) PROVE TakesInv'
  BY <1>13 DEF TakeOverLapsed, TypeOK, DbTypeOK, TakesInv, dbVars, instVars
<1>14. ASSUME NEW i \in Instance, TakeOverFails(i) PROVE TakesInv'
  BY <1>14 DEF TakeOverFails, TypeOK, DbTypeOK, TakesInv, dbVars, instVars
<1>15. ASSUME NEW i \in Instance, LeaseLost(i) PROVE TakesInv'
  BY <1>15 DEF LeaseLost, TypeOK, DbTypeOK, TakesInv, dbVars, instVars
<1>16. ASSUME NEW i \in Instance, CloseChain(i) PROVE TakesInv'
  BY <1>16 DEF CloseChain, TypeOK, DbTypeOK, TakesInv, dbVars, instVars
<1>17. ASSUME NEW i \in Instance, StopRenewing(i) PROVE TakesInv'
  BY <1>17 DEF StopRenewing, TypeOK, DbTypeOK, TakesInv, dbVars, instVars
<1>18. ASSUME NEW i \in Instance, Release(i) PROVE TakesInv'
  BY <1>18 DEF Release, Ends, TypeOK, DbTypeOK, TakesInv, dbVars, instVars
<1>19. ASSUME NEW id \in Id, BeginTake(id) PROVE TakesInv'
  BY <1>19, TypeFacts DEF BeginTake, TypeOK, DbTypeOK, TakesInv, dbVars, instVars, Become
<1>20. ASSUME NEW id \in Id, ExecTake(id) PROVE TakesInv'
  BY <1>20, TypeFacts DEF ExecTake, TypeOK, DbTypeOK, TakesInv, dbVars, instVars, Become
<1>21. ASSUME NEW id \in Id, CommitTake(id) PROVE TakesInv'
  BY <1>21, TypeFacts DEF CommitTake, TypeOK, DbTypeOK, TakesInv, dbVars, instVars, Become
<1>22. ASSUME NEW id \in Id, AbortTake(id) PROVE TakesInv'
  BY <1>22, TypeFacts DEF AbortTake, TypeOK, DbTypeOK, TakesInv, dbVars, instVars, Become
<1>23. ASSUME NEW r \in renewals, Renew(r) PROVE TakesInv'
  BY <1>23 DEF Renew, TypeOK, DbTypeOK, TakesInv, dbVars, instVars
<1>24. CASE UNCHANGED vars
  BY <1>24 DEF vars, TypeOK, DbTypeOK, TakesInv, dbVars, instVars
<1> QED
  BY <1>1, <1>2, <1>3, <1>4, <1>5, <1>6, <1>7, <1>8, <1>9, <1>10, <1>11, <1>12,
     <1>13, <1>14, <1>15, <1>16, <1>17, <1>18, <1>19, <1>20, <1>21, <1>22, <1>23, <1>24 DEF Next

(* A take is sent before its now(), and both before the present.            *)
LEMMA TakeTimesStep ==
  ASSUME TypeOK, NEW t \in Id, TakeTimes(t), [Next]_vars
  PROVE  TakeTimes(t)'
<1>1. CASE Tick
  <2>1. take' = take /\ clock' = clock + 1 /\ take[t] \in Take /\ clock \in Nat
    BY <1>1, TypeFacts DEF Tick, dbVars, TypeOK, DbTypeOK
  <2>2. take[t].sent \in Nat /\ take[t].now \in Nat
    BY <2>1, TypeFacts DEF Take
  <2> QED
    BY <2>1, <2>2 DEF TakeTimes
<1>2. CASE LockSessionEnds
  BY <1>2, TypeFacts DEF LockSessionEnds, TypeOK, DbTypeOK, dbVars, instVars, TakeTimes
<1>3. ASSUME NEW i \in Instance, Start(i) PROVE TakeTimes(t)'
  BY <1>3, TypeFacts DEF Start, TypeOK, DbTypeOK, dbVars, instVars, TakeTimes
<1>4. ASSUME NEW i \in Instance, Crash(i) PROVE TakeTimes(t)'
  BY <1>4, TypeFacts DEF Crash, Ends, TypeOK, DbTypeOK, dbVars, instVars, TakeTimes
<1>5. ASSUME NEW i \in Instance, NoticeLockLost(i) PROVE TakeTimes(t)'
  BY <1>5, TypeFacts DEF NoticeLockLost, TypeOK, DbTypeOK, dbVars, instVars, TakeTimes
<1>6. ASSUME NEW i \in Instance, SendTake(i) PROVE TakeTimes(t)'
  <2>1. /\ clock' = clock /\ clock \in Nat /\ made + 1 \in Id
        /\ take' = [take EXCEPT ![made + 1] = [st |-> "sent", by |-> i, sent |-> clock, now |-> 0]]
    BY <1>6, NextId, TypeFacts DEF SendTake, TypeOK, DbTypeOK
  <2>2. CASE t = made + 1
    BY <2>1, <2>2 DEF TakeTimes, TypeOK, DbTypeOK
  <2>3. CASE t # made + 1
    BY <2>1, <2>3 DEF TakeTimes, TypeOK, DbTypeOK
  <2> QED
    BY <2>2, <2>3
<1>7. ASSUME NEW i \in Instance, TakeAnswered(i) PROVE TakeTimes(t)'
  BY <1>7, TypeFacts DEF TakeAnswered, TypeOK, DbTypeOK, dbVars, instVars, TakeTimes
<1>8. ASSUME NEW i \in Instance, FirstTakeFails(i) PROVE TakeTimes(t)'
  BY <1>8, TypeFacts DEF FirstTakeFails, Ends, TypeOK, DbTypeOK, dbVars, instVars, TakeTimes
<1>9. ASSUME NEW i \in Instance, TakeFails(i) PROVE TakeTimes(t)'
  BY <1>9, TypeFacts DEF TakeFails, TypeOK, DbTypeOK, dbVars, instVars, TakeTimes
<1>10. ASSUME NEW i \in Instance, SendRenewal(i) PROVE TakeTimes(t)'
  BY <1>10, TypeFacts DEF SendRenewal, TypeOK, DbTypeOK, dbVars, instVars, TakeTimes
<1>11. ASSUME NEW i \in Instance, Renewed(i) PROVE TakeTimes(t)'
  BY <1>11, TypeFacts DEF Renewed, TypeOK, DbTypeOK, dbVars, instVars, TakeTimes
<1>12. ASSUME NEW i \in Instance, RenewalFails(i) PROVE TakeTimes(t)'
  BY <1>12, TypeFacts DEF RenewalFails, TypeOK, DbTypeOK, dbVars, instVars, TakeTimes
<1>13. ASSUME NEW i \in Instance, TakeOverLapsed(i) PROVE TakeTimes(t)'
  BY <1>13, TypeFacts DEF TakeOverLapsed, TypeOK, DbTypeOK, dbVars, instVars, TakeTimes
<1>14. ASSUME NEW i \in Instance, TakeOverFails(i) PROVE TakeTimes(t)'
  BY <1>14, TypeFacts DEF TakeOverFails, TypeOK, DbTypeOK, dbVars, instVars, TakeTimes
<1>15. ASSUME NEW i \in Instance, LeaseLost(i) PROVE TakeTimes(t)'
  BY <1>15, TypeFacts DEF LeaseLost, TypeOK, DbTypeOK, dbVars, instVars, TakeTimes
<1>16. ASSUME NEW i \in Instance, CloseChain(i) PROVE TakeTimes(t)'
  BY <1>16, TypeFacts DEF CloseChain, TypeOK, DbTypeOK, dbVars, instVars, TakeTimes
<1>17. ASSUME NEW i \in Instance, StopRenewing(i) PROVE TakeTimes(t)'
  BY <1>17, TypeFacts DEF StopRenewing, TypeOK, DbTypeOK, dbVars, instVars, TakeTimes
<1>18. ASSUME NEW i \in Instance, Release(i) PROVE TakeTimes(t)'
  BY <1>18, TypeFacts DEF Release, Ends, TypeOK, DbTypeOK, dbVars, instVars, TakeTimes
<1>19. ASSUME NEW id \in Id, BeginTake(id) PROVE TakeTimes(t)'
  BY <1>19, TypeFacts DEF BeginTake, TypeOK, DbTypeOK, dbVars, instVars, TakeTimes, Become
<1>20. ASSUME NEW id \in Id, ExecTake(id) PROVE TakeTimes(t)'
  BY <1>20, TypeFacts DEF ExecTake, TypeOK, DbTypeOK, dbVars, instVars, TakeTimes, Become
<1>21. ASSUME NEW id \in Id, CommitTake(id) PROVE TakeTimes(t)'
  BY <1>21, TypeFacts DEF CommitTake, TypeOK, DbTypeOK, dbVars, instVars, TakeTimes, Become
<1>22. ASSUME NEW id \in Id, AbortTake(id) PROVE TakeTimes(t)'
  BY <1>22, TypeFacts DEF AbortTake, TypeOK, DbTypeOK, dbVars, instVars, TakeTimes, Become
<1>23. ASSUME NEW r \in renewals, Renew(r) PROVE TakeTimes(t)'
  BY <1>23, TypeFacts DEF Renew, TypeOK, DbTypeOK, dbVars, instVars, TakeTimes
<1>24. CASE UNCHANGED vars
  BY <1>24, TypeFacts DEF vars, TypeOK, DbTypeOK, dbVars, instVars, TakeTimes
<1> QED
  BY <1>1, <1>2, <1>3, <1>4, <1>5, <1>6, <1>7, <1>8, <1>9, <1>10, <1>11, <1>12,
     <1>13, <1>14, <1>15, <1>16, <1>17, <1>18, <1>19, <1>20, <1>21, <1>22, <1>23, <1>24 DEF Next

(* What an instance sent, it sent before the present.                       *)
LEMMA InstTimesStep ==
  ASSUME TypeOK, IdsInv, TimesInv, NEW j \in Instance,
         sent[j] <= clock, rsent[j] <= clock, [Next]_vars
  PROVE  (sent[j] <= clock /\ rsent[j] <= clock)'
<1>1. CASE Tick
  <2>1. clock' = clock + 1 /\ UNCHANGED <<sent, rsent>> /\ clock \in Nat
    BY <1>1, TypeFacts DEF Tick, instVars, TypeOK, DbTypeOK
  <2>2. sent[j] \in Nat /\ rsent[j] \in Nat
    BY TypeFacts DEF TypeOK, InstTypeOK
  <2> QED
    BY <2>1, <2>2
<1>2. CASE LockSessionEnds
  BY <1>2, TypeFacts DEF LockSessionEnds, TypeOK, InstTypeOK, DbTypeOK, dbVars, instVars
<1>3. ASSUME NEW i \in Instance, Start(i) PROVE (sent[j] <= clock /\ rsent[j] <= clock)'
  BY <1>3, TypeFacts DEF Start, TypeOK, InstTypeOK, DbTypeOK, dbVars, instVars
<1>4. ASSUME NEW i \in Instance, Crash(i) PROVE (sent[j] <= clock /\ rsent[j] <= clock)'
  BY <1>4, TypeFacts DEF Crash, Ends, TypeOK, InstTypeOK, DbTypeOK, dbVars, instVars
<1>5. ASSUME NEW i \in Instance, NoticeLockLost(i) PROVE (sent[j] <= clock /\ rsent[j] <= clock)'
  BY <1>5, TypeFacts DEF NoticeLockLost, TypeOK, InstTypeOK, DbTypeOK, dbVars, instVars
<1>6. ASSUME NEW i \in Instance, SendTake(i) PROVE (sent[j] <= clock /\ rsent[j] <= clock)'
  BY <1>6, TypeFacts DEF SendTake, TypeOK, InstTypeOK, DbTypeOK, dbVars, instVars
<1>7. ASSUME NEW i \in Instance, TakeAnswered(i) PROVE (sent[j] <= clock /\ rsent[j] <= clock)'
  <2>1. cur[i] \in Id
    BY <1>7, WorksOnId DEF TakeAnswered, IdsInv
  <2>2. take[cur[i]].sent <= clock
    BY <2>1 DEF TimesInv, TakeTimes
  <2> QED
    BY <1>7, <2>2 DEF TakeAnswered, TypeOK, InstTypeOK, dbVars
<1>8. ASSUME NEW i \in Instance, FirstTakeFails(i) PROVE (sent[j] <= clock /\ rsent[j] <= clock)'
  <2>1. clock \in Nat /\ clock' = clock
    BY <1>8, TypeFacts DEF FirstTakeFails, Ends, TypeOK, DbTypeOK
  <2>2. sent'[j] \in {0, sent[j]} /\ rsent'[j] \in {0, rsent[j]}
    BY <1>8 DEF FirstTakeFails, Ends, TypeOK, InstTypeOK
  <2> QED
    BY <2>1, <2>2
<1>9. ASSUME NEW i \in Instance, TakeFails(i) PROVE (sent[j] <= clock /\ rsent[j] <= clock)'
  BY <1>9, TypeFacts DEF TakeFails, TypeOK, InstTypeOK, DbTypeOK, dbVars, instVars
<1>10. ASSUME NEW i \in Instance, SendRenewal(i) PROVE (sent[j] <= clock /\ rsent[j] <= clock)'
  BY <1>10, TypeFacts DEF SendRenewal, TypeOK, InstTypeOK, DbTypeOK, dbVars, instVars
<1>11. ASSUME NEW i \in Instance, Renewed(i) PROVE (sent[j] <= clock /\ rsent[j] <= clock)'
  BY <1>11, TypeFacts DEF Renewed, TypeOK, InstTypeOK, DbTypeOK, dbVars, instVars
<1>12. ASSUME NEW i \in Instance, RenewalFails(i) PROVE (sent[j] <= clock /\ rsent[j] <= clock)'
  BY <1>12, TypeFacts DEF RenewalFails, TypeOK, InstTypeOK, DbTypeOK, dbVars, instVars
<1>13. ASSUME NEW i \in Instance, TakeOverLapsed(i) PROVE (sent[j] <= clock /\ rsent[j] <= clock)'
  BY <1>13, TypeFacts DEF TakeOverLapsed, TypeOK, InstTypeOK, DbTypeOK, dbVars, instVars
<1>14. ASSUME NEW i \in Instance, TakeOverFails(i) PROVE (sent[j] <= clock /\ rsent[j] <= clock)'
  BY <1>14, TypeFacts DEF TakeOverFails, TypeOK, InstTypeOK, DbTypeOK, dbVars, instVars
<1>15. ASSUME NEW i \in Instance, LeaseLost(i) PROVE (sent[j] <= clock /\ rsent[j] <= clock)'
  BY <1>15, TypeFacts DEF LeaseLost, TypeOK, InstTypeOK, DbTypeOK, dbVars, instVars
<1>16. ASSUME NEW i \in Instance, CloseChain(i) PROVE (sent[j] <= clock /\ rsent[j] <= clock)'
  BY <1>16, TypeFacts DEF CloseChain, TypeOK, InstTypeOK, DbTypeOK, dbVars, instVars
<1>17. ASSUME NEW i \in Instance, StopRenewing(i) PROVE (sent[j] <= clock /\ rsent[j] <= clock)'
  BY <1>17, TypeFacts DEF StopRenewing, TypeOK, InstTypeOK, DbTypeOK, dbVars, instVars
<1>18. ASSUME NEW i \in Instance, Release(i) PROVE (sent[j] <= clock /\ rsent[j] <= clock)'
  BY <1>18, TypeFacts DEF Release, Ends, TypeOK, InstTypeOK, DbTypeOK, dbVars, instVars
<1>19. ASSUME NEW id \in Id, BeginTake(id) PROVE (sent[j] <= clock /\ rsent[j] <= clock)'
  BY <1>19, TypeFacts DEF BeginTake, TypeOK, InstTypeOK, DbTypeOK, dbVars, instVars
<1>20. ASSUME NEW id \in Id, ExecTake(id) PROVE (sent[j] <= clock /\ rsent[j] <= clock)'
  BY <1>20, TypeFacts DEF ExecTake, TypeOK, InstTypeOK, DbTypeOK, dbVars, instVars
<1>21. ASSUME NEW id \in Id, CommitTake(id) PROVE (sent[j] <= clock /\ rsent[j] <= clock)'
  BY <1>21, TypeFacts DEF CommitTake, TypeOK, InstTypeOK, DbTypeOK, dbVars, instVars
<1>22. ASSUME NEW id \in Id, AbortTake(id) PROVE (sent[j] <= clock /\ rsent[j] <= clock)'
  BY <1>22, TypeFacts DEF AbortTake, TypeOK, InstTypeOK, DbTypeOK, dbVars, instVars
<1>23. ASSUME NEW r \in renewals, Renew(r) PROVE (sent[j] <= clock /\ rsent[j] <= clock)'
  BY <1>23, TypeFacts DEF Renew, TypeOK, InstTypeOK, DbTypeOK, dbVars, instVars
<1>24. CASE UNCHANGED vars
  BY <1>24, TypeFacts DEF vars, TypeOK, InstTypeOK, DbTypeOK, dbVars, instVars
<1> QED
  BY <1>1, <1>2, <1>3, <1>4, <1>5, <1>6, <1>7, <1>8, <1>9, <1>10, <1>11, <1>12,
     <1>13, <1>14, <1>15, <1>16, <1>17, <1>18, <1>19, <1>20, <1>21, <1>22, <1>23, <1>24 DEF Next

(* The ranges of what Granted speaks of.                                     *)
LEMMA GrantRanges ==
  ASSUME TypeOK, NEW j \in Instance, OwnTake(j)
  PROVE  /\ sent[j] \in Nat /\ rsent[j] \in Nat /\ clock \in Nat
         /\ held[j] # NoId => held[j] \in Id /\ held[j] = cur[j]
         /\ phase[j] \in Taking \cup {"renewing"} => cur[j] \in Id
         /\ cur[j] \in Id => take[cur[j]].by = j
         /\ phase[j] \in Taking => take[cur[j]].sent \in Nat
<1>1. phase[j] \in Taking => take[cur[j]].sent \in Nat
  BY WorksOnId, TypeFacts DEF Take
<1> QED
  BY <1>1, WorksOnId, TypeFacts DEF OwnTake, TypeOK, InstTypeOK, DbTypeOK

(* The database grants a shared instance what it can prove, and longer.     *)
LEMMA GrantStep ==
  ASSUME TypeOK, IdsInv, TakesInv, TimesInv,
         NEW j \in Instance \ Alone, OwnTake(j), Granted(j), [Next]_vars
  PROVE  Granted(j)'
<1>1. CASE Tick
  <2>1. ASSUME NEW x \in Id, NEW t \in Nat, take[x].by = j, GrantedFrom(x, t)
        PROVE  clock' < t + Lapse => x \in rows' /\ t + Lapse <= expires'[x]
    BY <1>1, <2>1, TypeFacts DEF Tick, GrantedFrom, dbVars, TypeOK, DbTypeOK
  <2> QED
    BY <1>1, <2>1, GrantRanges DEF Tick, Granted, GrantedFrom, Taking, dbVars, instVars
<1>2. CASE LockSessionEnds
  BY <1>2 DEF LockSessionEnds, Granted, GrantedFrom, TypeOK, InstTypeOK, dbVars, Taking, instVars
<1>3. ASSUME NEW i \in Instance, Start(i) PROVE Granted(j)'
  BY <1>3 DEF Start, Granted, GrantedFrom, TypeOK, InstTypeOK, dbVars, Taking
<1>4. ASSUME NEW i \in Instance, Crash(i) PROVE Granted(j)'
  BY <1>4 DEF Crash, Ends, Granted, GrantedFrom, TypeOK, InstTypeOK, dbVars, Taking
<1>5. ASSUME NEW i \in Instance, NoticeLockLost(i) PROVE Granted(j)'
  BY <1>5 DEF NoticeLockLost, Granted, GrantedFrom, TypeOK, InstTypeOK, dbVars, Taking
<1>6. ASSUME NEW i \in Instance, SendTake(i) PROVE Granted(j)'
  <2>1. made + 1 \in Id /\ take[made + 1].st = "unused"
    BY <1>6, NextId DEF SendTake, TakesInv
  <2>2. /\ take'[made + 1].st = "sent"
        /\ \A x \in Id : x # made + 1 => take'[x] = take[x]
        /\ UNCHANGED <<clock, rows, expires, held, sent, rsent, answer>>
    BY <1>6, <2>1 DEF SendTake, TypeOK, DbTypeOK
  <2>3. CASE j = i
    BY <1>6, <2>2, <2>3 DEF SendTake, Granted, GrantedFrom, TypeOK, InstTypeOK
  <2>4. CASE j # i
    <3>1. phase[j] \in Taking => cur[j] \in Id /\ cur[j] # made + 1
      BY <2>1, GrantRanges, TypeFacts DEF OwnTake
    <3>2. UNCHANGED <<phase[j], cur[j]>>
      BY <1>6, <2>4 DEF SendTake, TypeOK, InstTypeOK
    <3> QED
      BY <2>2, <3>1, <3>2 DEF Granted, GrantedFrom
  <2> QED
    BY <2>3, <2>4
<1>7. ASSUME NEW i \in Instance, TakeAnswered(i) PROVE Granted(j)'
  BY <1>7 DEF TakeAnswered, Granted, GrantedFrom, TypeOK, InstTypeOK, dbVars, Taking
<1>8. ASSUME NEW i \in Instance, FirstTakeFails(i) PROVE Granted(j)'
  BY <1>8 DEF FirstTakeFails, Ends, Granted, GrantedFrom, TypeOK, InstTypeOK, dbVars, Taking
<1>9. ASSUME NEW i \in Instance, TakeFails(i) PROVE Granted(j)'
  BY <1>9 DEF TakeFails, Granted, GrantedFrom, TypeOK, InstTypeOK, dbVars, Taking
<1>10. ASSUME NEW i \in Instance, SendRenewal(i) PROVE Granted(j)'
  BY <1>10 DEF SendRenewal, Granted, GrantedFrom, TypeOK, InstTypeOK, dbVars, Taking
<1>11. ASSUME NEW i \in Instance, Renewed(i) PROVE Granted(j)'
  BY <1>11 DEF Renewed, Granted, GrantedFrom, TypeOK, InstTypeOK, dbVars, Taking, OwnTake, Holding
<1>12. ASSUME NEW i \in Instance, RenewalFails(i) PROVE Granted(j)'
  BY <1>12 DEF RenewalFails, Granted, GrantedFrom, TypeOK, InstTypeOK, dbVars, Taking
<1>13. ASSUME NEW i \in Instance, TakeOverLapsed(i) PROVE Granted(j)'
  <2>1. ASSUME NEW x \in Id, NEW t \in Nat, GrantedFrom(x, t)
        PROVE  clock' < t + Lapse => x \in rows' /\ t + Lapse <= expires'[x]
    <3>1. clock \in Nat /\ Lapse \in Nat /\ expires[x] \in Nat
      BY TypeFacts DEF TypeOK, DbTypeOK
    <3> QED
      BY <1>13, <2>1, <3>1 DEF TakeOverLapsed, GrantedFrom
  <2>2. /\ UNCHANGED <<cur, held, sent, rsent, answer, take>>
        /\ phase'[j] = phase[j] \/ phase'[j] = "held"
    BY <1>13 DEF TakeOverLapsed, TypeOK, InstTypeOK
  <2> QED
    BY <2>1, <2>2, GrantRanges DEF Granted, GrantedFrom, Taking
<1>14. ASSUME NEW i \in Instance, TakeOverFails(i) PROVE Granted(j)'
  BY <1>14 DEF TakeOverFails, Granted, GrantedFrom, TypeOK, InstTypeOK, dbVars, Taking
<1>15. ASSUME NEW i \in Instance, LeaseLost(i) PROVE Granted(j)'
  BY <1>15 DEF LeaseLost, Granted, GrantedFrom, TypeOK, InstTypeOK, dbVars, Taking
<1>16. ASSUME NEW i \in Instance, CloseChain(i) PROVE Granted(j)'
  BY <1>16 DEF CloseChain, Granted, GrantedFrom, TypeOK, InstTypeOK, dbVars, Taking
<1>17. ASSUME NEW i \in Instance, StopRenewing(i) PROVE Granted(j)'
  BY <1>17 DEF StopRenewing, Granted, GrantedFrom, TypeOK, InstTypeOK, dbVars, Taking, OwnTake,
     Holding, Running
<1>18. ASSUME NEW i \in Instance, Release(i) PROVE Granted(j)'
  <2>1. CASE j = i
    BY <1>18, <2>1 DEF Release, Ends, Granted, Taking, TypeOK, InstTypeOK
  <2>2. CASE j # i
    <3>1. /\ cur[i] \in Id => take[cur[i]].by = i
          /\ UNCHANGED <<clock, expires, take>> /\ rows' = rows \ {cur[i]}
          /\ UNCHANGED <<phase[j], cur[j], held[j], sent[j], rsent[j], answer[j]>>
      BY <1>18, <2>2, TypeFacts DEF Release, Ends, IdsInv, OwnTake, TypeOK, InstTypeOK, DbTypeOK
    <3> QED
      BY <2>2, <3>1, GrantRanges DEF Granted, GrantedFrom
  <2> QED
    BY <2>1, <2>2
<1>19. ASSUME NEW id \in Id, BeginTake(id) PROVE Granted(j)'
  <2>1. /\ take'[id].st # "granted"
        /\ \A x \in Id : x # id => take'[x] = take[x]
        /\ UNCHANGED <<clock, rows, expires, instVars>>
    BY <1>19 DEF BeginTake, Become, TypeOK, DbTypeOK
  <2> QED
    BY <2>1, GrantRanges DEF Granted, GrantedFrom, Taking, instVars
<1>20. ASSUME NEW id \in Id, ExecTake(id) PROVE Granted(j)'
  <2>1. /\ take'[id].st # "granted"
        /\ \A x \in Id : x # id => take'[x] = take[x]
        /\ UNCHANGED <<clock, rows, expires, instVars>>
    BY <1>20 DEF ExecTake, Become, TypeOK, DbTypeOK
  <2> QED
    BY <2>1, GrantRanges DEF Granted, GrantedFrom, Taking, instVars
<1>21. ASSUME NEW id \in Id, CommitTake(id) PROVE Granted(j)'
  <2>1. take[id].st = "ready" /\ take[id].sent <= take[id].now /\ take[id].now <= clock
    BY <1>21 DEF CommitTake, TakesInv, TimesInv, TakeTimes
  <2>2. /\ clock \in Nat /\ Lapse \in Nat /\ take[id].sent \in Nat /\ take[id].now \in Nat
        /\ \A x \in Id : expires[x] \in Nat
    BY TypeFacts DEF TypeOK, DbTypeOK, Take
  <2>3. ASSUME NEW x \in Id, NEW t \in Nat, x # id, take[x].by = j, GrantedFrom(x, t),
               clock < t + Lapse
        PROVE  x \in rows' /\ t + Lapse <= expires'[x]
    <3>1. expires[x] > clock /\ expires[x] > take[id].now /\ expires'[x] = expires[x] /\ x \in rows
      BY <1>21, <2>1, <2>2, <2>3 DEF CommitTake, GrantedFrom, TypeOK, DbTypeOK
    <3>2. x \notin TakenOver(id)
      BY <2>2, <2>3, <3>1 DEF TakenOver, LiveAlone, MustBeAlone
    <3> QED
      BY <1>21, <2>3, <3>1, <3>2 DEF CommitTake, GrantedFrom
  <2>4. id \in rows' /\ take[id].sent + Lapse <= expires'[id]
    BY <1>21, <2>1, <2>2 DEF CommitTake, TypeOK, DbTypeOK
  <2>5. /\ UNCHANGED <<clock, phase, cur, held, sent, rsent, answer>>
        /\ \A x \in Id : x # id => take'[x] = take[x]
        /\ take'[id].sent = take[id].sent
    BY <1>21 DEF CommitTake, Become, instVars, TypeOK, DbTypeOK
  <2>6. held[j] # NoId \/ phase[j] = "renewing" => cur[j] # id
    BY <2>1 DEF OwnTake, Holding
  <2> QED
    BY <2>3, <2>4, <2>5, <2>6, GrantRanges DEF Granted, GrantedFrom
<1>22. ASSUME NEW id \in Id, AbortTake(id) PROVE Granted(j)'
  <2>1. /\ take'[id].st # "granted"
        /\ \A x \in Id : x # id => take'[x] = take[x]
        /\ UNCHANGED <<clock, rows, expires, instVars>>
    BY <1>22 DEF AbortTake, Become, TypeOK, DbTypeOK
  <2> QED
    BY <2>1, GrantRanges DEF Granted, GrantedFrom, Taking, instVars
<1>23. ASSUME NEW r \in renewals, Renew(r) PROVE Granted(j)'
  <2>1. /\ UNCHANGED <<clock, phase, cur, held, sent, rsent, take, rows>>
        /\ clock \in Nat /\ Lapse \in Nat /\ r.id \in Id
    BY <1>23, TypeFacts DEF Renew, TypeOK, DbTypeOK, Renewal
  <2>2. ASSUME NEW x \in Id, NEW t \in Nat, t <= clock, GrantedFrom(x, t), clock < t + Lapse
        PROVE  x \in rows' /\ t + Lapse <= expires'[x]
    BY <1>23, <2>1, <2>2 DEF Renew, GrantedFrom, TypeOK, DbTypeOK
  <2>3. sent[j] <= clock /\ rsent[j] <= clock
    BY DEF TimesInv
  <2>4. phase[j] \in Taking => take[cur[j]].sent <= clock
    BY GrantRanges DEF TimesInv, TakeTimes
  <2>5. CASE answer'[j] = answer[j]
    BY <2>1, <2>2, <2>3, <2>4, <2>5, GrantRanges DEF Granted, GrantedFrom
  <2>6. CASE answer'[j] # answer[j]
    <3>1. \/ answer'[j] # "renewed"
          \/ cur[j] \in rows /\ expires'[cur[j]] = clock + Lapse
      BY <1>23, <2>1, <2>6 DEF Renew, TypeOK, InstTypeOK, DbTypeOK
    <3>2. answer'[j] = "renewed" => cur[j] \in rows' /\ rsent[j] + Lapse <= expires'[cur[j]]
      BY <2>1, <2>3, <3>1, GrantRanges
    <3> QED
      BY <2>1, <2>2, <2>3, <2>4, <3>2, GrantRanges DEF Granted, GrantedFrom
  <2> QED
    BY <2>5, <2>6
<1>24. CASE UNCHANGED vars
  BY <1>24 DEF vars, Granted, GrantedFrom, TypeOK, InstTypeOK, dbVars, Taking, instVars
<1> QED
  BY <1>1, <1>2, <1>3, <1>4, <1>5, <1>6, <1>7, <1>8, <1>9, <1>10, <1>11, <1>12,
     <1>13, <1>14, <1>15, <1>16, <1>17, <1>18, <1>19, <1>20, <1>21, <1>22, <1>23, <1>24 DEF Next

(* The instance a take was sent by does not change once it is sent.          *)
LEMMA SameOwner ==
  ASSUME TypeOK, TakesInv, [Next]_vars, NEW t \in Id, t \in rows \/ txn = t
  PROVE  take'[t].by = take[t].by
<1>1. CASE take' = take
  BY <1>1
<1>2. ASSUME NEW i \in Instance, SendTake(i) PROVE take'[t].by = take[t].by
  <2>1. t # made + 1
    BY <1>2, NextId DEF SendTake, TakesInv
  <2> QED
    BY <1>2, <2>1 DEF SendTake, TypeOK, DbTypeOK
<1>3. ASSUME NEW id \in Id, BeginTake(id) \/ ExecTake(id) \/ CommitTake(id) \/ AbortTake(id)
      PROVE  take'[t].by = take[t].by
  BY <1>3 DEF BeginTake, ExecTake, CommitTake, AbortTake, Become, TypeOK, DbTypeOK
<1> QED
  BY <1>1, <1>2, <1>3 DEF Next, Tick, LockSessionEnds, Start, Crash, FirstTakeFails, Release, Ends,
     NoticeLockLost, TakeAnswered, TakeFails, SendRenewal, Renewed, RenewalFails, TakeOverLapsed,
     TakeOverFails, LeaseLost, CloseChain, StopRenewing, Renew, vars, dbVars

(* A shared take in its commit keeps the exclusive lock from being taken.   *)
LEMMA TxnLockStep ==
  ASSUME TypeOK, TakesInv, AloneInv, [Next]_vars
  PROVE  (txn # NoId /\ ~MustBeAlone(txn) => lock = Nobody)'
<1>1. CASE Tick
  BY <1>1 DEF Tick, AloneInv, MustBeAlone, dbVars
<1>2. CASE LockSessionEnds
  BY <1>2 DEF LockSessionEnds, AloneInv, MustBeAlone, dbVars
<1>3. ASSUME NEW i \in Instance, Start(i) PROVE (txn # NoId /\ ~MustBeAlone(txn) => lock = Nobody)'
  BY <1>3 DEF Start, AloneInv, MustBeAlone, dbVars
<1>4. ASSUME NEW i \in Instance, Crash(i) PROVE (txn # NoId /\ ~MustBeAlone(txn) => lock = Nobody)'
  BY <1>4 DEF Crash, Ends, AloneInv, MustBeAlone, dbVars
<1>5. ASSUME NEW i \in Instance, NoticeLockLost(i) PROVE (txn # NoId /\ ~MustBeAlone(txn) => lock = Nobody)'
  BY <1>5 DEF NoticeLockLost, AloneInv, MustBeAlone, dbVars
<1>6. ASSUME NEW i \in Instance, SendTake(i) PROVE (txn # NoId /\ ~MustBeAlone(txn) => lock = Nobody)'
  <2>1. txn # NoId => txn \in Id /\ take'[txn].by = take[txn].by
    BY SameOwner DEF TypeOK, DbTypeOK
  <2> QED
    BY <1>6, <2>1 DEF SendTake, AloneInv, MustBeAlone
<1>7. ASSUME NEW i \in Instance, TakeAnswered(i) PROVE (txn # NoId /\ ~MustBeAlone(txn) => lock = Nobody)'
  BY <1>7 DEF TakeAnswered, AloneInv, MustBeAlone, dbVars
<1>8. ASSUME NEW i \in Instance, FirstTakeFails(i) PROVE (txn # NoId /\ ~MustBeAlone(txn) => lock = Nobody)'
  BY <1>8 DEF FirstTakeFails, Ends, AloneInv, MustBeAlone, dbVars
<1>9. ASSUME NEW i \in Instance, TakeFails(i) PROVE (txn # NoId /\ ~MustBeAlone(txn) => lock = Nobody)'
  BY <1>9 DEF TakeFails, AloneInv, MustBeAlone, dbVars
<1>10. ASSUME NEW i \in Instance, SendRenewal(i) PROVE (txn # NoId /\ ~MustBeAlone(txn) => lock = Nobody)'
  BY <1>10 DEF SendRenewal, AloneInv, MustBeAlone, dbVars
<1>11. ASSUME NEW i \in Instance, Renewed(i) PROVE (txn # NoId /\ ~MustBeAlone(txn) => lock = Nobody)'
  BY <1>11 DEF Renewed, AloneInv, MustBeAlone, dbVars
<1>12. ASSUME NEW i \in Instance, RenewalFails(i) PROVE (txn # NoId /\ ~MustBeAlone(txn) => lock = Nobody)'
  BY <1>12 DEF RenewalFails, AloneInv, MustBeAlone, dbVars
<1>13. ASSUME NEW i \in Instance, TakeOverLapsed(i) PROVE (txn # NoId /\ ~MustBeAlone(txn) => lock = Nobody)'
  BY <1>13 DEF TakeOverLapsed, AloneInv, MustBeAlone, dbVars
<1>14. ASSUME NEW i \in Instance, TakeOverFails(i) PROVE (txn # NoId /\ ~MustBeAlone(txn) => lock = Nobody)'
  BY <1>14 DEF TakeOverFails, AloneInv, MustBeAlone, dbVars
<1>15. ASSUME NEW i \in Instance, LeaseLost(i) PROVE (txn # NoId /\ ~MustBeAlone(txn) => lock = Nobody)'
  BY <1>15 DEF LeaseLost, AloneInv, MustBeAlone, dbVars
<1>16. ASSUME NEW i \in Instance, CloseChain(i) PROVE (txn # NoId /\ ~MustBeAlone(txn) => lock = Nobody)'
  BY <1>16 DEF CloseChain, AloneInv, MustBeAlone, dbVars
<1>17. ASSUME NEW i \in Instance, StopRenewing(i) PROVE (txn # NoId /\ ~MustBeAlone(txn) => lock = Nobody)'
  BY <1>17 DEF StopRenewing, AloneInv, MustBeAlone, dbVars
<1>18. ASSUME NEW i \in Instance, Release(i) PROVE (txn # NoId /\ ~MustBeAlone(txn) => lock = Nobody)'
  BY <1>18 DEF Release, Ends, AloneInv, MustBeAlone, dbVars
<1>19. ASSUME NEW id \in Id, BeginTake(id) PROVE (txn # NoId /\ ~MustBeAlone(txn) => lock = Nobody)'
  <2>1. txn # NoId => txn \in Id /\ take'[txn].by = take[txn].by
    BY SameOwner DEF TypeOK, DbTypeOK
  <2> QED
    BY <1>19, <2>1 DEF BeginTake, AloneInv, MustBeAlone
<1>20. ASSUME NEW id \in Id, ExecTake(id) PROVE (txn # NoId /\ ~MustBeAlone(txn) => lock = Nobody)'
  <2>1. CASE txn' = NoId
    BY <2>1
  <2>2. CASE txn' # NoId
    <3>1. txn' = id /\ ~Refused(id) /\ lock' = lock /\ take'[id].by = take[id].by
      BY <1>20, <2>2 DEF ExecTake, Become, TypeOK, DbTypeOK
    <3> QED
      BY <3>1 DEF Refused, MustBeAlone
  <2> QED
    BY <2>1, <2>2
<1>21. ASSUME NEW id \in Id, CommitTake(id) PROVE (txn # NoId /\ ~MustBeAlone(txn) => lock = Nobody)'
  BY <1>21 DEF CommitTake, AloneInv, MustBeAlone, dbVars
<1>22. ASSUME NEW id \in Id, AbortTake(id) PROVE (txn # NoId /\ ~MustBeAlone(txn) => lock = Nobody)'
  BY <1>22 DEF AbortTake, AloneInv, MustBeAlone, dbVars
<1>23. ASSUME NEW r \in renewals, Renew(r) PROVE (txn # NoId /\ ~MustBeAlone(txn) => lock = Nobody)'
  BY <1>23 DEF Renew, AloneInv, MustBeAlone, dbVars
<1>24. CASE UNCHANGED vars
  BY <1>24 DEF vars, AloneInv, MustBeAlone, dbVars
<1> QED
  BY <1>1, <1>2, <1>3, <1>4, <1>5, <1>6, <1>7, <1>8, <1>9, <1>10, <1>11, <1>12,
     <1>13, <1>14, <1>15, <1>16, <1>17, <1>18, <1>19, <1>20, <1>21, <1>22, <1>23, <1>24 DEF Next

(* While an alone instance keeps its lock, no shared lease comes or stays live. *)
LEMMA NoSharedStep ==
  ASSUME TypeOK, TakesInv, TimesInv, AloneInv,
         NEW k \in Alone, k \in Instance, OwnTake(k), lock' = k, [Next]_vars
  PROVE  NoSharedLeft(k)'
<1>1. CASE Tick
  <2>1. lock = k /\ NoSharedLeft(k) /\ rows' \subseteq rows
    BY <1>1, TypeFacts DEF Tick, AloneInv, dbVars
  <2>2. \A x \in rows : MustBeAlone(x)' = MustBeAlone(x)
    BY SameOwner DEF MustBeAlone, TypeOK, DbTypeOK
  <2> QED
    BY <1>1, <2>1, <2>2 DEF Tick, NoSharedLeft, OwnTake, Holding, Taking, TypeOK, InstTypeOK, dbVars, instVars
<1>2. CASE LockSessionEnds
  BY <1>2, TypeFacts DEF LockSessionEnds
<1>3. ASSUME NEW i \in Instance, Start(i) PROVE NoSharedLeft(k)'
  <2>1. CASE k = i
    BY <1>3, <2>1 DEF Start, NoSharedLeft, OwnTake, Holding, Taking, TypeOK, InstTypeOK
  <2>2. CASE k # i
    <3>1. lock = k /\ NoSharedLeft(k) /\ UNCHANGED <<rows, take, cur, held, expires, phase[k]>>
      BY <1>3, <2>2, TypeFacts DEF Start, AloneInv, TypeOK, InstTypeOK
    <3> QED
      BY <3>1 DEF NoSharedLeft, MustBeAlone
  <2> QED
    BY <2>1, <2>2
<1>4. ASSUME NEW i \in Instance, Crash(i) PROVE NoSharedLeft(k)'
  <2>1. lock = k /\ NoSharedLeft(k) /\ rows' \subseteq rows
    BY <1>4, TypeFacts DEF Crash, Ends, AloneInv, dbVars
  <2>2. \A x \in rows : MustBeAlone(x)' = MustBeAlone(x)
    BY SameOwner DEF MustBeAlone, TypeOK, DbTypeOK
  <2> QED
    BY <1>4, <2>1, <2>2 DEF Crash, Ends, NoSharedLeft, OwnTake, Holding, Taking, TypeOK, InstTypeOK, dbVars, instVars
<1>5. ASSUME NEW i \in Instance, NoticeLockLost(i) PROVE NoSharedLeft(k)'
  <2>1. lock = k /\ NoSharedLeft(k) /\ rows' \subseteq rows
    BY <1>5, TypeFacts DEF NoticeLockLost, AloneInv, dbVars
  <2>2. \A x \in rows : MustBeAlone(x)' = MustBeAlone(x)
    BY SameOwner DEF MustBeAlone, TypeOK, DbTypeOK
  <2> QED
    BY <1>5, <2>1, <2>2 DEF NoticeLockLost, NoSharedLeft, OwnTake, Holding, Taking, TypeOK, InstTypeOK, dbVars, instVars
<1>6. ASSUME NEW i \in Instance, SendTake(i) PROVE NoSharedLeft(k)'
  <2>1. lock = k /\ NoSharedLeft(k) /\ UNCHANGED <<rows, expires, held>>
    BY <1>6, TypeFacts DEF SendTake, AloneInv
  <2>2. \A x \in rows : MustBeAlone(x)' = MustBeAlone(x)
    BY SameOwner DEF MustBeAlone, TypeOK, DbTypeOK
  <2>3. made + 1 \in Id /\ take[made + 1].st = "unused" /\ take'[made + 1].st = "sent"
    BY <1>6, NextId DEF SendTake, TakesInv, TypeOK, DbTypeOK
  <2>4. CASE k = i
    BY <1>6, <2>1, <2>2, <2>3, <2>4 DEF SendTake, NoSharedLeft, TypeOK, InstTypeOK
  <2>5. CASE k # i
    <3>1. UNCHANGED <<phase[k], cur[k]>>
      BY <1>6, <2>5 DEF SendTake, TypeOK, InstTypeOK
    <3>2. phase[k] \in Taking => take'[cur[k]] = take[cur[k]]
      BY <1>6, <2>3, WorksOnId DEF SendTake, OwnTake, TypeOK, DbTypeOK
    <3> QED
      BY <2>1, <2>2, <3>1, <3>2 DEF NoSharedLeft
  <2> QED
    BY <2>4, <2>5
<1>7. ASSUME NEW i \in Instance, TakeAnswered(i) PROVE NoSharedLeft(k)'
  <2>1. lock = k /\ NoSharedLeft(k) /\ rows' \subseteq rows
    BY <1>7, TypeFacts DEF TakeAnswered, AloneInv, dbVars
  <2>2. \A x \in rows : MustBeAlone(x)' = MustBeAlone(x)
    BY SameOwner DEF MustBeAlone, TypeOK, DbTypeOK
  <2> QED
    BY <1>7, <2>1, <2>2 DEF TakeAnswered, NoSharedLeft, OwnTake, Holding, Taking, TypeOK, InstTypeOK, dbVars, instVars
<1>8. ASSUME NEW i \in Instance, FirstTakeFails(i) PROVE NoSharedLeft(k)'
  <2>1. lock = k /\ NoSharedLeft(k) /\ rows' \subseteq rows
    BY <1>8, TypeFacts DEF FirstTakeFails, Ends, AloneInv, dbVars
  <2>2. \A x \in rows : MustBeAlone(x)' = MustBeAlone(x)
    BY SameOwner DEF MustBeAlone, TypeOK, DbTypeOK
  <2> QED
    BY <1>8, <2>1, <2>2 DEF FirstTakeFails, Ends, NoSharedLeft, OwnTake, Holding, Taking, TypeOK, InstTypeOK, dbVars, instVars
<1>9. ASSUME NEW i \in Instance, TakeFails(i) PROVE NoSharedLeft(k)'
  <2>1. lock = k /\ NoSharedLeft(k) /\ rows' \subseteq rows
    BY <1>9, TypeFacts DEF TakeFails, AloneInv, dbVars
  <2>2. \A x \in rows : MustBeAlone(x)' = MustBeAlone(x)
    BY SameOwner DEF MustBeAlone, TypeOK, DbTypeOK
  <2> QED
    BY <1>9, <2>1, <2>2 DEF TakeFails, NoSharedLeft, OwnTake, Holding, Taking, TypeOK, InstTypeOK, dbVars, instVars
<1>10. ASSUME NEW i \in Instance, SendRenewal(i) PROVE NoSharedLeft(k)'
  <2>1. lock = k /\ NoSharedLeft(k) /\ rows' \subseteq rows
    BY <1>10, TypeFacts DEF SendRenewal, AloneInv, dbVars
  <2>2. \A x \in rows : MustBeAlone(x)' = MustBeAlone(x)
    BY SameOwner DEF MustBeAlone, TypeOK, DbTypeOK
  <2> QED
    BY <1>10, <2>1, <2>2 DEF SendRenewal, NoSharedLeft, OwnTake, Holding, Taking, TypeOK, InstTypeOK, dbVars, instVars
<1>11. ASSUME NEW i \in Instance, Renewed(i) PROVE NoSharedLeft(k)'
  <2>1. lock = k /\ NoSharedLeft(k) /\ rows' \subseteq rows
    BY <1>11, TypeFacts DEF Renewed, AloneInv, dbVars
  <2>2. \A x \in rows : MustBeAlone(x)' = MustBeAlone(x)
    BY SameOwner DEF MustBeAlone, TypeOK, DbTypeOK
  <2> QED
    BY <1>11, <2>1, <2>2 DEF Renewed, NoSharedLeft, OwnTake, Holding, Taking, TypeOK, InstTypeOK, dbVars, instVars
<1>12. ASSUME NEW i \in Instance, RenewalFails(i) PROVE NoSharedLeft(k)'
  <2>1. lock = k /\ NoSharedLeft(k) /\ rows' \subseteq rows
    BY <1>12, TypeFacts DEF RenewalFails, AloneInv, dbVars
  <2>2. \A x \in rows : MustBeAlone(x)' = MustBeAlone(x)
    BY SameOwner DEF MustBeAlone, TypeOK, DbTypeOK
  <2> QED
    BY <1>12, <2>1, <2>2 DEF RenewalFails, NoSharedLeft, OwnTake, Holding, Taking, TypeOK, InstTypeOK, dbVars, instVars
<1>13. ASSUME NEW i \in Instance, TakeOverLapsed(i) PROVE NoSharedLeft(k)'
  <2>1. lock = k /\ NoSharedLeft(k) /\ rows' \subseteq rows
    BY <1>13, TypeFacts DEF TakeOverLapsed, AloneInv, dbVars
  <2>2. \A x \in rows : MustBeAlone(x)' = MustBeAlone(x)
    BY SameOwner DEF MustBeAlone, TypeOK, DbTypeOK
  <2> QED
    BY <1>13, <2>1, <2>2 DEF TakeOverLapsed, NoSharedLeft, OwnTake, Holding, Taking, TypeOK, InstTypeOK, dbVars, instVars
<1>14. ASSUME NEW i \in Instance, TakeOverFails(i) PROVE NoSharedLeft(k)'
  <2>1. lock = k /\ NoSharedLeft(k) /\ rows' \subseteq rows
    BY <1>14, TypeFacts DEF TakeOverFails, AloneInv, dbVars
  <2>2. \A x \in rows : MustBeAlone(x)' = MustBeAlone(x)
    BY SameOwner DEF MustBeAlone, TypeOK, DbTypeOK
  <2> QED
    BY <1>14, <2>1, <2>2 DEF TakeOverFails, NoSharedLeft, OwnTake, Holding, Taking, TypeOK, InstTypeOK, dbVars, instVars
<1>15. ASSUME NEW i \in Instance, LeaseLost(i) PROVE NoSharedLeft(k)'
  <2>1. lock = k /\ NoSharedLeft(k) /\ rows' \subseteq rows
    BY <1>15, TypeFacts DEF LeaseLost, AloneInv, dbVars
  <2>2. \A x \in rows : MustBeAlone(x)' = MustBeAlone(x)
    BY SameOwner DEF MustBeAlone, TypeOK, DbTypeOK
  <2> QED
    BY <1>15, <2>1, <2>2 DEF LeaseLost, NoSharedLeft, OwnTake, Holding, Taking, TypeOK, InstTypeOK, dbVars, instVars
<1>16. ASSUME NEW i \in Instance, CloseChain(i) PROVE NoSharedLeft(k)'
  <2>1. lock = k /\ NoSharedLeft(k) /\ rows' \subseteq rows
    BY <1>16, TypeFacts DEF CloseChain, AloneInv, dbVars
  <2>2. \A x \in rows : MustBeAlone(x)' = MustBeAlone(x)
    BY SameOwner DEF MustBeAlone, TypeOK, DbTypeOK
  <2> QED
    BY <1>16, <2>1, <2>2 DEF CloseChain, NoSharedLeft, OwnTake, Holding, Taking, TypeOK, InstTypeOK, dbVars, instVars
<1>17. ASSUME NEW i \in Instance, StopRenewing(i) PROVE NoSharedLeft(k)'
  <2>1. lock = k /\ NoSharedLeft(k) /\ rows' \subseteq rows
    BY <1>17, TypeFacts DEF StopRenewing, AloneInv, dbVars
  <2>2. \A x \in rows : MustBeAlone(x)' = MustBeAlone(x)
    BY SameOwner DEF MustBeAlone, TypeOK, DbTypeOK
  <2> QED
    BY <1>17, <2>1, <2>2 DEF StopRenewing, NoSharedLeft, OwnTake, Holding, Taking, TypeOK, InstTypeOK, dbVars, instVars
<1>18. ASSUME NEW i \in Instance, Release(i) PROVE NoSharedLeft(k)'
  <2>1. lock = k /\ NoSharedLeft(k) /\ rows' \subseteq rows
    BY <1>18, TypeFacts DEF Release, Ends, AloneInv, dbVars
  <2>2. \A x \in rows : MustBeAlone(x)' = MustBeAlone(x)
    BY SameOwner DEF MustBeAlone, TypeOK, DbTypeOK
  <2> QED
    BY <1>18, <2>1, <2>2 DEF Release, Ends, NoSharedLeft, OwnTake, Holding, Taking, TypeOK, InstTypeOK, dbVars, instVars
<1>19. ASSUME NEW id \in Id, BeginTake(id) PROVE NoSharedLeft(k)'
  <2>1. lock = k /\ NoSharedLeft(k) /\ UNCHANGED <<rows, expires, instVars>>
    BY <1>19, TypeFacts DEF BeginTake, AloneInv
  <2>2. \A x \in rows : MustBeAlone(x)' = MustBeAlone(x)
    BY SameOwner DEF MustBeAlone, TypeOK, DbTypeOK
  <2>3. /\ take'[id].st \notin {"granted", "ready"}
        /\ \A x \in Id : x # id => take'[x] = take[x]
    BY <1>19 DEF BeginTake, Become, TypeOK, DbTypeOK
  <2> QED
    BY <2>1, <2>2, <2>3, WorksOnId DEF NoSharedLeft, instVars
<1>20. ASSUME NEW id \in Id, ExecTake(id) PROVE NoSharedLeft(k)'
  <2>1. lock = k /\ NoSharedLeft(k) /\ UNCHANGED <<rows, expires, phase, cur, held>>
    BY <1>20, TypeFacts DEF ExecTake, AloneInv, instVars
  <2>2. \A x \in rows : MustBeAlone(x)' = MustBeAlone(x)
    BY SameOwner DEF MustBeAlone, TypeOK, DbTypeOK
  <2>3. \A x \in Id : x # id => take'[x] = take[x]
    BY <1>20 DEF ExecTake, TypeOK, DbTypeOK
  <2>4. CASE phase[k] \in Taking /\ cur[k] = id
    <3>1. take'[id].st # "granted" /\ held[k] = NoId
      <4>1. take'[id].st # "granted"
        BY <1>20 DEF ExecTake, Become, TypeOK, DbTypeOK
      <4>2. held[k] = NoId
        BY <2>4 DEF OwnTake, Holding, Taking
      <4> QED
        BY <4>1, <4>2
    <3>2. ASSUME take'[id].st = "ready", NEW x \in rows
          PROVE  MustBeAlone(x) \/ expires[x] <= take'[id].now
      <4>1. ~Refused(id) /\ take'[id].now = take[id].now /\ MustBeAlone(id)
        BY <1>20, <2>4, <3>2, TypeFacts DEF ExecTake, Become, OwnTake, MustBeAlone, TypeOK, DbTypeOK
      <4>2. expires[x] \in Nat /\ take[id].now \in Nat /\ x \notin LiveShared(id)
        BY <4>1, TypeFacts DEF Refused, TypeOK, DbTypeOK, Take
      <4> QED
        BY <4>1, <4>2 DEF LiveShared
    <3> QED
      BY <2>1, <2>2, <2>4, <3>1, <3>2 DEF NoSharedLeft
  <2>5. CASE ~(phase[k] \in Taking /\ cur[k] = id)
    BY <2>1, <2>2, <2>3, <2>5, WorksOnId DEF NoSharedLeft
  <2> QED
    BY <2>4, <2>5
<1>21. ASSUME NEW id \in Id, CommitTake(id) PROVE NoSharedLeft(k)'
  <2>1. lock = k /\ NoSharedLeft(k) /\ txn = id /\ UNCHANGED <<phase, cur, held>>
    BY <1>21, TypeFacts DEF CommitTake, AloneInv, instVars
  <2>2. \A x \in rows \cup {id} : MustBeAlone(x)' = MustBeAlone(x)
    BY <2>1, SameOwner DEF MustBeAlone, TypeOK, DbTypeOK
  <2>3. MustBeAlone(id) /\ take[id].st = "ready"
    BY <2>1, TypeFacts DEF AloneInv, TakesInv
  <2>4. rows' = (rows \ TakenOver(id)) \cup {id}
    BY <1>21 DEF CommitTake
  <2>5. \A x \in Id : x # id => take'[x] = take[x] /\ take[x].st # "ready"
    BY <1>21, <2>1 DEF CommitTake, TakesInv, TypeOK, DbTypeOK
  <2>6. CASE phase[k] \in Taking /\ cur[k] = id
    <3>1. \A x \in rows : MustBeAlone(x) \/ x \in TakenOver(id)
      BY <2>1, <2>3, <2>6 DEF NoSharedLeft, TakenOver
    <3>2. take'[id].st = "granted"
      BY <1>21 DEF CommitTake, Become, TypeOK, DbTypeOK
    <3> QED
      BY <2>1, <2>2, <2>3, <2>4, <2>6, <3>1, <3>2 DEF NoSharedLeft
  <2>7. CASE ~(phase[k] \in Taking /\ cur[k] = id)
    BY <2>1, <2>2, <2>3, <2>4, <2>5, <2>7, WorksOnId DEF NoSharedLeft
  <2> QED
    BY <2>6, <2>7
<1>22. ASSUME NEW id \in Id, AbortTake(id) PROVE NoSharedLeft(k)'
  <2>1. lock = k /\ NoSharedLeft(k) /\ UNCHANGED <<rows, expires, instVars>>
    BY <1>22, TypeFacts DEF AbortTake, AloneInv
  <2>2. \A x \in rows : MustBeAlone(x)' = MustBeAlone(x)
    BY SameOwner DEF MustBeAlone, TypeOK, DbTypeOK
  <2>3. /\ take'[id].st \notin {"granted", "ready"}
        /\ \A x \in Id : x # id => take'[x] = take[x]
    BY <1>22 DEF AbortTake, Become, TypeOK, DbTypeOK
  <2> QED
    BY <2>1, <2>2, <2>3, WorksOnId DEF NoSharedLeft, instVars
<1>23. ASSUME NEW r \in renewals, Renew(r) PROVE NoSharedLeft(k)'
  <2>1. /\ lock = k /\ NoSharedLeft(k) /\ UNCHANGED <<rows, take, phase, cur, held>>
        /\ clock \in Nat /\ r.id \in Id
    BY <1>23, TypeFacts DEF Renew, AloneInv, TypeOK, DbTypeOK, Renewal
  <2>2. phase[k] \in Taking => /\ take[cur[k]].now <= clock /\ take[cur[k]].now \in Nat
    BY WorksOnId, TypeFacts DEF TimesInv, TakeTimes, Take
  <2>3. ASSUME NEW x \in rows, phase[k] \in Taking, expires[x] <= take[cur[k]].now
        PROVE  expires'[x] = expires[x]
    BY <1>23, <2>1, <2>2, <2>3 DEF Renew, TypeOK, DbTypeOK
  <2> QED
    BY <2>1, <2>3 DEF NoSharedLeft, MustBeAlone
<1>24. CASE UNCHANGED vars
  <2>1. lock = k /\ NoSharedLeft(k) /\ rows' \subseteq rows
    BY <1>24, TypeFacts DEF vars, AloneInv, dbVars
  <2>2. \A x \in rows : MustBeAlone(x)' = MustBeAlone(x)
    BY SameOwner DEF MustBeAlone, TypeOK, DbTypeOK
  <2> QED
    BY <1>24, <2>1, <2>2 DEF vars, NoSharedLeft, OwnTake, Holding, Taking, TypeOK, InstTypeOK, dbVars, instVars
<1> QED
  BY <1>1, <1>2, <1>3, <1>4, <1>5, <1>6, <1>7, <1>8, <1>9, <1>10, <1>11, <1>12,
     <1>13, <1>14, <1>15, <1>16, <1>17, <1>18, <1>19, <1>20, <1>21, <1>22, <1>23, <1>24 DEF Next

(* No step leaves a lease without an audit chain.                           *)
LEMMA ChainStep ==
  ASSUME TypeOK, ChainInv, [Next]_vars
  PROVE  ChainInv'
<1>1. ASSUME chain' = chain, rows' \subseteq rows PROVE ChainInv'
  BY <1>1 DEF ChainInv
<1>2. ASSUME NEW i \in Instance, TakeOverLapsed(i) PROVE ChainInv'
  BY <1>2 DEF TakeOverLapsed, CloseChains, ChainInv, TypeOK, DbTypeOK
<1>3. ASSUME NEW i \in Instance, CloseChain(i) PROVE ChainInv'
  BY <1>3 DEF CloseChain, ChainInv, TypeOK, DbTypeOK
<1>4. ASSUME NEW id \in Id, CommitTake(id) PROVE ChainInv'
  <2>1. /\ rows' \subseteq rows \cup {id} /\ chain'[id] = "open"
        /\ \A x \in Id \ {id} : chain'[x] = CloseChains(TakenOver(id))[x]
    BY <1>4 DEF CommitTake, CloseChains
  <2> QED
    BY <2>1 DEF CloseChains, ChainInv, TypeOK, DbTypeOK
<1> QED
  BY <1>1, <1>2, <1>3, <1>4 DEF Next, vars, dbVars, instVars, Tick, LockSessionEnds,
     Start, Crash, Ends, NoticeLockLost, SendTake, TakeAnswered, FirstTakeFails,
     TakeFails, SendRenewal, Renewed, RenewalFails, TakeOverFails, LeaseLost,
     StopRenewing, Release, BeginTake, ExecTake, AbortTake, Renew

(* The invariant holds before the first process starts.                     *)
LEMMA InitInv == Init => LeaseInv
<1> SUFFICES ASSUME Init PROVE LeaseInv
  OBVIOUS
<1>1. TypeOK
  <2>1. NoTake \in Take
    BY TypeFacts DEF NoTake, Take, TakeSt
  <2>2. DbTypeOK
    BY <2>1, TypeFacts DEF Init, DbTypeOK
  <2>3. InstTypeOK
    BY TypeFacts DEF Init, InstTypeOK, Phase
  <2> QED
    BY <2>2, <2>3 DEF TypeOK
<1>2. IdsInv
  BY TypeFacts DEF Init, IdsInv, TakesInv, OwnTake, NoTake, Holding, Taking
<1>3. TimesInv
  BY DEF Init, TimesInv, TakeTimes, NoTake
<1>4. GrantInv
  BY DEF Init, GrantInv, Granted, Taking
<1>5. AloneInv
  BY DEF Init, AloneInv
<1>6. ChainInv
  BY DEF Init, ChainInv
<1> QED
  BY <1>1, <1>2, <1>3, <1>4, <1>5, <1>6 DEF LeaseInv

(* Every step keeps the invariant.                                          *)
LEMMA InvStep == LeaseInv /\ [Next]_vars => LeaseInv'
<1> SUFFICES ASSUME LeaseInv, [Next]_vars PROVE LeaseInv'
  OBVIOUS
<1>0. /\ TypeOK /\ IdsInv /\ TakesInv /\ TimesInv /\ GrantInv /\ AloneInv
      /\ ChainInv /\ \A i \in Instance : OwnTake(i)
  BY DEF LeaseInv, IdsInv
<1>1. TypeOK'
  BY <1>0, DbTypeStep, InstTypeStep DEF TypeOK
<1>2. IdsInv'
  <2>1. ASSUME NEW j \in Instance PROVE OwnTake(j)'
    BY <1>0, OwnTakeStep
  <2>2. TakesInv'
    BY <1>0, TakesStep
  <2> QED
    BY <2>1, <2>2 DEF IdsInv
<1>3. TimesInv'
  <2>1. ASSUME NEW t \in Id PROVE TakeTimes(t)'
    BY <1>0, TakeTimesStep DEF TimesInv
  <2>2. ASSUME NEW j \in Instance PROVE (sent[j] <= clock /\ rsent[j] <= clock)'
    BY <1>0, InstTimesStep DEF TimesInv
  <2> QED
    BY <2>1, <2>2 DEF TimesInv
<1>4. GrantInv'
  <2>1. ASSUME NEW j \in Instance \ Alone PROVE Granted(j)'
    BY <1>0, GrantStep DEF GrantInv
  <2> QED
    BY <2>1 DEF GrantInv
<1>5. AloneInv'
  <2>1. (txn # NoId /\ ~MustBeAlone(txn) => lock = Nobody)'
    BY <1>0, TxnLockStep
  <2>2. ASSUME lock' # Nobody PROVE NoSharedLeft(lock)'
    <3>1. lock' \in Alone /\ lock' \in Instance
      BY <1>1, <2>2, TypeFacts DEF TypeOK, DbTypeOK
    <3>2. PICK k \in Alone : k = lock' /\ k \in Instance
      BY <3>1
    <3>3. NoSharedLeft(k)'
      BY <1>0, <3>2, NoSharedStep
    <3> QED
      BY <3>2, <3>3 DEF NoSharedLeft, MustBeAlone
  <2> QED
    BY <2>1, <2>2 DEF AloneInv
<1>6. ChainInv'
  BY <1>0, ChainStep
<1> QED
  BY <1>1, <1>2, <1>3, <1>4, <1>5, <1>6 DEF LeaseInv

(* Every state of the lease protocol satisfies the inductive invariant: the
   types, whose take an id is, that requests precede the database's time of
   them, what the database grants, and what an alone instance excludes.      *)
THEOREM LeaseInvariant == Spec => []LeaseInv
<1> QED
  BY InitInv, InvStep, PTL DEF Spec

(* Type correctness of the lease protocol, the rows, takes and renewals of
   postgres/lease.rs and the thread renew of instance.rs.                    *)
THEOREM LeaseTyping == Spec => []TypeOK
<1>1. LeaseInv => TypeOK
  BY DEF LeaseInv
<1> QED
  BY <1>1, LeaseInvariant, PTL

(* An instance that shares the database never deems a lease held that the
   database counts as lapsed or has given away (renew of instance.rs against
   the take, the renewal and the takeover of postgres/lease.rs).             *)
THEOREM LeaseSafe == Spec => []LeaseProvable
<1>1. LeaseInv => LeaseProvable
  <2> SUFFICES ASSUME LeaseInv, NEW i \in Instance \ Alone, Provable(i)
               PROVE  held[i] \in rows /\ clock < expires[held[i]]
    BY DEF LeaseProvable
  <2>1. held[i] # NoId /\ clock < sent[i] + Lapse
    BY DEF Provable, Deadline
  <2>2. held[i] \in rows /\ sent[i] + Lapse <= expires[held[i]]
    BY <2>1 DEF LeaseInv, GrantInv, Granted, GrantedFrom
  <2>3. clock \in Nat /\ sent[i] + Lapse \in Nat /\ expires[held[i]] \in Nat
    BY <2>1, TypeFacts DEF LeaseInv, TypeOK, DbTypeOK, InstTypeOK
  <2> QED
    BY <2>1, <2>2, <2>3
<1> QED
  BY <1>1, LeaseInvariant, PTL

(* While an instance that must be alone has its lock and a lease it can prove,
   no instance that shares the database can prove one (the match on Exclusive
   in take_lease_within).                                                    *)
THEOREM LeaseExclusive == Spec => []AloneIsAlone
<1>1. LeaseInv => AloneIsAlone
  <2> SUFFICES ASSUME LeaseInv, NEW i \in Alone, NEW k \in Instance \ Alone,
                      lock = i, Provable(i), Provable(k)
               PROVE  FALSE
    BY DEF AloneIsAlone
  <2>1. \A r \in rows : MustBeAlone(r)
    <3>1. lock # Nobody /\ held[i] # NoId
      BY TypeFacts DEF Provable
    <3> QED
      BY <3>1 DEF LeaseInv, AloneInv, NoSharedLeft
  <2>2. held[k] # NoId /\ held[k] \in rows
    BY DEF Provable, Deadline, LeaseInv, GrantInv, Granted, GrantedFrom
  <2>3. take[held[k]].by = k
    BY <2>2 DEF LeaseInv, IdsInv, OwnTake
  <2> QED
    BY <2>1, <2>2, <2>3 DEF MustBeAlone
<1> QED
  BY <1>1, LeaseInvariant, PTL

(* Whoever removes the lease of another closes its audit chain in the same
   transaction (take_lease_within and take_over_lapsed with close_lapsed).   *)
THEOREM TakeoverSafe == Spec => TakeoverClosesChain
<1> DEFINE Closes == \A id \in rows \ rows' :
                       \/ chain'[id] = "closed"
                       \/ \E i \in Instance : phase[i] = "releasing" /\ cur[i] = id
<1>1. LeaseInv /\ [Next]_vars => [Closes]_vars
  <2> SUFFICES ASSUME LeaseInv, Next PROVE Closes
    OBVIOUS
  <2>0. TypeOK /\ ChainInv
    BY DEF LeaseInv
  <2>1. ASSUME rows' = rows PROVE Closes
    BY <2>1
  <2>2. ASSUME NEW i \in Instance, TakeOverLapsed(i) PROVE Closes
    BY <2>0, <2>2 DEF TakeOverLapsed, CloseChains, ChainInv, TypeOK, DbTypeOK
  <2>3. ASSUME NEW i \in Instance, Release(i) PROVE Closes
    BY <2>3 DEF Release
  <2>4. ASSUME NEW id \in Id, CommitTake(id) PROVE Closes
    <3>1. /\ rows \ rows' \subseteq TakenOver(id) \ {id} /\ TakenOver(id) \subseteq rows
          /\ \A x \in Id \ {id} : chain'[x] = CloseChains(TakenOver(id))[x]
      BY <2>4 DEF CommitTake, CloseChains, TakenOver, LiveAlone
    <3> QED
      BY <2>0, <3>1 DEF CloseChains, ChainInv, TypeOK, DbTypeOK
  <2> HIDE DEF Closes
  <2> QED
    BY <2>1, <2>2, <2>3, <2>4 DEF Next, dbVars, instVars, Tick, LockSessionEnds,
       Start, Crash, Ends, NoticeLockLost, SendTake, TakeAnswered, FirstTakeFails,
       TakeFails, SendRenewal, Renewed, RenewalFails, TakeOverFails, LeaseLost,
       CloseChain, StopRenewing, BeginTake, ExecTake, AbortTake, Renew
<1> QED
  BY <1>1, LeaseInvariant, PTL DEF Spec, TakeoverClosesChain

-----------------------------------------------------------------------------
(* The planes                                                              *)

(* A step of the planes leaves the lease alone, and one of the lease is one. *)
LEMMA ServeLeaseStep == [ServeNext]_serveVars => [Next]_vars
  BY DEF ServeNext, serveVars, LeaseStep, Proceed, BindAgain, Cut, StopPlanes

(* The planes do not touch the lease they are opened under: with them, an    *)
(* instance still keeps to the lease protocol, and all that is proved of it  *)
(* holds of an instance that serves (serve beside renew of instance.rs).     *)
THEOREM ServeIsLease == ServeSpec => Spec
<1>1. ServeInit => Init
  BY DEF ServeInit
<1> QED
  BY <1>1, ServeLeaseStep, PTL DEF ServeSpec, Spec

=============================================================================
