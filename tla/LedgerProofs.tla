----------------------------- MODULE LedgerProofs -----------------------------
(***************************************************************************)
(* Proofs about module Ledger, for every set of instances, certificates,   *)
(* hosts and Agents, and every bound: what several instances make of one   *)
(* register, list and table of Hosts they each decide from a copy of.      *)
(***************************************************************************)
EXTENDS Ledger, FiniteSetTheorems, SequenceTheorems, WellFoundedInduction, TLAPS

Rows == UNION {[hosts -> Row] : hosts \in SUBSET Host}
HeldRows == UNION {[hosts -> HeldRow] : hosts \in SUBSET Host}
Owners == UNION {[agents -> Host] : agents \in SUBSET Agent}
Moves == UNION {[hosts -> 0 .. Never] : hosts \in SUBSET Host}

-------------------------------------------------------------------------------
(* Times                                                                   *)

(* A set of numbers that is not empty has a least one, and a bounded one a *)
(* greatest.                                                               *)
LEMMA LeastNumber ==
  ASSUME NEW T \in SUBSET Nat, T # {}
  PROVE  Min(T) \in T /\ \A y \in T : Min(T) <= y
<1> DEFINE R == OpToRel(<, Nat)
<1>1. IsWellFoundedOn(R, Nat)
  BY NatLessThanWellFounded
<1>2. \A x, y \in Nat : <<y, x>> \in R <=> y < x
  BY DEF OpToRel
<1> HIDE DEF R
<1>3. PICK x \in T : \A y \in T : ~(<<y, x>> \in R)
  BY <1>1, WFMin
<1>4. \A y \in T : ~(y < x)
  BY <1>2, <1>3
<1>5. \A y \in T : x <= y
  BY <1>4
<1> QED
  BY <1>5 DEF Min

LEMMA GreatestNumber ==
  ASSUME NEW n \in Nat, NEW T \in SUBSET (0 .. n), T # {}
  PROVE  Max(T) \in T
<1> DEFINE U == {n - x : x \in T}
<1>1. U \in SUBSET Nat /\ U # {}
  <2>1. ASSUME NEW x \in T PROVE n - x \in Nat
    <3>1. x \in 0 .. n
      OBVIOUS
    <3> QED
      BY <3>1
  <2>2. U \in SUBSET Nat
    BY <2>1
  <2>3. PICK x : x \in T
    OBVIOUS
  <2>4. n - x \in U
    BY <2>3
  <2> QED
    BY <2>2, <2>4
<1>2. PICK u \in U : \A y \in U : u <= y
  BY <1>1, LeastNumber
<1>3. PICK x \in T : u = n - x
  BY <1>2
<1>4. ASSUME NEW y \in T PROVE x >= y
  <2>1. n - y \in U
    OBVIOUS
  <2>2. u <= n - y
    BY <1>2, <2>1
  <2> QED
    BY <1>3, <2>2
<1> QED
  BY <1>4 DEF Max

LEMMA NeverFacts == Never \in Nat /\ MaxTime \in Nat /\ 0 \in 0 .. Never /\ Never \in 0 .. Never
BY LedgerAssumption DEF Never

LEMMA EarliestFacts ==
  ASSUME NEW times \in SUBSET Nat
  PROVE  Earliest(times) \in 0 .. Never
<1> DEFINE T == times \cup {Never}
<1>1. T \in SUBSET Nat /\ Never \in T /\ Never \in Nat
  BY NeverFacts
<1> HIDE DEF T
<1>2. Min(T) \in T /\ Min(T) <= Never
  BY <1>1, LeastNumber
<1>3. PICK m : m = Min(T)
  OBVIOUS
<1>4. m \in Nat /\ m <= Never
  BY <1>1, <1>2, <1>3
<1>5. Min(T) \in 0 .. Never
  BY <1>1, <1>3, <1>4
<1> QED
  BY <1>5 DEF Earliest, T

LEMMA LaterFacts ==
  ASSUME NEW a \in 0 .. Never, NEW b \in 0 .. Never
  PROVE  Later(a, b) \in 0 .. Never /\ Later(a, b) >= a
BY NeverFacts DEF Later

LEMMA EndFacts == \A c \in Certificate : NotAfter[c] \in 0 .. Never /\ NotAfter[c] \in Nat
BY LedgerAssumption, NeverFacts

LEMMA LatestFacts ==
  ASSUME NEW m \in Copy, NEW h
  PROVE  LatestFor(m, h) \in 0 .. Never
<1> DEFINE T == {NotAfter[c] : c \in {d \in m.reg : HostOf[d] = h}} \cup {0}
<1>1. T \in SUBSET (0 .. Never) /\ T # {}
  BY EndFacts, NeverFacts DEF Copy
<1> HIDE DEF T
<1>2. Max(T) \in T
  BY <1>1, NeverFacts, GreatestNumber
<1>3. Max(T) \in 0 .. Never
  BY <1>1, <1>2
<1> QED
  BY <1>3 DEF LatestFor, T

-------------------------------------------------------------------------------
(* Hosts, as they are stored and as they are held                          *)

LEMMA RowsFacts ==
  ASSUME NEW hosts
  PROVE  /\ hosts \in Rows <=> hosts \in [DOMAIN hosts -> Row] /\ DOMAIN hosts \in SUBSET Host
         /\ hosts \in HeldRows <=> hosts \in [DOMAIN hosts -> HeldRow] /\ DOMAIN hosts \in SUBSET Host
BY DEF Rows, HeldRows

LEMMA OwnersFacts ==
  ASSUME NEW owners
  PROVE  owners \in Owners <=> owners \in [DOMAIN owners -> Host] /\ DOMAIN owners \in SUBSET Agent
BY DEF Owners

(* What a write does to the stored Hosts: none goes, no mark changes, no   *)
(* valid until moves back.                                                 *)
Grown(hosts, after) ==
    /\ DOMAIN hosts \subseteq DOMAIN after
    /\ \A h \in DOMAIN hosts : /\ after[h].gateway = hosts[h].gateway
                               /\ after[h].until >= hosts[h].until

LEMMA InsertRow ==
  ASSUME NEW hosts \in Rows, NEW h \in Host, NEW row \in Row
  PROVE  /\ InsertHostRow(hosts, h, row) \in Rows /\ Grown(hosts, InsertHostRow(hosts, h, row))
         /\ h \in DOMAIN InsertHostRow(hosts, h, row)
<1>1. hosts \in [DOMAIN hosts -> Row] /\ DOMAIN hosts \in SUBSET Host
  BY RowsFacts
<1>2. \A g \in DOMAIN hosts : hosts[g].until \in Nat
  BY <1>1, NeverFacts DEF Row
<1>3. CASE h \in DOMAIN hosts
  BY <1>2, <1>3 DEF InsertHostRow, Grown
<1>4. CASE h \notin DOMAIN hosts
  <2> DEFINE new == [g \in DOMAIN hosts \cup {h} |-> IF g = h THEN row ELSE hosts[g]]
  <2>1. /\ new \in [DOMAIN hosts \cup {h} -> Row] /\ DOMAIN new = DOMAIN hosts \cup {h}
        /\ \A g \in DOMAIN hosts : new[g] = hosts[g]
    BY <1>1, <1>4
  <2>2. InsertHostRow(hosts, h, row) = new
    BY <1>4 DEF InsertHostRow
  <2> HIDE DEF new
  <2>3. new \in Rows /\ Grown(hosts, new) /\ h \in DOMAIN new
    BY <1>1, <1>2, <2>1 DEF Rows, Grown
  <2> QED
    BY <2>2, <2>3
<1> QED
  BY <1>3, <1>4

LEMMA ExtendRow ==
  ASSUME NEW hosts \in Rows, NEW h, NEW until \in 0 .. Never
  PROVE  Extend(hosts, h, until) \in Rows /\ Grown(hosts, Extend(hosts, h, until))
<1>1. hosts \in [DOMAIN hosts -> Row] /\ DOMAIN hosts \in SUBSET Host
  BY RowsFacts
<1>2. \A g \in DOMAIN hosts : hosts[g].until \in Nat /\ hosts[g].until \in 0 .. Never
  BY <1>1, NeverFacts DEF Row
<1>3. CASE h \notin DOMAIN hosts
  BY <1>2, <1>3 DEF Extend, Grown
<1>4. CASE h \in DOMAIN hosts
  <2>1. Later(hosts[h].until, until) \in 0 .. Never /\ Later(hosts[h].until, until) >= hosts[h].until
    BY <1>2, <1>4, LaterFacts
  <2> DEFINE new == [hosts EXCEPT ![h].until = Later(hosts[h].until, until)]
  <2>2. /\ new \in [DOMAIN hosts -> Row] /\ DOMAIN new = DOMAIN hosts
        /\ \A g \in DOMAIN hosts : new[g].gateway = hosts[g].gateway /\ new[g].until >= hosts[g].until
    BY <1>1, <1>2, <1>4, <2>1 DEF Row
  <2>3. Extend(hosts, h, until) = new
    BY <1>4 DEF Extend
  <2> HIDE DEF new
  <2>4. new \in Rows /\ Grown(hosts, new)
    BY <1>1, <2>2 DEF Rows, Grown
  <2> QED
    BY <2>3, <2>4
<1> QED
  BY <1>3, <1>4

LEMMA WriteSeenRow ==
  ASSUME NEW hosts \in Rows, NEW h \in Host, NEW row \in Row
  PROVE  WriteSeen(hosts, h, row) \in Rows /\ Grown(hosts, WriteSeen(hosts, h, row))
<1>1. row.until \in 0 .. Never
  BY DEF Row
<1> QED
  BY <1>1, InsertRow, ExtendRow DEF WriteSeen

LEMMA ExtendAllRows ==
  ASSUME NEW hosts \in Rows, NEW moves \in Moves
  PROVE  ExtendAll(hosts, moves) \in Rows /\ Grown(hosts, ExtendAll(hosts, moves))
<1>1. hosts \in [DOMAIN hosts -> Row] /\ DOMAIN hosts \in SUBSET Host
  BY RowsFacts
<1>2. \A h \in DOMAIN moves : moves[h] \in 0 .. Never
  BY DEF Moves
<1> DEFINE until(h) == IF h \in DOMAIN moves THEN Later(hosts[h].until, moves[h]) ELSE hosts[h].until
           new == [h \in DOMAIN hosts |-> [hosts[h] EXCEPT !.until = until(h)]]
<1>3. ASSUME NEW h \in DOMAIN hosts PROVE until(h) \in 0 .. Never /\ until(h) >= hosts[h].until
  <2>1. hosts[h].until \in 0 .. Never /\ hosts[h].until \in Nat
    BY <1>1, NeverFacts DEF Row
  <2> QED
    BY <1>2, <2>1, LaterFacts
<1>4. ExtendAll(hosts, moves) = new
  BY DEF ExtendAll
<1> HIDE DEF until
<1>5. /\ new \in [DOMAIN hosts -> Row] /\ DOMAIN new = DOMAIN hosts
      /\ \A h \in DOMAIN hosts : new[h].gateway = hosts[h].gateway /\ new[h].until >= hosts[h].until
  BY <1>1, <1>3 DEF Row
<1> HIDE DEF new
<1>6. new \in Rows /\ Grown(hosts, new)
  BY <1>1, <1>5 DEF Rows, Grown
<1> QED
  BY <1>4, <1>6

LEMMA WithoutRows ==
  ASSUME NEW hosts \in Rows, NEW names
  PROVE  /\ Without(hosts, names) \in Rows /\ DOMAIN Without(hosts, names) = DOMAIN hosts \ names
         /\ \A h \in DOMAIN hosts \ names : Without(hosts, names)[h] = hosts[h]
<1>1. hosts \in [DOMAIN hosts -> Row] /\ DOMAIN hosts \in SUBSET Host
  BY RowsFacts
<1>2. Without(hosts, names) \in [DOMAIN hosts \ names -> Row]
  BY <1>1 DEF Without
<1> QED
  BY <1>1, <1>2 DEF Without, Rows

LEMMA HeldInsert ==
  ASSUME NEW hosts \in HeldRows, NEW h \in Host, NEW row \in HeldRow
  PROVE  /\ InsertHostRow(hosts, h, row) \in HeldRows
         /\ DOMAIN InsertHostRow(hosts, h, row) = DOMAIN hosts \cup {h}
<1>1. hosts \in [DOMAIN hosts -> HeldRow] /\ DOMAIN hosts \in SUBSET Host
  BY RowsFacts
<1>2. CASE h \in DOMAIN hosts
  BY <1>2 DEF InsertHostRow
<1>3. CASE h \notin DOMAIN hosts
  <2> DEFINE new == [g \in DOMAIN hosts \cup {h} |-> IF g = h THEN row ELSE hosts[g]]
  <2>1. new \in [DOMAIN hosts \cup {h} -> HeldRow] /\ DOMAIN new = DOMAIN hosts \cup {h}
    BY <1>1, <1>3
  <2>2. InsertHostRow(hosts, h, row) = new
    BY <1>3 DEF InsertHostRow
  <2> HIDE DEF new
  <2>3. new \in HeldRows
    BY <1>1, <2>1 DEF HeldRows
  <2> QED
    BY <2>1, <2>2, <2>3
<1> QED
  BY <1>2, <1>3

LEMMA HeldExtend ==
  ASSUME NEW hosts \in HeldRows, NEW h, NEW until \in 0 .. Never
  PROVE  /\ Extend(hosts, h, until) \in HeldRows
         /\ DOMAIN Extend(hosts, h, until) = DOMAIN hosts
<1>1. hosts \in [DOMAIN hosts -> HeldRow] /\ DOMAIN hosts \in SUBSET Host
  BY RowsFacts
<1>2. CASE h \notin DOMAIN hosts
  BY <1>2 DEF Extend
<1>3. CASE h \in DOMAIN hosts
  <2>1. hosts[h].until \in 0 .. Never
    BY <1>1, <1>3 DEF HeldRow
  <2>2. Later(hosts[h].until, until) \in 0 .. Never
    BY <2>1, LaterFacts
  <2>3. /\ [hosts EXCEPT ![h].until = Later(@, until)] \in [DOMAIN hosts -> HeldRow]
        /\ DOMAIN [hosts EXCEPT ![h].until = Later(@, until)] = DOMAIN hosts
    BY <1>1, <1>3, <2>2 DEF HeldRow
  <2> QED
    BY <1>1, <1>3, <2>3 DEF Extend, HeldRows
<1> QED
  BY <1>2, <1>3

LEMMA HeldWithUid ==
  ASSUME NEW hosts \in HeldRows, NEW h, NEW u \in Agent
  PROVE  /\ WithUid(hosts, h, u) \in HeldRows
         /\ DOMAIN WithUid(hosts, h, u) = DOMAIN hosts
<1>1. hosts \in [DOMAIN hosts -> HeldRow] /\ DOMAIN hosts \in SUBSET Host
  BY RowsFacts
<1>2. /\ WithUid(hosts, h, u) \in [DOMAIN hosts -> HeldRow]
      /\ DOMAIN WithUid(hosts, h, u) = DOMAIN hosts
  BY <1>1 DEF WithUid, HeldRow
<1> QED
  BY <1>1, <1>2 DEF HeldRows

LEMMA HeldWithout ==
  ASSUME NEW hosts \in HeldRows, NEW names
  PROVE  /\ Without(hosts, names) \in HeldRows
         /\ \A h \in DOMAIN hosts : hosts[h].until \in Nat
<1>1. hosts \in [DOMAIN hosts -> HeldRow] /\ DOMAIN hosts \in SUBSET Host
  BY RowsFacts
<1>2. Without(hosts, names) \in [DOMAIN hosts \ names -> HeldRow]
  BY <1>1 DEF Without
<1>3. Without(hosts, names) \in HeldRows
  BY <1>1, <1>2 DEF HeldRows
<1>4. \A h \in DOMAIN hosts : hosts[h].until \in Nat
  BY <1>1, NeverFacts DEF HeldRow
<1> QED
  BY <1>3, <1>4

(* The valid untils of the Hosts, and the ends of the certificates, are    *)
(* times.                                                                  *)
LEMMA UntilsFacts ==
  ASSUME NEW hosts \in HeldRows
  PROVE  Untils(hosts) \in SUBSET Nat
BY HeldWithout DEF Untils

-------------------------------------------------------------------------------
(* Copies                                                                  *)

LEMMA CopyFacts ==
  ASSUME NEW m \in Copy
  PROVE  /\ m.hosts \in HeldRows /\ m.owners \in Owners /\ m.earliest \in 0 .. Never
         /\ m.reg \in SUBSET Certificate /\ m.list \in SUBSET Certificate
         /\ m.version \in Nat \cup {NoVersion}
BY DEF Copy, HeldRows, Owners

(* A change of what a copy holds of the Hosts leaves its register, list    *)
(* and version.                                                            *)
LEMMA CopyWith ==
  ASSUME NEW m \in Copy, NEW hosts \in HeldRows, NEW owners \in Owners, NEW earliest \in 0 .. Never
  PROVE  LET n == [m EXCEPT !.hosts = hosts, !.owners = owners, !.earliest = earliest]
         IN  /\ n \in Copy /\ n.list = m.list /\ n.version = m.version /\ n.reg = m.reg
             /\ n.hosts = hosts /\ n.owners = owners
BY DEF Copy, HeldRows, Owners

LEMMA OwnersOps ==
  ASSUME NEW owners \in Owners, NEW h \in Host, NEW u \in Agent
  PROVE  /\ Owned(owners, u, h) \in Owners /\ Disowned(owners, h) \in Owners
         /\ [v \in DOMAIN owners \ {u} |-> owners[v]] \in Owners
<1>1. owners \in [DOMAIN owners -> Host] /\ DOMAIN owners \in SUBSET Agent
  BY OwnersFacts
<1>2. Owned(owners, u, h) \in [DOMAIN owners \cup {u} -> Host]
  BY <1>1 DEF Owned
<1>3. Disowned(owners, h) \in [{w \in DOMAIN owners : owners[w] # h} -> Host]
  BY <1>1 DEF Disowned
<1>4. [v \in DOMAIN owners \ {u} |-> owners[v]] \in [DOMAIN owners \ {u} -> Host]
  BY <1>1
<1>5. Owned(owners, u, h) \in Owners
  BY <1>1, <1>2 DEF Owners
<1>6. Disowned(owners, h) \in Owners
  BY <1>1, <1>3 DEF Owners
<1>7. [v \in DOMAIN owners \ {u} |-> owners[v]] \in Owners
  BY <1>1, <1>4 DEF Owners
<1> QED
  BY <1>5, <1>6, <1>7

LEMMA StoredFacts ==
  ASSUME db \in Stored
  PROVE  /\ db.hosts \in Rows /\ db.bindings \in [Agent -> Host \cup {None}]
         /\ db.reg \in SUBSET Certificate /\ db.list \in SUBSET Certificate /\ db.version \in Nat
BY DEF Stored, Rows

(* What is read from the store is a copy, with the list and the version of *)
(* the store.                                                              *)
LEMMA LoadedFacts ==
  ASSUME db \in Stored
  PROVE  Loaded \in Copy /\ Loaded.list = db.list /\ Loaded.version = db.version
<1>1. db.hosts \in [DOMAIN db.hosts -> Row] /\ DOMAIN db.hosts \in SUBSET Host
  BY StoredFacts, RowsFacts
<1>2. ReadAll \in [DOMAIN db.hosts -> HeldRow] /\ DOMAIN ReadAll = DOMAIN db.hosts
  BY <1>1 DEF ReadAll, Row, HeldRow
<1>3. ReadAll \in HeldRows
  BY <1>1, <1>2 DEF HeldRows
<1>4. OwnersOf(ReadAll) \in Owners
  <2> DEFINE agents == UNION {ReadAll[h].uids : h \in DOMAIN ReadAll}
             owner(u) == CHOOSE h \in DOMAIN ReadAll : u \in ReadAll[h].uids
  <2>1. agents \in SUBSET Agent
    BY <1>2 DEF HeldRow
  <2>2. ASSUME NEW u \in agents PROVE owner(u) \in Host
    <3>1. \E h \in DOMAIN ReadAll : u \in ReadAll[h].uids
      OBVIOUS
    <3>2. owner(u) \in DOMAIN ReadAll
      BY <3>1
    <3> QED
      BY <3>2, <1>1, <1>2
  <2>3. OwnersOf(ReadAll) = [u \in agents |-> owner(u)]
    BY DEF OwnersOf
  <2> HIDE DEF agents, owner
  <2>4. OwnersOf(ReadAll) \in [agents -> Host]
    BY <2>2, <2>3
  <2> QED
    BY <2>1, <2>4 DEF Owners
<1>5. {NotAfter[c] : c \in db.reg} \cup Untils(ReadAll) \in SUBSET Nat
  BY <1>3, UntilsFacts, EndFacts, StoredFacts
<1>6. Earliest({NotAfter[c] : c \in db.reg} \cup Untils(ReadAll)) \in 0 .. Never
  BY <1>5, EarliestFacts
<1> QED
  BY <1>3, <1>4, <1>6, StoredFacts DEF Loaded, Copy, HeldRows, Owners

LEMMA HostsExtendedFacts ==
  ASSUME NEW m \in Copy
  PROVE  HostsExtended(m) \in HeldRows
<1>1. m.hosts \in [DOMAIN m.hosts -> HeldRow] /\ DOMAIN m.hosts \in SUBSET Host
  BY CopyFacts, RowsFacts
<1> DEFINE until(h) == Later(m.hosts[h].until, LatestFor(m, h))
<1>2. ASSUME NEW h \in DOMAIN m.hosts PROVE until(h) \in 0 .. Never
  <2>1. m.hosts[h].until \in 0 .. Never /\ LatestFor(m, h) \in 0 .. Never
    BY <1>1, LatestFacts DEF HeldRow
  <2> QED
    BY <2>1, LaterFacts
<1>3. HostsExtended(m) = [h \in DOMAIN m.hosts |-> [m.hosts[h] EXCEPT !.until = until(h)]]
  BY DEF HostsExtended
<1> HIDE DEF until
<1>4. HostsExtended(m) \in [DOMAIN m.hosts -> HeldRow]
  BY <1>1, <1>2, <1>3 DEF HeldRow
<1> QED
  BY <1>1, <1>4 DEF HeldRows

(* The prune leaves the register, the list and the version of a copy to    *)
(* its store calls.                                                        *)
LEMMA PrunedFacts ==
  ASSUME NEW m \in Copy
  PROVE  /\ Pruned(m) \in Copy /\ Pruned(m).list = m.list /\ Pruned(m).version = m.version
<1> DEFINE ended == Ended(HostsExtended(m))
           hosts == Without(HostsExtended(m), ended)
           owners == [u \in {v \in DOMAIN m.owners : m.owners[v] \notin ended} |-> m.owners[u]]
           times == {t \in {NotAfter[c] : c \in m.reg} \cup Untils(hosts) : t > now}
<1>1. hosts \in HeldRows
  BY HostsExtendedFacts, HeldWithout
<1>2. m.owners \in [DOMAIN m.owners -> Host] /\ DOMAIN m.owners \in SUBSET Agent
  BY CopyFacts, OwnersFacts
<1>3. owners \in Owners
  <2>1. owners \in [{v \in DOMAIN m.owners : m.owners[v] \notin ended} -> Host]
    BY <1>2
  <2> QED
    BY <1>2, <2>1 DEF Owners
<1>4. times \in SUBSET Nat
  BY <1>1, UntilsFacts, EndFacts, CopyFacts
<1>5. Earliest(times) \in 0 .. Never
  BY <1>4, EarliestFacts
<1>6. Pruned(m) = IF ~PruneDue(m) THEN m
                  ELSE [m EXCEPT !.hosts = hosts, !.owners = owners, !.earliest = Earliest(times)]
  BY DEF Pruned
<1> DEFINE new == [m EXCEPT !.hosts = hosts, !.owners = owners, !.earliest = Earliest(times)]
<1> HIDE DEF hosts, owners, times
<1>7. new \in Copy /\ new.list = m.list /\ new.version = m.version
  BY <1>1, <1>3, <1>5 DEF Copy, HeldRows, Owners
<1> HIDE DEF new
<1> QED
  BY <1>6, <1>7 DEF new

-------------------------------------------------------------------------------
(* Calls                                                                   *)

(* A call the prune makes: it writes no Host as seen, and judges the end   *)
(* of one by the clock of that moment.                                     *)
PruneCall == {call \in Call : call.op # "seen" /\ (call.op = "forget" => call.at = now)}

LEMMA SetToSeqFacts ==
  ASSUME NEW S, IsFiniteSet(S)
  PROVE  SetToSeq(S) \in Seq(S)
<1>1. Cardinality(S) \in Nat /\ ExistsBijection(1 .. Cardinality(S), S)
  BY FS_CardinalityType
<1>2. PICK f \in [1 .. Cardinality(S) -> S] : IsInjective(f)
  <2>1. PICK f : f \in Bijection(1 .. Cardinality(S), S)
    BY <1>1 DEF ExistsBijection
  <2> QED
    BY <2>1 DEF Bijection, Injection
<1>3. SetToSeq(S) \in [1 .. Cardinality(S) -> S]
  BY <1>2 DEF SetToSeq
<1> QED
  BY <1>1, <1>3

LEMMA CallsOf ==
  ASSUME NEW op \in {"remove", "unlist"}, NEW T \in SUBSET Certificate
  PROVE  SetToSeq({[op |-> op, certificate |-> c] : c \in T}) \in Seq(PruneCall)
<1> DEFINE S == {[op |-> op, certificate |-> c] : c \in T}
           f == [c \in T |-> [op |-> op, certificate |-> c]]
<1>1. S \in SUBSET PruneCall
  BY DEF PruneCall, Call
<1>2. IsFiniteSet(T)
  BY LedgerAssumption, FS_Subset
<1>3. f \in Bijection(T, S)
  <2>1. f \in [T -> S]
    OBVIOUS
  <2>2. ASSUME NEW a \in T, NEW b \in T, f[a] = f[b] PROVE a = b
    <3>1. [op |-> op, certificate |-> a].certificate = [op |-> op, certificate |-> b].certificate
      BY <2>2
    <3> QED
      BY <3>1
  <2>3. \A x \in S : \E c \in T : f[c] = x
    OBVIOUS
  <2> HIDE DEF f, S
  <2> QED
    BY <2>1, <2>2, <2>3 DEF Bijection, Injection, Surjection, IsInjective
<1>4. ExistsBijection(T, S)
  BY <1>3 DEF ExistsBijection
<1>5. IsFiniteSet(S)
  BY <1>2, <1>4, FS_Bijection
<1>6. SetToSeq(S) \in Seq(S)
  BY <1>5, SetToSeqFacts
<1> QED
  BY <1>1, <1>6

LEMMA ConcatCalls ==
  ASSUME NEW s \in Seq(PruneCall), NEW t \in Seq(PruneCall)
  PROVE  s \o t \in Seq(PruneCall)
BY ConcatProperties

LEMMA PruneCallsFacts ==
  ASSUME NEW m \in Copy, now \in 1 .. MaxTime
  PROVE  PruneCalls(m) \in Seq(PruneCall)
<1> DEFINE ended == Ended(HostsExtended(m))
           moves == [h \in Extended(m) |-> LatestFor(m, h)]
           first == IF Extended(m) = {} THEN <<>> ELSE <<[op |-> "extend", moves |-> moves]>>
           second == IF ended = {} THEN <<>> ELSE <<[op |-> "forget", hosts |-> ended, at |-> now]>>
           third == SetToSeq({[op |-> "remove", certificate |-> c] : c \in Gone(m)})
           fourth == SetToSeq({[op |-> "unlist", certificate |-> c] : c \in m.list \cap Gone(m)})
<1>1. m.hosts \in [DOMAIN m.hosts -> HeldRow] /\ DOMAIN m.hosts \in SUBSET Host
  BY CopyFacts, RowsFacts
<1>2. first \in Seq(PruneCall)
  <2>1. Extended(m) \in SUBSET Host
    BY <1>1 DEF Extended
  <2>2. moves \in [Extended(m) -> 0 .. Never]
    BY LatestFacts
  <2>3. moves \in UNION {[hosts -> 0 .. Never] : hosts \in SUBSET Host}
    BY <2>1, <2>2
  <2> HIDE DEF moves
  <2>4. [op |-> "extend", moves |-> moves] \in PruneCall
    BY <2>3 DEF PruneCall, Call
  <2> QED
    BY <2>4
<1>3. second \in Seq(PruneCall)
  <2>1. ended \in SUBSET Host
    BY HostsExtendedFacts, RowsFacts DEF Ended
  <2> HIDE DEF ended
  <2>2. [op |-> "forget", hosts |-> ended, at |-> now] \in PruneCall
    BY <2>1 DEF PruneCall, Call
  <2> QED
    BY <2>2
<1>4. third \in Seq(PruneCall) /\ fourth \in Seq(PruneCall)
  <2>1. Gone(m) \in SUBSET Certificate /\ m.list \cap Gone(m) \in SUBSET Certificate
    BY CopyFacts DEF Gone
  <2> QED
    BY <2>1, CallsOf
<1>5. PruneCalls(m) = IF ~PruneDue(m) THEN <<>> ELSE first \o second \o third \o fourth
  BY DEF PruneCalls
<1> HIDE DEF first, second, third, fourth
<1>6. first \o second \o third \o fourth \in Seq(PruneCall)
  BY <1>2, <1>3, <1>4, ConcatCalls
<1>7. <<>> \in Seq(PruneCall)
  OBVIOUS
<1> QED
  BY <1>5, <1>6, <1>7

-------------------------------------------------------------------------------
(* Operations on a copy                                                    *)

(* What an operation on the Hosts of a copy leaves alone.                  *)
SameList(m, n) == n \in Copy /\ n.list = m.list /\ n.version = m.version

LEMMA EarlierFacts ==
  ASSUME NEW a \in 0 .. Never, NEW b \in 0 .. Never
  PROVE  Earliest({a, b}) \in 0 .. Never
<1>1. {a, b} \in SUBSET Nat
  BY NeverFacts
<1> QED
  BY <1>1, EarliestFacts

LEMMA InsertedFacts ==
  ASSUME NEW m \in Copy, NEW c \in Certificate
  PROVE  SameList(m, Inserted(m, c))
<1>1. HostOf[c] \in Host /\ NotAfter[c] \in 0 .. Never
  BY LedgerAssumption, EndFacts
<1>2. [gateway |-> FALSE, until |-> NotAfter[c], uids |-> {}] \in HeldRow
  BY <1>1 DEF HeldRow
<1> DEFINE hosts == IF Mints(m, c)
                    THEN InsertHostRow(m.hosts, HostOf[c],
                            [gateway |-> FALSE, until |-> NotAfter[c], uids |-> {}])
                    ELSE Extend(m.hosts, HostOf[c], NotAfter[c])
           earliest == Earliest({m.earliest, NotAfter[c]})
<1>3. hosts \in HeldRows
  BY <1>1, <1>2, CopyFacts, HeldInsert, HeldExtend
<1>4. earliest \in 0 .. Never
  BY <1>1, CopyFacts, EarlierFacts
<1>5. Inserted(m, c) = [m EXCEPT !.reg = @ \cup {c}, !.earliest = earliest, !.hosts = hosts]
  BY DEF Inserted
<1> HIDE DEF hosts, earliest
<1> QED
  BY <1>3, <1>4, <1>5, ZenonT(60) DEF SameList, Copy, HeldRows

LEMMA AfterAdmitFacts ==
  ASSUME NEW m \in Copy, NEW c \in Certificate
  PROVE  AfterAdmit(m, c) \in Seq(PruneCall)
<1>1. HostOf[c] \in Host /\ NotAfter[c] \in 0 .. Never
  BY LedgerAssumption, EndFacts
<1> DEFINE moves == [h \in {HostOf[c]} |-> NotAfter[c]]
<1>2. moves \in UNION {[hosts -> 0 .. Never] : hosts \in SUBSET Host}
  <2>1. moves \in [{HostOf[c]} -> 0 .. Never] /\ {HostOf[c]} \in SUBSET Host
    BY <1>1
  <2> QED
    BY <2>1
<1> HIDE DEF moves
<1>3. [op |-> "extend", moves |-> moves] \in PruneCall
  BY <1>2 DEF PruneCall, Call
<1> QED
  BY <1>3 DEF AfterAdmit, moves

LEMMA TakeUpFacts ==
  ASSUME NEW m \in Copy, NEW u \in Agent, NEW h \in Host, NEW holder,
         NEW answer \in {"bound", "taken", "gateway"}, answer = "taken" => holder \in Host
  PROVE  SameList(m, TakeUp(m, u, h, answer, holder))
<1>1. m.hosts \in HeldRows /\ m.owners \in Owners
  BY CopyFacts
<1>2. CASE answer = "bound"
  <2>1. Owned(m.owners, u, h) \in Owners
    BY <1>1, OwnersOps
  <2>2. TakeUp(m, u, h, answer, holder) = [m EXCEPT !.owners = Owned(m.owners, u, h)]
    BY <1>2 DEF TakeUp
  <2> QED
    BY <2>1, <2>2 DEF SameList, Copy, Owners
<1>3. CASE answer = "taken"
  <2>1. Owned(m.owners, u, holder) \in Owners /\ WithUid(m.hosts, holder, u) \in HeldRows
    BY <1>1, <1>3, OwnersOps, HeldWithUid
  <2>2. TakeUp(m, u, h, answer, holder)
          = [m EXCEPT !.owners = Owned(m.owners, u, holder), !.hosts = WithUid(m.hosts, holder, u)]
    BY <1>3 DEF TakeUp
  <2> QED
    BY <2>1, <2>2 DEF SameList, Copy, Owners, HeldRows
<1>4. CASE answer = "gateway"
  <2> DEFINE hosts == IF h \in DOMAIN m.hosts
                      THEN [m.hosts EXCEPT ![h].gateway = TRUE, ![h].uids = {}] ELSE m.hosts
  <2>1. Disowned(m.owners, h) \in Owners
    BY <1>1, OwnersOps
  <2>2. hosts \in HeldRows
    <3>1. m.hosts \in [DOMAIN m.hosts -> HeldRow] /\ DOMAIN m.hosts \in SUBSET Host
      BY <1>1, RowsFacts
    <3>2. hosts \in [DOMAIN m.hosts -> HeldRow]
      BY <3>1 DEF HeldRow
    <3> QED
      BY <3>1, <3>2 DEF HeldRows
  <2>3. TakeUp(m, u, h, answer, holder) = [m EXCEPT !.owners = Disowned(m.owners, h), !.hosts = hosts]
    BY <1>4 DEF TakeUp
  <2> HIDE DEF hosts
  <2> QED
    BY <2>1, <2>2, <2>3 DEF SameList, Copy, Owners, HeldRows
<1> QED
  BY <1>2, <1>3, <1>4

(* The copy a report leaves behind, when the store bound the Agent.        *)
LEMMA BoundFacts ==
  ASSUME NEW m \in Copy, NEW n, SameList(m, n), NEW u \in Agent, NEW h \in Host
  PROVE  LET row == [gateway |-> FALSE, until |-> 0, uids |-> {}]
             held == [n EXCEPT !.hosts = WithUid(InsertHostRow(@, h, row), h, u)]
         IN  SameList(m, held) /\ h \in DOMAIN held.hosts
<1> DEFINE row == [gateway |-> FALSE, until |-> 0, uids |-> {}]
           hosts == WithUid(InsertHostRow(n.hosts, h, row), h, u)
<1>1. row \in HeldRow /\ n.hosts \in HeldRows
  BY NeverFacts, CopyFacts DEF HeldRow, SameList
<1> HIDE DEF row
<1>2. /\ InsertHostRow(n.hosts, h, row) \in HeldRows
      /\ DOMAIN InsertHostRow(n.hosts, h, row) = DOMAIN n.hosts \cup {h}
  BY <1>1, HeldInsert
<1>3. hosts \in HeldRows /\ h \in DOMAIN hosts
  BY <1>2, HeldWithUid
<1> HIDE DEF hosts
<1>4. LET held == [n EXCEPT !.hosts = hosts]
      IN  SameList(m, held) /\ h \in DOMAIN held.hosts
  BY <1>3 DEF SameList, Copy, HeldRows
<1> QED
  BY <1>4 DEF hosts, row

(* The valid until of the report's Host moved, and the write of it.        *)
ExtendedCopy(m, h, until) ==
    [m EXCEPT !.hosts = Extend(m.hosts, h, until), !.earliest = Earliest({m.earliest, until})]

LEMMA ExtendedCopyFacts ==
  ASSUME NEW m \in Copy, NEW h, NEW until \in 0 .. Never
  PROVE  SameList(m, ExtendedCopy(m, h, until)) /\ DOMAIN ExtendedCopy(m, h, until).hosts = DOMAIN m.hosts
<1> DEFINE hosts == Extend(m.hosts, h, until)
           earliest == Earliest({m.earliest, until})
<1>1. hosts \in HeldRows /\ DOMAIN hosts = DOMAIN m.hosts
  BY CopyFacts, HeldExtend
<1>2. earliest \in 0 .. Never
  BY CopyFacts, EarlierFacts
<1>3. ExtendedCopy(m, h, until) = [m EXCEPT !.hosts = hosts, !.earliest = earliest]
  BY DEF ExtendedCopy
<1> HIDE DEF hosts, earliest
<1> QED
  BY <1>1, <1>2, <1>3 DEF SameList, Copy, HeldRows

LEMMA ExtendingFacts ==
  ASSUME NEW s \in Server, NEW m \in Copy, NEW h \in Host, NEW until \in 0 .. Never, NEW binds,
         Extending(s, m, h, until, binds)
  PROVE  \E n : /\ SameList(m, n) /\ DOMAIN n.hosts = DOMAIN m.hosts
                /\ mem' = [mem EXCEPT ![s] = n]
                /\ \/ todo' = [todo EXCEPT ![s] = <<>>]
                   \/ /\ todo' = [todo EXCEPT ![s] = <<[op |-> "seen", host |-> h]>>]
                      /\ h \in DOMAIN n.hosts
<1> DEFINE n == IF h \in DOMAIN m.hosts /\ m.hosts[h].until < until
                THEN ExtendedCopy(m, h, until) ELSE m
<1>1. SameList(m, n) /\ DOMAIN n.hosts = DOMAIN m.hosts
  BY ExtendedCopyFacts DEF SameList
<1>2. mem' = [mem EXCEPT ![s] = n]
  BY DEF Extending, ExtendedCopy
<1> HIDE DEF n
<1>3. \/ todo' = [todo EXCEPT ![s] = <<>>]
      \/ /\ todo' = [todo EXCEPT ![s] = <<[op |-> "seen", host |-> h]>>]
         /\ h \in DOMAIN m.hosts
  BY DEF Extending
<1> QED
  BY <1>1, <1>2, <1>3

LEMMA UnlistedFacts ==
  ASSUME NEW m \in Copy, NEW u \in Agent, NEW names
  PROVE  SameList(m, Unlisted(m, u, names))
<1> DEFINE owners == [v \in DOMAIN m.owners \ {u} |-> m.owners[v]]
           hosts == [h \in DOMAIN m.hosts |->
                        IF h \in names THEN Unnamed(m.hosts[h], u) ELSE m.hosts[h]]
<1>1. owners \in Owners
  <2>1. m.owners \in [DOMAIN m.owners -> Host] /\ DOMAIN m.owners \in SUBSET Agent
    BY CopyFacts, OwnersFacts
  <2>2. owners \in [DOMAIN m.owners \ {u} -> Host]
    BY <2>1
  <2> QED
    BY <2>1, <2>2 DEF Owners
<1>2. hosts \in HeldRows
  <2>1. m.hosts \in [DOMAIN m.hosts -> HeldRow] /\ DOMAIN m.hosts \in SUBSET Host
    BY CopyFacts, RowsFacts
  <2>2. hosts \in [DOMAIN m.hosts -> HeldRow]
    BY <2>1 DEF HeldRow, Unnamed
  <2> QED
    BY <2>1, <2>2 DEF HeldRows
<1>3. Unlisted(m, u, names) = [m EXCEPT !.owners = owners, !.hosts = hosts]
  BY DEF Unlisted
<1> HIDE DEF owners, hosts
<1> QED
  BY <1>1, <1>2, <1>3 DEF SameList, Copy, HeldRows, Owners

LEMMA MovedFacts ==
  ASSUME NEW m \in Copy, NEW u \in Agent, NEW h \in Host
  PROVE  SameList(m, [m EXCEPT !.owners = Owned(@, u, h), !.hosts = WithUid(@, h, u)])
<1>1. Owned(m.owners, u, h) \in Owners /\ WithUid(m.hosts, h, u) \in HeldRows
  BY CopyFacts, OwnersOps, HeldWithUid
<1> QED
  BY <1>1 DEF SameList, Copy, HeldRows, Owners

LEMMA MarkedFacts ==
  ASSUME NEW m \in Copy, NEW h \in Host, NEW gateway \in BOOLEAN
  PROVE  SameList(m, Marked(m, h, gateway))
<1> DEFINE row == [gateway |-> gateway, until |-> 0, uids |-> {}]
           made == InsertHostRow(m.hosts, h, row)
           hosts == [made EXCEPT ![h].gateway = gateway, ![h].uids = IF gateway THEN {} ELSE made[h].uids]
           owners == IF gateway THEN Disowned(m.owners, h) ELSE m.owners
           earliest == IF gateway THEN m.earliest ELSE Earliest({m.earliest, made[h].until})
<1>1. row \in HeldRow /\ m.hosts \in HeldRows /\ m.owners \in Owners /\ m.earliest \in 0 .. Never
  BY NeverFacts, CopyFacts DEF HeldRow
<1> HIDE DEF row
<1>2. made \in HeldRows /\ h \in DOMAIN made
  <2>1. DOMAIN made = DOMAIN m.hosts \cup {h} /\ made \in HeldRows
    BY <1>1, HeldInsert
  <2> HIDE DEF made
  <2> QED
    BY <2>1
<1> HIDE DEF made
<1>3. made \in [DOMAIN made -> HeldRow] /\ DOMAIN made \in SUBSET Host
  BY <1>2, RowsFacts
<1>4. hosts \in [DOMAIN made -> HeldRow] /\ made[h].until \in 0 .. Never
  BY <1>2, <1>3 DEF HeldRow
<1>5. hosts \in HeldRows
  BY <1>3, <1>4 DEF HeldRows
<1>6. owners \in Owners
  <2>1. m.owners \in [DOMAIN m.owners -> Host] /\ DOMAIN m.owners \in SUBSET Agent
    BY CopyFacts, OwnersFacts
  <2>2. Disowned(m.owners, h) \in [{w \in DOMAIN m.owners : m.owners[w] # h} -> Host]
    BY <2>1 DEF Disowned
  <2>3. Disowned(m.owners, h) \in Owners
    BY <2>1, <2>2 DEF Owners
  <2> QED
    BY <1>1, <2>3
<1>7. earliest \in 0 .. Never
  BY <1>1, <1>4, EarlierFacts
<1>8. Marked(m, h, gateway) = [m EXCEPT !.hosts = hosts, !.owners = owners, !.earliest = earliest]
  BY DEF Marked, made, row
<1> HIDE DEF hosts, owners, earliest
<1> QED
  BY <1>5, <1>6, <1>7, <1>8 DEF SameList, Copy, HeldRows, Owners

-------------------------------------------------------------------------------
(* Parts of a step                                                         *)

LEMMA TypeFacts ==
  ASSUME LedgerInv
  PROVE  /\ now \in 1 .. MaxTime /\ now \in Nat /\ db \in Stored /\ mem \in [Server -> Copy]
         /\ todo \in [Server -> Seq(Call)] /\ reading \in [Server -> Reading]
         /\ due \in [Server -> BOOLEAN] /\ listening \in [Server -> BOOLEAN]
         /\ sessions \in [Server -> SUBSET Certificate] /\ unchecked \subseteq Server \X Certificate
         /\ signed \subseteq Certificate /\ versions \in Seq(SUBSET Certificate)
         /\ answered \subseteq Server \X Certificate /\ spent \in [Bounded -> Nat]
BY NeverFacts DEF LedgerInv, LedgerTypeOK

LEMMA AnnouncedFacts ==
  ASSUME LedgerInv, NEW s \in Server, NEW change, Announced(s, change)
  PROVE  due' \in [Server -> BOOLEAN] /\ listening' \in [Server -> BOOLEAN]
BY TypeFacts DEF Announced

LEMMA SpendFacts ==
  ASSUME LedgerInv, NEW what \in Bounded, Spend(what)
  PROVE  spent' \in [Bounded -> Nat]
<1>1. spent \in [Bounded -> Nat] /\ "together" \in Bounded
  BY TypeFacts DEF Bounded
<1> QED
  BY <1>1 DEF Spend

LEMMA ChangesFacts ==
  ASSUME LedgerInv, NEW s \in Server, NEW change, Changes(s, change)
  PROVE  unchecked' \subseteq Server \X Certificate
BY TypeFacts DEF Changes

(* A read in progress is kept, given up, or kept from being swapped in.    *)
ReadingKept ==
    \A i \in Server :
        \/ reading'[i] = reading[i]
        \/ reading'[i] = NotReading
        \/ /\ reading[i] # NotReading /\ ~reading'[i].clean
           /\ reading'[i].ledger = reading[i].ledger

LEMMA ReadingFacts ==
  ASSUME LedgerInv, NEW s \in Server
  PROVE  /\ NotReading \in Reading
         /\ reading[s] # NotReading =>
                /\ reading[s].ledger \in Copy /\ reading[s].clean \in BOOLEAN
                /\ reading[s].refused \in Nat
BY TypeFacts DEF Reading

LEMMA ActedFacts ==
  ASSUME LedgerInv, NEW s \in Server, Acted(s)
  PROVE  /\ reading' \in [Server -> Reading] /\ ReadingKept
         /\ reading'[s] # NotReading => ~reading'[s].clean
         /\ \A i \in Server \ {s} : reading'[i] = reading[i]
BY TypeFacts DEF Acted, Reading, ReadingKept, NotReading

LEMMA UnchangedReading ==
  ASSUME LedgerInv, UNCHANGED reading
  PROVE  reading' \in [Server -> Reading] /\ ReadingKept
BY TypeFacts DEF ReadingKept

(* The lists, the versions and the answers stand, when a step leaves them  *)
(* and only keeps or gives up reads.                                       *)
MemKept ==
    /\ mem' \in [Server -> Copy]
    /\ \A i \in Server : mem'[i].list = mem[i].list /\ mem'[i].version = mem[i].version

ListsStand == AnsweredIsHeld /\ AnswersStand /\ VersionIsHeld /\ VersionsStand

LEMMA SaysNoMoreKept ==
  ASSUME NEW copy, NEW other, SaysNoMore(copy), db'.version = db.version, versions' = versions,
         other.list = copy.list, other.version = copy.version
  PROVE  /\ other.version # NoVersion =>
                \A c \in Certificate :
                    (\A v \in other.version .. db'.version : c \in versions'[v + 1]) => c \in other.list
BY DEF SaysNoMore

LEMMA ListsKept ==
  ASSUME LedgerInv, MemKept, ReadingKept, db'.list = db.list, db'.version = db.version,
         UNCHANGED ghosts
  PROVE  ListsStand'
<1>0. versions' = versions /\ answered' = answered
  BY DEF ghosts
<1>1. AnsweredIsHeld'
  <2>1. ASSUME NEW a \in answered PROVE a[2] \in mem'[a[1]].list
    <3>1. a[1] \in Server
      BY TypeFacts
    <3> QED
      BY <3>1 DEF MemKept, LedgerInv, AnsweredIsHeld
  <2> QED
    BY <1>0, <2>1 DEF AnsweredIsHeld
<1>2. AnswersStand'
  <2>1. ASSUME NEW a \in answered, reading'[a[1]] # NotReading, reading'[a[1]].clean
        PROVE  a[2] \in reading'[a[1]].ledger.list
    <3>1. a[1] \in Server
      BY TypeFacts
    <3>2. reading'[a[1]] = reading[a[1]]
      BY <2>1, <3>1 DEF ReadingKept
    <3> QED
      BY <2>1, <3>2 DEF LedgerInv, AnswersStand
  <2> QED
    BY <1>0, <2>1 DEF LedgerInv, AnswersStand
<1>3. VersionIsHeld'
  <2>1. ASSUME NEW i \in Server PROVE SaysNoMore(mem[i])'
    <3>1. SaysNoMore(mem[i])
      BY DEF LedgerInv, VersionIsHeld
    <3>2. mem'[i].list = mem[i].list /\ mem'[i].version = mem[i].version
      BY DEF MemKept
    <3> QED
      BY <1>0, <3>1, <3>2, SaysNoMoreKept DEF SaysNoMore
  <2> QED
    BY <2>1 DEF VersionIsHeld
<1>4. VersionsStand'
  <2>1. Len(versions') = db'.version + 1 /\ versions'[db'.version + 1] = db'.list
    BY <1>0 DEF LedgerInv, VersionsStand
  <2>2. ASSUME NEW i \in Server PROVE mem'[i].version <= db'.version
    BY DEF MemKept, LedgerInv, VersionsStand
  <2>3. ASSUME NEW i \in Server, reading'[i] # NotReading
        PROVE  /\ reading'[i].ledger.version <= db'.version /\ SaysNoMore(reading[i].ledger)'
               /\ reading'[i].clean => mem'[i].version <= reading'[i].ledger.version
    <3>1. reading[i] # NotReading /\ reading'[i].ledger = reading[i].ledger
          /\ (reading'[i].clean => reading[i].clean)
      BY <2>3 DEF ReadingKept
    <3>2. /\ reading[i].ledger.version <= db.version /\ SaysNoMore(reading[i].ledger)
          /\ reading[i].clean => mem[i].version <= reading[i].ledger.version
      BY <3>1 DEF LedgerInv, VersionsStand
    <3>3. SaysNoMore(reading[i].ledger)'
      BY <1>0, <3>1, <3>2, SaysNoMoreKept DEF SaysNoMore
    <3> QED
      BY <3>1, <3>2, <3>3 DEF MemKept
  <2> QED
    BY <2>1, <2>2, <2>3 DEF VersionsStand
<1> QED
  BY <1>1, <1>2, <1>3, <1>4 DEF ListsStand

(* The copy of one instance changes, and not its list.                     *)
LEMMA OneCopy ==
  ASSUME LedgerInv, NEW s \in Server, NEW n, SameList(mem[s], n), mem' = [mem EXCEPT ![s] = n]
  PROVE  MemKept
BY TypeFacts DEF MemKept, SameList

LEMMA SameCopies ==
  ASSUME LedgerInv, mem' = mem
  PROVE  MemKept
BY TypeFacts DEF MemKept

(* The calls of an act.                                                    *)
GoodCalls(calls, copy, at) ==
    \A i \in DOMAIN calls :
        /\ calls[i].op = "forget" => calls[i].at <= at
        /\ calls[i].op = "seen" => calls[i].host \in DOMAIN copy.hosts

LEMMA GoodNow ==
  ASSUME LedgerInv, NEW s \in Server
  PROVE  GoodCalls(todo[s], mem[s], now)
BY DEF LedgerInv, CallsStand, GoodCalls

LEMMA GoodTail ==
  ASSUME NEW calls \in Seq(Call), calls # <<>>, NEW copy, NEW at, GoodCalls(calls, copy, at)
  PROVE  GoodCalls(Tail(calls), copy, at)
<1>1. \A i \in DOMAIN Tail(calls) : i + 1 \in DOMAIN calls /\ Tail(calls)[i] = calls[i + 1]
  BY HeadTailProperties
<1> QED
  BY <1>1 DEF GoodCalls

LEMMA GoodPrune ==
  ASSUME now \in Nat, NEW calls \in Seq(PruneCall), NEW copy
  PROVE  GoodCalls(calls, copy, now) /\ calls \in Seq(Call)
<1>1. \A i \in DOMAIN calls : calls[i] \in PruneCall
  OBVIOUS
<1>2. GoodCalls(calls, copy, now)
  BY <1>1 DEF GoodCalls, PruneCall
<1>3. calls \in Seq(Call)
  BY DEF PruneCall
<1> QED
  BY <1>2, <1>3

LEMMA GoodEmpty ==
  ASSUME NEW copy, NEW at
  PROVE  GoodCalls(<<>>, copy, at) /\ <<>> \in Seq(Call)
BY DEF GoodCalls

LEMMA GoodSeen ==
  ASSUME NEW copy, NEW at, NEW h \in Host, h \in DOMAIN copy.hosts
  PROVE  /\ GoodCalls(<<[op |-> "seen", host |-> h]>>, copy, at)
         /\ <<[op |-> "seen", host |-> h]>> \in Seq(Call)
<1>1. [op |-> "seen", host |-> h] \in Call
  BY DEF Call
<1>2. <<[op |-> "seen", host |-> h]>> \in Seq(Call)
  BY <1>1
<1>3. GoodCalls(<<[op |-> "seen", host |-> h]>>, copy, at)
  BY DEF GoodCalls
<1> QED
  BY <1>2, <1>3

LEMMA CallsStep ==
  ASSUME LedgerInv, NEW s \in Server, now' = now,
         \A i \in Server \ {s} : /\ mem'[i] = mem[i] /\ todo'[i] = todo[i]
                                 /\ reading'[i] = reading[i],
         GoodCalls(todo'[s], mem'[s], now),
         todo'[s] # <<>> /\ reading'[s] # NotReading => ~reading'[s].clean
  PROVE  CallsStand'
<1>1. ASSUME NEW i \in Server \ {s}
      PROVE  /\ GoodCalls(todo'[i], mem'[i], now)
             /\ todo'[i] # <<>> /\ reading'[i] # NotReading => ~reading'[i].clean
  BY DEF LedgerInv, CallsStand, GoodCalls
<1> QED
  BY <1>1 DEF CallsStand, GoodCalls

(* A step that leaves the calls, and loses no Host of a copy.              *)
LEMMA CallsSame ==
  ASSUME LedgerInv, now' \in Nat, now' >= now, todo' = todo, ReadingKept,
         \A i \in Server : todo[i] # <<>> => DOMAIN mem[i].hosts \subseteq DOMAIN mem'[i].hosts
  PROVE  CallsStand'
<1>1. ASSUME NEW i \in Server, NEW k \in DOMAIN todo'[i]
      PROVE  /\ todo'[i][k].op = "forget" => todo'[i][k].at <= now'
             /\ todo'[i][k].op = "seen" => todo'[i][k].host \in DOMAIN mem'[i].hosts
  <2>1. k \in DOMAIN todo[i] /\ todo[i] # <<>> /\ todo[i][k] \in Call /\ now \in Nat
    BY TypeFacts
  <2>2. todo[i][k].op = "forget" => todo[i][k].at \in Nat
    BY <2>1, NeverFacts DEF Call
  <2>3. /\ todo[i][k].op = "forget" => todo[i][k].at <= now
        /\ todo[i][k].op = "seen" => todo[i][k].host \in DOMAIN mem[i].hosts
    BY <2>1 DEF LedgerInv, CallsStand
  <2> QED
    BY <2>1, <2>2, <2>3
<1>2. ASSUME NEW i \in Server, todo'[i] # <<>>, reading'[i] # NotReading
      PROVE  ~reading'[i].clean
  BY <1>2 DEF LedgerInv, CallsStand, ReadingKept
<1> QED
  BY <1>1, <1>2 DEF CallsStand

-------------------------------------------------------------------------------
(* Steps of the store                                                      *)

(* HostsKept and SignedFromStore, of one step.                             *)
HostsStep ==
    \A h \in DOMAIN db.hosts :
        IF h \in DOMAIN db'.hosts THEN db'.hosts[h].until >= db.hosts[h].until
        ELSE ~db.hosts[h].gateway /\ db.hosts[h].until <= now
SignedStep ==
    \A c \in db'.reg \ db.reg :
        /\ Cardinality(db'.reg) <= Size(c)
        /\ Bootstrap[c] \notin db.list
        /\ Predecessor[c] # None => Chain(db.reg, Predecessor[c]) \cap db.list = {}
StoreStands == db' \in Stored /\ BindingsStand' /\ HostsStep /\ SignedStep

LEMMA StoreFacts ==
  ASSUME LedgerInv
  PROVE  /\ db \in Stored /\ db.hosts \in Rows /\ db.bindings \in [Agent -> Host \cup {None}]
         /\ db.reg \in SUBSET Certificate /\ db.list \in SUBSET Certificate /\ db.version \in Nat
         /\ db.hosts \in [DOMAIN db.hosts -> Row] /\ DOMAIN db.hosts \in SUBSET Host
         /\ \A h \in DOMAIN db.hosts : db.hosts[h].until \in Nat
<1>1. db \in Stored
  BY TypeFacts
<1>2. db.hosts \in [DOMAIN db.hosts -> Row] /\ DOMAIN db.hosts \in SUBSET Host
  BY <1>1, StoredFacts, RowsFacts
<1>3. \A h \in DOMAIN db.hosts : db.hosts[h].until \in Nat
  BY <1>2, NeverFacts DEF Row
<1> QED
  BY <1>1, <1>2, <1>3, StoredFacts

LEMMA StoreSame ==
  ASSUME LedgerInv, db' = db
  PROVE  StoreStands
<1>1. BindingsStand'
  BY DEF LedgerInv, BindingsStand
<1>2. HostsStep
  BY StoreFacts DEF HostsStep
<1> QED
  BY <1>1, <1>2, StoreFacts DEF StoreStands, SignedStep

(* The Hosts grow and the bindings stay.                                   *)
LEMMA GrownStands ==
  ASSUME LedgerInv, Grown(db.hosts, db'.hosts), db'.bindings = db.bindings
  PROVE  BindingsStand' /\ HostsStep
<1>1. HostsStep
  BY DEF HostsStep, Grown
<1>2. ASSUME NEW u \in Agent, db'.bindings[u] # None
      PROVE  db'.bindings[u] \in DOMAIN db'.hosts /\ ~db'.hosts[db'.bindings[u]].gateway
  <2>1. PICK h : h = db.bindings[u]
    OBVIOUS
  <2>2. h \in DOMAIN db.hosts /\ ~db.hosts[h].gateway
    BY <1>2, <2>1 DEF LedgerInv, BindingsStand
  <2> QED
    BY <2>1, <2>2 DEF Grown
<1> QED
  BY <1>1, <1>2 DEF BindingsStand

LEMMA StoreGrown ==
  ASSUME LedgerInv, NEW hosts \in Rows, Grown(db.hosts, hosts), db' = [db EXCEPT !.hosts = hosts]
  PROVE  StoreStands /\ db'.list = db.list /\ db'.version = db.version
<1>1. /\ db' \in Stored /\ db'.hosts = hosts /\ db'.bindings = db.bindings /\ db'.reg = db.reg
      /\ db'.list = db.list /\ db'.version = db.version
  BY StoreFacts DEF Stored, Rows
<1>2. BindingsStand' /\ HostsStep
  BY <1>1, GrownStands
<1> QED
  BY <1>1, <1>2 DEF StoreStands, SignedStep

(* The list written, and an entry of the register removed.                 *)
LEMMA StoreListed ==
  ASSUME LedgerInv, NEW list \in SUBSET Certificate,
         db' = [db EXCEPT !.list = list, !.version = @ + 1]
  PROVE  StoreStands /\ db'.list = list /\ db'.version = db.version + 1
<1>1. /\ db' \in Stored /\ db'.hosts = db.hosts /\ db'.bindings = db.bindings /\ db'.reg = db.reg
      /\ db'.list = list /\ db'.version = db.version + 1
  <2>1. db \in Stored /\ db.version + 1 \in Nat
    BY StoreFacts
  <2> QED
    BY <2>1 DEF Stored
<1>2. BindingsStand'
  BY <1>1 DEF LedgerInv, BindingsStand
<1>3. HostsStep
  BY <1>1, StoreFacts DEF HostsStep
<1> QED
  BY <1>1, <1>2, <1>3 DEF StoreStands, SignedStep

LEMMA StoreRemoved ==
  ASSUME LedgerInv, NEW c, db' = [db EXCEPT !.reg = @ \ {c}]
  PROVE  StoreStands /\ db'.list = db.list /\ db'.version = db.version
<1>1. /\ db' \in Stored /\ db'.hosts = db.hosts /\ db'.bindings = db.bindings
      /\ db'.reg = db.reg \ {c} /\ db'.list = db.list /\ db'.version = db.version
  BY StoreFacts DEF Stored
<1>2. BindingsStand'
  BY <1>1 DEF LedgerInv, BindingsStand
<1>3. HostsStep
  BY <1>1, StoreFacts DEF HostsStep
<1> QED
  BY <1>1, <1>2, <1>3 DEF StoreStands, SignedStep

(* Hosts that have ended go, with what is bound to them.                   *)
LEMMA StoreForgotten ==
  ASSUME LedgerInv, NEW names, NEW at \in Nat, at <= now,
         db' = [db EXCEPT !.hosts = Without(@, ForgottenOf(db.hosts, names, at)),
                          !.bindings = Unbound(ForgottenOf(db.hosts, names, at))]
  PROVE  StoreStands /\ db'.list = db.list /\ db'.version = db.version
<1> DEFINE gone == ForgottenOf(db.hosts, names, at)
           hosts == Without(db.hosts, gone)
           bindings == Unbound(gone)
<1>1. /\ hosts \in Rows /\ DOMAIN hosts = DOMAIN db.hosts \ gone
      /\ \A h \in DOMAIN db.hosts \ gone : hosts[h] = db.hosts[h]
  BY StoreFacts, WithoutRows
<1>2. /\ bindings \in [Agent -> Host \cup {None}]
      /\ \A u \in Agent : bindings[u] # None => bindings[u] = db.bindings[u] /\ bindings[u] \notin gone
  BY StoreFacts DEF Unbound
<1>3. \A h \in DOMAIN db.hosts : h \in gone => ~db.hosts[h].gateway /\ db.hosts[h].until <= at
  BY DEF ForgottenOf
<1>4. db' = [db EXCEPT !.hosts = hosts, !.bindings = bindings]
  OBVIOUS
<1> HIDE DEF hosts, bindings, gone
<1>5. /\ db' \in Stored /\ db'.hosts = hosts /\ db'.bindings = bindings
      /\ db'.reg = db.reg /\ db'.list = db.list /\ db'.version = db.version
  BY <1>1, <1>2, <1>4, StoreFacts DEF Stored, Rows
<1>6. BindingsStand'
  <2>1. ASSUME NEW u \in Agent, bindings[u] # None
        PROVE  bindings[u] \in DOMAIN hosts /\ ~hosts[bindings[u]].gateway
    <3>1. PICK h : h = db.bindings[u]
      OBVIOUS
    <3>2. h \in DOMAIN db.hosts /\ ~db.hosts[h].gateway /\ bindings[u] = h /\ h \notin gone
      BY <1>2, <2>1, <3>1 DEF LedgerInv, BindingsStand
    <3> QED
      BY <1>1, <3>2
  <2> QED
    BY <1>5, <2>1 DEF BindingsStand
<1>7. HostsStep
  <2>1. ASSUME NEW h \in DOMAIN db.hosts
        PROVE  IF h \in DOMAIN hosts THEN hosts[h].until >= db.hosts[h].until
               ELSE ~db.hosts[h].gateway /\ db.hosts[h].until <= now
    <3>1. db.hosts[h].until \in Nat /\ now \in Nat
      BY StoreFacts, TypeFacts
    <3> QED
      BY <1>1, <1>3, <3>1
  <2> QED
    BY <1>5, <2>1 DEF HostsStep
<1> QED
  BY <1>5, <1>6, <1>7 DEF StoreStands, SignedStep

(* A binding goes, is made, or moves.                                      *)
LEMMA StoreBound ==
  ASSUME LedgerInv, NEW hosts \in Rows, Grown(db.hosts, hosts),
         NEW bindings \in [Agent -> Host \cup {None}],
         \A u \in Agent : \/ bindings[u] \in {None, db.bindings[u]}
                          \/ bindings[u] \in DOMAIN hosts /\ ~hosts[bindings[u]].gateway,
         db' = [db EXCEPT !.hosts = hosts, !.bindings = bindings]
  PROVE  StoreStands /\ db'.list = db.list /\ db'.version = db.version
<1>1. /\ db' \in Stored /\ db'.hosts = hosts /\ db'.bindings = bindings
      /\ db'.reg = db.reg /\ db'.list = db.list /\ db'.version = db.version
  BY StoreFacts DEF Stored, Rows
<1>2. HostsStep
  BY <1>1 DEF HostsStep, Grown
<1>3. BindingsStand'
  <2>1. ASSUME NEW u \in Agent, bindings[u] # None, bindings[u] = db.bindings[u]
        PROVE  bindings[u] \in DOMAIN hosts /\ ~hosts[bindings[u]].gateway
    BY <2>1 DEF LedgerInv, BindingsStand, Grown
  <2>2. ASSUME NEW u \in Agent, bindings[u] # None
        PROVE  bindings[u] \in DOMAIN hosts /\ ~hosts[bindings[u]].gateway
    BY <2>1, <2>2
  <2> QED
    BY <1>1, <2>2 DEF BindingsStand
<1> QED
  BY <1>1, <1>2, <1>3 DEF StoreStands, SignedStep

(* The mark: what it ends is released with it.                             *)
LEMMA StoreMarked ==
  ASSUME LedgerInv, NEW h \in Host, NEW gateway \in BOOLEAN, db' = MarkedRow(db, h, gateway)
  PROVE  StoreStands /\ db'.list = db.list /\ db'.version = db.version
<1> DEFINE made == InsertHostRow(db.hosts, h, [gateway |-> gateway, until |-> 0])
           hosts == [made EXCEPT ![h].gateway = gateway]
           bindings == IF gateway THEN Unbound({h}) ELSE db.bindings
<1>1. [gateway |-> gateway, until |-> 0] \in Row
  BY NeverFacts DEF Row
<1>2. made \in Rows /\ Grown(db.hosts, made) /\ h \in DOMAIN made
  BY <1>1, StoreFacts, InsertRow
<1> HIDE DEF made
<1>3. made \in [DOMAIN made -> Row] /\ DOMAIN made \in SUBSET Host
  BY <1>2, RowsFacts
<1>4. /\ hosts \in [DOMAIN made -> Row] /\ DOMAIN hosts = DOMAIN made
      /\ \A g \in DOMAIN made : hosts[g].until = made[g].until
      /\ \A g \in DOMAIN made \ {h} : hosts[g].gateway = made[g].gateway
      /\ hosts[h].gateway = gateway
  BY <1>2, <1>3 DEF Row
<1>5. /\ bindings \in [Agent -> Host \cup {None}]
      /\ \A u \in Agent : bindings[u] \in {None, db.bindings[u]}
      /\ \A u \in Agent : gateway => bindings[u] # h
  BY LedgerAssumption, StoreFacts DEF Unbound
<1>6. db' = [db EXCEPT !.hosts = hosts, !.bindings = bindings]
  BY DEF MarkedRow, made
<1> HIDE DEF hosts, bindings
<1>7. hosts \in Rows
  BY <1>3, <1>4 DEF Rows
<1>8. /\ db' \in Stored /\ db'.hosts = hosts /\ db'.bindings = bindings
      /\ db'.reg = db.reg /\ db'.list = db.list /\ db'.version = db.version
  BY <1>5, <1>6, <1>7, StoreFacts DEF Stored, Rows
<1>9. HostsStep
  BY <1>2, <1>4, <1>8 DEF HostsStep, Grown
<1>10. BindingsStand'
  <2>1. ASSUME NEW u \in Agent, bindings[u] # None
        PROVE  bindings[u] \in DOMAIN hosts /\ ~hosts[bindings[u]].gateway
    <3>1. PICK g : g = db.bindings[u]
      OBVIOUS
    <3>2. bindings[u] = g /\ (gateway => g # h)
      BY <1>5, <2>1, <3>1
    <3>3. g \in DOMAIN db.hosts /\ ~db.hosts[g].gateway
      BY <2>1, <3>1, <3>2 DEF LedgerInv, BindingsStand
    <3>4. g \in DOMAIN made /\ ~made[g].gateway
      BY <1>2, <3>3 DEF Grown
    <3> QED
      BY <1>4, <3>2, <3>4
  <2> QED
    BY <1>8, <2>1 DEF BindingsStand
<1> QED
  BY <1>8, <1>9, <1>10 DEF StoreStands, SignedStep

(* A certificate joins the register: decided from what is stored.          *)
LEMMA StoreRegistered ==
  ASSUME LedgerInv, NEW c \in Certificate, Registers(db, c), NEW mints,
         db' = [db EXCEPT !.reg = @ \cup {c},
                          !.hosts = IF mints THEN WriteSeen(@, HostOf[c], Minted(c)) ELSE @]
  PROVE  StoreStands /\ db'.list = db.list /\ db'.version = db.version
<1> DEFINE hosts == IF mints THEN WriteSeen(db.hosts, HostOf[c], Minted(c)) ELSE db.hosts
<1>1. Minted(c) \in Row /\ HostOf[c] \in Host
  BY LedgerAssumption, EndFacts DEF Minted, Row
<1>2. hosts \in Rows /\ Grown(db.hosts, hosts)
  <2>1. Grown(db.hosts, db.hosts)
    BY StoreFacts DEF Grown
  <2> QED
    BY <1>1, <2>1, StoreFacts, WriteSeenRow
<1>3. db' = [db EXCEPT !.reg = @ \cup {c}, !.hosts = hosts]
  OBVIOUS
<1> HIDE DEF hosts
<1>4. /\ db' \in Stored /\ db'.hosts = hosts /\ db'.bindings = db.bindings
      /\ db'.reg = db.reg \cup {c} /\ db'.list = db.list /\ db'.version = db.version
  <2>1. db \in Stored /\ db.reg \cup {c} \in SUBSET Certificate
    BY StoreFacts
  <2> QED
    BY <1>2, <1>3, <2>1 DEF Stored, Rows
<1>5. BindingsStand' /\ HostsStep
  BY <1>2, <1>4, GrownStands
<1>6. SignedStep
  <2>1. SUFFICES ASSUME c \notin db.reg
                 PROVE  /\ Cardinality(db.reg \cup {c}) <= Size(c) /\ Bootstrap[c] \notin db.list
                        /\ Predecessor[c] # None => Chain(db.reg, Predecessor[c]) \cap db.list = {}
    BY <1>4 DEF SignedStep
  <2>2. IsFiniteSet(db.reg) /\ Cardinality(db.reg) \in Nat
    BY LedgerAssumption, StoreFacts, FS_Subset, FS_CardinalityType
  <2>3. Cardinality(db.reg \cup {c}) = Cardinality(db.reg) + 1
    BY <2>1, <2>2, FS_AddElement
  <2>4. db.reg \ {c} = db.reg
    BY <2>1
  <2>5. Cardinality(db.reg) < Size(c) /\ Size(c) \in Int
    <3>1. Cardinality(db.reg) < Size(c)
      BY <2>4 DEF Registers
    <3>2. Size(c) \in Int
      BY LedgerAssumption DEF Size
    <3> QED
      BY <3>1, <3>2
  <2>6. Cardinality(db.reg \cup {c}) <= Size(c)
    BY <2>2, <2>3, <2>5
  <2>7. Bootstrap[c] \notin db.list
    BY LedgerAssumption, StoreFacts DEF Registers
  <2> QED
    BY <2>6, <2>7 DEF Registers
<1> QED
  BY <1>4, <1>5, <1>6 DEF StoreStands

-------------------------------------------------------------------------------
(* The steps                                                               *)

(* What a step is shown to keep.                                           *)
Kept == LedgerInv' /\ HostsStep /\ SignedStep

LEMMA Assembled ==
  ASSUME StoreStands, LedgerTypeOK', CallsStand', ListsStand'
  PROVE  Kept
BY DEF Kept, StoreStands, ListsStand, LedgerInv

(* What neither the store nor an act has a part in.                        *)
LEMMA Outside ==
  ASSUME LedgerInv, UNCHANGED <<db, mem, todo, reading, signed, ghosts>>,
         now' \in 1 .. MaxTime, now' >= now,
         due' \in [Server -> BOOLEAN], listening' \in [Server -> BOOLEAN],
         sessions' \in [Server -> SUBSET Certificate], unchecked' \subseteq Server \X Certificate,
         spent' \in [Bounded -> Nat]
  PROVE  Kept
<1>1. StoreStands
  BY StoreSame
<1>2. ReadingKept /\ MemKept
  BY UnchangedReading, SameCopies
<1>3. ListsStand'
  BY <1>2, ListsKept
<1>4. now' \in Nat
  BY NeverFacts
<1>5. CallsStand'
  BY <1>2, <1>4, CallsSame
<1>6. LedgerTypeOK'
  BY TypeFacts DEF LedgerTypeOK, ghosts
<1> QED
  BY <1>1, <1>3, <1>5, <1>6, Assembled

LEMMA TickKeeps ==
  ASSUME LedgerInv, Tick
  PROVE  Kept
<1>1. now' \in 1 .. MaxTime /\ now' >= now
  BY TypeFacts, NeverFacts DEF Tick
<1> QED
  BY <1>1, TypeFacts, Outside DEF Tick, ears, open, ghosts

LEMMA RenewedKeeps ==
  ASSUME LedgerInv, NEW s \in Server, Renewed(s) \/ Deaf(s) \/ Listen(s)
  PROVE  Kept
<1>1. due' \in [Server -> BOOLEAN] /\ listening' \in [Server -> BOOLEAN]
  BY TypeFacts DEF Renewed, Deaf, Listen
<1>2. spent' \in [Bounded -> Nat]
  <2>1. "deaf" \in Bounded
    BY DEF Bounded
  <2> QED
    BY <2>1, TypeFacts, SpendFacts DEF Renewed, Deaf, Listen
<1>3. now' = now /\ now' >= now
  BY TypeFacts DEF Renewed, Deaf, Listen
<1> QED
  BY <1>1, <1>2, <1>3, TypeFacts, Outside DEF Renewed, Deaf, Listen, open, ghosts

LEMMA SessionKeeps ==
  ASSUME LedgerInv, NEW s \in Server, NEW c \in Certificate, Connect(s, c) \/ Tripped(s, c)
  PROVE  Kept
<1>1. sessions' \in [Server -> SUBSET Certificate] /\ unchecked' \subseteq Server \X Certificate
  <2>1. CASE Connect(s, c)
    BY <2>1, TypeFacts DEF Connect
  <2>2. CASE Tripped(s, c)
    BY <2>2, TypeFacts DEF Tripped
  <2> QED
    BY <2>1, <2>2
<1>2. spent' \in [Bounded -> Nat]
  <2>1. "connects" \in Bounded
    BY DEF Bounded
  <2> QED
    BY <2>1, TypeFacts, SpendFacts DEF Connect, Tripped
<1>3. now' = now /\ now' >= now
  BY TypeFacts DEF Connect, Tripped
<1> QED
  BY <1>1, <1>2, <1>3, TypeFacts, Outside DEF Connect, Tripped, ears, ghosts

(* The calls of an act: what one leaves of them.                           *)
LEMMA RestFacts ==
  ASSUME LedgerInv, NEW s \in Server, todo[s] # <<>>, Rest(s)
  PROVE  /\ todo' \in [Server -> Seq(Call)] /\ todo'[s] = Tail(todo[s])
         /\ \A i \in Server \ {s} : todo'[i] = todo[i]
         /\ Head(todo[s]) \in Call /\ GoodCalls(Tail(todo[s]), mem[s], now)
         /\ Head(todo[s]).op = "forget" => Head(todo[s]).at <= now
         /\ Head(todo[s]).op = "seen" => Head(todo[s]).host \in DOMAIN mem[s].hosts
         /\ reading[s] # NotReading => ~reading[s].clean
<1>1. todo[s] \in Seq(Call) /\ todo \in [Server -> Seq(Call)]
  BY TypeFacts
<1>2. Head(todo[s]) \in Call /\ Tail(todo[s]) \in Seq(Call)
  BY <1>1, HeadTailProperties
<1>3. GoodCalls(todo[s], mem[s], now) /\ GoodCalls(Tail(todo[s]), mem[s], now)
  BY <1>1, GoodNow, GoodTail
<1>4. 1 \in DOMAIN todo[s] /\ Head(todo[s]) = todo[s][1]
  BY <1>1
<1>5. reading[s] # NotReading => ~reading[s].clean
  BY DEF LedgerInv, CallsStand
<1>6. /\ todo' \in [Server -> Seq(Call)] /\ todo'[s] = Tail(todo[s])
      /\ \A i \in Server \ {s} : todo'[i] = todo[i]
  BY <1>1, <1>2 DEF Rest
<1> QED
  BY <1>2, <1>3, <1>4, <1>5, <1>6 DEF GoodCalls

LEMMA GoodCopies ==
  ASSUME NEW calls, NEW copy, NEW other, NEW at, GoodCalls(calls, copy, at),
         DOMAIN other.hosts = DOMAIN copy.hosts
  PROVE  GoodCalls(calls, other, at)
BY DEF GoodCalls

(* A call is made: the store stands, its instance's copy keeps its Hosts.  *)
LEMMA CallMade ==
  ASSUME LedgerInv, NEW s \in Server, todo[s] # <<>>, Rest(s), NEW change, Announced(s, change),
         StoreStands, ListsStand', mem' \in [Server -> Copy],
         \A i \in Server \ {s} : mem'[i] = mem[i], DOMAIN mem'[s].hosts = DOMAIN mem[s].hosts,
         versions' \in Seq(SUBSET Certificate), answered' \subseteq Server \X Certificate,
         UNCHANGED <<now, reading, open, signed, spent>>
  PROVE  Kept
<1>1. GoodCalls(todo'[s], mem'[s], now)
  BY RestFacts, GoodCopies
<1>2. CallsStand'
  BY <1>1, RestFacts, CallsStep
<1>3. LedgerTypeOK'
  BY RestFacts, AnnouncedFacts, TypeFacts DEF LedgerTypeOK, StoreStands, open
<1> QED
  BY <1>2, <1>3, Assembled

LEMMA WriteUntilKeeps ==
  ASSUME LedgerInv, NEW s \in Server, WriteUntil(s)
  PROVE  Kept
<1>1. todo[s] # <<>> /\ Rest(s)
  BY DEF WriteUntil, Pending
<1>2. PICK call : call = Head(todo[s])
  OBVIOUS
<1>3. call \in Call /\ call.op \in {"extend", "seen"}
  BY <1>1, <1>2, RestFacts DEF WriteUntil, Pending
<1> DEFINE row == [gateway |-> mem[s].hosts[call.host].gateway,
                   until |-> mem[s].hosts[call.host].until]
           hosts == IF call.op = "extend" THEN ExtendAll(db.hosts, call.moves)
                    ELSE WriteSeen(db.hosts, call.host, row)
<1>4. hosts \in Rows /\ Grown(db.hosts, hosts)
  <2>1. CASE call.op = "extend"
    <3>1. call.moves \in Moves
      BY <1>3, <2>1 DEF Call, Moves
    <3> QED
      BY <2>1, <3>1, StoreFacts, ExtendAllRows
  <2>2. CASE call.op = "seen"
    <3>1. call.host \in DOMAIN mem[s].hosts /\ mem[s] \in Copy
      BY <1>1, <1>2, <2>2, RestFacts, TypeFacts
    <3>2. mem[s].hosts \in [DOMAIN mem[s].hosts -> HeldRow] /\ DOMAIN mem[s].hosts \in SUBSET Host
      BY <3>1, CopyFacts, RowsFacts
    <3>3. row \in Row /\ call.host \in Host
      BY <3>1, <3>2 DEF HeldRow, Row
    <3> HIDE DEF row
    <3> QED
      BY <2>2, <3>3, StoreFacts, WriteSeenRow
  <2> QED
    BY <1>3, <2>1, <2>2
<1>5. db' = [db EXCEPT !.hosts = hosts] /\ Announced(s, hosts # db.hosts)
  BY <1>2 DEF WriteUntil
<1> HIDE DEF hosts
<1>6. StoreStands /\ db'.list = db.list /\ db'.version = db.version
  BY <1>4, <1>5, StoreGrown
<1>7. ListsStand'
  BY <1>6, SameCopies, UnchangedReading, ListsKept DEF WriteUntil
<1> QED
  BY <1>1, <1>5, <1>6, <1>7, TypeFacts, CallMade DEF WriteUntil, ghosts

LEMMA ForgetKeeps ==
  ASSUME LedgerInv, NEW s \in Server, Forget(s)
  PROVE  Kept
<1>1. todo[s] # <<>> /\ Rest(s)
  BY DEF Forget, Pending
<1>2. PICK call : call = Head(todo[s])
  OBVIOUS
<1>3. call \in Call /\ call.op = "forget" /\ call.at <= now
  BY <1>1, <1>2, RestFacts DEF Forget, Pending
<1>4. call.at \in Nat
  BY <1>3, NeverFacts DEF Call
<1>5. /\ db' = [db EXCEPT !.hosts = Without(@, ForgottenOf(db.hosts, call.hosts, call.at)),
                          !.bindings = Unbound(ForgottenOf(db.hosts, call.hosts, call.at))]
      /\ Announced(s, ForgottenOf(db.hosts, call.hosts, call.at) # {})
  BY <1>2 DEF Forget
<1>6. StoreStands /\ db'.list = db.list /\ db'.version = db.version
  BY <1>3, <1>4, <1>5, StoreForgotten
<1>7. ListsStand'
  BY <1>6, SameCopies, UnchangedReading, ListsKept DEF Forget
<1> QED
  BY <1>1, <1>5, <1>6, <1>7, TypeFacts, CallMade DEF Forget, ghosts

LEMMA RemoveIssuedKeeps ==
  ASSUME LedgerInv, NEW s \in Server, RemoveIssued(s)
  PROVE  Kept
<1>1. todo[s] # <<>> /\ Rest(s) /\ Announced(s, TRUE)
  BY DEF RemoveIssued, Pending
<1>2. PICK c : c = Head(todo[s]).certificate
  OBVIOUS
<1>3. db' = [db EXCEPT !.reg = @ \ {c}] /\ mem' = [mem EXCEPT ![s].reg = @ \ {c}]
  BY <1>2 DEF RemoveIssued
<1>4. StoreStands /\ db'.list = db.list /\ db'.version = db.version
  BY <1>3, StoreRemoved
<1>5. /\ MemKept /\ mem' \in [Server -> Copy] /\ \A i \in Server \ {s} : mem'[i] = mem[i]
      /\ mem'[s].hosts = mem[s].hosts
  <2> DEFINE n == [mem[s] EXCEPT !.reg = @ \ {c}]
  <2>1. mem[s] \in Copy /\ mem' = [mem EXCEPT ![s] = n]
    BY <1>3, TypeFacts
  <2>2. SameList(mem[s], n) /\ n.hosts = mem[s].hosts
    BY <2>1 DEF SameList, Copy
  <2> HIDE DEF n
  <2> QED
    BY <2>1, <2>2, OneCopy, TypeFacts DEF MemKept
<1>6. ListsStand'
  BY <1>4, <1>5, UnchangedReading, ListsKept DEF RemoveIssued
<1> QED
  BY <1>1, <1>4, <1>5, <1>6, TypeFacts, CallMade DEF RemoveIssued, ghosts

LEMMA FailKeeps ==
  ASSUME LedgerInv, NEW s \in Server, Fail(s)
  PROVE  Kept
<1>1. /\ todo' \in [Server -> Seq(Call)] /\ GoodCalls(todo'[s], mem[s], now)
      /\ \A i \in Server \ {s} : todo'[i] = todo[i]
  <2>1. CASE Rest(s)
    BY <2>1, RestFacts DEF Fail
  <2>2. CASE todo' = [todo EXCEPT ![s] = <<>>]
    BY <2>2, TypeFacts, GoodEmpty
  <2> QED
    BY <2>1, <2>2 DEF Fail
<1>2. StoreStands /\ ReadingKept /\ MemKept
  BY StoreSame, UnchangedReading, SameCopies DEF Fail
<1>3. ListsStand'
  BY <1>2, ListsKept DEF Fail
<1>4. reading[s] # NotReading => ~reading[s].clean
  BY DEF LedgerInv, CallsStand, Fail
<1>5. CallsStand'
  BY <1>1, <1>4, CallsStep DEF Fail
<1>6. spent' \in [Bounded -> Nat]
  <2>1. "fails" \in Bounded
    BY DEF Bounded
  <2> QED
    BY <2>1, SpendFacts DEF Fail
<1>7. LedgerTypeOK'
  BY <1>1, <1>6, TypeFacts DEF LedgerTypeOK, Fail, ears, open, ghosts
<1> QED
  BY <1>2, <1>3, <1>5, <1>7, Assembled

-------------------------------------------------------------------------------
(* The list                                                                *)

LEMMA VersionFacts ==
  ASSUME LedgerInv
  PROVE  /\ Len(versions) = db.version + 1 /\ versions[db.version + 1] = db.list
         /\ db.version \in Nat /\ versions \in Seq(SUBSET Certificate)
         /\ \A i \in Server :
                /\ SaysNoMore(mem[i]) /\ mem[i] \in Copy /\ mem[i].version <= db.version
                /\ reading[i] # NotReading =>
                     /\ SaysNoMore(reading[i].ledger) /\ reading[i].ledger \in Copy
                     /\ reading[i].ledger.version <= db.version
                     /\ reading[i].clean => mem[i].version <= reading[i].ledger.version
BY TypeFacts, StoreFacts, ReadingFacts DEF LedgerInv, VersionIsHeld, VersionsStand

(* A copy at the version stored holds what is stored.                      *)
LEMMA CurrentHoldsList ==
  ASSUME LedgerInv, NEW copy \in Copy, SaysNoMore(copy), copy.version = db.version
  PROVE  db.list \subseteq copy.list
<1>1. ASSUME NEW c \in db.list PROVE c \in copy.list
  <2>1. c \in Certificate /\ copy.version # NoVersion
    BY StoreFacts DEF NoVersion
  <2>2. ASSUME NEW v \in copy.version .. db.version PROVE c \in versions[v + 1]
    <3>1. v = db.version
      BY VersionFacts
    <3> QED
      BY <3>1, VersionFacts
  <2> QED
    BY <2>1, <2>2 DEF SaysNoMore
<1> QED
  BY <1>1

(* A copy that is left says no more once the list is written than before.  *)
LEMMA SaysNoMoreAfter ==
  ASSUME LedgerInv, NEW copy \in Copy, SaysNoMore(copy), copy.version <= db.version, NEW list,
         versions' = Append(versions, list), db'.version = db.version + 1, copy.version # NoVersion,
         NEW c \in Certificate, \A v \in copy.version .. db'.version : c \in versions'[v + 1]
  PROVE  c \in copy.list
<1>1. copy.version \in Nat /\ db.version \in Nat
  BY CopyFacts, VersionFacts
<1>2. ASSUME NEW v \in copy.version .. db.version PROVE c \in versions[v + 1]
  <2>1. v \in copy.version .. db'.version /\ v + 1 \in 1 .. Len(versions)
    BY <1>1, VersionFacts
  <2>2. versions'[v + 1] = versions[v + 1]
    BY <2>1, VersionFacts
  <2> QED
    BY <2>1, <2>2
<1> QED
  BY <1>2 DEF SaysNoMore

LEMMA Written ==
  ASSUME LedgerInv, NEW s \in Server, NEW n \in Copy, mem' = [mem EXCEPT ![s] = n], ReadingKept,
         reading'[s] # NotReading => ~reading'[s].clean,
         NEW list \in SUBSET Certificate, db'.list = list, db'.version = db.version + 1,
         versions' = Append(versions, list),
         n.version = NoVersion \/ (n.version = db.version + 1 /\ list \subseteq n.list),
         answered' \subseteq Server \X Certificate,
         \A a \in answered' : a[2] \in list /\ (a[1] = s => a[2] \in n.list)
                              /\ (a[1] # s => a \in answered)
  PROVE  ListsStand' /\ versions' \in Seq(SUBSET Certificate)
<1>0. /\ mem'[s] = n /\ \A i \in Server \ {s} : mem'[i] = mem[i]
      /\ versions' \in Seq(SUBSET Certificate) /\ Len(versions') = db.version + 2
      /\ versions'[db.version + 2] = list
  BY TypeFacts, VersionFacts
<1>1. AnsweredIsHeld'
  <2>1. ASSUME NEW a \in answered' PROVE a[2] \in mem'[a[1]].list
    <3>1. a[1] \in Server
      OBVIOUS
    <3> QED
      BY <1>0, <3>1 DEF LedgerInv, AnsweredIsHeld
  <2> QED
    BY <2>1 DEF AnsweredIsHeld
<1>2. AnswersStand'
  <2>1. ASSUME NEW a \in answered', reading'[a[1]] # NotReading, reading'[a[1]].clean
        PROVE  a[2] \in reading'[a[1]].ledger.list
    <3>1. a[1] \in Server /\ a[1] # s /\ a \in answered
      BY <2>1
    <3>2. reading'[a[1]] = reading[a[1]]
      BY <2>1, <3>1 DEF ReadingKept
    <3> QED
      BY <2>1, <3>1, <3>2 DEF LedgerInv, AnswersStand
  <2> QED
    BY <2>1 DEF AnswersStand
<1>3. VersionIsHeld'
  <2>1. ASSUME NEW i \in Server, i # s PROVE SaysNoMore(mem[i])'
    <3>1. mem[i] \in Copy /\ SaysNoMore(mem[i]) /\ mem[i].version <= db.version /\ mem'[i] = mem[i]
      BY <1>0, <2>1, VersionFacts
    <3>2. SUFFICES ASSUME mem'[i].version # NoVersion, NEW c \in Certificate,
                          \A v \in mem'[i].version .. db'.version : c \in versions'[v + 1]
                   PROVE  c \in mem'[i].list
      BY DEF SaysNoMore
    <3> QED
      BY <3>1, <3>2, SaysNoMoreAfter
  <2>2. SaysNoMore(mem[s])'
    <3>1. SUFFICES ASSUME mem'[s].version # NoVersion, NEW c \in Certificate,
                          \A v \in mem'[s].version .. db'.version : c \in versions'[v + 1]
                   PROVE  c \in mem'[s].list
      BY DEF SaysNoMore
    <3>2. n.version = db.version + 1 /\ list \subseteq n.list
      BY <1>0, <3>1
    <3>3. db.version + 1 \in mem'[s].version .. db'.version
      BY <1>0, <3>2, VersionFacts
    <3>4. c \in versions'[(db.version + 1) + 1] /\ (db.version + 1) + 1 = db.version + 2
      BY <3>1, <3>3, VersionFacts
    <3> QED
      BY <1>0, <3>2, <3>4
  <2> QED
    BY <2>1, <2>2 DEF VersionIsHeld
<1>4. VersionsStand'
  <2>1. Len(versions') = db'.version + 1 /\ versions'[db'.version + 1] = db'.list
    BY <1>0, VersionFacts
  <2>2. ASSUME NEW i \in Server PROVE mem'[i].version <= db'.version
    <3>1. mem[i].version \in Int /\ n.version \in Int /\ mem[i].version <= db.version
      BY VersionFacts, CopyFacts DEF NoVersion
    <3> QED
      BY <1>0, <3>1, VersionFacts DEF NoVersion
  <2>3. ASSUME NEW i \in Server, reading'[i] # NotReading
        PROVE  /\ reading'[i].ledger.version <= db'.version /\ SaysNoMore(reading[i].ledger)'
               /\ reading'[i].clean => mem'[i].version <= reading'[i].ledger.version
    <3>1. /\ reading[i] # NotReading /\ reading'[i].ledger = reading[i].ledger
          /\ reading'[i].clean => reading[i].clean
      BY <2>3 DEF ReadingKept
    <3>2. PICK copy \in Copy : copy = reading[i].ledger
      BY <3>1, VersionFacts
    <3>3. /\ copy.version <= db.version /\ SaysNoMore(copy) /\ copy.version \in Int
          /\ reading[i].clean => mem[i].version <= copy.version
      BY <3>1, <3>2, VersionFacts, CopyFacts DEF NoVersion
    <3>4. reading'[i].ledger.version <= db'.version
      BY <3>1, <3>2, <3>3, VersionFacts
    <3>5. SaysNoMore(reading[i].ledger)'
      <4>1. SUFFICES ASSUME reading'[i].ledger.version # NoVersion, NEW c \in Certificate,
                            \A v \in reading'[i].ledger.version .. db'.version : c \in versions'[v + 1]
                     PROVE  c \in reading'[i].ledger.list
        BY DEF SaysNoMore
      <4>2. c \in copy.list
        BY <3>1, <3>2, <3>3, <4>1, SaysNoMoreAfter
      <4> QED
        BY <3>1, <3>2, <4>2
    <3>6. ASSUME reading'[i].clean PROVE mem'[i].version <= reading'[i].ledger.version
      <4>1. i # s
        BY <2>3, <3>6
      <4> QED
        BY <1>0, <3>1, <3>2, <3>3, <3>6, <4>1
    <3> QED
      BY <3>4, <3>5, <3>6
  <2> QED
    BY <2>1, <2>2, <2>3 DEF VersionsStand
<1> QED
  BY <1>0, <1>1, <1>2, <1>3, <1>4 DEF ListsStand

(* The list stays as it is, and one instance takes up a part of it.        *)
LEMMA Unwritten ==
  ASSUME LedgerInv, NEW s \in Server, NEW n \in Copy, mem' = [mem EXCEPT ![s] = n], ReadingKept,
         reading'[s] # NotReading => ~reading'[s].clean,
         db'.list = db.list, db'.version = db.version, versions' = versions,
         n.version = mem[s].version, mem[s].list \cap db.list \subseteq n.list,
         answered' \subseteq Server \X Certificate,
         \A a \in answered' : a[2] \in db.list /\ (a[1] = s => a[2] \in n.list)
                              /\ (a[1] # s => a \in answered)
  PROVE  ListsStand'
<1>0. mem'[s] = n /\ \A i \in Server \ {s} : mem'[i] = mem[i]
  BY TypeFacts
<1>1. AnsweredIsHeld'
  <2>1. ASSUME NEW a \in answered' PROVE a[2] \in mem'[a[1]].list
    <3>1. a[1] \in Server
      OBVIOUS
    <3> QED
      BY <1>0, <3>1 DEF LedgerInv, AnsweredIsHeld
  <2> QED
    BY <2>1 DEF AnsweredIsHeld
<1>2. AnswersStand'
  <2>1. ASSUME NEW a \in answered', reading'[a[1]] # NotReading, reading'[a[1]].clean
        PROVE  a[2] \in reading'[a[1]].ledger.list
    <3>1. a[1] \in Server /\ a[1] # s /\ a \in answered
      BY <2>1
    <3>2. reading'[a[1]] = reading[a[1]]
      BY <2>1, <3>1 DEF ReadingKept
    <3> QED
      BY <2>1, <3>1, <3>2 DEF LedgerInv, AnswersStand
  <2> QED
    BY <2>1 DEF AnswersStand
<1>3. VersionIsHeld'
  <2>1. ASSUME NEW i \in Server, i # s PROVE SaysNoMore(mem[i])'
    BY <1>0, <2>1, VersionFacts DEF SaysNoMore
  <2>2. SaysNoMore(mem[s])'
    <3>1. SUFFICES ASSUME mem'[s].version # NoVersion, NEW c \in Certificate,
                          \A v \in mem'[s].version .. db'.version : c \in versions'[v + 1]
                   PROVE  c \in mem'[s].list
      BY DEF SaysNoMore
    <3>2. mem[s].version \in Nat /\ mem[s].version <= db.version /\ db.version \in Nat
      BY <1>0, <3>1, VersionFacts, CopyFacts
    <3>3. db.version \in mem'[s].version .. db'.version
      BY <1>0, <3>2
    <3>4. c \in db.list
      BY <3>1, <3>3, VersionFacts
    <3>5. c \in mem[s].list
      BY <1>0, <3>1, VersionFacts DEF SaysNoMore
    <3> QED
      BY <1>0, <3>4, <3>5
  <2> QED
    BY <2>1, <2>2 DEF VersionIsHeld
<1>4. VersionsStand'
  <2>1. Len(versions') = db'.version + 1 /\ versions'[db'.version + 1] = db'.list
    BY VersionFacts
  <2>2. ASSUME NEW i \in Server PROVE mem'[i].version <= db'.version
    BY <1>0, VersionFacts
  <2>3. ASSUME NEW i \in Server, reading'[i] # NotReading
        PROVE  /\ reading'[i].ledger.version <= db'.version /\ SaysNoMore(reading[i].ledger)'
               /\ reading'[i].clean => mem'[i].version <= reading'[i].ledger.version
    <3>1. /\ reading[i] # NotReading /\ reading'[i].ledger = reading[i].ledger
          /\ reading'[i].clean => reading[i].clean
      BY <2>3 DEF ReadingKept
    <3>2. /\ reading[i].ledger.version <= db.version /\ SaysNoMore(reading[i].ledger)
          /\ reading[i].clean => mem[i].version <= reading[i].ledger.version
      BY <3>1, VersionFacts
    <3>3. SaysNoMore(reading[i].ledger)'
      BY <3>1, <3>2 DEF SaysNoMore
    <3> QED
      BY <1>0, <3>1, <3>2, <3>3
  <2> QED
    BY <2>1, <2>2, <2>3 DEF VersionsStand
<1> QED
  BY <1>1, <1>2, <1>3, <1>4 DEF ListsStand

LEMMA TookUpFacts ==
  ASSUME LedgerInv, NEW s \in Server, NEW version, version = TookUpOwnWrite(mem[s].version, db.version + 1)
  PROVE  /\ version \in Nat \cup {NoVersion}
         /\ version # NoVersion => version = db.version + 1 /\ mem[s].version = db.version
<1>1. mem[s].version \in Nat \cup {NoVersion} /\ db.version \in Nat
  BY VersionFacts, CopyFacts
<1> QED
  BY <1>1 DEF TookUpOwnWrite, NoVersion

(* An entry of the list goes, and with it every answer that names it.      *)
LEMMA RemovedFacts ==
  ASSUME LedgerInv, NEW s \in Server, NEW c, RemoveRevocation(s, c), ReadingKept,
         reading'[s] # NotReading => ~reading'[s].clean
  PROVE  /\ StoreStands /\ ListsStand' /\ mem' \in [Server -> Copy]
         /\ \A i \in Server \ {s} : mem'[i] = mem[i]
         /\ mem'[s].hosts = mem[s].hosts
         /\ versions' \in Seq(SUBSET Certificate) /\ answered' \subseteq Server \X Certificate
<1>1. mem[s] \in Copy /\ mem \in [Server -> Copy]
  BY TypeFacts
<1>2. /\ answered' \subseteq Server \X Certificate
      /\ \A a \in answered' : a \in answered /\ a[2] \in db.list \ {c} /\ a[2] \in mem[a[1]].list \ {c}
  BY TypeFacts DEF RemoveRevocation, LedgerInv, AnswersStand, AnsweredIsHeld
<1>3. CASE c \in db.list
  <2> DEFINE version == TookUpOwnWrite(mem[s].version, db.version + 1)
             n == [mem[s] EXCEPT !.list = @ \ {c}, !.version = version]
  <2>1. /\ version \in Nat \cup {NoVersion}
        /\ version # NoVersion => version = db.version + 1 /\ mem[s].version = db.version
    BY TookUpFacts
  <2>2. /\ db' = [db EXCEPT !.list = db.list \ {c}, !.version = @ + 1]
        /\ versions' = Append(versions, db.list \ {c}) /\ mem' = [mem EXCEPT ![s] = n]
    BY <1>3, <1>1 DEF RemoveRevocation, ListWritten
  <2> HIDE DEF version
  <2>3. n \in Copy /\ n.list = mem[s].list \ {c} /\ n.version = version /\ n.hosts = mem[s].hosts
    BY <1>1, <2>1 DEF Copy
  <2>4. n.version # NoVersion => n.version = db.version + 1 /\ db.list \ {c} \subseteq n.list
    BY <2>1, <2>3, VersionFacts, CurrentHoldsList
  <2> HIDE DEF n
  <2>5. db.list \ {c} \in SUBSET Certificate
    BY StoreFacts
  <2>6. StoreStands /\ db'.list = db.list \ {c} /\ db'.version = db.version + 1
    BY <2>2, <2>5, StoreListed
  <2>7. ListsStand' /\ versions' \in Seq(SUBSET Certificate)
    <3>0. PICK list \in SUBSET Certificate : list = db.list \ {c}
      BY <2>5
    <3>1. \A a \in answered' : a[2] \in list /\ (a[1] = s => a[2] \in n.list)
                               /\ (a[1] # s => a \in answered)
      BY <1>2, <2>3, <3>0
    <3>2. /\ versions' = Append(versions, list) /\ db'.list = list
          /\ n.version = NoVersion \/ (n.version = db.version + 1 /\ list \subseteq n.list)
      BY <2>2, <2>4, <2>6, <3>0
    <3> QED
      <4>1. /\ answered' \subseteq Server \X Certificate /\ mem' = [mem EXCEPT ![s] = n]
            /\ n \in Copy /\ db'.version = db.version + 1
        BY <1>2, <2>2, <2>3, <2>6
      <4> QED
        BY <3>1, <3>2, <4>1, Written
  <2> QED
    BY <1>1, <1>2, <2>2, <2>3, <2>6, <2>7
<1>4. CASE c \notin db.list
  <2> DEFINE n == [mem[s] EXCEPT !.list = @ \ {c}]
  <2>1. db' = db /\ versions' = versions /\ mem' = [mem EXCEPT ![s] = n]
    BY <1>4, <1>1 DEF RemoveRevocation
  <2>2. /\ n \in Copy /\ n.list = mem[s].list \ {c} /\ n.version = mem[s].version
        /\ n.hosts = mem[s].hosts
    BY <1>1 DEF Copy
  <2> HIDE DEF n
  <2>3. ListsStand'
    <3>1. \A a \in answered' : a[2] \in db.list /\ (a[1] = s => a[2] \in n.list)
                               /\ (a[1] # s => a \in answered)
      BY <1>2, <2>2
    <3>2. mem[s].list \cap db.list \subseteq n.list
      BY <1>4, <2>2
    <3> QED
      BY <1>2, <2>1, <2>2, <3>1, <3>2, Unwritten
  <2> QED
    BY <1>1, <1>2, <2>1, <2>2, <2>3, StoreSame, TypeFacts
<1> QED
  BY <1>3, <1>4

LEMMA UnlistKeeps ==
  ASSUME LedgerInv, NEW s \in Server, Unlist(s)
  PROVE  Kept
<1>1. /\ todo[s] # <<>> /\ Rest(s) /\ UNCHANGED reading
      /\ RemoveRevocation(s, Head(todo[s]).certificate)
  BY DEF Unlist, Pending
<1>2. reading'[s] # NotReading => ~reading'[s].clean
  BY <1>1, RestFacts
<1>3. PICK change : Announced(s, change)
  BY <1>1 DEF RemoveRevocation
<1> QED
  BY <1>1, <1>2, <1>3, UnchangedReading, RemovedFacts, CallMade DEF Unlist

(* An act at once: it begins with no call waiting and leaves none.         *)
LEMMA ActAtOnce ==
  ASSUME LedgerInv, NEW s \in Server, todo[s] = <<>>, todo' = todo, Acted(s),
         NEW what \in Bounded, Spend(what), NEW change, Announced(s, change),
         StoreStands, ListsStand', mem' \in [Server -> Copy],
         \A i \in Server \ {s} : mem'[i] = mem[i],
         versions' \in Seq(SUBSET Certificate), answered' \subseteq Server \X Certificate,
         unchecked' \subseteq Server \X Certificate, UNCHANGED <<now, sessions, signed>>
  PROVE  Kept
<1>1. GoodCalls(todo'[s], mem'[s], now)
  BY GoodEmpty
<1>2. CallsStand'
  BY <1>1, ActedFacts, CallsStep
<1>3. LedgerTypeOK'
  BY ActedFacts, SpendFacts, AnnouncedFacts, TypeFacts DEF LedgerTypeOK, StoreStands
<1> QED
  BY <1>2, <1>3, Assembled

LEMMA LiftKeeps ==
  ASSUME LedgerInv, NEW s \in Server, NEW c \in Certificate, Lift(s, c)
  PROVE  Kept
<1>1. "lifts" \in Bounded
  BY DEF Bounded
<1>2. todo[s] = <<>> /\ Acted(s) /\ RemoveRevocation(s, c) /\ Spend("lifts") /\ todo' = todo
  BY DEF Lift
<1>3. PICK change : Announced(s, change)
  BY <1>2 DEF RemoveRevocation
<1>4. unchecked' \subseteq Server \X Certificate /\ UNCHANGED <<now, sessions, signed>>
  BY TypeFacts DEF Lift, open
<1> QED
  BY <1>1, <1>2, <1>3, <1>4, ActedFacts, RemovedFacts, ActAtOnce

LEMMA RevokeKeeps ==
  ASSUME LedgerInv, NEW s \in Server, NEW c \in Certificate, Revoke(s, c)
  PROVE  Kept
<1>1. /\ "revokes" \in Bounded /\ todo[s] = <<>> /\ Acted(s) /\ Spend("revokes") /\ todo' = todo
      /\ UNCHANGED <<now, sessions, signed>> /\ answered' = answered \cup {<<s, c>>}
  BY DEF Revoke, Bounded
<1>2. unchecked' \subseteq Server \X Certificate
  BY ChangesFacts DEF Revoke
<1>3. mem[s] \in Copy /\ mem \in [Server -> Copy]
  BY TypeFacts
<1>4. /\ answered' \subseteq Server \X Certificate
      /\ \A a \in answered' : a[2] \in db.list \cup {c}
                              /\ (a[1] = s => a[2] \in mem[s].list \cup {c})
                              /\ (a[1] # s => a \in answered)
  BY <1>1, TypeFacts, SMTT(60) DEF LedgerInv, AnswersStand, AnsweredIsHeld
<1>5. reading'[s] # NotReading => ~reading'[s].clean
  BY <1>1, ActedFacts
<1>6. CASE /\ c \in db.list /\ UNCHANGED <<db, versions>> /\ Announced(s, FALSE)
           /\ mem' = [mem EXCEPT ![s].list = @ \cup {c}]
  <2> DEFINE n == [mem[s] EXCEPT !.list = @ \cup {c}]
  <2>1. /\ db' = db /\ versions' = versions /\ mem' = [mem EXCEPT ![s] = n]
        /\ Announced(s, FALSE)
    BY <1>3, <1>6
  <2>2. n \in Copy /\ n.list = mem[s].list \cup {c} /\ n.version = mem[s].version
    BY <1>3 DEF Copy
  <2> HIDE DEF n
  <2>3. \A a \in answered' : a[2] \in db.list
    BY <1>4, <1>6
  <2>4. ListsStand'
    BY <1>1, <1>4, <1>5, <2>1, <2>2, <2>3, ActedFacts, Unwritten
  <2>5. mem' \in [Server -> Copy] /\ \A i \in Server \ {s} : mem'[i] = mem[i]
    BY <1>3, <2>1, <2>2
  <2> QED
    BY <1>1, <1>2, <1>4, <2>1, <2>4, <2>5, TypeFacts, StoreSame, ActAtOnce
<1>7. CASE /\ ListWritten(db.list \cup {c}) /\ Announced(s, TRUE)
           /\ mem' = [mem EXCEPT ![s].list = @ \cup {c},
                                 ![s].version = TookUpOwnWrite(@, db.version + 1)]
  <2> DEFINE version == TookUpOwnWrite(mem[s].version, db.version + 1)
             n == [mem[s] EXCEPT !.list = @ \cup {c}, !.version = version]
  <2>1. /\ version \in Nat \cup {NoVersion}
        /\ version # NoVersion => version = db.version + 1 /\ mem[s].version = db.version
    BY TookUpFacts
  <2>2. /\ db' = [db EXCEPT !.list = db.list \cup {c}, !.version = @ + 1]
        /\ versions' = Append(versions, db.list \cup {c}) /\ mem' = [mem EXCEPT ![s] = n]
        /\ Announced(s, TRUE)
    BY <1>3, <1>7 DEF ListWritten
  <2> HIDE DEF version
  <2>3. n \in Copy /\ n.list = mem[s].list \cup {c} /\ n.version = version
    BY <1>3, <2>1 DEF Copy
  <2>4. n.version # NoVersion => n.version = db.version + 1 /\ db.list \cup {c} \subseteq n.list
    BY <2>1, <2>3, VersionFacts, CurrentHoldsList
  <2> HIDE DEF n
  <2>5. db.list \cup {c} \in SUBSET Certificate
    BY StoreFacts
  <2>6. StoreStands /\ db'.list = db.list \cup {c} /\ db'.version = db.version + 1
    BY <2>2, <2>5, StoreListed
  <2>7. ListsStand' /\ versions' \in Seq(SUBSET Certificate)
    BY <1>1, <1>4, <1>5, <2>2, <2>3, <2>4, <2>5, <2>6, ActedFacts, Written
  <2>8. mem' \in [Server -> Copy] /\ \A i \in Server \ {s} : mem'[i] = mem[i]
    BY <1>3, <2>2, <2>3
  <2> QED
    BY <1>1, <1>2, <1>4, <2>2, <2>6, <2>7, <2>8, ActAtOnce
<1> QED
  BY <1>6, <1>7 DEF Revoke

-------------------------------------------------------------------------------
(* Reading the store again                                                 *)

(* What is read now says no more than it holds, and holds every answer.    *)
LEMMA LoadedStands ==
  ASSUME LedgerInv
  PROVE  /\ Loaded \in Copy /\ Loaded.list = db.list /\ Loaded.version = db.version
         /\ SaysNoMore(Loaded) /\ \A a \in answered : a[2] \in Loaded.list
<1>1. Loaded \in Copy /\ Loaded.list = db.list /\ Loaded.version = db.version
  BY TypeFacts, LoadedFacts
<1>2. SaysNoMore(Loaded)
  <2>1. SUFFICES ASSUME NEW c \in Certificate,
                        \A v \in Loaded.version .. db.version : c \in versions[v + 1]
                 PROVE  c \in Loaded.list
    BY DEF SaysNoMore
  <2>2. db.version \in Loaded.version .. db.version
    BY <1>1, VersionFacts
  <2> QED
    BY <1>1, <2>1, <2>2, VersionFacts
<1>3. \A a \in answered : a[2] \in Loaded.list
  BY <1>1 DEF LedgerInv, AnswersStand
<1> QED
  BY <1>1, <1>2, <1>3

LEMMA ReadsKeeps ==
  ASSUME LedgerInv, NEW s \in Server, todo[s] = <<>>, NEW refused \in Nat, Reads(s, refused),
         due' \in [Server -> BOOLEAN], UNCHANGED <<now, db, mem, todo, listening, open, signed, ghosts, spent>>
  PROVE  Kept
<1> DEFINE read == [pc |-> "read", ledger |-> Loaded, clean |-> TRUE, refused |-> refused]
<1>1. /\ Loaded \in Copy /\ Loaded.list = db.list /\ Loaded.version = db.version
      /\ SaysNoMore(Loaded) /\ \A a \in answered : a[2] \in Loaded.list
  BY LoadedStands
<1>2. reading' = [reading EXCEPT ![s] = read]
  BY DEF Reads
<1>3. read \in Reading
  BY <1>1 DEF Reading
<1>4. read.ledger = Loaded /\ read.clean
  OBVIOUS
<1> HIDE DEF read
<1>5. /\ reading' \in [Server -> Reading] /\ reading'[s] = read
      /\ \A i \in Server \ {s} : reading'[i] = reading[i]
  BY <1>2, <1>3, TypeFacts
<1>6. /\ db' = db /\ mem' = mem /\ todo' = todo /\ now' = now
      /\ versions' = versions /\ answered' = answered
  BY DEF ghosts
<1>7. CallsStand'
  BY <1>5, <1>6, GoodEmpty, CallsStep
<1>8. AnsweredIsHeld' /\ VersionIsHeld'
  BY <1>6 DEF LedgerInv, AnsweredIsHeld, VersionIsHeld, SaysNoMore
<1>9. AnswersStand'
  <2>1. ASSUME NEW a \in answered, reading'[a[1]] # NotReading, reading'[a[1]].clean
        PROVE  a[2] \in reading'[a[1]].ledger.list
    <3>1. CASE a[1] = s
      BY <1>1, <1>4, <1>5, <3>1
    <3>2. CASE a[1] # s
      <4>1. reading'[a[1]] = reading[a[1]]
        BY <1>5, <3>2, TypeFacts
      <4> QED
        BY <2>1, <4>1 DEF LedgerInv, AnswersStand
    <3> QED
      BY <3>1, <3>2
  <2> QED
    BY <1>6, <2>1 DEF LedgerInv, AnswersStand
<1>10. VersionsStand'
  <2>1. ASSUME NEW i \in Server, reading'[i] # NotReading
        PROVE  /\ reading'[i].ledger.version <= db.version /\ SaysNoMore(reading'[i].ledger)
               /\ reading'[i].clean => mem[i].version <= reading'[i].ledger.version
    <3>1. CASE i = s
      BY <1>1, <1>4, <1>5, <3>1, VersionFacts
    <3>2. CASE i # s
      BY <1>5, <2>1, <3>2, VersionFacts
    <3> QED
      BY <3>1, <3>2
  <2>2. ASSUME NEW i \in Server, SaysNoMore(reading'[i].ledger) PROVE SaysNoMore(reading[i].ledger)'
    BY <1>6, <2>2 DEF SaysNoMore
  <2> QED
    BY <1>6, <2>1, <2>2, VersionFacts DEF VersionsStand
<1>11. LedgerTypeOK'
  BY <1>5, TypeFacts DEF LedgerTypeOK, open, ghosts
<1> QED
  BY <1>6, <1>7, <1>8, <1>9, <1>10, <1>11, StoreSame, Assembled DEF ListsStand

(* A read takes the place of an instance's copy.                           *)
LEMMA Replaced ==
  ASSUME LedgerInv, NEW s \in Server, NEW fresh \in Copy, SaysNoMore(fresh),
         mem[s].version <= fresh.version, fresh.version <= db.version,
         \A a \in answered : a[1] = s => a[2] \in fresh.list,
         NEW n \in Copy, n.list = fresh.list, n.version = fresh.version,
         mem' = [mem EXCEPT ![s] = n], reading' = [reading EXCEPT ![s] = NotReading],
         UNCHANGED <<db, ghosts>>
  PROVE  /\ ListsStand' /\ mem' \in [Server -> Copy] /\ reading' \in [Server -> Reading]
         /\ reading'[s] = NotReading /\ mem'[s] = n
         /\ \A i \in Server \ {s} : mem'[i] = mem[i] /\ reading'[i] = reading[i]
<1>1. /\ mem' \in [Server -> Copy] /\ reading' \in [Server -> Reading]
      /\ reading'[s] = NotReading /\ mem'[s] = n
      /\ \A i \in Server \ {s} : mem'[i] = mem[i] /\ reading'[i] = reading[i]
  BY TypeFacts, ReadingFacts
<1>2. db' = db /\ versions' = versions /\ answered' = answered
  BY DEF ghosts
<1>3. AnsweredIsHeld'
  <2>1. ASSUME NEW a \in answered PROVE a[2] \in mem'[a[1]].list
    <3>1. a[1] \in Server
      BY TypeFacts
    <3> QED
      BY <1>1, <3>1 DEF LedgerInv, AnsweredIsHeld
  <2> QED
    BY <1>2, <2>1 DEF AnsweredIsHeld
<1>4. AnswersStand'
  <2>1. ASSUME NEW a \in answered, reading'[a[1]] # NotReading, reading'[a[1]].clean
        PROVE  a[2] \in reading'[a[1]].ledger.list
    <3>1. reading'[a[1]] = reading[a[1]]
      BY <1>1, <2>1, TypeFacts
    <3> QED
      BY <2>1, <3>1 DEF LedgerInv, AnswersStand
  <2> QED
    BY <1>2, <2>1 DEF LedgerInv, AnswersStand
<1>5. VersionIsHeld'
  <2>1. ASSUME NEW i \in Server PROVE SaysNoMore(mem'[i])
    <3>1. SaysNoMore(n)
      BY DEF SaysNoMore
    <3> QED
      BY <1>1, <3>1, VersionFacts
  <2>2. ASSUME NEW i \in Server, SaysNoMore(mem'[i]) PROVE SaysNoMore(mem[i])'
    BY <1>2, <2>2 DEF SaysNoMore
  <2> QED
    BY <2>1, <2>2 DEF VersionIsHeld
<1>6. VersionsStand'
  <2>1. ASSUME NEW i \in Server, reading'[i] # NotReading
        PROVE  /\ reading'[i].ledger.version <= db.version /\ SaysNoMore(reading'[i].ledger)
               /\ reading'[i].clean => mem'[i].version <= reading'[i].ledger.version
    BY <1>1, <2>1, VersionFacts
  <2>2. ASSUME NEW i \in Server, SaysNoMore(reading'[i].ledger) PROVE SaysNoMore(reading[i].ledger)'
    BY <1>2, <2>2 DEF SaysNoMore
  <2>3. ASSUME NEW i \in Server PROVE mem'[i].version <= db.version
    BY <1>1, VersionFacts
  <2> QED
    BY <1>2, <2>1, <2>2, <2>3, VersionFacts DEF VersionsStand
<1> QED
  BY <1>1, <1>3, <1>4, <1>5, <1>6 DEF ListsStand

LEMMA ReloadKeeps ==
  ASSUME LedgerInv, NEW s \in Server, ReloadLedger(s)
  PROVE  Kept
<1>1. due' \in [Server -> BOOLEAN]
  BY TypeFacts DEF ReloadLedger
<1> QED
  BY <1>1, ReadsKeeps DEF ReloadLedger

LEMMA SwappedKeeps ==
  ASSUME LedgerInv, NEW s \in Server, todo[s] = <<>>, NEW fresh \in Copy, Swapped(s, fresh),
         SaysNoMore(fresh), mem[s].version <= fresh.version, fresh.version <= db.version,
         \A a \in answered : a[1] = s => a[2] \in fresh.list,
         UNCHANGED <<now, db, todo, ears, sessions, signed, ghosts, spent>>
  PROVE  Kept
<1> DEFINE n == [fresh EXCEPT !.version = Later(@, mem[s].version)]
<1>1. fresh.version \in Int /\ mem[s].version \in Int
  BY CopyFacts, VersionFacts DEF NoVersion
<1>2. Later(fresh.version, mem[s].version) = fresh.version
  BY <1>1 DEF Later
<1>3. n \in Copy /\ n.list = fresh.list /\ n.version = fresh.version
  BY <1>2 DEF Copy
<1>4. mem' = [mem EXCEPT ![s] = n] /\ reading' = [reading EXCEPT ![s] = NotReading]
  BY DEF Swapped
<1> HIDE DEF n
<1>5. /\ ListsStand' /\ mem' \in [Server -> Copy] /\ reading' \in [Server -> Reading]
      /\ reading'[s] = NotReading /\ mem'[s] = n
      /\ \A i \in Server \ {s} : mem'[i] = mem[i] /\ reading'[i] = reading[i]
  BY <1>3, <1>4, Replaced
<1>6. CallsStand'
  BY <1>5, GoodEmpty, CallsStep
<1>7. unchecked' \subseteq Server \X Certificate
  BY ChangesFacts DEF Swapped
<1>8. LedgerTypeOK'
  BY <1>5, <1>7, TypeFacts DEF LedgerTypeOK, ears, ghosts
<1> QED
  BY <1>5, <1>6, <1>8, StoreSame, Assembled

LEMMA SwapKeeps ==
  ASSUME LedgerInv, NEW s \in Server, Swap(s)
  PROVE  Kept
<1>1. /\ reading[s] # NotReading /\ todo[s] = <<>>
      /\ UNCHANGED <<now, db, todo, ears, sessions, signed, ghosts, spent>>
  BY DEF Swap
<1>2. CASE MaySwap(s) /\ Swapped(s, reading[s].ledger)
  <2>1. PICK fresh \in Copy : fresh = reading[s].ledger
    BY <1>1, VersionFacts
  <2>2. /\ SaysNoMore(fresh) /\ mem[s].version <= fresh.version /\ fresh.version <= db.version
    BY <1>1, <1>2, <2>1, VersionFacts DEF MaySwap
  <2>3. \A a \in answered : a[1] = s => a[2] \in fresh.list
    BY <1>1, <1>2, <2>1 DEF MaySwap, LedgerInv, AnswersStand
  <2> QED
    BY <1>1, <1>2, <2>1, <2>2, <2>3, SwappedKeeps
<1>3. CASE Reads(s, reading[s].refused + 1) /\ UNCHANGED <<mem, unchecked>>
  <2>1. reading[s].refused + 1 \in Nat
    BY <1>1, ReadingFacts
  <2>2. due' \in [Server -> BOOLEAN] /\ listening' = listening
    BY <1>1, TypeFacts DEF ears
  <2>3. open' = open
    BY <1>1, <1>3 DEF open
  <2> QED
    BY <1>1, <1>3, <2>1, <2>2, <2>3, ReadsKeeps
<1>4. CASE Swapped(s, Loaded)
  <2>1. mem[s].version <= Loaded.version /\ Loaded.version <= db.version
    BY LoadedStands, VersionFacts
  <2> QED
    BY <1>1, <1>4, <2>1, LoadedStands, SwappedKeeps
<1> QED
  BY <1>2, <1>3, <1>4 DEF Swap

LEMMA OpenKeeps ==
  ASSUME LedgerInv, NEW s \in Server, Open(s)
  PROVE  Kept
<1>1. /\ mem' = [mem EXCEPT ![s] = Pruned(Loaded)] /\ todo' = [todo EXCEPT ![s] = PruneCalls(Loaded)]
      /\ reading' = [reading EXCEPT ![s] = NotReading] /\ Spend("crashes")
      /\ UNCHANGED <<now, db, signed, ghosts>>
  BY DEF Open
<1>2. /\ Pruned(Loaded) \in Copy /\ Pruned(Loaded).list = Loaded.list
      /\ Pruned(Loaded).version = Loaded.version
  BY LoadedStands, PrunedFacts
<1>3. mem[s].version <= Loaded.version /\ Loaded.version <= db.version
  BY LoadedStands, VersionFacts
<1>4. /\ ListsStand' /\ mem' \in [Server -> Copy] /\ reading' \in [Server -> Reading]
      /\ reading'[s] = NotReading /\ mem'[s] = Pruned(Loaded)
      /\ \A i \in Server \ {s} : mem'[i] = mem[i] /\ reading'[i] = reading[i]
  BY <1>1, <1>2, <1>3, LoadedStands, Replaced
<1>5. PruneCalls(Loaded) \in Seq(PruneCall)
  BY LoadedStands, TypeFacts, PruneCallsFacts
<1>6. PruneCalls(Loaded) \in Seq(Call) /\ GoodCalls(PruneCalls(Loaded), mem'[s], now)
  BY <1>5, TypeFacts, GoodPrune
<1>7. /\ todo' \in [Server -> Seq(Call)] /\ todo'[s] = PruneCalls(Loaded)
      /\ \A i \in Server \ {s} : todo'[i] = todo[i]
  BY <1>1, <1>6, TypeFacts
<1>8. CallsStand'
  BY <1>1, <1>4, <1>6, <1>7, CallsStep
<1>9. spent' \in [Bounded -> Nat]
  <2>1. "crashes" \in Bounded
    BY DEF Bounded
  <2> QED
    BY <1>1, <2>1, SpendFacts
<1>10. /\ due' \in [Server -> BOOLEAN] /\ listening' \in [Server -> BOOLEAN]
       /\ sessions' \in [Server -> SUBSET Certificate] /\ unchecked' \subseteq Server \X Certificate
  BY TypeFacts DEF Open
<1>11. LedgerTypeOK'
  BY <1>1, <1>4, <1>7, <1>9, <1>10, TypeFacts DEF LedgerTypeOK, ghosts
<1> QED
  BY <1>1, <1>4, <1>8, <1>11, StoreSame, Assembled

-------------------------------------------------------------------------------
(* The acts                                                                *)

LEMMA RecordKeeps ==
  ASSUME LedgerInv, NEW s \in Server, NEW c \in Certificate, Record(s, c)
  PROVE  Kept
<1> DEFINE admit == <<[op |-> "admit", certificate |-> c]>>
<1>1. /\ todo[s] = <<>> /\ Acted(s) /\ Spend("records") /\ "records" \in Bounded
      /\ mem' = [mem EXCEPT ![s] = Pruned(mem[s])]
      /\ todo' = [todo EXCEPT ![s] = PruneCalls(mem[s]) \o admit]
      /\ UNCHANGED <<now, db, ears, open, signed, ghosts>>
  BY DEF Record, Bounded
<1>2. mem[s] \in Copy /\ mem \in [Server -> Copy]
  BY TypeFacts
<1>3. PICK n : n = Pruned(mem[s])
  OBVIOUS
<1>4. SameList(mem[s], n) /\ mem' = [mem EXCEPT ![s] = n]
  BY <1>1, <1>2, <1>3, PrunedFacts DEF SameList
<1>5. MemKept /\ \A i \in Server \ {s} : mem'[i] = mem[i]
  BY <1>2, <1>4, OneCopy
<1>6. PruneCalls(mem[s]) \o admit \in Seq(PruneCall)
  <2>1. [op |-> "admit", certificate |-> c] \in PruneCall
    BY DEF PruneCall, Call
  <2>2. admit \in Seq(PruneCall)
    BY <2>1
  <2>3. PruneCalls(mem[s]) \in Seq(PruneCall)
    BY <1>2, TypeFacts, PruneCallsFacts
  <2> HIDE DEF admit
  <2> QED
    BY <2>2, <2>3, ConcatCalls
<1>7. PICK calls \in Seq(PruneCall) : calls = PruneCalls(mem[s]) \o admit
  BY <1>6
<1>8. calls \in Seq(Call) /\ GoodCalls(calls, mem'[s], now)
  BY TypeFacts, GoodPrune
<1>9. /\ todo' \in [Server -> Seq(Call)] /\ todo'[s] = calls
      /\ \A i \in Server \ {s} : todo'[i] = todo[i]
  BY <1>1, <1>7, <1>8, TypeFacts
<1>10. CallsStand'
  BY <1>1, <1>5, <1>8, <1>9, ActedFacts, CallsStep
<1>11. ListsStand'
  BY <1>1, <1>5, ActedFacts, ListsKept
<1>12. LedgerTypeOK'
  BY <1>1, <1>5, <1>9, ActedFacts, SpendFacts, TypeFacts DEF LedgerTypeOK, MemKept, ears, open, ghosts
<1> QED
  BY <1>1, <1>10, <1>11, <1>12, StoreSame, Assembled

LEMMA AdmitKeeps ==
  ASSUME LedgerInv, NEW s \in Server, NEW c \in Certificate, Admit(s, c)
  PROVE  Kept
<1>1. todo[s] # <<>> /\ UNCHANGED <<now, reading, open, ghosts, spent>>
  BY DEF Admit
<1>2. mem[s] \in Copy /\ mem \in [Server -> Copy]
  BY TypeFacts
<1>3. reading[s] # NotReading => ~reading[s].clean
  BY <1>1 DEF LedgerInv, CallsStand
<1>4. CASE Admits(mem[s], c) /\ Registers(db, c)
  <2>1. /\ db' = [db EXCEPT !.reg = @ \cup {c},
                            !.hosts = IF Mints(mem[s], c)
                                      THEN WriteSeen(@, HostOf[c], Minted(c)) ELSE @]
        /\ mem' = [mem EXCEPT ![s] = Inserted(mem[s], c)]
        /\ todo' = [todo EXCEPT ![s] = AfterAdmit(mem[s], c)]
        /\ signed' = signed \cup {c} /\ Announced(s, TRUE)
    BY <1>4 DEF Admit
  <2>2. StoreStands /\ db'.list = db.list /\ db'.version = db.version
    BY <1>4, <2>1, StoreRegistered
  <2>3. PICK n : n = Inserted(mem[s], c)
    OBVIOUS
  <2>4. SameList(mem[s], n) /\ mem' = [mem EXCEPT ![s] = n]
    BY <1>2, <2>1, <2>3, InsertedFacts
  <2>5. MemKept /\ \A i \in Server \ {s} : mem'[i] = mem[i]
    BY <1>2, <2>4, OneCopy
  <2>6. ListsStand'
    BY <1>1, <2>2, <2>5, UnchangedReading, ListsKept
  <2>7. PICK calls \in Seq(PruneCall) : calls = AfterAdmit(mem[s], c)
    BY <1>2, AfterAdmitFacts
  <2>8. calls \in Seq(Call) /\ GoodCalls(calls, mem'[s], now)
    BY TypeFacts, GoodPrune
  <2>9. /\ todo' \in [Server -> Seq(Call)] /\ todo'[s] = calls
        /\ \A i \in Server \ {s} : todo'[i] = todo[i]
    BY <2>1, <2>7, <2>8, TypeFacts
  <2>10. CallsStand'
    BY <1>1, <1>3, <2>5, <2>8, <2>9, CallsStep
  <2>11. LedgerTypeOK'
    BY <1>1, <2>1, <2>2, <2>5, <2>9, AnnouncedFacts, TypeFacts
       DEF LedgerTypeOK, StoreStands, MemKept, open, ghosts
  <2> QED
    BY <2>2, <2>6, <2>10, <2>11, Assembled
<1>5. CASE ~(Admits(mem[s], c) /\ Registers(db, c))
  <2>1. todo' = [todo EXCEPT ![s] = <<>>] /\ UNCHANGED <<db, mem, signed, ears>>
    BY <1>5 DEF Admit
  <2>2. /\ todo' \in [Server -> Seq(Call)] /\ todo'[s] = <<>>
        /\ \A i \in Server \ {s} : todo'[i] = todo[i]
    BY <2>1, TypeFacts, GoodEmpty
  <2>3. CallsStand'
    BY <1>1, <2>1, <2>2, GoodEmpty, CallsStep
  <2>4. ListsStand'
    BY <1>1, <2>1, SameCopies, UnchangedReading, ListsKept
  <2>5. LedgerTypeOK'
    BY <1>1, <2>1, <2>2, TypeFacts DEF LedgerTypeOK, ears, open, ghosts
  <2> QED
    BY <2>1, <2>3, <2>4, <2>5, StoreSame, Assembled
<1> QED
  BY <1>4, <1>5

(* An act at once that leaves the list.                                    *)
LEMMA HostAct ==
  ASSUME LedgerInv, NEW s \in Server, todo[s] = <<>>, todo' = todo, Acted(s),
         NEW what \in Bounded, Spend(what), NEW change, Announced(s, change),
         StoreStands, db'.list = db.list, db'.version = db.version,
         NEW n, SameList(mem[s], n), mem' = [mem EXCEPT ![s] = n],
         UNCHANGED <<now, open, signed, ghosts>>
  PROVE  Kept
<1>1. MemKept /\ \A i \in Server \ {s} : mem'[i] = mem[i]
  BY TypeFacts, OneCopy
<1>2. ListsStand'
  BY <1>1, ActedFacts, ListsKept
<1> QED
  BY <1>1, <1>2, TypeFacts, ActAtOnce DEF MemKept, open, ghosts

LEMMA ReleaseKeeps ==
  ASSUME LedgerInv, NEW s \in Server, NEW u \in Agent, Release(s, u)
  PROVE  Kept
<1>1. /\ todo[s] = <<>> /\ todo' = todo /\ Acted(s) /\ "agents" \in Bounded /\ Spend("agents")
      /\ db' = [db EXCEPT !.bindings[u] = None] /\ Announced(s, db.bindings[u] # None)
      /\ mem' = [mem EXCEPT ![s] = Released(mem[s], u, db.bindings[u])]
      /\ UNCHANGED <<now, open, signed, ghosts>>
  BY DEF Release, Bounded
<1>2. PICK n : n = Released(mem[s], u, db.bindings[u])
  OBVIOUS
<1>3. SameList(mem[s], n)
  BY <1>2, TypeFacts, UnlistedFacts DEF Released
<1> DEFINE bindings == [db.bindings EXCEPT ![u] = None]
<1>4. /\ bindings \in [Agent -> Host \cup {None}]
      /\ \A v \in Agent : bindings[v] \in {None, db.bindings[v]}
  BY StoreFacts
<1>5. db' = [db EXCEPT !.hosts = db.hosts, !.bindings = bindings]
  BY <1>1, StoreFacts DEF Stored
<1>6. Grown(db.hosts, db.hosts)
  BY StoreFacts DEF Grown
<1> HIDE DEF bindings
<1>7. StoreStands /\ db'.list = db.list /\ db'.version = db.version
  BY <1>4, <1>5, <1>6, StoreFacts, StoreBound
<1> QED
  BY <1>1, <1>2, <1>3, <1>7, HostAct

LEMMA RebindFailsKeeps ==
  ASSUME LedgerInv, NEW s \in Server, NEW old \in Agent, RebindFails(s, old)
  PROVE  Kept
<1>1. /\ todo[s] = <<>> /\ todo' = todo /\ Acted(s) /\ "fails" \in Bounded /\ Spend("fails")
      /\ mem' = [mem EXCEPT ![s] = Released(mem[s], old, None)]
      /\ UNCHANGED <<now, db, ears, open, signed, ghosts>>
  BY DEF RebindFails, Bounded
<1>2. Announced(s, FALSE)
  BY <1>1 DEF Announced, ears
<1>3. PICK n : n = Released(mem[s], old, None)
  OBVIOUS
<1>4. SameList(mem[s], n)
  BY <1>3, TypeFacts, UnlistedFacts DEF Released
<1> QED
  BY <1>1, <1>2, <1>3, <1>4, StoreSame, HostAct

LEMMA ActFailsKeeps ==
  ASSUME LedgerInv, NEW s \in Server, ActFails(s)
  PROVE  Kept
<1>1. /\ todo[s] = <<>> /\ todo' = todo /\ Acted(s) /\ "fails" \in Bounded /\ Spend("fails")
      /\ UNCHANGED <<now, db, mem, ears, open, signed, ghosts>>
  BY DEF ActFails, Bounded
<1>2. Announced(s, FALSE)
  BY <1>1 DEF Announced, ears
<1>3. mem' = [mem EXCEPT ![s] = mem[s]] /\ SameList(mem[s], mem[s])
  BY <1>1, TypeFacts DEF SameList
<1> QED
  BY <1>1, <1>2, <1>3, StoreSame, HostAct

LEMMA RebindKeeps ==
  ASSUME LedgerInv, NEW s \in Server, NEW old \in Agent, NEW new \in Agent, Rebind(s, old, new)
  PROVE  Kept
<1>1. /\ todo[s] = <<>> /\ todo' = todo /\ Acted(s) /\ "agents" \in Bounded /\ Spend("agents")
      /\ UNCHANGED <<now, open, signed, ghosts>>
  BY DEF Rebind, Bounded
<1>2. PICK h : h = db.bindings[old]
  OBVIOUS
<1>3. PICK parted : parted = Released(mem[s], old, h)
  OBVIOUS
<1>4. SameList(mem[s], parted) /\ parted \in Copy
  BY <1>3, TypeFacts, UnlistedFacts DEF SameList, Released
<1>5. CASE h = None
  <2>1. mem' = [mem EXCEPT ![s] = parted] /\ UNCHANGED <<db, ears>>
    BY <1>2, <1>3, <1>5 DEF Rebind
  <2>2. Announced(s, FALSE)
    BY <2>1 DEF Announced, ears
  <2> QED
    BY <1>1, <1>4, <2>1, <2>2, StoreSame, HostAct
<1>6. CASE h # None
  <2> DEFINE bound == db.bindings[new] \in {None, h}
             moved == [parted EXCEPT !.owners = Owned(@, new, h), !.hosts = WithUid(@, h, new)]
             n == IF bound THEN moved ELSE TakeUp(parted, new, h, "taken", db.bindings[new])
             bindings == [db.bindings EXCEPT ![old] = None, ![new] = IF bound THEN h ELSE db.bindings[new]]
  <2>1. h \in Host /\ h \in DOMAIN db.hosts /\ ~db.hosts[h].gateway
    BY <1>2, <1>6, StoreFacts DEF LedgerInv, BindingsStand
  <2>2. old # new
    BY DEF Rebind
  <2>3. db' = [db EXCEPT !.bindings[old] = None, !.bindings[new] = IF bound THEN h ELSE @]
    BY <1>2, <1>6 DEF Rebind
  <2>4. db' = [db EXCEPT !.hosts = db.hosts, !.bindings = bindings]
    BY <2>2, <2>3, StoreFacts DEF Stored
  <2>5. mem' = [mem EXCEPT ![s] = n] /\ Announced(s, TRUE)
    BY <1>2, <1>3, <1>6 DEF Rebind
  <2>6. SameList(parted, n)
    <3>1. SameList(parted, moved)
      BY <1>4, <2>1, MovedFacts
    <3>2. ASSUME ~bound PROVE SameList(parted, TakeUp(parted, new, h, "taken", db.bindings[new]))
      <4>1. db.bindings[new] \in Host
        BY <3>2, StoreFacts
      <4> QED
        BY <1>4, <2>1, <4>1, TakeUpFacts
    <3> QED
      BY <3>1, <3>2
  <2>7. SameList(mem[s], n)
    BY <1>4, <2>6 DEF SameList
  <2>8. /\ bindings \in [Agent -> Host \cup {None}]
        /\ \A v \in Agent : bindings[v] \in {None, db.bindings[v]} \/ bindings[v] = h
    BY <2>1, StoreFacts
  <2>9. Grown(db.hosts, db.hosts)
    BY StoreFacts DEF Grown
  <2> HIDE DEF bindings, n, moved, bound
  <2>10. StoreStands /\ db'.list = db.list /\ db'.version = db.version
    <3>1. db.hosts \in Rows
      BY StoreFacts
    <3>2. ASSUME NEW u \in Agent
          PROVE  \/ bindings[u] \in {None, db.bindings[u]}
                 \/ bindings[u] \in DOMAIN db.hosts /\ ~db.hosts[bindings[u]].gateway
      <4>1. bindings[u] \in {None, db.bindings[u]} \/ bindings[u] = h
        BY <2>8
      <4> QED
        BY <2>1, <4>1
    <3> QED
      BY <2>4, <2>8, <2>9, <3>1, <3>2, StoreBound
  <2> QED
    BY <1>1, <2>5, <2>7, <2>10, HostAct
<1> QED
  BY <1>5, <1>6

LEMMA SetGatewayKeeps ==
  ASSUME LedgerInv, NEW s \in Server, NEW h \in Host, NEW gateway \in BOOLEAN,
         SetGateway(s, h, gateway)
  PROVE  Kept
<1>1. /\ todo[s] = <<>> /\ todo' = todo /\ Acted(s) /\ "marks" \in Bounded /\ Spend("marks")
      /\ db' = MarkedRow(db, h, gateway) /\ Announced(s, TRUE)
      /\ mem' = [mem EXCEPT ![s] = Marked(mem[s], h, gateway)]
      /\ UNCHANGED <<now, open, signed, ghosts>>
  BY DEF SetGateway, Bounded
<1>2. PICK n : n = Marked(mem[s], h, gateway)
  OBVIOUS
<1>3. SameList(mem[s], n)
  BY <1>2, TypeFacts, MarkedFacts
<1>4. StoreStands /\ db'.list = db.list /\ db'.version = db.version
  BY <1>1, StoreMarked
<1> QED
  BY <1>1, <1>2, <1>3, <1>4, HostAct

(* What the store answers to a report.                                     *)
LEMMA BindSeenFacts ==
  ASSUME LedgerInv, NEW h \in Host, NEW u \in Agent, NEW until \in 0 .. Never,
         NEW bound, bound = BindSeen(h, u, until), db' = bound.db
  PROVE  /\ bound.answer \in {"bound", "taken", "gateway"}
         /\ bound.answer = "taken" => db.bindings[u] \in Host
         /\ StoreStands /\ db'.list = db.list /\ db'.version = db.version
<1> DEFINE made == InsertHostRow(db.hosts, h, [gateway |-> FALSE, until |-> until])
           bindings == [db.bindings EXCEPT ![u] = h]
<1>1. [gateway |-> FALSE, until |-> until] \in Row
  BY DEF Row
<1>2. made \in Rows /\ Grown(db.hosts, made) /\ h \in DOMAIN made
  BY <1>1, StoreFacts, InsertRow
<1>3. CASE made[h].gateway
  <2>1. bound = [answer |-> "gateway", db |-> db]
    BY <1>3 DEF BindSeen
  <2> QED
    BY <2>1, StoreSame
<1>4. CASE ~made[h].gateway /\ db.bindings[u] \notin {None, h}
  <2>1. bound = [answer |-> "taken", db |-> db]
    BY <1>4 DEF BindSeen
  <2>2. db.bindings[u] \in Host
    BY <1>4, StoreFacts
  <2> QED
    BY <2>1, <2>2, StoreSame
<1>5. CASE ~made[h].gateway /\ db.bindings[u] \in {None, h}
  <2>1. bound = [answer |-> "bound", db |-> [db EXCEPT !.hosts = made, !.bindings[u] = h]]
    BY <1>5 DEF BindSeen
  <2> HIDE DEF made
  <2>2. db' = [db EXCEPT !.hosts = made, !.bindings = bindings] /\ bound.answer = "bound"
    BY <2>1, StoreFacts DEF Stored
  <2>3. /\ bindings \in [Agent -> Host \cup {None}]
        /\ \A v \in Agent : bindings[v] = db.bindings[v] \/ bindings[v] = h
    BY StoreFacts
  <2> HIDE DEF bindings
  <2>4. StoreStands /\ db'.list = db.list /\ db'.version = db.version
    <3>1. \A v \in Agent : \/ bindings[v] \in {None, db.bindings[v]}
                           \/ bindings[v] \in DOMAIN made /\ ~made[bindings[v]].gateway
      BY <1>2, <1>5, <2>3
    <3> QED
      BY <1>2, <2>2, <2>3, <3>1, StoreBound
  <2> QED
    BY <2>2, <2>4
<1> QED
  BY <1>3, <1>4, <1>5

(* A report that leaves at most the write of its Host to be made.          *)
LEMMA ReportAct ==
  ASSUME LedgerInv, NEW s \in Server, NEW c \in Certificate, NEW m, SameList(mem[s], m), NEW binds,
         Extending(s, m, HostOf[c], NotAfter[c], binds), todo[s] = <<>>,
         reading' \in [Server -> Reading], ReadingKept,
         \A i \in Server \ {s} : reading'[i] = reading[i],
         todo'[s] # <<>> /\ reading'[s] # NotReading => ~reading'[s].clean,
         StoreStands, db'.list = db.list, db'.version = db.version,
         due' \in [Server -> BOOLEAN], listening' \in [Server -> BOOLEAN],
         spent' \in [Bounded -> Nat], UNCHANGED <<now, open, signed, ghosts>>
  PROVE  Kept
<1>1. HostOf[c] \in Host /\ NotAfter[c] \in 0 .. Never /\ m \in Copy
  BY LedgerAssumption, EndFacts DEF SameList
<1>2. PICK n : /\ SameList(m, n) /\ mem' = [mem EXCEPT ![s] = n]
               /\ \/ todo' = [todo EXCEPT ![s] = <<>>]
                  \/ /\ todo' = [todo EXCEPT ![s] = <<[op |-> "seen", host |-> HostOf[c]]>>]
                     /\ HostOf[c] \in DOMAIN n.hosts
  BY <1>1, ExtendingFacts
<1>3. SameList(mem[s], n)
  BY <1>2 DEF SameList
<1>4. MemKept /\ mem'[s] = n /\ \A i \in Server \ {s} : mem'[i] = mem[i]
  BY <1>2, <1>3, TypeFacts, OneCopy
<1>5. ListsStand'
  BY <1>4, ListsKept
<1>6. /\ todo' \in [Server -> Seq(Call)] /\ GoodCalls(todo'[s], mem'[s], now)
      /\ \A i \in Server \ {s} : todo'[i] = todo[i]
  <2>1. CASE todo' = [todo EXCEPT ![s] = <<>>]
    BY <2>1, TypeFacts, GoodEmpty
  <2>2. CASE /\ todo' = [todo EXCEPT ![s] = <<[op |-> "seen", host |-> HostOf[c]]>>]
             /\ HostOf[c] \in DOMAIN n.hosts
    <3>1. PICK calls : calls = <<[op |-> "seen", host |-> HostOf[c]]>>
      OBVIOUS
    <3>2. calls \in Seq(Call) /\ GoodCalls(calls, n, now)
      BY <1>1, <2>2, <3>1, GoodSeen
    <3> QED
      BY <1>4, <2>2, <3>1, <3>2, TypeFacts
  <2> QED
    BY <1>2, <2>1, <2>2
<1>7. CallsStand'
  BY <1>4, <1>6, CallsStep
<1>8. LedgerTypeOK'
  BY <1>4, <1>6, TypeFacts DEF LedgerTypeOK, StoreStands, MemKept, open, ghosts
<1> QED
  BY <1>5, <1>7, <1>8, Assembled

LEMMA CheckReportKeeps ==
  ASSUME LedgerInv, NEW s \in Server, NEW c \in Certificate, NEW u \in Agent, CheckReport(s, c, u)
  PROVE  Kept
<1>1. /\ todo[s] = <<>> /\ "reports" \in Bounded /\ Spend("reports")
      /\ UNCHANGED <<now, open, signed, ghosts>>
  BY DEF CheckReport, Bounded
<1>2. /\ mem[s] \in Copy /\ SameList(mem[s], mem[s]) /\ HostOf[c] \in Host
      /\ NotAfter[c] \in 0 .. Never
  BY TypeFacts, LedgerAssumption, EndFacts DEF SameList
<1>3. spent' \in [Bounded -> Nat]
  BY <1>1, SpendFacts
<1>4. PICK bound : bound = BindSeen(HostOf[c], u, NotAfter[c])
  OBVIOUS
<1>5. PICK taken : taken = TakeUp(mem[s], u, HostOf[c], bound.answer, db.bindings[u])
  OBVIOUS
<1> DEFINE row == [gateway |-> FALSE, until |-> 0, uids |-> {}]
<1>6. PICK held : held = [taken EXCEPT !.hosts = WithUid(InsertHostRow(@, HostOf[c], row), HostOf[c], u)]
  OBVIOUS
<1>7. CASE /\ AdmittedUnbound(mem[s], HostOf[c], u)
           /\ Extending(s, mem[s], HostOf[c], NotAfter[c], FALSE)
           /\ IF HostOf[c] \in DOMAIN mem[s].hosts /\ mem[s].hosts[HostOf[c]].until < NotAfter[c]
              THEN Acted(s) ELSE UNCHANGED reading
           /\ UNCHANGED <<db, ears>>
  <2>1. /\ reading' \in [Server -> Reading] /\ ReadingKept
        /\ \A i \in Server \ {s} : reading'[i] = reading[i]
    BY <1>7, ActedFacts, UnchangedReading
  <2>2. todo'[s] # <<>> /\ reading'[s] # NotReading => ~reading'[s].clean
    <3>1. CASE HostOf[c] \in DOMAIN mem[s].hosts /\ mem[s].hosts[HostOf[c]].until < NotAfter[c]
      BY <1>7, <3>1, ActedFacts
    <3>2. CASE ~(HostOf[c] \in DOMAIN mem[s].hosts /\ mem[s].hosts[HostOf[c]].until < NotAfter[c])
      BY <1>7, <3>2, TypeFacts DEF Extending
    <3> QED
      BY <3>1, <3>2
  <2>3. due' \in [Server -> BOOLEAN] /\ listening' \in [Server -> BOOLEAN] /\ db' = db
    BY <1>7, TypeFacts DEF ears
  <2>4. StoreStands /\ db'.list = db.list /\ db'.version = db.version
    BY <2>3, StoreSame
  <2> QED
    BY <1>1, <1>2, <1>3, <1>7, <2>1, <2>2, <2>3, <2>4, ReportAct
<1>8. CASE /\ Acted(s) /\ db' = bound.db /\ Announced(s, bound.db # db)
           /\ CASE bound.answer = "bound" -> Extending(s, held, HostOf[c], NotAfter[c], TRUE)
                [] bound.answer = "gateway" -> Extending(s, taken, HostOf[c], NotAfter[c], FALSE)
                [] bound.answer = "taken" -> mem' = [mem EXCEPT ![s] = taken] /\ UNCHANGED todo
  <2>1. /\ bound.answer \in {"bound", "taken", "gateway"}
        /\ bound.answer = "taken" => db.bindings[u] \in Host
        /\ StoreStands /\ db'.list = db.list /\ db'.version = db.version
    BY <1>2, <1>4, <1>8, BindSeenFacts
  <2>2. SameList(mem[s], taken)
    BY <1>2, <1>5, <2>1, TakeUpFacts
  <2>3. SameList(mem[s], held)
    BY <1>2, <1>6, <2>2, BoundFacts
  <2>4. /\ reading' \in [Server -> Reading] /\ ReadingKept
        /\ \A i \in Server \ {s} : reading'[i] = reading[i]
        /\ reading'[s] # NotReading => ~reading'[s].clean
    BY <1>8, ActedFacts
  <2>5. due' \in [Server -> BOOLEAN] /\ listening' \in [Server -> BOOLEAN]
    BY <1>8, AnnouncedFacts
  <2>6. CASE bound.answer = "bound"
    <3>1. Extending(s, held, HostOf[c], NotAfter[c], TRUE)
      BY <1>8, <2>6
    <3> QED
      BY <1>1, <1>3, <2>1, <2>3, <2>4, <2>5, <3>1, ReportAct
  <2>7. CASE bound.answer = "gateway"
    <3>1. Extending(s, taken, HostOf[c], NotAfter[c], FALSE)
      BY <1>8, <2>7
    <3> QED
      BY <1>1, <1>3, <2>1, <2>2, <2>4, <2>5, <3>1, ReportAct
  <2>8. CASE bound.answer = "taken"
    <3>1. mem' = [mem EXCEPT ![s] = taken] /\ todo' = todo
      BY <1>8, <2>8
    <3> QED
      BY <1>1, <1>8, <2>1, <2>2, <3>1, HostAct
  <2> QED
    BY <2>1, <2>6, <2>7, <2>8
<1> QED
  BY <1>4, <1>5, <1>6, <1>7, <1>8 DEF CheckReport

-------------------------------------------------------------------------------
(* The theorems                                                            *)

LEMMA LedgerInit ==
  ASSUME Init
  PROVE  LedgerInv
<1>1. db \in Stored
  <2>1. <<>> \in [{} -> Row]
    OBVIOUS
  <2>2. <<>> \in UNION {[hosts -> Row] : hosts \in SUBSET Host}
    BY <2>1
  <2> QED
    BY <2>2 DEF Init, FirstRows, Stored
<1>2. mem \in [Server -> Copy]
  <2>1. <<>> \in [{} -> HeldRow] /\ <<>> \in [{} -> Host]
    OBVIOUS
  <2>2. /\ <<>> \in UNION {[hosts -> HeldRow] : hosts \in SUBSET Host}
        /\ <<>> \in UNION {[agents -> Host] : agents \in SUBSET Agent}
    BY <2>1
  <2> QED
    BY <2>2, NeverFacts DEF Init, Copy
<1>3. LedgerTypeOK
  <2>1. now \in 1 .. MaxTime /\ <<>> \in Seq(Call) /\ <<{}>> \in Seq(SUBSET Certificate)
    BY LedgerAssumption DEF Init
  <2> QED
    BY <1>1, <1>2, <2>1 DEF Init, LedgerTypeOK, Reading
<1>4. BindingsStand /\ CallsStand /\ AnsweredIsHeld /\ AnswersStand
  BY DEF Init, FirstRows, BindingsStand, CallsStand, AnsweredIsHeld, AnswersStand
<1>5. /\ db.version = 0 /\ db.list = {} /\ versions = <<{}>>
      /\ \A s \in Server : mem[s].version = 0 /\ mem[s].list = {} /\ reading[s] = NotReading
  BY DEF Init, FirstRows
<1>6. VersionIsHeld
  <2>1. ASSUME NEW s \in Server, NEW c \in Certificate,
               \A v \in mem[s].version .. db.version : c \in versions[v + 1]
        PROVE  c \in mem[s].list
    <3>1. 0 \in mem[s].version .. db.version /\ versions[0 + 1] = {}
      BY <1>5
    <3> QED
      BY <2>1, <3>1
  <2> QED
    BY <2>1 DEF VersionIsHeld, SaysNoMore
<1>7. VersionsStand
  BY <1>5 DEF VersionsStand
<1> QED
  BY <1>3, <1>4, <1>6, <1>7 DEF LedgerInv

LEMMA LedgerNext ==
  ASSUME LedgerInv, [Next]_vars
  PROVE  Kept
<1>1. CASE Tick
  BY <1>1, TickKeeps
<1>2. ASSUME NEW s \in Server, \/ WriteUntil(s) \/ Forget(s) \/ RemoveIssued(s) \/ Unlist(s)
                               \/ Fail(s) \/ ActFails(s)
      PROVE  Kept
  BY <1>2, WriteUntilKeeps, ForgetKeeps, RemoveIssuedKeeps, UnlistKeeps, FailKeeps, ActFailsKeeps
<1>3. ASSUME NEW s \in Server, \/ Renewed(s) \/ ReloadLedger(s) \/ Swap(s)
                               \/ Deaf(s) \/ Listen(s) \/ Open(s)
      PROVE  Kept
  BY <1>3, RenewedKeeps, ReloadKeeps, SwapKeeps, OpenKeeps
<1>4. ASSUME NEW s \in Server, NEW c \in Certificate,
             \/ Record(s, c) \/ Admit(s, c) \/ Revoke(s, c) \/ Lift(s, c)
             \/ Connect(s, c) \/ Tripped(s, c)
      PROVE  Kept
  BY <1>4, RecordKeeps, AdmitKeeps, RevokeKeeps, LiftKeeps, SessionKeeps
<1>5. ASSUME NEW s \in Server, NEW c \in Certificate, NEW u \in Agent, CheckReport(s, c, u)
      PROVE  Kept
  BY <1>5, CheckReportKeeps
<1>6. ASSUME NEW s \in Server, NEW u \in Agent,
             Release(s, u) \/ RebindFails(s, u) \/ \E v \in Agent : Rebind(s, u, v)
      PROVE  Kept
  BY <1>6, ReleaseKeeps, RebindFailsKeeps, RebindKeeps
<1>7. ASSUME NEW s \in Server, NEW h \in Host, NEW gateway \in BOOLEAN, SetGateway(s, h, gateway)
      PROVE  Kept
  BY <1>7, SetGatewayKeeps
<1>8. CASE UNCHANGED vars
  <2>1. /\ UNCHANGED <<db, mem, todo, reading, signed, ghosts>> /\ now' = now /\ due' = due
        /\ listening' = listening /\ sessions' = sessions /\ unchecked' = unchecked /\ spent' = spent
    BY <1>8 DEF vars, ears, open
  <2>2. now' >= now
    BY <2>1, TypeFacts
  <2> QED
    BY <2>1, <2>2, TypeFacts, Outside
<1> QED
  BY <1>1, <1>2, <1>3, <1>4, <1>5, <1>6, <1>7, <1>8 DEF Next

(* The tables, the copies, the reads in progress and the calls still to be *)
(* made are sound against each other in every reachable state, however     *)
(* many instances act, fail, crash or miss a notification in between       *)
(* (revocation.rs, postgres/ledger.rs).                                    *)
THEOREM LedgerInvariant == Spec => []LedgerInv
<1>1. LedgerInv /\ [Next]_vars => LedgerInv'
  BY LedgerNext DEF Kept
<1> QED
  BY <1>1, LedgerInit, PTL DEF Spec

(* A revocation an instance has answered stays in the list it decides by   *)
(* until somebody lifts it: no read of the store takes it away.            *)
THEOREM AnsweredStaysHeld == Spec => []AnsweredIsHeld
<1>1. LedgerInv => AnsweredIsHeld
  BY DEF LedgerInv
<1> QED
  BY <1>1, LedgerInvariant, PTL

(* The version an instance holds never says more than its list, so a       *)
(* renewal that finds it current has missed no revocation.                 *)
THEOREM VersionStaysHeld == Spec => []VersionIsHeld
<1>1. LedgerInv => VersionIsHeld
  BY DEF LedgerInv
<1> QED
  BY <1>1, LedgerInvariant, PTL

(* A stored Host is removed only once its stored end has passed, and its   *)
(* valid until never moves back, whatever the instance that writes         *)
(* believes of it.                                                         *)
THEOREM HostsAreKept == Spec => HostsKept
<1>1. LedgerInv /\ [Next]_vars => [HostsStep]_vars
  BY LedgerNext DEF Kept
<1>2. [HostsStep]_vars <=>
        [\A h \in DOMAIN db.hosts :
            IF h \in DOMAIN db'.hosts THEN db'.hosts[h].until >= db.hosts[h].until
            ELSE ~db.hosts[h].gateway /\ db.hosts[h].until <= now]_vars
  BY DEF HostsStep
<1> QED
  BY <1>1, <1>2, LedgerInvariant, PTL DEF Spec, HostsKept

(* Nothing joins the register past its bound, below a revoked certificate  *)
(* or on a revoked bootstrap certificate, however old the copy of the      *)
(* instance that signs.                                                    *)
THEOREM SigningIsFromStore == Spec => SignedFromStore
<1>1. LedgerInv /\ [Next]_vars => [SignedStep]_vars
  BY LedgerNext DEF Kept
<1>2. [SignedStep]_vars <=>
        [\A c \in db'.reg \ db.reg :
            /\ Cardinality(db'.reg) <= Size(c)
            /\ Bootstrap[c] \notin db.list
            /\ Predecessor[c] # None => Chain(db.reg, Predecessor[c]) \cap db.list = {}]_vars
  BY DEF SignedStep
<1> QED
  BY <1>1, <1>2, LedgerInvariant, PTL DEF Spec, SignedFromStore
===============================================================================
