------------------------------ MODULE LoopProofs ------------------------------
(***************************************************************************)
(* Proofs about module ControlLoop, for every set of Configurations, every *)
(* span of the sequence numbers, every capacity of the queues and every    *)
(* setup: the loop's state stays sound, a restart is carried out once at   *)
(* most, and the Server is not left behind what the Agent has told.        *)
(***************************************************************************)
EXTENDS ControlLoop, FiniteSetTheorems, FunctionTheorems, SequenceTheorems, TLAPS

-------------------------------------------------------------------------------
(* Sequence numbers                                                        *)

LEMMA TickFacts ==
  /\ 0 \in Seq0
  /\ \A n \in Seq0 : Tick(n) \in Seq0 /\ Tick(n) # n
  /\ \A m, n \in Seq0 : Tick(m) = Tick(n) => m = n
<1>1. SeqSpan \in Nat /\ SeqSpan > 1
  BY SpanAssumption
<1>2. ASSUME NEW n \in Seq0 PROVE Tick(n) = IF n = SeqSpan - 1 THEN 0 ELSE n + 1
  BY <1>1 DEF Tick, Seq0
<1>3. \A n \in Seq0 : n \in Nat /\ n <= SeqSpan - 1
  BY <1>1 DEF Seq0
<1> QED
  BY <1>1, <1>2, <1>3 DEF Seq0

-------------------------------------------------------------------------------
(* Queues                                                                  *)

LEMMA QueueFacts ==
  ASSUME NEW T, NEW s \in Seq(T)
  PROVE  /\ Len(s) \in Nat /\ \A i \in 1 .. Len(s) : s[i] \in T
         /\ s = <<>> <=> Len(s) = 0
         /\ s # <<>> => Head(s) = s[1]
         /\ \A x : x \in ToSet(s) <=> \E i \in 1 .. Len(s) : s[i] = x
<1>1. Len(s) \in Nat /\ DOMAIN s = 1 .. Len(s) /\ s \in [1 .. Len(s) -> T]
  BY LenProperties
<1>2. s = <<>> <=> Len(s) = 0
  BY <1>1, EmptySeq
<1>3. s # <<>> => Head(s) = s[1]
  OBVIOUS
<1>4. \A x : x \in ToSet(s) <=> \E i \in 1 .. Len(s) : s[i] = x
  BY <1>1 DEF ToSet
<1> QED
  BY <1>1, <1>2, <1>3, <1>4

LEMMA QueueNone ==
  ASSUME NEW T
  PROVE  <<>> \in Seq(T) /\ Len(<<>>) = 0 /\ \A x : x \notin ToSet(<<>>)
<1>1. <<>> \in Seq(T) /\ Len(<<>>) = 0
  BY EmptySeq
<1>2. \A x : x \in ToSet(<<>>) <=> \E i \in 1 .. Len(<<>>) : <<>>[i] = x
  BY <1>1, QueueFacts
<1> QED
  BY <1>1, <1>2

LEMMA QueueAppend ==
  ASSUME NEW T, NEW s \in Seq(T), NEW x \in T
  PROVE  /\ Append(s, x) \in Seq(T) /\ Append(s, x) # <<>>
         /\ Len(Append(s, x)) = Len(s) + 1
         /\ \A i \in 1 .. Len(s) : Append(s, x)[i] = s[i]
         /\ Append(s, x)[Len(s) + 1] = x
         /\ \A y : y \in ToSet(Append(s, x)) <=> y \in ToSet(s) \/ y = x
         /\ s \o <<x>> = Append(s, x)
<1>1. /\ Append(s, x) \in Seq(T) /\ Len(Append(s, x)) = Len(s) + 1
      /\ \A i \in 1 .. Len(s) : Append(s, x)[i] = s[i]
      /\ Append(s, x)[Len(s) + 1] = x
  BY AppendProperties
<1>2. Len(s) \in Nat
  BY LenProperties
<1>3. Append(s, x) # <<>>
  BY <1>1, <1>2, QueueFacts
<1>4. ASSUME NEW y PROVE y \in ToSet(Append(s, x)) <=> y \in ToSet(s) \/ y = x
  <2>1. y \in ToSet(s) <=> \E i \in 1 .. Len(s) : s[i] = y
    BY QueueFacts
  <2>2. y \in ToSet(Append(s, x)) <=> \E i \in 1 .. Len(s) + 1 : Append(s, x)[i] = y
    <3>1. y \in ToSet(Append(s, x))
            <=> \E i \in 1 .. Len(Append(s, x)) : Append(s, x)[i] = y
      BY <1>1, QueueFacts, ZenonT(60)
    <3> QED
      BY <1>1, <3>1
  <2>3. 1 .. Len(s) + 1 = 1 .. Len(s) \cup {Len(s) + 1}
    BY <1>2
  <2> QED
    BY <1>1, <2>1, <2>2, <2>3
<1>5. s \o <<x>> = Append(s, x)
  <2>1. <<x>> \in Seq(T) /\ Len(<<x>>) = 1 /\ <<x>>[1] = x
    OBVIOUS
  <2>2. /\ s \o <<x>> \in Seq(T) /\ Len(s \o <<x>>) = Len(s) + Len(<<x>>)
        /\ \A i \in 1 .. Len(s) + Len(<<x>>) :
              (s \o <<x>>)[i] = IF i <= Len(s) THEN s[i] ELSE <<x>>[i - Len(s)]
    BY <2>1, ConcatProperties
  <2>3. \A i \in 1 .. Len(s) + 1 : (s \o <<x>>)[i] = Append(s, x)[i]
    BY <1>1, <1>2, <2>1, <2>2
  <2>4. Len(s \o <<x>>) = Len(s) + 1
    BY <2>1, <2>2
  <2> QED
    BY <1>1, <2>2, <2>3, <2>4, SeqEqual
<1> QED
  BY <1>1, <1>3, <1>4, <1>5

LEMMA QueueTail ==
  ASSUME NEW T, NEW s \in Seq(T), s # <<>>
  PROVE  /\ Head(s) \in T /\ Head(s) = s[1] /\ Tail(s) \in Seq(T)
         /\ Len(Tail(s)) = Len(s) - 1 /\ Len(s) \in Nat \ {0}
         /\ \A i \in 1 .. Len(s) - 1 : Tail(s)[i] = s[i + 1]
         /\ \A y : y \in ToSet(s) <=> y \in ToSet(Tail(s)) \/ y = Head(s)
<1>1. /\ Head(s) \in T /\ Tail(s) \in Seq(T) /\ Len(Tail(s)) = Len(s) - 1
      /\ \A i \in 1 .. Len(s) - 1 : Tail(s)[i] = s[i + 1]
  <2>1. /\ Head(s) \in T /\ Tail(s) \in Seq(T) /\ Len(Tail(s)) = Len(s) - 1
        /\ \A i \in 1 .. Len(Tail(s)) : Tail(s)[i] = s[i + 1]
    BY HeadTailProperties
  <2> QED
    BY <2>1
<1>2. Len(s) \in Nat \ {0} /\ Head(s) = s[1]
  BY QueueFacts
<1>3. ASSUME NEW y PROVE y \in ToSet(s) <=> y \in ToSet(Tail(s)) \/ y = Head(s)
  <2>1. y \in ToSet(s) <=> \E i \in 1 .. Len(s) : s[i] = y
    BY QueueFacts
  <2>2. y \in ToSet(Tail(s)) <=> \E i \in 1 .. Len(s) - 1 : Tail(s)[i] = y
    <3>1. y \in ToSet(Tail(s)) <=> \E i \in 1 .. Len(Tail(s)) : Tail(s)[i] = y
      BY <1>1, QueueFacts
    <3> QED
      BY <1>1, <3>1
  <2>3. CASE y \in ToSet(s)
    <3>1. PICK i \in 1 .. Len(s) : s[i] = y
      BY <2>1, <2>3
    <3>2. CASE i = 1
      BY <1>2, <3>1, <3>2, <2>3
    <3>3. CASE i # 1
      <4>1. i - 1 \in 1 .. Len(s) - 1 /\ (i - 1) + 1 = i
        BY <1>2, <3>3
      <4>2. Tail(s)[i - 1] = y
        BY <1>1, <3>1, <4>1
      <4> QED
        BY <2>2, <2>3, <4>1, <4>2
    <3> QED
      BY <3>2, <3>3
  <2>4. CASE y \in ToSet(Tail(s))
    <3>1. PICK i \in 1 .. Len(s) - 1 : Tail(s)[i] = y
      BY <2>2, <2>4
    <3>2. i + 1 \in 1 .. Len(s) /\ s[i + 1] = y
      BY <1>1, <1>2, <3>1
    <3> QED
      BY <2>1, <2>4, <3>2
  <2>5. CASE y = Head(s)
    <3>1. 1 \in 1 .. Len(s) /\ s[1] = y
      BY <1>2, <2>5
    <3> QED
      BY <2>1, <2>5, <3>1
  <2> QED
    BY <2>3, <2>4, <2>5
<1> QED
  BY <1>1, <1>2, <1>3

(* How many of a kind are in a queue.                                      *)
LEMMA AmongFinite ==
  ASSUME NEW T, NEW s \in Seq(T), NEW C
  PROVE  /\ IsFiniteSet({i \in 1 .. Len(s) : s[i] \in C})
         /\ Among(s, C) \in Nat
<1>1. Len(s) \in Nat
  BY LenProperties
<1>2. IsFiniteSet(1 .. Len(s))
  BY <1>1, FS_Interval
<1>3. {i \in 1 .. Len(s) : s[i] \in C} \in SUBSET (1 .. Len(s))
  OBVIOUS
<1>4. IsFiniteSet({i \in 1 .. Len(s) : s[i] \in C})
  BY <1>2, <1>3, FS_Subset
<1> QED
  BY <1>4, FS_CardinalityType DEF Among

LEMMA AmongNone == ASSUME NEW C PROVE Among(<<>>, C) = 0
<1>1. {i \in 1 .. Len(<<>>) : <<>>[i] \in C} = {}
  BY QueueNone
<1> QED
  BY <1>1, FS_EmptySet DEF Among

LEMMA AmongAppend ==
  ASSUME NEW T, NEW s \in Seq(T), NEW x \in T, NEW C
  PROVE  Among(Append(s, x), C) = Among(s, C) + (IF x \in C THEN 1 ELSE 0)
<1> DEFINE t == Append(s, x)
           S == {i \in 1 .. Len(s) : s[i] \in C}
<1>1. /\ Len(s) \in Nat /\ Len(t) = Len(s) + 1 /\ t[Len(s) + 1] = x
      /\ \A i \in 1 .. Len(s) : t[i] = s[i]
  BY LenProperties, QueueAppend
<1>2. IsFiniteSet(S) /\ Cardinality(S) \in Nat /\ Len(s) + 1 \notin S
  <2>1. IsFiniteSet(S) /\ Among(s, C) \in Nat
    BY AmongFinite
  <2> QED
    BY <1>1, <2>1 DEF Among
<1>3. CASE x \in C
  <2>1. {i \in 1 .. Len(t) : t[i] \in C} = S \cup {Len(s) + 1}
    BY <1>1, <1>3
  <2>2. Cardinality(S \cup {Len(s) + 1}) = Cardinality(S) + 1
    BY <1>2, FS_AddElement
  <2> QED
    BY <1>3, <2>1, <2>2 DEF Among
<1>4. CASE x \notin C
  <2>1. {i \in 1 .. Len(t) : t[i] \in C} = S
    BY <1>1, <1>4
  <2>2. Among(t, C) = Among(s, C) /\ Among(s, C) \in Nat
    BY <1>2, <2>1 DEF Among
  <2> QED
    BY <1>4, <2>2
<1> QED
  BY <1>3, <1>4

LEMMA AmongTail ==
  ASSUME NEW T, NEW s \in Seq(T), s # <<>>, NEW C
  PROVE  Among(s, C) = Among(Tail(s), C) + (IF Head(s) \in C THEN 1 ELSE 0)
<1> DEFINE t == Tail(s)
           S == {i \in 1 .. Len(s) : s[i] \in C}
           U == {i \in 1 .. Len(t) : t[i] \in C}
           f == [i \in U |-> i + 1]
<1>1. /\ Len(s) \in Nat \ {0} /\ Len(t) = Len(s) - 1 /\ Head(s) = s[1] /\ t \in Seq(T)
      /\ \A i \in 1 .. Len(s) - 1 : t[i] = s[i + 1]
  BY QueueTail
<1>2. /\ IsFiniteSet(S) /\ Cardinality(S) \in Nat
      /\ IsFiniteSet(U) /\ Cardinality(U) \in Nat
  <2>1. IsFiniteSet(S) /\ Among(s, C) \in Nat /\ IsFiniteSet(U) /\ Among(t, C) \in Nat
    BY <1>1, AmongFinite
  <2> QED
    BY <2>1 DEF Among
<1> HIDE DEF t
<1>3. \A i \in U : i + 1 \in S \ {1}
  BY <1>1
<1>4. \A j \in S \ {1} : j - 1 \in U /\ (j - 1) + 1 = j
  BY <1>1
<1>5. f \in Bijection(U, S \ {1})
  <2>0. U \subseteq Nat
    BY <1>1
  <2>1. f \in [U -> S \ {1}]
    BY <1>3
  <2>2. \A a, b \in U : f[a] = f[b] => a = b
    BY <2>0
  <2>3. \A j \in S \ {1} : \E i \in U : f[i] = j
    BY <1>4
  <2> HIDE DEF f, S, U
  <2> QED
    BY <2>1, <2>2, <2>3 DEF Bijection, Injection, Surjection, IsInjective
<1>6. Cardinality(S \ {1}) = Cardinality(U)
  BY <1>2, <1>5, FS_Bijection DEF ExistsBijection
<1>7. 1 \in S <=> Head(s) \in C
  BY <1>1
<1>8. Cardinality(S \ {1}) = IF 1 \in S THEN Cardinality(S) - 1 ELSE Cardinality(S)
  BY <1>2, FS_RemoveElement
<1>9. Among(s, C) = Cardinality(S) /\ Among(Tail(s), C) = Cardinality(U)
  BY DEF Among, t
<1> QED
  BY <1>2, <1>6, <1>7, <1>8, <1>9

-------------------------------------------------------------------------------
(* Messages and records                                                    *)

Records == [known : BOOLEAN, seq : Seq0, status : Statuses, described : BOOLEAN,
            restart : BOOLEAN]

LEMMA StatusFacts ==
  /\ NoStatus \in Statuses
  /\ \A h \in Hash : \A s \in {"APPLYING", "APPLIED", "FAILED"} :
        Of(h, s) \in Statuses /\ Of(h, s) # NoStatus
  /\ \A h \in Hash : \A ok \in BOOLEAN : Verdict(h, ok) \in Statuses
  /\ \A h \in Hash \cup {None} : Restored(h) \in Statuses
<1>1. NoStatus \in Statuses
  BY DEF Statuses
<1>2. ASSUME NEW h \in Hash, NEW s \in {"APPLYING", "APPLIED", "FAILED"}
      PROVE  Of(h, s) \in Statuses /\ Of(h, s) # NoStatus
  BY NoneAssumption DEF Statuses, Of, NoStatus
<1>3. ASSUME NEW h \in Hash, NEW ok \in BOOLEAN PROVE Verdict(h, ok) \in Statuses
  BY <1>2 DEF Verdict
<1>4. ASSUME NEW h \in Hash \cup {None} PROVE Restored(h) \in Statuses
  BY <1>1, <1>2 DEF Restored
<1> QED
  BY <1>1, <1>2, <1>3, <1>4

LEMMA ReportFields ==
  ASSUME NEW r \in Reports
  PROVE  r.seq \in Seq0 /\ r.full \in BOOLEAN /\ r.status \in Statuses
  BY DEF Reports

LEMMA ReportMade ==
  ASSUME NEW n \in Seq0, NEW f \in BOOLEAN, NEW st \in Statuses
  PROVE  LET r == [seq |-> n, full |-> f, status |-> st]
         IN  r \in Reports /\ r.seq = n /\ r.full = f /\ r.status = st
  BY DEF Reports

LEMMA ReplyFields ==
  ASSUME NEW r \in Replies
  PROVE  r.command \in BOOLEAN /\ r.full \in BOOLEAN /\ r.offer \in Hash \cup {None}
  BY DEF Replies

LEMMA ReplyMade ==
  ASSUME NEW c \in BOOLEAN, NEW f \in BOOLEAN, NEW o \in Hash \cup {None}
  PROVE  LET r == [command |-> c, full |-> f, offer |-> o]
         IN  /\ r \in Replies /\ r.command = c /\ r.full = f /\ r.offer = o
             /\ r \in Commands <=> c
<1> DEFINE r == [command |-> c, full |-> f, offer |-> o]
<1>1. r \in Replies /\ r.command = c /\ r.full = f /\ r.offer = o
  BY DEF Replies
<1>2. c => r \in Commands
  BY DEF Commands
<1>3. r \in Commands => r.command = TRUE
  BY DEF Commands
<1> QED
  BY <1>1, <1>2, <1>3

LEMMA CommandsFacts ==
  ASSUME NEW r \in Replies
  PROVE  r \in Commands <=> r.command
<1>1. r.command \in BOOLEAN /\ r.full \in BOOLEAN /\ r.offer \in Hash \cup {None}
  BY ReplyFields
<1>2. r = [command |-> r.command, full |-> r.full, offer |-> r.offer]
  BY DEF Replies
<1> QED
  BY <1>1, <1>2, ReplyMade

LEMMA RecordFields ==
  ASSUME NEW x \in Records
  PROVE  /\ x.known \in BOOLEAN /\ x.seq \in Seq0 /\ x.status \in Statuses
         /\ x.described \in BOOLEAN /\ x.restart \in BOOLEAN
         /\ x = [known |-> x.known, seq |-> x.seq, status |-> x.status,
                 described |-> x.described, restart |-> x.restart]
  BY DEF Records

LEMMA RecordMade ==
  ASSUME NEW k \in BOOLEAN, NEW n \in Seq0, NEW st \in Statuses, NEW d \in BOOLEAN,
         NEW t \in BOOLEAN
  PROVE  LET x == [known |-> k, seq |-> n, status |-> st, described |-> d, restart |-> t]
         IN  /\ x \in Records /\ x.known = k /\ x.seq = n /\ x.status = st
             /\ x.described = d /\ x.restart = t
  BY DEF Records

LEMMA NoRecordFacts ==
  NoRecord \in Records /\ ~NoRecord.known /\ ~NoRecord.restart
  BY TickFacts, StatusFacts, RecordMade DEF NoRecord

(* The two copies of the record agree but for the sequence number.         *)
Alike(x, y) ==
  x.known = y.known /\ x.status = y.status /\ x.described = y.described
    /\ x.restart = y.restart

LEMMA AlikeFacts ==
  ASSUME NEW x \in Records, NEW y \in Records
  PROVE  [x EXCEPT !.seq = 0] = [y EXCEPT !.seq = 0] <=> Alike(x, y)
<1> DEFINE a == [x EXCEPT !.seq = 0]
           b == [y EXCEPT !.seq = 0]
<1>1. /\ a \in Records /\ a.seq = 0 /\ a.known = x.known /\ a.status = x.status
      /\ a.described = x.described /\ a.restart = x.restart
  BY TickFacts DEF Records
<1>2. /\ b \in Records /\ b.seq = 0 /\ b.known = y.known /\ b.status = y.status
      /\ b.described = y.described /\ b.restart = y.restart
  BY TickFacts DEF Records
<1> HIDE DEF a, b
<1>3. a = b => Alike(x, y)
  BY <1>1, <1>2 DEF Alike
<1>4. Alike(x, y) => a = b
  <2>1. a = [known |-> a.known, seq |-> a.seq, status |-> a.status,
             described |-> a.described, restart |-> a.restart]
    BY <1>1, RecordFields
  <2>2. b = [known |-> b.known, seq |-> b.seq, status |-> b.status,
             described |-> b.described, restart |-> b.restart]
    BY <1>2, RecordFields
  <2> QED
    BY <1>1, <1>2, <2>1, <2>2 DEF Alike
<1> QED
  BY <1>3, <1>4 DEF a, b

LEMMA SpendFacts ==
  ASSUME spent \in [Happenings -> Nat], NEW w \in Happenings, Spend(w)
  PROVE  /\ spent' \in [Happenings -> Nat] /\ setup' = setup
         /\ spent'[w] = spent[w] + 1
         /\ \A v \in Happenings \ {w} : spent'[v] = spent[v]
  BY DEF Spend

-------------------------------------------------------------------------------
(* The Client sends a report, or keeps it                                  *)

(* The parts of the invariant about what the Agent has told.               *)
Told == Numbered /\ LateApart /\ SameInStore /\ StatusTravels /\ RecordFollows

LEMMA Typed ==
  ASSUME LoopTypeOK
  PROVE  /\ seq \in Seq0 /\ status \in Statuses
         /\ sendFull \in BOOLEAN /\ sendStatus \in BOOLEAN /\ owes \in BOOLEAN
         /\ pending \in Hash \cup {None} /\ stored \in Hash \cup {None}
         /\ cmds \in Seq(Hash \cup {Restart}) /\ events \in Seq(Statuses)
         /\ link \in {"up", "down"} /\ up \in Seq(Reports) /\ down \in Seq(Replies)
         /\ link = "down" => up = <<>> /\ down = <<>>
         /\ late \subseteq Reports /\ rec \in Records /\ store \in Records
         /\ desired \in Hash \cup {None} /\ wake \in BOOLEAN /\ carried \in BOOLEAN
         /\ restarted \in Nat /\ spent \in [Happenings -> Nat] /\ setup \in Setups
         /\ Polling \in BOOLEAN /\ Managed \in BOOLEAN
<1>1. setup \in [managed : BOOLEAN, polling : BOOLEAN, limit : [Happenings -> Nat]]
  BY SetupsAssumption DEF LoopTypeOK
<1>2. Polling \in BOOLEAN /\ Managed \in BOOLEAN
  BY <1>1 DEF Polling, Managed
<1> QED
  BY <1>2 DEF LoopTypeOK, Records

LEMMA SendFacts ==
  ASSUME seq \in Seq0, up \in Seq(Reports),
         NEW st \in Statuses, NEW full \in BOOLEAN, NEW ws \in BOOLEAN,
         SendReport(st, full, ws)
  PROVE  /\ seq' \in Seq0 /\ seq' = Tick(seq) /\ up' \in Seq(Reports) /\ up' # <<>>
         /\ Len(up) \in Nat /\ Len(up') = Len(up) + 1
         /\ \A i \in 1 .. Len(up) : up'[i] = up[i]
         /\ up'[Len(up')].seq = Tick(seq) /\ up'[Len(up')].full = full
         /\ full \/ ws => up'[Len(up')].status = st
         /\ ~full /\ ~ws => up'[Len(up')].status = NoStatus
         /\ Head(up') = up'[1]
         /\ sendFull' = FALSE /\ sendStatus' = FALSE /\ owes' = FALSE
         /\ \A r \in late : Tick(Tick(seq)) # r.seq
<1> DEFINE told == IF full \/ ws THEN st ELSE NoStatus
           x == [seq |-> Tick(seq), full |-> full, status |-> told]
<1>1. Tick(seq) \in Seq0 /\ told \in Statuses
  BY TickFacts, StatusFacts
<1>2. x \in Reports /\ x.seq = Tick(seq) /\ x.full = full /\ x.status = told
  BY <1>1, ReportMade
<1>3. /\ up' = Append(up, x) /\ seq' = Tick(seq)
      /\ sendFull' = FALSE /\ sendStatus' = FALSE /\ owes' = FALSE
      /\ \A r \in late : Tick(Tick(seq)) # r.seq
  BY DEF SendReport, Outlived
<1> HIDE DEF x
<1>4. /\ up' \in Seq(Reports) /\ up' # <<>> /\ Len(up') = Len(up) + 1
      /\ \A i \in 1 .. Len(up) : up'[i] = up[i]
      /\ up'[Len(up) + 1] = x
  BY <1>2, <1>3, QueueAppend
<1>5. Len(up) \in Nat /\ Head(up') = up'[1]
  BY <1>4, QueueFacts
<1> QED
  BY <1>1, <1>2, <1>3, <1>4, <1>5

(* What a report that is sent, and what one that is kept, does for the     *)
(* status: it travels, or nothing changed.                                 *)
LEMMA SendLatest ==
  ASSUME seq \in Seq0, up \in Seq(Reports), status \in Statuses,
         NEW st \in Statuses, NEW full \in BOOLEAN, NEW ws \in BOOLEAN,
         SendReport(st, full, ws), status' = st,
         sendFull => full, ~full /\ ~ws => st = status /\ ~sendStatus
  PROVE  /\ full \/ ws => Latest'
         /\ ~full /\ ~ws /\ Latest => Latest'
         /\ ~full /\ ~ws /\ Owed => Owed'
         /\ ~full /\ ~ws /\ (\A i \in 1 .. Len(up) : ~Carries(i))
              => (\A i \in 1 .. Len(up) : ~Carries(i))'
         /\ (\E i \in 1 .. Len(up) : up[i].full) => (\E i \in 1 .. Len(up) : up[i].full)'
         /\ full => (\E i \in 1 .. Len(up) : up[i].full)'
<1>1. /\ Len(up) \in Nat /\ Len(up') = Len(up) + 1
      /\ \A i \in 1 .. Len(up) : up'[i] = up[i]
      /\ up'[Len(up')].full = full
      /\ full \/ ws => up'[Len(up')].status = st
      /\ ~full /\ ~ws => up'[Len(up')].status = NoStatus
  BY SendFacts
<1>2. Len(up') \in 1 .. Len(up') /\ 1 .. Len(up') = 1 .. Len(up) \cup {Len(up')}
  BY <1>1
<1>3. full \/ ws => Latest'
  <2> SUFFICES ASSUME full \/ ws PROVE Latest'
    OBVIOUS
  <2>1. \A k \in Len(up') + 1 .. Len(up') : FALSE
    BY <1>1
  <2>2. up'[Len(up')].status = status'
    BY <1>1
  <2> QED
    BY <1>2, <2>1, <2>2 DEF Latest
<1>4. ASSUME ~full, ~ws, Latest PROVE Latest'
  <2>1. PICK i \in 1 .. Len(up) :
              up[i].status = status /\ \A k \in i + 1 .. Len(up) : ~Carries(k)
    BY <1>4 DEF Latest
  <2>2. i \in 1 .. Len(up') /\ up'[i].status = status'
    BY <1>1, <1>2, <1>4, <2>1
  <2>3. ASSUME NEW k \in i + 1 .. Len(up') PROVE ~(up'[k].full \/ up'[k].status # NoStatus)
    <3>1. CASE k = Len(up')
      BY <1>1, <1>4, <3>1
    <3>2. CASE k # Len(up')
      <4>1. k \in i + 1 .. Len(up) /\ k \in 1 .. Len(up)
        BY <1>1, <3>2
      <4> QED
        BY <1>1, <2>1, <4>1 DEF Carries
    <3> QED
      BY <3>1, <3>2
  <2> QED
    BY <2>2, <2>3 DEF Latest, Carries
<1>5. ~full /\ ~ws /\ Owed => Owed'
  BY DEF Owed
<1>6. ASSUME ~full, ~ws, \A i \in 1 .. Len(up) : ~Carries(i)
      PROVE  (\A i \in 1 .. Len(up) : ~Carries(i))'
  <2>1. ASSUME NEW k \in 1 .. Len(up') PROVE ~(up'[k].full \/ up'[k].status # NoStatus)
    BY <1>1, <1>2, <1>6 DEF Carries
  <2> QED
    BY <2>1 DEF Carries
<1>7. (\E i \in 1 .. Len(up) : up[i].full) => (\E i \in 1 .. Len(up) : up[i].full)'
  BY <1>1, <1>2
<1>8. full => (\E i \in 1 .. Len(up) : up[i].full)'
  BY <1>1, <1>2
<1> QED
  BY <1>3, <1>4, <1>5, <1>6, <1>7, <1>8

(* What a step of the Client that sends or keeps a report leaves alone: the *)
(* Server's side, and what it owes it still owes or sends.                 *)
Owing(full, ws) ==
  /\ sendFull => full
  /\ ~full /\ ~ws => status' = status /\ ~sendStatus
  /\ rec' = rec /\ store' = store /\ late' = late /\ spent' = spent /\ setup' = setup
  /\ down' \in Seq(Replies)
  /\ \A r : r \in ToSet(down') => r \in ToSet(down)
  /\ \A r \in ToSet(down) : r.full => full \/ r \in ToSet(down')

LEMMA SendSound ==
  ASSUME LoopTypeOK, Told,
         NEW st \in Statuses, NEW full \in BOOLEAN, NEW ws \in BOOLEAN,
         SendReport(st, full, ws), status' = st, Owing(full, ws),
         link = "down" => full, link' = "up", Polling => up = <<>> /\ down' = <<>>
  PROVE  Told'
<1> USE Typed DEF Told
<1>1. /\ seq' \in Seq0 /\ seq' = Tick(seq) /\ up' \in Seq(Reports) /\ up' # <<>>
      /\ Len(up) \in Nat /\ Len(up') = Len(up) + 1
      /\ \A i \in 1 .. Len(up) : up'[i] = up[i]
      /\ up'[Len(up')].seq = Tick(seq) /\ up'[Len(up')].full = full
      /\ Head(up') = up'[1]
      /\ sendFull' = FALSE /\ sendStatus' = FALSE
      /\ \A r \in late : Tick(Tick(seq)) # r.seq
  BY SendFacts
<1>2. /\ full \/ ws => Latest'
      /\ ~full /\ ~ws /\ Latest => Latest'
      /\ ~full /\ ~ws /\ Owed => Owed'
      /\ ~full /\ ~ws /\ (\A i \in 1 .. Len(up) : ~Carries(i))
           => (\A i \in 1 .. Len(up) : ~Carries(i))'
      /\ (\E i \in 1 .. Len(up) : up[i].full) => (\E i \in 1 .. Len(up) : up[i].full)'
      /\ full => (\E i \in 1 .. Len(up) : up[i].full)'
  BY SendLatest DEF Owing
<1>3. up = <<>> <=> Len(up) = 0
  BY QueueFacts
<1>4. up # <<>> => Head(up) = up[1] /\ Head(up') = Head(up)
  BY <1>1, <1>3, QueueFacts
<1>5. Numbered'
  <2>1. up'[Len(up')].seq = seq'
    BY <1>1
  <2>2. ASSUME NEW i \in 1 .. Len(up') - 1 PROVE up'[i + 1].seq = Tick(up'[i].seq)
    <3>1. CASE i = Len(up)
      <4>1. up # <<>> /\ i \in 1 .. Len(up)
        BY <1>1, <1>3, <3>1
      <4>2. up[i].seq = seq /\ up'[i] = up[i] /\ up'[i + 1].seq = Tick(seq)
        BY <1>1, <3>1, <4>1 DEF Numbered
      <4> QED
        BY <4>2
    <3>2. CASE i # Len(up)
      <4>1. i \in 1 .. Len(up) - 1 /\ i \in 1 .. Len(up) /\ i + 1 \in 1 .. Len(up)
        BY <1>1, <3>2
      <4>2. up[i + 1].seq = Tick(up[i].seq)
        BY <4>1 DEF Numbered
      <4> QED
        BY <1>1, <4>1, <4>2
    <3> QED
      BY <3>1, <3>2
  <2>3. Polling' => link' = "up" /\ Len(up') + Len(down') <= 1
    BY <1>1, <1>3, QueueNone DEF Polling, Owing
  <2>4. \A r \in ToSet(down') : r.command => ~r.full
    BY DEF Numbered, Owing
  <2> QED
    BY <2>1, <2>2, <2>3, <2>4 DEF Numbered
<1>6. LateApart'
  <2>1. late' # {} => Polling'
    BY DEF LateApart, Owing, Polling
  <2>2. ASSUME NEW r \in late
        PROVE  /\ Tick(seq') # r.seq /\ r.seq # seq'
               /\ Tick(r.seq) = seq' => Head(up').full
    <3>1. r.seq \in Seq0 /\ Polling
      BY ReportFields DEF LateApart
    <3>2. Tick(seq') # r.seq /\ r.seq # seq'
      BY <1>1 DEF LateApart
    <3>3. ASSUME Tick(r.seq) = seq' PROVE Head(up').full
      <4>1. r.seq = seq
        BY <1>1, <3>1, <3>3, TickFacts
      <4>2. sendFull /\ up = <<>>
        BY <4>1 DEF LateApart
      <4>3. Len(up') = 1 /\ full
        BY <1>1, <1>3, <4>2 DEF Owing
      <4>4. Head(up') = up'[Len(up')]
        BY <1>1, <4>3
      <4> QED
        BY <1>1, <4>3, <4>4
    <3> QED
      BY <3>2, <3>3
  <2>3. late' = late
    BY DEF Owing
  <2> QED
    BY <2>1, <2>2, <2>3 DEF LateApart
<1>7. SameInStore'
  BY DEF SameInStore, Owing
<1>8. StatusTravels'
  BY <1>2 DEF StatusTravels
<1>9. RecordFollows'
  <2> SUFFICES ASSUME spent'["throttled"] = 0, rec'.known, Tick(rec'.seq) = Expected'
               PROVE  Demanded' \/ Current(rec)'
    BY <1>1 DEF RecordFollows
  <2>1. CASE full
    BY <1>2, <2>1 DEF Current
  <2>2. CASE ~full
    <3>1. link = "up"
      BY <2>2
    <3>2. Expected' = Expected
      BY <1>1, <1>3, <1>4, QueueFacts DEF Expected
    <3>3. Demanded \/ Current(rec)
      BY <3>1, <3>2 DEF RecordFollows, Owing
    <3>4. Demanded => Demanded'
      BY <2>2 DEF Demanded, Owing
    <3>5. Current(rec) => Current(rec)'
      BY <1>2, <2>2 DEF Current, Owing
    <3> QED
      BY <3>3, <3>4, <3>5
  <2> QED
    BY <2>1, <2>2
<1> QED
  BY <1>5, <1>6, <1>7, <1>8, <1>9

(* A report that is not sent at once stays owed.                           *)
LEMMA KeepSound ==
  ASSUME LoopTypeOK, Told, NEW full \in BOOLEAN, NEW ws \in BOOLEAN,
         sendFull' = full, sendStatus' = ws, Owing(full, ws),
         seq' = seq, up' = up, link' = link, Len(down') <= Len(down)
  PROVE  Told'
<1> USE Typed DEF Told
<1>1. Owed => Owed'
  BY DEF Owed, Owing
<1>2. ~full /\ ~ws /\ Latest => Latest'
  BY DEF Latest, Carries, Owing
<1>3. full \/ ws => Owed'
  BY DEF Owed
<1>4. \A i \in 1 .. Len(up) : ~Carries(i) => ~Carries(i)'
  BY DEF Carries
<1>5. Numbered'
  <2>1. up' # <<>> => up'[Len(up')].seq = seq'
    BY DEF Numbered
  <2>2. \A i \in 1 .. Len(up') - 1 : up'[i + 1].seq = Tick(up'[i].seq)
    BY DEF Numbered
  <2>3. Polling' => link' = "up" /\ Len(up') + Len(down') <= 1
    <3>1. Len(up) \in Nat /\ Len(down) \in Nat /\ Len(down') \in Nat
      BY LenProperties DEF Owing
    <3> QED
      BY <3>1 DEF Numbered, Owing, Polling
  <2>4. \A r \in ToSet(down') : r.command => ~r.full
    BY DEF Numbered, Owing
  <2> QED
    BY <2>1, <2>2, <2>3, <2>4 DEF Numbered
<1>6. LateApart'
  <2>1. late' = late /\ setup' = setup /\ (sendFull => sendFull')
    BY DEF Owing
  <2> QED
    BY <2>1 DEF LateApart, Polling
<1>7. SameInStore'
  BY DEF SameInStore, Owing
<1>8. StatusTravels'
  <2>1. CASE full \/ ws
    BY <1>3, <2>1 DEF StatusTravels
  <2>2. CASE ~full /\ ~ws
    BY <1>1, <1>2, <1>4, <2>2 DEF StatusTravels
  <2> QED
    BY <2>1, <2>2
<1>9. RecordFollows'
  <2>1. Demanded => Demanded'
    BY DEF Demanded, Owing
  <2>2. rec' = rec /\ store' = store /\ Expected' = Expected /\ Polling' = Polling
          /\ spent' = spent
    BY DEF Owing, Expected, Polling
  <2>3. Current(rec) => Current(rec)'
    <3>1. CASE full \/ ws
      BY <1>3, <2>2, <3>1 DEF Current
    <3>2. CASE ~full /\ ~ws
      BY <1>1, <1>2, <2>2, <3>2 DEF Current, Owing
    <3> QED
      BY <3>1, <3>2
  <2>4. Current(store) => Current(store)'
    <3>1. CASE full \/ ws
      BY <1>3, <2>2, <3>1 DEF Current
    <3>2. CASE ~full /\ ~ws
      BY <1>1, <1>2, <2>2, <3>2 DEF Current, Owing
    <3> QED
      BY <3>1, <3>2
  <2> QED
    BY <2>1, <2>2, <2>3, <2>4 DEF RecordFollows
<1> QED
  BY <1>5, <1>6, <1>7, <1>8, <1>9

LEMMA FlushSound ==
  ASSUME LoopTypeOK, Told,
         NEW st \in Statuses, NEW full \in BOOLEAN, NEW ws \in BOOLEAN, NEW owing \in BOOLEAN,
         Flush(st, full, ws, owing), status' = st, Owing(full, ws),
         link' = link, Len(down') <= Len(down)
  PROVE  /\ Told'
         /\ seq' \in Seq0 /\ up' \in Seq(Reports) /\ sendFull' \in BOOLEAN
         /\ sendStatus' \in BOOLEAN /\ owes' \in BOOLEAN
         /\ link = "down" => up' = up
<1>1. CASE owing /\ ~Polling /\ link = "up"
  <2>1. SendReport(st, full, ws)
    BY <1>1 DEF Flush
  <2>2. Told'
    BY <1>1, <2>1, SendSound
  <2> QED
    BY <1>1, <2>1, <2>2, SendFacts, Typed
<1>2. CASE ~(owing /\ ~Polling /\ link = "up")
  <2>1. sendFull' = full /\ sendStatus' = ws /\ owes' = owing /\ seq' = seq /\ up' = up
    BY <1>2 DEF Flush
  <2>2. Told'
    BY <2>1, KeepSound
  <2> QED
    BY <2>1, <2>2, Typed
<1> QED
  BY <1>1, <1>2

(* A step that touches none of what is told.                               *)
LEMMA AsideSound ==
  ASSUME LoopTypeOK, Told,
         UNCHANGED <<seq, status, sendFull, sendStatus, up, down, late, link, rec, store, setup>>,
         spent'["throttled"] = spent["throttled"]
  PROVE  Told'
<1> USE DEF Told
<1>1. Numbered' /\ LateApart' /\ SameInStore'
  BY DEF Numbered, LateApart, SameInStore, Polling
<1>2. (Owed' = Owed) /\ (Latest' = Latest)
  BY DEF Owed, Latest, Carries
<1>3. StatusTravels'
  BY <1>2 DEF StatusTravels, Carries
<1>4. /\ (Current(rec)' = Current(rec)) /\ (Current(store)' = Current(store))
      /\ (Demanded' = Demanded) /\ Expected' = Expected /\ Polling' = Polling
  BY <1>2 DEF Current, Demanded, Expected, Polling
<1>5. RecordFollows'
  BY <1>4 DEF RecordFollows
<1> QED
  BY <1>1, <1>3, <1>5

-------------------------------------------------------------------------------
(* The Client's steps                                                      *)

LEMMA Parts ==
  /\ LoopInv <=> LoopTypeOK /\ RestartOnce /\ Told
  /\ LoopInv' <=> LoopTypeOK' /\ RestartOnce' /\ Told'
  BY DEF LoopInv, Told

LEMMA RestartNumbers ==
  ASSUME LoopTypeOK
  PROVE  /\ Among(cmds, {Restart}) \in Nat /\ Among(down, Commands) \in Nat
         /\ Queued \in {0, 1} /\ restarted \in Nat /\ spent["restarts"] \in Nat
<1>1. Among(cmds, {Restart}) \in Nat /\ Among(down, Commands) \in Nat
  BY Typed, AmongFinite
<1>2. spent["restarts"] \in Nat
  BY Typed DEF Happenings
<1> QED
  BY <1>1, <1>2, Typed DEF Queued

LEMMA RestartAside ==
  ASSUME RestartOnce,
         UNCHANGED <<restarted, cmds, down, rec, store>>, spent'["restarts"] = spent["restarts"]
  PROVE  RestartOnce'
  BY DEF RestartOnce, Queued

LEMMA PollKeeps == ASSUME LoopInv, Poll PROVE LoopInv'
<1> USE Parts
<1>1. Told'
  <2>1. Owing(sendFull, sendStatus)
    BY Typed DEF Poll, Owing, server, budget
  <2> QED
    BY <2>1, SendSound, Typed DEF Poll, Between, Listening
<1>2. RestartOnce'
  BY RestartAside DEF Poll, process, server, budget
<1>3. /\ seq' \in Seq0 /\ up' \in Seq(Reports) /\ sendFull' = FALSE /\ sendStatus' = FALSE
      /\ owes' = FALSE /\ link = "up" /\ link' = link
  BY Typed, SendFacts DEF Poll, Between, Listening
<1>4. LoopTypeOK'
  BY <1>3 DEF LoopTypeOK, Poll, process, server, budget
<1> QED
  BY <1>1, <1>2, <1>4

LEMMA ConnectKeeps == ASSUME LoopInv, Connect PROVE LoopInv'
<1> USE Parts
<1>1. Told'
  <2>1. Owing(TRUE, sendStatus)
    BY Typed DEF Connect, Owing, server, budget
  <2> QED
    BY <2>1, SendSound, Typed DEF Connect
<1>2. RestartOnce'
  BY RestartAside DEF Connect, process, server, budget
<1>3. /\ seq' \in Seq0 /\ up' \in Seq(Reports) /\ sendFull' = FALSE /\ sendStatus' = FALSE
      /\ owes' = FALSE
  BY Typed, SendFacts DEF Connect
<1>4. LoopTypeOK'
  BY <1>3 DEF LoopTypeOK, Connect, process, server, budget
<1> QED
  BY <1>1, <1>2, <1>4

LEMMA AbsorbKeeps == ASSUME LoopInv, Absorb PROVE LoopInv'
<1> USE Parts
<1>1. Head(events) \in Statuses /\ Tail(events) \in Seq(Statuses)
        /\ Len(Tail(events)) = Len(events) - 1 /\ Len(events) \in Nat
  BY Typed, QueueTail DEF Absorb
<1>2. SendReport(Head(events), sendFull, TRUE) /\ status' = Head(events)
  BY DEF Absorb
<1>3. Told'
  <2>1. Owing(sendFull, TRUE)
    BY Typed DEF Absorb, Owing, server, budget
  <2> QED
    BY <1>1, <1>2, <2>1, SendSound, Typed DEF Absorb, Between, Listening
<1>4. RestartOnce'
  BY RestartAside DEF Absorb, server, budget
<1>5. /\ seq' \in Seq0 /\ up' \in Seq(Reports) /\ sendFull' = FALSE /\ sendStatus' = FALSE
      /\ owes' = FALSE /\ link = "up" /\ link' = link
  BY <1>1, <1>2, Typed, SendFacts DEF Absorb, Between, Listening
<1>6. events' \in Seq(Statuses) /\ Len(events') <= Capacity
  BY <1>1, SpanAssumption DEF Absorb, LoopTypeOK
<1>7. LoopTypeOK'
  BY <1>1, <1>2, <1>5, <1>6 DEF LoopTypeOK, Absorb, server, budget
<1> QED
  BY <1>3, <1>4, <1>7

(* A reply is taken off the connection.                                    *)
LEMMA TakeFacts ==
  ASSUME LoopInv, NEW r, TakeReply(r)
  PROVE  /\ r \in Replies /\ down' \in Seq(Replies) /\ Len(down') <= Len(down)
         /\ \A x : x \in ToSet(down) <=> x \in ToSet(down') \/ x = r
         /\ link = "up" /\ (r.command => ~r.full)
         /\ Among(down, Commands) = Among(down', Commands) + (IF r.command THEN 1 ELSE 0)
         /\ Among(down', Commands) \in Nat
         /\ r.command \in BOOLEAN /\ r.full \in BOOLEAN /\ r.offer \in Hash \cup {None}
<1> USE Parts
<1>1. down # <<>> /\ r = Head(down) /\ down' = Tail(down) /\ link = "up" /\ down \in Seq(Replies)
  BY Typed DEF TakeReply, Listening
<1>2. /\ r \in Replies /\ down' \in Seq(Replies) /\ Len(down') = Len(down) - 1
      /\ Len(down) \in Nat \ {0}
      /\ \A x : x \in ToSet(down) <=> x \in ToSet(down') \/ x = r
  BY <1>1, QueueTail
<1>3. r.command => ~r.full
  BY <1>2 DEF Told, Numbered
<1>4. Among(down, Commands) = Among(down', Commands) + (IF r \in Commands THEN 1 ELSE 0)
  BY <1>1, AmongTail
<1>5. r \in Commands <=> r.command
  BY <1>2, CommandsFacts
<1>6. Among(down', Commands) \in Nat
  BY <1>2, AmongFinite
<1> QED
  BY <1>1, <1>2, <1>3, <1>4, <1>5, <1>6, ReplyFields

LEMMA HandlePlainKeeps == ASSUME LoopInv, NEW r, HandlePlain(r) PROVE LoopInv'
<1> USE Parts
<1> DEFINE full == sendFull \/ r.full
           owing == owes \/ r.full
<1>1. TakeReply(r) /\ ~r.command /\ Flush(status, full, sendStatus, owing)
  BY DEF HandlePlain
<1>2. /\ r \in Replies /\ down' \in Seq(Replies) /\ Len(down') <= Len(down)
      /\ \A x : x \in ToSet(down) <=> x \in ToSet(down') \/ x = r
      /\ link = "up" /\ r.full \in BOOLEAN
      /\ Among(down, Commands) = Among(down', Commands)
      /\ Among(down', Commands) \in Nat
  BY <1>1, TakeFacts
<1>3. full \in BOOLEAN /\ owing \in BOOLEAN
  BY <1>2, Typed
<1>4. Owing(full, sendStatus)
  BY <1>2 DEF HandlePlain, Owing, server, budget
<1> HIDE DEF full, owing
<1>5. status' = status /\ link' = link
  BY DEF HandlePlain
<1>6. /\ Told'
      /\ seq' \in Seq0 /\ up' \in Seq(Reports) /\ sendFull' \in BOOLEAN
      /\ sendStatus' \in BOOLEAN /\ owes' \in BOOLEAN
  BY <1>1, <1>2, <1>3, <1>4, <1>5, Typed, FlushSound
<1>7. RestartOnce'
  BY <1>2 DEF RestartOnce, Queued, HandlePlain, process, server, budget
<1>8. LoopTypeOK'
  BY <1>2, <1>6 DEF LoopTypeOK, HandlePlain, process, server, budget
<1> QED
  BY <1>6, <1>7, <1>8

LEMMA HandleCommandKeeps == ASSUME LoopInv, NEW r, HandleCommand(r) PROVE LoopInv'
<1> USE Parts
<1>1. TakeReply(r) /\ r.command /\ Flush(status, sendFull, sendStatus, owes)
  BY DEF HandleCommand
<1>2. /\ r \in Replies /\ down' \in Seq(Replies) /\ Len(down') <= Len(down)
      /\ \A x : x \in ToSet(down) <=> x \in ToSet(down') \/ x = r
      /\ link = "up" /\ ~r.full
      /\ Among(down, Commands) = Among(down', Commands) + 1
      /\ Among(down', Commands) \in Nat
  BY <1>1, TakeFacts
<1>3. Owing(sendFull, sendStatus)
  BY <1>2 DEF HandleCommand, Owing, server, budget
<1>4. status' = status /\ link' = link
  BY DEF HandleCommand
<1>5. /\ Told'
      /\ seq' \in Seq0 /\ up' \in Seq(Reports) /\ sendFull' \in BOOLEAN
      /\ sendStatus' \in BOOLEAN /\ owes' \in BOOLEAN
  BY <1>1, <1>2, <1>3, <1>4, Typed, FlushSound
<1>6. /\ cmds' \in Seq(Hash \cup {Restart}) /\ Len(cmds') <= Capacity
      /\ Among(cmds', {Restart}) \in Nat
      /\ Among(cmds', {Restart}) <= Among(cmds, {Restart}) + 1
  <2>0. cmds \in Seq(Hash \cup {Restart}) /\ Len(cmds) <= Capacity /\ Len(cmds) \in Nat
    BY Typed, LenProperties DEF LoopTypeOK
  <2>1. CASE cmds' = cmds
    BY <2>0, <2>1, RestartNumbers
  <2>2. CASE cmds' = Append(cmds, Restart) /\ Len(cmds) < Capacity
    <3>1. /\ Append(cmds, Restart) \in Seq(Hash \cup {Restart})
          /\ Len(Append(cmds, Restart)) = Len(cmds) + 1
      BY <2>0, QueueAppend
    <3>2. Among(Append(cmds, Restart), {Restart})
            = Among(cmds, {Restart}) + (IF Restart \in {Restart} THEN 1 ELSE 0)
      BY <2>0, AmongAppend
    <3> QED
      BY <2>0, <2>2, <3>1, <3>2, RestartNumbers, SpanAssumption
  <2> QED
    BY <2>1, <2>2 DEF HandleCommand
<1>7. RestartOnce'
  <2>1. restarted' = restarted /\ Queued' = Queued /\ spent' = spent
    BY DEF HandleCommand, Queued, server, budget
  <2> QED
    BY <1>2, <1>6, <2>1, RestartNumbers, SMTT(60) DEF RestartOnce
<1>8. LoopTypeOK'
  BY <1>2, <1>5, <1>6 DEF LoopTypeOK, HandleCommand, server, budget
<1> QED
  BY <1>5, <1>7, <1>8

LEMMA OfferedSound ==
  ASSUME LoopInv, NEW r, TakeReply(r), r.offer # None,
         NEW s \in {"APPLYING", "APPLIED", "FAILED"}, Offered(r, s),
         UNCHANGED <<link, late, rec, store, spent, setup>>
  PROVE  /\ Told' /\ status' \in Statuses
         /\ seq' \in Seq0 /\ up' \in Seq(Reports) /\ sendFull' \in BOOLEAN
         /\ sendStatus' \in BOOLEAN /\ owes' \in BOOLEAN
<1> USE Parts
<1> DEFINE full == sendFull \/ r.full
           st == Of(r.offer, s)
<1>1. status' = st /\ Flush(st, full, TRUE, TRUE)
  BY DEF Offered
<1>2. /\ r \in Replies /\ down' \in Seq(Replies) /\ Len(down') <= Len(down)
      /\ \A x : x \in ToSet(down) <=> x \in ToSet(down') \/ x = r
      /\ r.full \in BOOLEAN /\ r.offer \in Hash
  BY TakeFacts
<1>3. st \in Statuses /\ full \in BOOLEAN
  BY <1>2, StatusFacts, Typed
<1>4. Owing(full, TRUE)
  BY <1>2 DEF Owing
<1> HIDE DEF full, st
<1>5. /\ Told'
      /\ seq' \in Seq0 /\ up' \in Seq(Reports) /\ sendFull' \in BOOLEAN
      /\ sendStatus' \in BOOLEAN /\ owes' \in BOOLEAN
  BY <1>1, <1>2, <1>3, <1>4, FlushSound
<1> QED
  BY <1>1, <1>3, <1>5

LEMMA HandleOfferKeeps == ASSUME LoopInv, NEW r, HandleOffer(r) PROVE LoopInv'
<1> USE Parts
<1>1. TakeReply(r) /\ ~r.command /\ r.offer # None
  BY DEF HandleOffer
<1>2. /\ r \in Replies /\ down' \in Seq(Replies) /\ r.offer \in Hash /\ link = "up"
      /\ Among(down, Commands) = Among(down', Commands)
      /\ Among(down', Commands) \in Nat
  BY <1>1, TakeFacts
<1>3. UNCHANGED <<link, late, rec, store, spent, setup>>
  BY DEF HandleOffer, server, budget
<1>4. PICK s \in {"APPLYING", "APPLIED", "FAILED"} : Offered(r, s)
  BY DEF HandleOffer, StoreAndQueue
<1>5. /\ Told' /\ status' \in Statuses
      /\ seq' \in Seq0 /\ up' \in Seq(Reports) /\ sendFull' \in BOOLEAN
      /\ sendStatus' \in BOOLEAN /\ owes' \in BOOLEAN
  BY <1>1, <1>3, <1>4, OfferedSound
<1>6. /\ cmds' \in Seq(Hash \cup {Restart}) /\ Len(cmds') <= Capacity
      /\ Among(cmds', {Restart}) = Among(cmds, {Restart})
  <2>0. cmds \in Seq(Hash \cup {Restart}) /\ Len(cmds) <= Capacity /\ Len(cmds) \in Nat
    BY Typed, LenProperties DEF LoopTypeOK
  <2>1. CASE cmds' = cmds
    BY <2>0, <2>1
  <2>2. CASE cmds' = Append(cmds, r.offer) /\ Len(cmds) < Capacity
    <3>1. /\ Append(cmds, r.offer) \in Seq(Hash \cup {Restart})
          /\ Len(Append(cmds, r.offer)) = Len(cmds) + 1
      BY <1>2, <2>0, QueueAppend
    <3>2. Among(Append(cmds, r.offer), {Restart})
            = Among(cmds, {Restart}) + (IF r.offer \in {Restart} THEN 1 ELSE 0)
      BY <1>2, <2>0, AmongAppend
    <3>3. r.offer # Restart
      BY <1>1 DEF Restart
    <3> QED
      BY <2>0, <2>2, <3>1, <3>2, <3>3, RestartNumbers, SpanAssumption
  <2> QED
    BY <2>1, <2>2 DEF HandleOffer, StoreAndQueue
<1>7. pending' \in Hash \cup {None} /\ stored' \in Hash \cup {None}
  BY <1>2, Typed DEF HandleOffer, StoreAndQueue
<1>8. RestartOnce'
  <2>1. restarted' = restarted /\ Queued' = Queued
    BY <1>3 DEF HandleOffer, Queued
  <2> QED
    BY <1>2, <1>3, <1>6, <2>1 DEF RestartOnce
<1>9. LoopTypeOK'
  BY <1>2, <1>3, <1>5, <1>6, <1>7 DEF LoopTypeOK, HandleOffer, server
<1> QED
  BY <1>5, <1>8, <1>9

LEMMA ApplySelfKeeps == ASSUME LoopInv, ApplySelf PROVE LoopInv'
<1> USE Parts
<1>1. PICK ok \in BOOLEAN :
         /\ stored' \in IF ok THEN {pending, stored} ELSE {stored}
         /\ status' = Verdict(pending, ok)
         /\ Flush(Verdict(pending, ok), sendFull, TRUE, TRUE)
  BY DEF ApplySelf
<1>2. pending \in Hash /\ Verdict(pending, ok) \in Statuses
  BY Typed, StatusFacts DEF ApplySelf
<1>3. Owing(sendFull, TRUE)
  BY Typed DEF ApplySelf, Owing, server, budget
<1>4. link' = link /\ Len(down') <= Len(down)
  BY Typed, LenProperties DEF ApplySelf
<1>5. /\ Told'
      /\ seq' \in Seq0 /\ up' \in Seq(Reports) /\ sendFull' \in BOOLEAN
      /\ sendStatus' \in BOOLEAN /\ owes' \in BOOLEAN
      /\ link = "down" => up' = up
  BY <1>1, <1>2, <1>3, <1>4, Typed, FlushSound
<1>6. RestartOnce'
  BY RestartAside DEF ApplySelf, process, server, budget
<1>7. stored' \in Hash \cup {None} /\ status' \in Statuses /\ pending' = None
  BY <1>1, <1>2, Typed DEF ApplySelf
<1>8. LoopTypeOK'
  BY <1>5, <1>7 DEF LoopTypeOK, ApplySelf, process, server, budget
<1> QED
  BY <1>5, <1>6, <1>8

-------------------------------------------------------------------------------
(* The adapter's steps                                                     *)

LEMMA TakeCommandKeeps == ASSUME LoopInv, TakeCommand PROVE LoopInv'
<1> USE Parts
<1>1. Told'
  BY AsideSound DEF TakeCommand, protocol, wire, server, budget
<1>2. /\ Head(cmds) \in Hash \cup {Restart} /\ Tail(cmds) \in Seq(Hash \cup {Restart})
      /\ Len(Tail(cmds)) = Len(cmds) - 1 /\ Len(cmds) \in Nat
  BY Typed, QueueTail DEF TakeCommand
<1>3. Among(cmds, {Restart})
        = Among(Tail(cmds), {Restart}) + (IF Head(cmds) \in {Restart} THEN 1 ELSE 0)
  BY Typed, AmongTail DEF TakeCommand
<1>4. Among(Tail(cmds), {Restart}) \in Nat
  BY <1>2, AmongFinite
<1>5. cmds' = Tail(cmds) /\ down' = down /\ Queued' = Queued /\ spent' = spent
  BY DEF TakeCommand, wire, server, budget, Queued
<1>6. restarted' = restarted + (IF Head(cmds) \in {Restart} THEN 1 ELSE 0)
  BY Typed DEF TakeCommand
<1>7. RestartOnce'
  BY <1>3, <1>4, <1>5, <1>6, RestartNumbers DEF RestartOnce
<1>8. Len(cmds') <= Capacity /\ restarted' \in Nat
  BY <1>2, <1>5, <1>6, Typed, SpanAssumption DEF LoopTypeOK
<1>9. /\ adapter' \in {"idle", "starting", "waiting"} /\ owed' \in Hash \cup {None}
      /\ owed' = None <=> adapter' = "idle"
  <2>1. CASE Head(cmds) = Restart
    BY <2>1 DEF TakeCommand, LoopTypeOK
  <2>2. CASE Head(cmds) # Restart
    BY <1>2, <2>2 DEF TakeCommand, Restart
  <2> QED
    BY <2>1, <2>2
<1>10. LoopTypeOK'
  BY <1>2, <1>5, <1>8, <1>9 DEF LoopTypeOK, TakeCommand, protocol, wire, server, budget
<1> QED
  BY <1>1, <1>7, <1>10

LEMMA ServiceAwayKeeps == ASSUME LoopInv, ServiceAway PROVE LoopInv'
<1> USE Parts
<1>1. PICK w \in Happenings : w = "away"
  BY DEF Happenings
<1>2. Spend(w)
  BY <1>1 DEF ServiceAway
<1>3. /\ spent' \in [Happenings -> Nat] /\ setup' = setup
      /\ \A v \in Happenings \ {w} : spent'[v] = spent[v]
  BY <1>2, Typed, SpendFacts
<1>4. spent'["throttled"] = spent["throttled"] /\ spent'["restarts"] = spent["restarts"]
  BY <1>1, <1>3 DEF Happenings
<1>5. Told'
  BY <1>3, <1>4, AsideSound DEF ServiceAway, protocol, wire, server
<1>6. RestartOnce'
  BY <1>4, RestartAside DEF ServiceAway, wire, server
<1>7. LoopTypeOK'
  BY <1>3 DEF LoopTypeOK, ServiceAway, protocol, wire, server
<1> QED
  BY <1>5, <1>6, <1>7

LEMMA RetryKeeps == ASSUME LoopInv, Retry PROVE LoopInv'
<1> USE Parts
<1>1. Told'
  BY AsideSound DEF Retry, protocol, wire, server, budget
<1>2. RestartOnce'
  BY RestartAside DEF Retry, wire, server, budget
<1>3. LoopTypeOK'
  BY DEF LoopTypeOK, Retry, protocol, wire, server, budget
<1> QED
  BY <1>1, <1>2, <1>3

LEMMA SettleKeeps == ASSUME LoopInv, Settle PROVE LoopInv'
<1> USE Parts
<1>1. Told'
  BY AsideSound DEF Settle, protocol, wire, server, budget
<1>2. RestartOnce'
  BY RestartAside DEF Settle, wire, server, budget
<1>3. PICK ok \in BOOLEAN : events' = Append(events, Verdict(owed, ok))
  BY DEF Settle
<1>4. Verdict(owed, ok) \in Statuses
  BY StatusFacts DEF Settle, LoopTypeOK
<1>5. events' \in Seq(Statuses) /\ Len(events') = Len(events) + 1 /\ Len(events) \in Nat
  BY <1>3, <1>4, Typed, QueueAppend, LenProperties
<1>6. Len(events') <= Capacity
  BY <1>5, SpanAssumption DEF Settle
<1>7. LoopTypeOK'
  BY <1>5, <1>6 DEF LoopTypeOK, Settle, protocol, wire, server, budget
<1> QED
  BY <1>1, <1>2, <1>7

-------------------------------------------------------------------------------
(* The Server's steps                                                      *)

LEMMA HeardFacts ==
  ASSUME rec \in Records, NEW r \in Reports
  PROVE  /\ Heard(r) \in Records
         /\ Heard(r).known = TRUE /\ Heard(r).seq = r.seq
         /\ Heard(r).described = (rec.described \/ r.full)
         /\ Heard(r).status = (IF r.status = NoStatus THEN rec.status ELSE r.status)
         /\ Heard(r).restart = rec.restart
<1>1. r.seq \in Seq0 /\ r.full \in BOOLEAN /\ r.status \in Statuses
  BY ReportFields
<1> DEFINE d == rec.described \/ r.full
           st == IF r.status = NoStatus THEN rec.status ELSE r.status
<1>2. d \in BOOLEAN /\ st \in Statuses
  BY <1>1, RecordFields
<1>3. Heard(r) = [rec EXCEPT !.known = TRUE, !.seq = r.seq, !.described = d, !.status = st]
  BY DEF Heard
<1> HIDE DEF d, st
<1>4. /\ Heard(r) \in Records /\ Heard(r).known = TRUE /\ Heard(r).seq = r.seq
      /\ Heard(r).described = d /\ Heard(r).status = st /\ Heard(r).restart = rec.restart
  BY <1>1, <1>2, <1>3 DEF Records
<1> QED
  BY <1>4 DEF d, st

LEMMA ProcessFacts ==
  ASSUME rec \in Records, store \in Records, SameInStore, Managed \in BOOLEAN,
         NEW r \in Reports, Process(r)
  PROVE  /\ rec' \in Records /\ store' \in Records /\ SameInStore'
         /\ rec'.known /\ rec'.seq = r.seq
         /\ rec'.described = (rec.described \/ r.full)
         /\ rec'.status = (IF r.status = NoStatus THEN rec.status ELSE r.status)
         /\ rec'.restart = (rec.restart /\ ~TakesRestart(r))
         /\ store' = rec' \/ (store' = store /\ Alike(rec', store))
         /\ Alike(rec, store) /\ Alike(rec', store')
<1> DEFINE b == Heard(r).restart /\ ~TakesRestart(r)
           x == [Heard(r) EXCEPT !.restart = b]
<1>1. /\ Heard(r) \in Records
      /\ Heard(r).known = TRUE /\ Heard(r).seq = r.seq
      /\ Heard(r).described = (rec.described \/ r.full)
      /\ Heard(r).status = (IF r.status = NoStatus THEN rec.status ELSE r.status)
      /\ Heard(r).restart = rec.restart
  BY HeardFacts
<1>2. b = (rec.restart /\ ~TakesRestart(r)) /\ b \in BOOLEAN
  BY <1>1, RecordFields
<1>3. rec' = x /\ store' = Persisted(x)
  BY DEF Process
<1> HIDE DEF b
<1>4. /\ x \in Records /\ x.known = Heard(r).known /\ x.seq = Heard(r).seq
      /\ x.described = Heard(r).described /\ x.status = Heard(r).status /\ x.restart = b
  BY <1>1, <1>2 DEF Records
<1> HIDE DEF x
<1>5. store' = IF Alike(x, store) THEN store ELSE x
  BY <1>3, <1>4, AlikeFacts DEF Persisted
<1>6. Alike(rec', store') /\ store' \in Records
  BY <1>3, <1>4, <1>5 DEF Alike
<1>7. SameInStore'
  BY <1>3, <1>4, <1>6, AlikeFacts DEF SameInStore
<1>8. Alike(rec, store)
  BY AlikeFacts DEF SameInStore
<1> QED
  BY <1>1, <1>2, <1>3, <1>4, <1>5, <1>6, <1>7, <1>8

LEMMA AnswerFacts ==
  ASSUME rec \in Records, store \in Records, Managed \in BOOLEAN, desired \in Hash \cup {None},
         NEW r \in Reports
  PROVE  /\ Answer(r) \in Replies
         /\ Answer(r) \in Commands <=> TakesRestart(r) /\ store.restart
         /\ Answer(r).command <=> TakesRestart(r) /\ store.restart
         /\ Answer(r).command => ~Answer(r).full
         /\ Demands(r) => Answer(r).full
<1> DEFINE c == TakesRestart(r) /\ store.restart
           f == ~c /\ Demands(r)
           o == IF c THEN None ELSE OfferTo(Heard(r).status)
<1>1. c \in BOOLEAN /\ f \in BOOLEAN /\ o \in Hash \cup {None}
  BY DEF OfferTo, TakesRestart, Demands
<1>2. Answer(r) = [command |-> c, full |-> f, offer |-> o]
  BY DEF Answer
<1>3. c => ~f /\ ~Demands(r)
  BY DEF TakesRestart
<1>4. Demands(r) => f
  BY <1>3
<1> HIDE DEF c, f, o
<1>5. /\ Answer(r) \in Replies /\ Answer(r).command = c /\ Answer(r).full = f
      /\ Answer(r) \in Commands <=> c
  BY <1>1, <1>2, ReplyMade
<1> QED
  BY <1>3, <1>4, <1>5 DEF c

(* The first report leaves the connection.                                 *)
LEMMA TailLatest ==
  ASSUME up \in Seq(Reports), up # <<>>, up' = Tail(up), status' = status
  PROVE  /\ Latest => \/ Latest'
                      \/ up[1].status = status /\ (\A i \in 1 .. Len(up) : ~Carries(i))'
         /\ (\A i \in 1 .. Len(up) : ~Carries(i))
              => ~Carries(1) /\ (\A i \in 1 .. Len(up) : ~Carries(i))'
         /\ (\E i \in 1 .. Len(up) : up[i].full)
              => up[1].full \/ (\E i \in 1 .. Len(up) : up[i].full)'
<1>1. /\ Len(up) \in Nat \ {0} /\ Len(up') = Len(up) - 1
      /\ \A i \in 1 .. Len(up) - 1 : up'[i] = up[i + 1]
  BY QueueTail
<1>2. \A i \in 1 .. Len(up') : up'[i] = up[i + 1] /\ i + 1 \in 1 .. Len(up)
  BY <1>1
<1>3. \A i \in 1 .. Len(up) : i = 1 \/ (i - 1 \in 1 .. Len(up') /\ up'[i - 1] = up[i])
  BY <1>1
<1>4. ASSUME Latest
      PROVE  \/ Latest'
             \/ up[1].status = status /\ (\A i \in 1 .. Len(up) : ~Carries(i))'
  <2>1. PICK i \in 1 .. Len(up) :
              up[i].status = status /\ \A k \in i + 1 .. Len(up) : ~Carries(k)
    BY <1>4 DEF Latest
  <2>2. CASE i = 1
    <3>1. \A k \in 1 .. Len(up') : k + 1 \in i + 1 .. Len(up) /\ up'[k] = up[k + 1]
      BY <1>1, <2>2
    <3>2. \A k \in 1 .. Len(up') : ~(up'[k].full \/ up'[k].status # NoStatus)
      BY <2>1, <3>1 DEF Carries
    <3> QED
      BY <2>1, <2>2, <3>2 DEF Carries
  <2>3. CASE i # 1
    <3>1. i - 1 \in 1 .. Len(up') /\ up'[i - 1].status = status'
      BY <1>3, <2>1, <2>3
    <3>2. \A k \in (i - 1) + 1 .. Len(up') :
             k + 1 \in i + 1 .. Len(up) /\ up'[k] = up[k + 1]
      BY <1>1, <2>1, <2>3
    <3>3. \A k \in (i - 1) + 1 .. Len(up') : ~(up'[k].full \/ up'[k].status # NoStatus)
      BY <2>1, <3>2 DEF Carries
    <3> QED
      BY <3>1, <3>3 DEF Latest, Carries
  <2> QED
    BY <2>2, <2>3
<1>5. ASSUME \A i \in 1 .. Len(up) : ~Carries(i)
      PROVE  ~Carries(1) /\ (\A i \in 1 .. Len(up) : ~Carries(i))'
  <2>1. \A i \in 1 .. Len(up') : ~(up'[i].full \/ up'[i].status # NoStatus)
    BY <1>2, <1>5 DEF Carries
  <2> QED
    BY <1>1, <1>5, <2>1 DEF Carries
<1>6. (\E i \in 1 .. Len(up) : up[i].full)
        => up[1].full \/ (\E i \in 1 .. Len(up) : up[i].full)'
  BY <1>3
<1> QED
  BY <1>4, <1>5, <1>6

LEMMA OnMessageTold == ASSUME LoopInv, OnMessage PROVE Told'
<1> USE Parts DEF Told
<1> DEFINE r == Head(up)
           a == Answer(r)
<1>1. /\ link = "up" /\ up # <<>> /\ up' = Tail(up) /\ Process(r) /\ down' = Append(down, a)
      /\ seq' = seq /\ status' = status /\ sendFull' = sendFull /\ sendStatus' = sendStatus
      /\ link' = link /\ late' = late /\ spent' = spent /\ setup' = setup
  BY DEF OnMessage, protocol, budget
<1>2. /\ r \in Reports /\ r = up[1] /\ up' \in Seq(Reports)
      /\ Len(up') = Len(up) - 1 /\ Len(up) \in Nat \ {0}
      /\ \A i \in 1 .. Len(up) - 1 : up'[i] = up[i + 1]
  BY <1>1, Typed, QueueTail
<1>3. r.seq \in Seq0 /\ r.full \in BOOLEAN /\ r.status \in Statuses
  BY <1>2, ReportFields
<1>4. /\ a \in Replies
      /\ a.command => ~a.full
      /\ Demands(r) => a.full
  BY <1>2, Typed, AnswerFacts
<1>5. /\ rec' \in Records /\ store' \in Records /\ SameInStore'
      /\ rec'.known /\ rec'.seq = r.seq
      /\ rec'.described = (rec.described \/ r.full)
      /\ rec'.status = (IF r.status = NoStatus THEN rec.status ELSE r.status)
      /\ Alike(rec', store')
  BY <1>1, <1>2, Typed, ProcessFacts
<1>6. /\ down' \in Seq(Replies) /\ Len(down') = Len(down) + 1 /\ Len(down) \in Nat
      /\ \A y : y \in ToSet(down') <=> y \in ToSet(down) \/ y = a
  BY <1>1, <1>4, Typed, QueueAppend, LenProperties
<1>7. /\ Latest => \/ Latest'
                   \/ up[1].status = status /\ (\A i \in 1 .. Len(up) : ~Carries(i))'
      /\ (\A i \in 1 .. Len(up) : ~Carries(i))
           => ~Carries(1) /\ (\A i \in 1 .. Len(up) : ~Carries(i))'
      /\ (\E i \in 1 .. Len(up) : up[i].full)
           => up[1].full \/ (\E i \in 1 .. Len(up) : up[i].full)'
  BY <1>1, Typed, TailLatest
<1>8. up' = <<>> <=> Len(up') = 0
  BY <1>2, QueueFacts
<1> HIDE DEF r, a
<1>9. Numbered'
  <2>1. up' # <<>> => up'[Len(up')].seq = seq'
    <3>1. ASSUME up' # <<>> PROVE up'[Len(up')] = up[Len(up)]
      BY <1>2, <1>8, <3>1
    <3> QED
      BY <1>1, <3>1 DEF Numbered
  <2>2. ASSUME NEW i \in 1 .. Len(up') - 1 PROVE up'[i + 1].seq = Tick(up'[i].seq)
    <3>1. /\ i + 1 \in 1 .. Len(up) - 1 /\ up'[i] = up[i + 1]
          /\ up'[i + 1] = up[(i + 1) + 1]
      BY <1>2
    <3>2. up[(i + 1) + 1].seq = Tick(up[i + 1].seq)
      BY <3>1 DEF Numbered
    <3> QED
      BY <3>1, <3>2
  <2>3. Polling' => link' = "up" /\ Len(up') + Len(down') <= 1
    BY <1>1, <1>2, <1>6 DEF Numbered, Polling
  <2>4. \A x \in ToSet(down') : x.command => ~x.full
    BY <1>4, <1>6 DEF Numbered
  <2> QED
    BY <2>1, <2>2, <2>3, <2>4 DEF Numbered
<1>10. LateApart'
  <2>1. late' # {} => Polling'
    BY <1>1 DEF LateApart, Polling
  <2>2. Polling => up' = <<>>
    BY <1>2, <1>6, <1>8 DEF Numbered
  <2>3. \A x \in late : Tick(seq) # x.seq /\ x.seq # seq
    BY <1>1 DEF LateApart
  <2> QED
    BY <1>1, <2>1, <2>2, <2>3 DEF LateApart, Polling
<1>11. Owed' = Owed
  BY <1>1 DEF Owed
<1>12. StatusTravels'
  BY <1>7, <1>11 DEF StatusTravels
<1>13. ASSUME spent["throttled"] = 0 PROVE Demanded' \/ Current(rec)'
  <2>1. CASE Demands(r)
    <3>1. a.full /\ a \in ToSet(down')
      BY <1>4, <1>6, <2>1
    <3> QED
      BY <3>1 DEF Demanded
  <2>2. CASE ~Demands(r)
    <3>1. Demanded => Demanded'
      BY <1>1, <1>6 DEF Demanded
    <3>2. CASE ~Demanded
      <4>1. r.full \/ Current(rec)
        <5>1. CASE ~r.full
          <6>1. rec.known /\ r.seq = Tick(rec.seq)
            BY <2>2, <5>1 DEF Demands
          <6>2. Expected = Tick(rec.seq)
            BY <1>1, <6>1 DEF Expected, r
          <6> QED
            BY <1>1, <1>13, <3>2, <6>1, <6>2 DEF RecordFollows
        <5> QED
          BY <5>1
      <4>2. rec'.described \/ (\E i \in 1 .. Len(up) : up[i].full)'
        BY <1>2, <1>5, <1>7, <4>1 DEF Current
      <4>3. Owed' \/ Latest' \/ rec'.status = status'
        <5>1. CASE r.status = NoStatus /\ ~r.full
          <6>1. rec'.status = rec.status /\ Current(rec)
            BY <1>5, <4>1, <5>1
          <6>2. Latest => Latest' \/ status = NoStatus
            BY <1>2, <1>7, <5>1
          <6>3. status = NoStatus => Owed
            BY DEF Owed
          <6> QED
            BY <1>1, <1>11, <6>1, <6>2, <6>3 DEF Current
        <5>2. CASE r.status # NoStatus \/ r.full
          <6>1. Carries(1)
            BY <1>2, <5>2 DEF Carries
          <6>2. Owed \/ Latest
            BY <1>7, <6>1 DEF StatusTravels
          <6>3. Latest => Latest' \/ r.status = status
            BY <1>2, <1>7
          <6>4. r.status = status => Owed \/ rec'.status = status
            BY <1>5 DEF Owed
          <6> QED
            BY <1>1, <1>11, <6>2, <6>3, <6>4
        <5> QED
          BY <5>1, <5>2
      <4> QED
        BY <4>2, <4>3 DEF Current
    <3> QED
      BY <3>1, <3>2
  <2> QED
    BY <2>1, <2>2
<1>14. RecordFollows'
  <2>1. Current(rec)' => Current(store)'
    BY <1>5 DEF Current, Alike
  <2> QED
    BY <1>1, <1>13, <2>1 DEF RecordFollows
<1> QED
  BY <1>5, <1>9, <1>10, <1>12, <1>14

(* Of the record a command is taken from nothing is left to take.          *)
LEMMA QueuedFacts ==
  ASSUME rec \in Records, store \in Records, SameInStore, Managed \in BOOLEAN,
         NEW r \in Reports, Process(r)
  PROVE  Queued' + (IF TakesRestart(r) /\ store.restart THEN 1 ELSE 0) <= Queued
<1>1. /\ rec' \in Records /\ store' \in Records
      /\ rec'.restart = (rec.restart /\ ~TakesRestart(r))
      /\ Alike(rec, store) /\ Alike(rec', store')
  BY ProcessFacts
<1>2. rec.restart = store.restart /\ rec'.restart = store'.restart
  BY <1>1 DEF Alike
<1>3. rec.restart \in BOOLEAN /\ rec'.restart \in BOOLEAN
  BY <1>1, RecordFields
<1>4. CASE TakesRestart(r)
  <2>1. rec.restart
    BY <1>4 DEF TakesRestart
  <2>2. ~rec'.restart /\ ~store'.restart
    BY <1>1, <1>2, <1>3, <1>4
  <2>3. Queued = 1 /\ Queued' = 0
    BY <2>1, <2>2 DEF Queued
  <2> QED
    BY <2>3
<1>5. CASE ~TakesRestart(r)
  BY <1>1, <1>2, <1>3, <1>5 DEF Queued
<1> QED
  BY <1>4, <1>5

LEMMA OnMessageKeeps == ASSUME LoopInv, OnMessage PROVE LoopInv'
<1> USE Parts
<1> DEFINE r == Head(up)
           a == Answer(r)
<1>1. Told'
  BY OnMessageTold
<1>2. /\ link = "up" /\ up # <<>> /\ up' = Tail(up) /\ Process(r) /\ down' = Append(down, a)
  BY DEF OnMessage
<1>3. r \in Reports /\ up' \in Seq(Reports)
  BY <1>2, Typed, QueueTail
<1>4. /\ a \in Replies
      /\ a \in Commands <=> TakesRestart(r) /\ store.restart
  BY <1>3, Typed, AnswerFacts
<1>5. SameInStore
  BY DEF Told
<1>6. /\ rec' \in Records /\ store' \in Records
      /\ Queued' + (IF TakesRestart(r) /\ store.restart THEN 1 ELSE 0) <= Queued
  BY <1>2, <1>3, <1>5, Typed, ProcessFacts, QueuedFacts
<1>7. /\ down' \in Seq(Replies)
      /\ Among(down', Commands) = Among(down, Commands) + (IF a \in Commands THEN 1 ELSE 0)
  BY <1>2, <1>4, Typed, QueueAppend, AmongAppend
<1> HIDE DEF r, a
<1>8. LoopTypeOK'
  BY <1>2, <1>3, <1>6, <1>7 DEF LoopTypeOK, OnMessage, protocol, process, budget, Records
<1>9. RestartOnce'
  <2>1. restarted' = restarted /\ cmds' = cmds /\ spent' = spent
    BY DEF OnMessage, process, budget
  <2> QED
    BY <1>4, <1>6, <1>7, <1>8, <2>1, RestartNumbers DEF RestartOnce, Queued
<1> QED
  BY <1>1, <1>8, <1>9

LEMMA OnLateMessageKeeps == ASSUME LoopInv, OnLateMessage PROVE LoopInv'
<1> USE Parts DEF Told
<1>1. PICK r \in late : late' = late \ {r} /\ Process(r)
  BY DEF OnLateMessage
<1>2. /\ seq' = seq /\ status' = status /\ sendFull' = sendFull /\ sendStatus' = sendStatus
      /\ up' = up /\ down' = down /\ link' = link /\ spent' = spent /\ setup' = setup
  BY DEF OnLateMessage, protocol, budget
<1>3. r \in Reports /\ r.seq \in Seq0 /\ r.full \in BOOLEAN /\ r.status \in Statuses
  BY Typed, ReportFields
<1>4. /\ rec' \in Records /\ store' \in Records /\ SameInStore'
      /\ rec'.known /\ rec'.seq = r.seq
      /\ store' = rec' \/ (store' = store /\ Alike(rec', store))
      /\ Alike(rec, store) /\ Alike(rec', store')
  BY <1>1, <1>3, Typed, ProcessFacts
<1>5. Numbered' /\ LateApart'
  <2>1. Numbered'
    BY <1>2 DEF Numbered, Polling
  <2>2. LateApart'
    BY <1>1, <1>2 DEF LateApart, Polling
  <2> QED
    BY <2>1, <2>2
<1>6. Owed' = Owed /\ Latest' = Latest /\ Expected' = Expected /\ Demanded' = Demanded
  BY <1>2 DEF Owed, Latest, Carries, Expected, Demanded
<1>7. StatusTravels'
  BY <1>2, <1>6 DEF StatusTravels, Carries
<1>8. RecordFollows'
  <2>1. ASSUME Tick(rec'.seq) = Expected' PROVE Demanded' \/ Current(rec)'
    <3>1. CASE up = <<>>
      <4>1. Tick(r.seq) = Tick(seq)
        BY <1>4, <1>6, <2>1, <3>1 DEF Expected
      <4>2. r.seq = seq
        BY <1>3, <4>1, Typed, TickFacts
      <4> QED
        BY <1>6, <4>2 DEF LateApart, Demanded
    <3>2. CASE up # <<>>
      <4>1. Head(up) = up[1] /\ Len(up) = 1
        <5>1. Polling /\ Len(down) \in Nat
          BY Typed, LenProperties DEF LateApart
        <5>2. Head(up) = up[1] /\ Len(up) \in Nat /\ Len(up) # 0
          BY <3>2, Typed, QueueFacts
        <5>3. Len(up) + Len(down) <= 1
          BY <5>1 DEF Numbered
        <5>4. \A m, n \in Nat : m # 0 /\ m + n <= 1 => m = 1
          OBVIOUS
        <5> QED
          BY <5>1, <5>2, <5>3, <5>4, Zenon
      <4>2. Head(up).seq = seq
        BY <3>2, <4>1 DEF Numbered
      <4>3. Head(up).full
        BY <1>4, <1>6, <2>1, <3>2, <4>2 DEF Expected, LateApart
      <4>4. 1 \in 1 .. Len(up) /\ up[1].full
        BY <4>1, <4>3
      <4>5. Carries(1)
        BY <4>4 DEF Carries
      <4>6. Owed \/ Latest
        BY <4>4, <4>5 DEF StatusTravels
      <4> QED
        BY <1>2, <1>6, <4>4, <4>6 DEF Current
    <3> QED
      BY <3>1, <3>2
  <2>2. ASSUME spent["throttled"] = 0, link = "up", Polling, up = <<>>, store'.seq = seq
        PROVE  Demanded' \/ Current(store)'
    <3>1. CASE store' = rec'
      <4>1. r.seq = seq
        BY <1>4, <2>2, <3>1
      <4> QED
        BY <1>6, <4>1 DEF LateApart, Demanded
    <3>2. CASE store' = store /\ Alike(rec', store)
      <4>1. rec.known
        BY <1>4, <3>2 DEF Alike
      <4>2. Demanded \/ Current(store)
        BY <2>2, <3>2, <4>1 DEF RecordFollows
      <4> QED
        BY <1>2, <1>6, <3>2, <4>2 DEF Current
    <3> QED
      BY <1>4, <3>1, <3>2
  <2> QED
    BY <1>2, <2>1, <2>2 DEF RecordFollows, Polling
<1>9. Queued' <= Queued
  <2>1. Queued' + (IF TakesRestart(r) /\ store.restart THEN 1 ELSE 0) <= Queued
    BY <1>1, <1>3, Typed, QueuedFacts
  <2>2. Queued \in {0, 1} /\ Queued' \in {0, 1}
    BY DEF Queued
  <2>3. PICK n \in {0, 1} : n = IF TakesRestart(r) /\ store.restart THEN 1 ELSE 0
    OBVIOUS
  <2>4. \A m, k \in {0, 1} : m + n <= k => m <= k
    BY <2>3
  <2> QED
    BY <2>1, <2>2, <2>3, <2>4, Zenon
<1>10. RestartOnce'
  <2>1. restarted' = restarted /\ cmds' = cmds /\ Queued' \in {0, 1}
    BY DEF OnLateMessage, process, Queued
  <2> QED
    BY <1>2, <1>9, <2>1, RestartNumbers DEF RestartOnce
<1>11. LoopTypeOK'
  BY <1>1, <1>4 DEF LoopTypeOK, OnLateMessage, protocol, process, budget, Records
<1> QED
  BY <1>4, <1>5, <1>7, <1>8, <1>10, <1>11

(* A request to restart, or its delivery, changes nothing else of what the *)
(* Server holds, and adds no demand to what it sends.                      *)
LEMMA RestartTold ==
  ASSUME LoopInv, rec' \in Records, store' \in Records,
         rec'.known = rec.known /\ rec'.seq = rec.seq /\ rec'.status = rec.status
           /\ rec'.described = rec.described,
         store'.known = store.known /\ store'.seq = store.seq /\ store'.status = store.status
           /\ store'.described = store.described,
         rec'.restart = store'.restart,
         UNCHANGED <<seq, status, sendFull, sendStatus, up, late, link, setup>>,
         spent'["throttled"] = spent["throttled"],
         down' \in Seq(Replies), down' = down \/ ~Polling,
         \A x \in ToSet(down) : x \in ToSet(down'),
         \A x \in ToSet(down') : x \in ToSet(down) \/ ~x.full
  PROVE  Told'
<1> USE Parts DEF Told
<1>1. Numbered'
  BY DEF Numbered, Polling
<1>2. LateApart'
  BY DEF LateApart, Polling
<1>3. SameInStore'
  <2>1. Alike(rec, store)
    BY Typed, AlikeFacts DEF SameInStore
  <2>2. (Alike(rec, store))'
    BY <2>1 DEF Alike
  <2> QED
    BY <2>2, AlikeFacts DEF SameInStore, Alike
<1>5. StatusTravels'
  BY DEF StatusTravels, Owed, Latest, Carries
<1>6. /\ Current(rec) => Current(rec)'
      /\ Current(store) => Current(store)'
  BY DEF Current, Owed, Latest, Carries
<1>7. Expected' = Expected /\ (Demanded => Demanded')
  BY DEF Expected, Demanded
<1>8. RecordFollows'
  BY <1>6, <1>7 DEF RecordFollows, Polling
<1> QED
  BY <1>1, <1>2, <1>3, <1>5, <1>8

LEMMA MaybeAppend ==
  ASSUME NEW s \in Seq(Replies), NEW x \in Replies, NEW b \in BOOLEAN
  PROVE  LET t == s \o (IF b THEN <<x>> ELSE <<>>)
         IN  /\ t \in Seq(Replies)
             /\ \A y : y \in ToSet(t) <=> y \in ToSet(s) \/ (b /\ y = x)
             /\ Among(t, Commands)
                  = Among(s, Commands) + (IF b /\ x \in Commands THEN 1 ELSE 0)
<1>0. Among(s, Commands) \in Nat
  BY AmongFinite
<1>1. CASE b
  <2>1. /\ s \o <<x>> = Append(s, x) /\ Append(s, x) \in Seq(Replies)
        /\ \A y : y \in ToSet(Append(s, x)) <=> y \in ToSet(s) \/ y = x
    BY QueueAppend
  <2>2. Among(Append(s, x), Commands)
          = Among(s, Commands) + (IF x \in Commands THEN 1 ELSE 0)
    BY AmongAppend
  <2> QED
    BY <1>1, <2>1, <2>2
<1>2. CASE ~b
  <2>1. s \o <<>> = s
    BY ConcatEmptySeq
  <2> QED
    BY <1>0, <1>2, <2>1
<1> QED
  BY <1>1, <1>2

LEMMA RestartFields ==
  ASSUME NEW x \in Records, NEW b \in BOOLEAN
  PROVE  LET y == [x EXCEPT !.restart = b]
         IN  /\ y \in Records /\ y.known = x.known /\ y.seq = x.seq /\ y.status = x.status
             /\ y.described = x.described /\ y.restart = b
  BY DEF Records

(* What the Server's loop pushes.                                          *)
Pushed(command, offer) ==
  (down \o (IF command THEN <<[command |-> TRUE, full |-> FALSE, offer |-> None]>> ELSE <<>>))
    \o (IF offer # None THEN <<[command |-> FALSE, full |-> FALSE, offer |-> offer]>> ELSE <<>>)

LEMMA PushedFacts ==
  ASSUME down \in Seq(Replies), NEW c \in BOOLEAN, NEW o \in Hash \cup {None}
  PROVE  /\ Pushed(c, o) \in Seq(Replies)
         /\ \A x \in ToSet(down) : x \in ToSet(Pushed(c, o))
         /\ \A x \in ToSet(Pushed(c, o)) : x \in ToSet(down) \/ ~x.full
         /\ Among(Pushed(c, o), Commands) = Among(down, Commands) + (IF c THEN 1 ELSE 0)
<1> DEFINE x == [command |-> TRUE, full |-> FALSE, offer |-> None]
           y == [command |-> FALSE, full |-> FALSE, offer |-> o]
           b == o # None
           s == down \o (IF c THEN <<x>> ELSE <<>>)
           t == s \o (IF b THEN <<y>> ELSE <<>>)
<1>1. x \in Replies /\ x.full = FALSE /\ (x \in Commands <=> TRUE)
  BY ReplyMade
<1>2. y \in Replies /\ y.full = FALSE /\ (y \in Commands <=> FALSE)
  BY ReplyMade
<1>3. Pushed(c, o) = t /\ b \in BOOLEAN
  BY DEF Pushed
<1> HIDE DEF x, y, b
<1>4. /\ s \in Seq(Replies)
      /\ \A z : z \in ToSet(s) <=> z \in ToSet(down) \/ (c /\ z = x)
      /\ Among(s, Commands) = Among(down, Commands) + (IF c /\ x \in Commands THEN 1 ELSE 0)
  BY <1>1, MaybeAppend
<1> HIDE DEF s
<1>5. /\ t \in Seq(Replies)
      /\ \A z : z \in ToSet(t) <=> z \in ToSet(s) \/ (b /\ z = y)
      /\ Among(t, Commands) = Among(s, Commands) + (IF b /\ y \in Commands THEN 1 ELSE 0)
  BY <1>2, <1>3, <1>4, MaybeAppend
<1>6. Among(s, Commands) \in Nat
  BY <1>4, AmongFinite
<1> HIDE DEF t
<1>7. /\ Among(t, Commands) = Among(s, Commands)
      /\ Among(s, Commands) = Among(down, Commands) + (IF c THEN 1 ELSE 0)
  BY <1>1, <1>2, <1>4, <1>5, <1>6
<1> QED
  BY <1>1, <1>2, <1>3, <1>4, <1>5, <1>7

LEMMA PushKeeps == ASSUME LoopInv, Push PROVE LoopInv'
<1> USE Parts
<1> DEFINE command == carried /\ rec.restart
           offer == IF carried THEN OfferTo(rec.status) ELSE None
           c == command /\ store.restart
<1>1. rec.restart \in BOOLEAN /\ store.restart \in BOOLEAN /\ carried \in BOOLEAN
  BY Typed, RecordFields
<1>2. offer \in Hash \cup {None} /\ command \in BOOLEAN /\ c \in BOOLEAN
  BY <1>1, Typed DEF OfferTo
<1>3. /\ link = "up" /\ ~Polling /\ wake' = FALSE
      /\ rec' = [rec EXCEPT !.restart = rec.restart /\ ~command]
      /\ store' = [store EXCEPT !.restart = store.restart /\ ~command]
      /\ down' = Pushed(c, offer)
  BY DEF Push, Pushed
<1>4. rec.restart = store.restart
  <2>1. Alike(rec, store)
    BY Typed, AlikeFacts DEF Told, SameInStore
  <2> QED
    BY <2>1 DEF Alike
<1>5. /\ rec' \in Records /\ rec'.known = rec.known /\ rec'.seq = rec.seq
      /\ rec'.status = rec.status /\ rec'.described = rec.described
      /\ rec'.restart = (rec.restart /\ ~command)
  <2> DEFINE b == rec.restart /\ ~command
  <2>1. b \in BOOLEAN /\ rec' = [rec EXCEPT !.restart = b]
    BY <1>3
  <2> HIDE DEF b
  <2>2. /\ rec' \in Records /\ rec'.known = rec.known /\ rec'.seq = rec.seq
        /\ rec'.status = rec.status /\ rec'.described = rec.described /\ rec'.restart = b
    BY <2>1, Typed, RestartFields
  <2> QED
    BY <2>2 DEF b
<1>6. /\ store' \in Records /\ store'.known = store.known /\ store'.seq = store.seq
      /\ store'.status = store.status /\ store'.described = store.described
      /\ store'.restart = (store.restart /\ ~command)
  <2>1. (store.restart /\ ~command) \in BOOLEAN
    OBVIOUS
  <2> QED
    BY <1>3, <2>1, Typed, RestartFields, ZenonT(60)
<1>7. /\ down' \in Seq(Replies)
      /\ \A x \in ToSet(down) : x \in ToSet(down')
      /\ \A x \in ToSet(down') : x \in ToSet(down) \/ ~x.full
      /\ Among(down', Commands) = Among(down, Commands) + (IF c THEN 1 ELSE 0)
  BY <1>2, <1>3, Typed, PushedFacts
<1>8. Queued' + (IF c THEN 1 ELSE 0) <= Queued
  <2>1. CASE command
    <3>1. rec.restart /\ ~rec'.restart /\ ~store'.restart
      BY <1>5, <1>6, <2>1
    <3>2. Queued = 1 /\ Queued' = 0
      BY <3>1 DEF Queued
    <3> QED
      BY <3>2
  <2>2. CASE ~command
    <3>1. ~c /\ rec'.restart = rec.restart /\ store'.restart = store.restart
      BY <1>1, <1>5, <1>6, <2>2
    <3>2. Queued' = Queued /\ Queued \in {0, 1}
      BY <3>1 DEF Queued
    <3> QED
      BY <3>1, <3>2
  <2> QED
    BY <2>1, <2>2
<1> HIDE DEF command, offer, c
<1>9. UNCHANGED <<seq, status, sendFull, sendStatus, up, late, link, setup, spent, restarted, cmds>>
  BY DEF Push, protocol, process, budget
<1>10. Told'
  BY <1>3, <1>4, <1>5, <1>6, <1>7, <1>9, RestartTold
<1>11. LoopTypeOK'
  BY <1>3, <1>5, <1>6, <1>7 DEF LoopTypeOK, Push, protocol, process, budget, Records
<1>12. RestartOnce'
  <2>1. Queued' \in {0, 1} /\ Among(down', Commands) \in Nat
    BY <1>7, AmongFinite DEF Queued
  <2> QED
    BY <1>7, <1>8, <1>9, <2>1, RestartNumbers, SMTT(60) DEF RestartOnce
<1> QED
  BY <1>10, <1>11, <1>12

LEMMA RolloutKeeps == ASSUME LoopInv, Rollout PROVE LoopInv'
<1> USE Parts
<1>1. PICK w \in Happenings : w = "rollouts"
  BY DEF Happenings
<1>2. Spend(w)
  BY <1>1 DEF Rollout
<1>3. /\ spent' \in [Happenings -> Nat] /\ setup' = setup
      /\ \A v \in Happenings \ {w} : spent'[v] = spent[v]
  BY <1>2, Typed, SpendFacts
<1>4. spent'["throttled"] = spent["throttled"] /\ spent'["restarts"] = spent["restarts"]
  BY <1>1, <1>3 DEF Happenings
<1>5. Told'
  BY <1>3, <1>4, AsideSound DEF Rollout, protocol, wire
<1>6. RestartOnce'
  BY <1>4, RestartAside DEF Rollout, wire, process
<1>7. wake' \in BOOLEAN /\ desired' \in Hash
  BY DEF Rollout
<1>8. LoopTypeOK'
  BY <1>3, <1>7 DEF LoopTypeOK, Rollout, protocol, process, wire
<1> QED
  BY <1>5, <1>6, <1>8

LEMMA RequestRestartKeeps == ASSUME LoopInv, RequestRestart PROVE LoopInv'
<1> USE Parts
<1>1. PICK w \in Happenings : w = "restarts"
  BY DEF Happenings
<1>2. Spend(w)
  BY <1>1 DEF RequestRestart
<1>3. /\ spent' \in [Happenings -> Nat] /\ setup' = setup /\ spent'[w] = spent[w] + 1
      /\ \A v \in Happenings \ {w} : spent'[v] = spent[v]
  BY <1>2, Typed, SpendFacts
<1>4. spent'["throttled"] = spent["throttled"] /\ spent'["restarts"] = spent["restarts"] + 1
  BY <1>1, <1>3 DEF Happenings
<1>5. /\ rec' \in Records /\ rec'.known = rec.known /\ rec'.seq = rec.seq
      /\ rec'.status = rec.status /\ rec'.described = rec.described /\ rec'.restart = TRUE
  BY Typed, RestartFields DEF RequestRestart
<1>6. /\ store' \in Records /\ store'.known = store.known /\ store'.seq = store.seq
      /\ store'.status = store.status /\ store'.described = store.described
      /\ store'.restart = TRUE
  BY Typed, RestartFields DEF RequestRestart
<1>7. UNCHANGED <<seq, status, sendFull, sendStatus, up, down, late, link, restarted, cmds>>
  BY DEF RequestRestart, protocol, process, wire
<1>8. Told'
  BY <1>3, <1>4, <1>5, <1>6, <1>7, Typed, RestartTold
<1>9. RestartOnce'
  <2>1. Queued' = 1
    BY <1>5 DEF Queued
  <2> QED
    BY <1>4, <1>7, <2>1, RestartNumbers DEF RestartOnce
<1>10. wake' \in BOOLEAN
  BY DEF RequestRestart
<1>11. LoopTypeOK'
  BY <1>3, <1>5, <1>6, <1>10 DEF LoopTypeOK, RequestRestart, protocol, process, wire, Records
<1> QED
  BY <1>8, <1>9, <1>11

-------------------------------------------------------------------------------
(* What goes wrong                                                         *)

(* With nothing left on its way, the numbers and the status are in order.  *)
LEMMA EmptyTold ==
  ASSUME up' = <<>>, down' = <<>>, Polling' => link' = "up"
  PROVE  Numbered' /\ StatusTravels'
<1>1. Len(up') = 0 /\ Len(down') = 0 /\ \A x : x \notin ToSet(down')
  BY QueueNone
<1>2. Numbered'
  BY <1>1 DEF Numbered
<1>3. StatusTravels'
  BY <1>1 DEF StatusTravels
<1> QED
  BY <1>2, <1>3

LEMMA EmptyTypes == <<>> \in Seq(Reports) /\ <<>> \in Seq(Replies) /\ <<>> \in Seq(Statuses)
                      /\ <<>> \in Seq(Hash \cup {Restart}) /\ Len(<<>>) = 0
  BY QueueNone

LEMMA LoseKeeps == ASSUME LoopInv, Lose PROVE LoopInv'
<1> USE Parts DEF Told
<1>1. PICK w \in Happenings : w = "losses"
  BY DEF Happenings
<1>2. Spend(w)
  BY <1>1 DEF Lose
<1>3. /\ spent' \in [Happenings -> Nat] /\ setup' = setup
      /\ \A v \in Happenings \ {w} : spent'[v] = spent[v]
  BY <1>2, Typed, SpendFacts
<1>4. spent'["restarts"] = spent["restarts"]
  BY <1>1, <1>3 DEF Happenings
<1>5. /\ up' = <<>> /\ down' = <<>> /\ wake' = FALSE /\ carried' = FALSE
      /\ link' = (IF Polling THEN "up" ELSE "down") /\ link = "up"
      /\ sendFull => sendFull'
      /\ Polling => sendFull'
      /\ UNCHANGED <<seq, status, sendStatus, rec, store, restarted, cmds>>
      /\ late' = late \/ (Polling /\ up # <<>> /\ late' = late \cup {Head(up)})
  BY DEF Lose, Broken, server, process
<1>6. Numbered' /\ StatusTravels'
  BY <1>3, <1>5, EmptyTold DEF Polling
<1>7. Polling' = Polling
  BY <1>3 DEF Polling
<1>8. ASSUME Polling, up # <<>> PROVE Head(up) \in Reports /\ Head(up).seq = seq
  <2>1. Head(up) = up[1] /\ Head(up) \in Reports /\ Len(up) \in Nat /\ Len(up) # 0
    BY <1>8, Typed, QueueTail
  <2>2. Len(down) \in Nat /\ Len(up) + Len(down) <= 1
    BY <1>8, Typed, LenProperties DEF Numbered
  <2>3. \A m, n \in Nat : m # 0 /\ m + n <= 1 => m = 1
    OBVIOUS
  <2>4. Len(up) = 1
    BY <2>1, <2>2, <2>3, Zenon
  <2> QED
    BY <1>8, <2>1, <2>4 DEF Numbered
<1>9. late' \subseteq Reports
  BY <1>5, <1>8, Typed
<1>10. LateApart'
  <2>1. late' # {} => Polling'
    BY <1>5, <1>7 DEF LateApart
  <2>2. ASSUME NEW x \in late' PROVE Tick(seq) # x.seq
    BY <1>5, <1>8, <2>2, Typed, TickFacts DEF LateApart
  <2> QED
    BY <1>5, <1>7, <2>1, <2>2 DEF LateApart
<1>11. SameInStore'
  BY <1>5 DEF SameInStore
<1>12. RecordFollows'
  BY <1>5 DEF RecordFollows, Demanded
<1>13. RestartOnce'
  <2>1. Among(down', Commands) = 0 /\ Queued' = Queued
    BY <1>5, AmongNone DEF Queued
  <2> QED
    BY <1>4, <1>5, <2>1, RestartNumbers DEF RestartOnce
<1>14. sendFull' \in BOOLEAN
  BY Typed DEF Lose, Broken
<1>15. LoopTypeOK'
  BY <1>3, <1>5, <1>9, <1>14, EmptyTypes DEF LoopTypeOK, Lose, process, server
<1> QED
  BY <1>6, <1>10, <1>11, <1>12, <1>13, <1>15

LEMMA LateLostKeeps == ASSUME LoopInv, LateLost PROVE LoopInv'
<1> USE Parts DEF Told
<1>1. late' \subseteq late
  BY DEF LateLost
<1>2. UNCHANGED <<seq, status, sendFull, sendStatus, up, down, link, rec, store, setup, spent>>
  BY DEF LateLost, protocol, server, budget
<1>3. Numbered' /\ SameInStore'
  BY <1>2 DEF Numbered, SameInStore, Polling
<1>4. LateApart'
  BY <1>1, <1>2 DEF LateApart, Polling
<1>5. (Owed' = Owed) /\ (Latest' = Latest)
  BY <1>2 DEF Owed, Latest, Carries
<1>6. StatusTravels'
  BY <1>2, <1>5 DEF StatusTravels, Carries
<1>7. /\ (Current(rec)' = Current(rec)) /\ (Current(store)' = Current(store))
      /\ (Demanded' = Demanded) /\ Expected' = Expected /\ Polling' = Polling
  BY <1>2, <1>5 DEF Current, Demanded, Expected, Polling
<1>8. RecordFollows'
  BY <1>2, <1>7 DEF RecordFollows
<1>9. RestartOnce'
  BY RestartAside DEF LateLost, process, server, budget
<1>10. LoopTypeOK'
  BY <1>1 DEF LoopTypeOK, LateLost, protocol, process, server, budget
<1> QED
  BY <1>3, <1>4, <1>6, <1>8, <1>9, <1>10

LEMMA ThrottleKeeps == ASSUME LoopInv, Throttle PROVE LoopInv'
<1> USE Parts DEF Told
<1>1. PICK w \in Happenings : w = "throttled"
  BY DEF Happenings
<1>2. Spend(w)
  BY <1>1 DEF Throttle
<1>3. /\ spent' \in [Happenings -> Nat] /\ setup' = setup /\ spent'[w] = spent[w] + 1
      /\ \A v \in Happenings \ {w} : spent'[v] = spent[v]
  BY <1>2, Typed, SpendFacts
<1>4. spent'["restarts"] = spent["restarts"] /\ spent'["throttled"] # 0
  BY <1>1, <1>3, Typed DEF Happenings
<1>5. /\ up' = <<>> /\ up # <<>>
      /\ UNCHANGED <<seq, status, sendFull, sendStatus, down, late, link, rec, store, restarted, cmds>>
  BY DEF Throttle, protocol, process, server
<1>6. Len(up') = 0 /\ Len(up) \in Nat /\ Len(down) \in Nat
  BY <1>5, QueueNone, Typed, LenProperties
<1>7. Numbered'
  BY <1>3, <1>5, <1>6 DEF Numbered, Polling
<1>8. LateApart'
  <2>1. \A r \in late : r.seq # seq
    BY <1>5 DEF LateApart
  <2> QED
    BY <1>3, <1>5, <2>1 DEF LateApart, Polling
<1>9. SameInStore' /\ StatusTravels' /\ RecordFollows'
  BY <1>4, <1>5, <1>6 DEF SameInStore, StatusTravels, RecordFollows
<1>10. RestartOnce'
  BY <1>4, <1>5, RestartAside
<1>11. LoopTypeOK'
  BY <1>3, <1>5, EmptyTypes DEF LoopTypeOK, Throttle, protocol, process, server
<1> QED
  BY <1>7, <1>8, <1>9, <1>10, <1>11

LEMMA ClientRestartsKeeps == ASSUME LoopInv, ClientRestarts PROVE LoopInv'
<1> USE Parts DEF Told
<1>1. PICK w \in Happenings : w = "clientStarts"
  BY DEF Happenings
<1>2. Spend(w)
  BY <1>1 DEF ClientRestarts
<1>3. /\ spent' \in [Happenings -> Nat] /\ setup' = setup
      /\ \A v \in Happenings \ {w} : spent'[v] = spent[v]
  BY <1>2, Typed, SpendFacts
<1>4. spent'["restarts"] = spent["restarts"]
  BY <1>1, <1>3 DEF Happenings
<1>5. /\ up' = <<>> /\ down' = <<>> /\ cmds' = <<>> /\ sendFull' = TRUE /\ late' = {}
      /\ UNCHANGED <<rec, store, restarted>>
      /\ link' = (IF Polling THEN "up" ELSE "down")
  BY DEF ClientRestarts, server
<1>6. Numbered' /\ StatusTravels'
  BY <1>3, <1>5, EmptyTold DEF Polling
<1>7. LateApart' /\ SameInStore' /\ RecordFollows'
  BY <1>5 DEF LateApart, SameInStore, RecordFollows, Demanded
<1>8. RestartOnce'
  <2>1. Among(down', Commands) = 0 /\ Among(cmds', {Restart}) = 0 /\ Queued' = Queued
    BY <1>5, AmongNone DEF Queued
  <2> QED
    BY <1>4, <1>5, <2>1, RestartNumbers DEF RestartOnce
<1>9. status' \in Statuses /\ seq' \in Seq0 /\ Len(cmds') <= Capacity /\ Len(events') <= Capacity
  BY Typed, StatusFacts, TickFacts, EmptyTypes, SpanAssumption DEF ClientRestarts
<1>10. link' \in {"up", "down"}
  BY DEF ClientRestarts
<1>11. LoopTypeOK'
  BY <1>3, <1>9, <1>10, EmptyTypes DEF LoopTypeOK, ClientRestarts, server
<1> QED
  BY <1>6, <1>7, <1>8, <1>11

LEMMA ServerRestartsKeeps == ASSUME LoopInv, ServerRestarts PROVE LoopInv'
<1> USE Parts DEF Told
<1>1. PICK w \in Happenings : w = "serverStarts"
  BY DEF Happenings
<1>2. Spend(w)
  BY <1>1 DEF ServerRestarts
<1>3. /\ spent' \in [Happenings -> Nat] /\ setup' = setup
      /\ \A v \in Happenings \ {w} : spent'[v] = spent[v]
  BY <1>2, Typed, SpendFacts
<1>4. spent'["restarts"] = spent["restarts"] /\ spent'["throttled"] = spent["throttled"]
  BY <1>1, <1>3 DEF Happenings
<1>5. /\ up' = <<>> /\ down' = <<>> /\ wake' = FALSE /\ carried' = FALSE /\ late' = {}
      /\ link' = (IF Polling THEN "up" ELSE "down")
      /\ sendFull => sendFull'
      /\ Polling /\ (up # <<>> \/ down # <<>>) => sendFull'
      /\ UNCHANGED <<seq, status, sendStatus, restarted, cmds>>
      /\ rec' = store' /\ store' \in {rec, store}
  BY DEF ServerRestarts, Broken, process
<1>6. Numbered' /\ StatusTravels'
  BY <1>3, <1>5, EmptyTold DEF Polling
<1>7. LateApart' /\ SameInStore'
  BY <1>5 DEF LateApart, SameInStore
<1>8. Polling' = Polling
  BY <1>3 DEF Polling
<1>9. Alike(rec, store)
  BY Typed, AlikeFacts DEF SameInStore
<1>10. RecordFollows'
  <2> SUFFICES ASSUME spent["throttled"] = 0, link' = "up", rec'.known, ~sendFull',
                      rec'.seq = seq
               PROVE  Current(rec)'
    <3>1. Tick(rec'.seq) = Expected' => rec'.seq = seq
      <4>1. Expected' = Tick(seq)
        BY <1>5 DEF Expected
      <4>2. rec'.seq \in Seq0
        BY <1>5, Typed, RecordFields
      <4> QED
        BY <4>1, <4>2, Typed, TickFacts
    <3>2. Current(rec)' => Current(store)'
      BY <1>5 DEF Current
    <3> QED
      BY <1>4, <1>5, <3>1, <3>2 DEF RecordFollows, Demanded
  <2>1. Polling /\ up = <<>> /\ down = <<>> /\ ~sendFull
    BY <1>5
  <2>2. link = "up"
    BY <2>1 DEF Numbered
  <2>3. ~Demanded
    BY <2>1, QueueNone DEF Demanded
  <2>4. rec.known
    BY <1>5, <1>9 DEF Alike
  <2>5. Owed => Owed'
    BY <1>5, <2>1 DEF Owed
  <2>6. Len(up) = 0 /\ Len(up') = 0
    BY <1>5, <2>1, QueueNone
  <2>7. ~Latest
    BY <2>6 DEF Latest
  <2>8. Current(store')
    <3>1. CASE store' = rec
      BY <1>5, <2>1, <2>2, <2>3, <2>4, <3>1 DEF RecordFollows, Expected
    <3>2. CASE store' = store
      BY <1>5, <2>1, <2>2, <2>3, <2>4, <3>2 DEF RecordFollows
    <3> QED
      BY <1>5, <3>1, <3>2
  <2> QED
    BY <1>5, <2>5, <2>6, <2>7, <2>8 DEF Current
<1>11. RestartOnce'
  <2>1. Among(down', Commands) = 0
    BY <1>5, AmongNone
  <2>2. Queued' <= Queued /\ Queued' \in {0, 1}
    BY <1>5, <1>9 DEF Queued, Alike
  <2> QED
    BY <1>4, <1>5, <2>1, <2>2, RestartNumbers DEF RestartOnce
<1>12. sendFull' \in BOOLEAN /\ rec' \in Records /\ store' \in Records
  BY <1>5, Typed DEF ServerRestarts, Broken
<1>13. LoopTypeOK'
  BY <1>3, <1>5, <1>12, EmptyTypes DEF LoopTypeOK, ServerRestarts, process, Records
<1> QED
  BY <1>6, <1>7, <1>10, <1>11, <1>13

-------------------------------------------------------------------------------
(* The theorems                                                            *)

LEMMA InitSound == Init => LoopInv
<1> SUFFICES ASSUME Init PROVE LoopInv
  OBVIOUS
<1>1. /\ up = <<>> /\ down = <<>> /\ cmds = <<>> /\ late = {} /\ sendFull = TRUE
      /\ rec = NoRecord /\ store = NoRecord /\ restarted = 0
      /\ spent = [what \in Happenings |-> 0] /\ setup \in Setups
      /\ link = (IF Polling THEN "up" ELSE "down")
  BY DEF Init
<1>2. Len(<<>>) = 0 /\ \A x : x \notin ToSet(<<>>)
  BY QueueNone
<1>3. spent \in [Happenings -> Nat] /\ spent["restarts"] = 0
  BY <1>1 DEF Happenings
<1>4. LoopTypeOK
  <2>1. Len(cmds) <= Capacity /\ Len(events) <= Capacity
    BY <1>2, SpanAssumption DEF Init
  <2>2. seq \in Seq0 /\ status \in Statuses /\ rec \in Records /\ store \in Records
    BY <1>1, StatusFacts, TickFacts, NoRecordFacts DEF Init
  <2>3. /\ up \in Seq(Reports) /\ down \in Seq(Replies) /\ events \in Seq(Statuses)
        /\ cmds \in Seq(Hash \cup {Restart})
    BY <1>1, EmptyTypes DEF Init
  <2>4. link \in {"up", "down"}
    BY <1>1
  <2>5. /\ sendFull = TRUE /\ sendStatus = FALSE /\ owes = FALSE /\ pending = None
        /\ adapter = "idle" /\ owed = None /\ stored = None /\ desired = None
        /\ wake = FALSE /\ carried = FALSE
    BY DEF Init
  <2> QED
    BY <1>1, <1>3, <2>1, <2>2, <2>3, <2>4, <2>5 DEF LoopTypeOK, Records
<1>5. RestartOnce
  <2>1. Among(cmds, {Restart}) = 0 /\ Among(down, Commands) = 0
    BY <1>1, AmongNone
  <2>2. Queued = 0
    BY <1>1, NoRecordFacts DEF Queued
  <2> QED
    BY <1>1, <1>3, <2>1, <2>2 DEF RestartOnce
<1>6. Told
  <2>1. Numbered
    BY <1>1, <1>2 DEF Numbered
  <2> QED
    BY <1>1, <2>1 DEF Told, LateApart, SameInStore, StatusTravels, Owed, RecordFollows, Demanded
<1> QED
  BY <1>4, <1>5, <1>6, Parts

LEMMA StutterSound == ASSUME LoopInv, UNCHANGED vars PROVE LoopInv'
<1> USE Parts
<1>1. UNCHANGED <<seq, status, sendFull, sendStatus, owes, pending, cmds, adapter, owed, events,
                  stored, link, up, down, late, rec, store, desired, wake, carried, restarted,
                  spent, setup>>
  BY DEF vars, protocol, process, wire, server, budget
<1>2. Told'
  BY <1>1, AsideSound
<1>3. RestartOnce'
  BY <1>1, RestartAside
<1>4. LoopTypeOK'
  BY <1>1 DEF LoopTypeOK
<1> QED
  BY <1>2, <1>3, <1>4

LEMMA NextSound == LoopInv /\ [Next]_vars => LoopInv'
<1> SUFFICES ASSUME LoopInv, [Next]_vars PROVE LoopInv'
  OBVIOUS
<1>1. CASE Client
  <2>1. CASE HandleReply
    BY <2>1, HandlePlainKeeps, HandleCommandKeeps, HandleOfferKeeps DEF HandleReply
  <2> QED
    BY <1>1, <2>1, PollKeeps, ConnectKeeps, ApplySelfKeeps, AbsorbKeeps DEF Client
<1>2. CASE Adapter
  BY <1>2, TakeCommandKeeps, ServiceAwayKeeps, RetryKeeps, SettleKeeps DEF Adapter
<1>3. CASE Server
  BY <1>3, OnMessageKeeps, OnLateMessageKeeps, PushKeeps, RolloutKeeps, RequestRestartKeeps
  DEF Server
<1>4. CASE Faults
  BY <1>4, LoseKeeps, LateLostKeeps, ThrottleKeeps, ClientRestartsKeeps, ServerRestartsKeeps
  DEF Faults
<1>5. CASE UNCHANGED vars
  BY <1>5, StutterSound
<1> QED
  BY <1>1, <1>2, <1>3, <1>4, <1>5 DEF Next

(* The loop's state stays sound: a restart an operator asked for is in one *)
(* place at most and carried out once at most (take_restart), queues stay  *)
(* within their capacity, the reports on their way are numbered without a  *)
(* gap, the status an Agent has is owed, on its way or told (next_report), *)
(* and a record the next report would be taken to follow has what the      *)
(* reports before it carried (process_presented), also when the Server     *)
(* restarts from the store or reads a request the Client gave up on.       *)
THEOREM LoopSound == Spec => []LoopInv
<1>1. Init => LoopInv
  BY InitSound
<1>2. LoopInv /\ [Next]_vars => LoopInv'
  BY NextSound
<1> QED
  BY <1>1, <1>2, PTL DEF Spec

(* Omitting what did not change never leaves the Server behind an Agent    *)
(* that no response has throttled: once the last report is processed and   *)
(* nothing is owed or on its way, the record is described and holds the    *)
(* Agent's status (next_report, process_presented), whatever was lost,     *)
(* read late or restarted, and wherever the sequence numbers wrap.         *)
THEOREM ServerKeepsUp == Spec => [](spent["throttled"] = 0 => InStep)
<1>1. LoopInv => (spent["throttled"] = 0 => InStep)
  <2> SUFFICES ASSUME LoopInv, spent["throttled"] = 0,
                      link = "up", rec.known, rec.seq = seq, up = <<>>, down = <<>>,
                      ~sendFull, ~sendStatus
               PROVE  rec.described /\ (status # NoStatus => rec.status = status)
    BY DEF InStep
  <2>1. Len(up) = 0 /\ ~Demanded
    BY QueueNone DEF Demanded
  <2>2. Tick(rec.seq) = Expected
    BY DEF Expected
  <2>3. Current(rec)
    BY <2>1, <2>2, Parts DEF Told, RecordFollows
  <2>4. ~Latest
    BY <2>1 DEF Latest
  <2> QED
    BY <2>1, <2>3, <2>4 DEF Current, Owed
<1> QED
  BY <1>1, LoopSound, PTL
===============================================================================
