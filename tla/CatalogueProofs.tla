---------------------------- MODULE CatalogueProofs ----------------------------
(***************************************************************************)
(* Proofs about module Catalogue, for every number of instances, Agents,   *)
(* Configurations, Deployments and Packages, and however often they are    *)
(* edited, rolled out, deleted and forgotten: what an Agent is assigned    *)
(* stays stored and unchanged, no instance forgets its own commit, and one *)
(* that has taken up what it heard holds what is stored.                   *)
(***************************************************************************)
EXTENDS Catalogue, FiniteSetTheorems, FunctionTheorems, SequenceTheorems, TLAPS

(* What an instance knows to be pinned is what it committed.               *)
OwnPins(s) ==
  \A a \in Agent : last[a] = s =>
     pins[s].assignments[a] = (IF Stored(a) THEN assigned[a] ELSE Unassigned)

(* The part of the invariant that is about one instance.                   *)
Local(s) ==
  Coupled(s) /\ HoldsWhatItPins(s) /\ ReadsKnowCommits(s) /\ BehindIsDue(s) /\ OwnPins(s)

(* The bytes of what stays assigned stay (AssignedBytesKept, of one step). *)
BytesStay ==
  \A a \in Agent : \A p \in Package :
     assigned[a].package = p /\ assigned'[a].package = p => db'.packages[p] = db.packages[p]

(* What a step leads to.                                                   *)
Preserved == CatalogueInv' /\ PinsResolve' /\ BytesStay

-------------------------------------------------------------------------------
(* Constants and types                                                     *)

LEMMA Constants ==
  /\ 0 \notin Revision /\ Revision \subseteq Nat /\ Revision # {}
  /\ 0 \notin Bytes /\ Bytes # {} /\ Package # {}
  /\ IsFiniteSet(Agent) /\ IsFiniteSet(Configuration) /\ IsFiniteSet(Deployment)
  /\ IsFiniteSet(Package)
  /\ Configuration \cap Deployment = {} /\ Configuration \cap Package = {}
  /\ Deployment \cap Package = {}
  /\ None \notin Deployment /\ None \notin Package /\ None \notin Server /\ None \notin Readers
  /\ None \notin Configuration /\ Gone \notin Deployment /\ Gone # None
  BY CatalogueAssumption

LEMMA Typed ==
  CatalogueTypeOK <=>
    /\ db \in Rows /\ mem \in [Server -> Rows]
    /\ assigned \in [Agent -> Released \cup {Forgotten}]
    /\ held \in [Server -> [Agent -> Assignment]] /\ pins \in [Server -> Pins]
    /\ txn \in [Server -> Txn \cup {NoTxn}] /\ act \in [Server -> Act \cup {Idle}]
    /\ reads \in [Server -> [Readers -> Read \cup {NoRead}]]
    /\ reading \in [Server -> Reading \cup {Quiet}]
    /\ heard \in [Server -> SUBSET Everything] /\ listening \in [Server -> BOOLEAN]
    /\ last \in [Agent -> Server \cup {None}] /\ doubt \subseteq Server
    /\ passed \in [Server -> SUBSET Agent]
  BY DEF CatalogueTypeOK

LEMMA TypedNext ==
  CatalogueTypeOK' <=>
    /\ db' \in Rows /\ mem' \in [Server -> Rows]
    /\ assigned' \in [Agent -> Released \cup {Forgotten}]
    /\ held' \in [Server -> [Agent -> Assignment]] /\ pins' \in [Server -> Pins]
    /\ txn' \in [Server -> Txn \cup {NoTxn}] /\ act' \in [Server -> Act \cup {Idle}]
    /\ reads' \in [Server -> [Readers -> Read \cup {NoRead}]]
    /\ reading' \in [Server -> Reading \cup {Quiet}]
    /\ heard' \in [Server -> SUBSET Everything] /\ listening' \in [Server -> BOOLEAN]
    /\ last' \in [Agent -> Server \cup {None}] /\ doubt' \subseteq Server
    /\ passed' \in [Server -> SUBSET Agent]
  BY DEF CatalogueTypeOK

LEMMA OneUpdated ==
  ASSUME NEW T, NEW f \in [Server -> T], NEW s \in Server, NEW v \in T
  PROVE  /\ [f EXCEPT ![s] = v] \in [Server -> T] /\ [f EXCEPT ![s] = v][s] = v
         /\ \A t \in Server \ {s} : [f EXCEPT ![s] = v][t] = f[t]
  OBVIOUS

LEMMA BlankFacts ==
  /\ Unassigned \in Assignment /\ Forgotten \in Assignment /\ Unassigned # Forgotten
  /\ Unassigned \in Released /\ Forgotten \notin Released
  /\ Unassigned.deployment = None /\ Forgotten.deployment = Gone
  /\ Unassigned.package = None /\ Forgotten.package = None
  /\ \A c \in Configuration : Unassigned.configurations[c] = 0 /\ Forgotten.configurations[c] = 0
<1> USE Constants
<1>1. Unassigned \in Assignment /\ Forgotten \in Assignment
  BY DEF Unassigned, Forgotten, Blank, Assignment
<1>2. Unassigned.deployment = None /\ Forgotten.deployment = Gone
  BY DEF Unassigned, Forgotten, Blank
<1>3. /\ Unassigned.package = None /\ Forgotten.package = None
      /\ \A c \in Configuration :
            Unassigned.configurations[c] = 0 /\ Forgotten.configurations[c] = 0
  BY DEF Unassigned, Forgotten, Blank
<1>4. Unassigned # Forgotten
  BY <1>2
<1>5. Unassigned \in Released /\ Forgotten \notin Released
  BY <1>2, <1>4 DEF Released
<1> QED
  BY <1>1, <1>2, <1>3, <1>4, <1>5

(* An assignment that is stored names a Deployment, or nothing.            *)
LEMMA ReleasedFacts ==
  ASSUME NEW x \in Released \cup {Forgotten}
  PROVE  /\ x \in Assignment
         /\ x.deployment \in Deployment \/ x \in {Unassigned, Forgotten}
         /\ x.package \in Package \cup {None}
         /\ \A c \in Configuration : x.configurations[c] \in Revision \cup {0}
         /\ x.package # None => x.deployment \in Deployment
         /\ \A c \in Configuration : x.configurations[c] # 0 => x.deployment \in Deployment
<1>1. x \in Assignment /\ (x.deployment \in Deployment \/ x \in {Unassigned, Forgotten})
  BY BlankFacts DEF Released
<1>2. x.package \in Package \cup {None} /\ \A c \in Configuration : x.configurations[c] \in Revision \cup {0}
  BY <1>1 DEF Assignment
<1> QED
  BY <1>1, <1>2, BlankFacts

LEMMA AssignmentFields ==
  ASSUME NEW x \in Assignment
  PROVE  /\ x.deployment \in Deployment \cup {None, Gone} /\ x.package \in Package \cup {None}
         /\ x.configurations \in [Configuration -> Revision \cup {0}]
         /\ x = [deployment |-> x.deployment, package |-> x.package,
                 configurations |-> x.configurations]
  BY DEF Assignment

LEMMA AssignmentMade ==
  ASSUME NEW d \in Deployment \cup {None, Gone}, NEW p \in Package \cup {None},
         NEW m \in [Configuration -> Revision \cup {0}]
  PROVE  [deployment |-> d, package |-> p, configurations |-> m] \in Assignment
  BY DEF Assignment

LEMMA RowsFields ==
  ASSUME NEW r \in Rows
  PROVE  /\ r.saved \in [Configuration -> Revision \cup {0}]
         /\ r.retained \in [Configuration -> SUBSET Revision]
         /\ r.deployments \in [Deployment -> Member]
         /\ r.packages \in [Package -> Artifact]
         /\ r = [saved |-> r.saved, retained |-> r.retained, deployments |-> r.deployments,
                 packages |-> r.packages]
  BY DEF Rows

LEMMA RowsMade ==
  ASSUME NEW a \in [Configuration -> Revision \cup {0}],
         NEW b \in [Configuration -> SUBSET Revision],
         NEW c \in [Deployment -> Member], NEW d \in [Package -> Artifact]
  PROVE  [saved |-> a, retained |-> b, deployments |-> c, packages |-> d] \in Rows
  BY DEF Rows

LEMMA MemberFields ==
  ASSUME NEW r \in Member
  PROVE  /\ r.stored \in BOOLEAN /\ r.package \in Package \cup {None}
         /\ r.configurations \subseteq Configuration
         /\ r = [stored |-> r.stored, package |-> r.package,
                 configurations |-> r.configurations]
  BY DEF Member

LEMMA ArtifactFields ==
  ASSUME NEW r \in Artifact
  PROVE  /\ r.stored \in BOOLEAN /\ r.bytes \in Bytes \cup {0} /\ r.signed \in BOOLEAN
         /\ r = [stored |-> r.stored, bytes |-> r.bytes, signed |-> r.signed]
  BY DEF Artifact

LEMMA EmptyRows ==
  /\ NoPackage \in Artifact /\ EmptyPackage \in Artifact /\ NoDeployment \in Member
  /\ NoPackage.stored = FALSE /\ NoPackage.bytes = 0 /\ NoPackage.signed = FALSE
  /\ EmptyPackage.stored = TRUE /\ EmptyPackage.bytes = 0 /\ EmptyPackage.signed = FALSE
  /\ EmptyPackage = [stored |-> TRUE, bytes |-> 0, signed |-> FALSE]
  /\ NoDeployment.stored = FALSE /\ NoDeployment.package = None
  /\ NoDeployment.configurations = {}
<1> USE Constants
<1> QED
  BY DEF NoPackage, EmptyPackage, NoDeployment, Artifact, Member

LEMMA TxnFields ==
  ASSUME NEW t \in Txn \cup {NoTxn}
  PROVE  /\ t.open \in BOOLEAN
         /\ t.open => /\ t \in Txn /\ t.waited \in BOOLEAN
                      /\ t.todo \in Seq(Row) /\ t.holds \in Seq(Row)
                      /\ t.writes \in Some(Released)
                      /\ t.pinned \in [Configuration -> SUBSET Revision]
<1>1. CASE t \in Txn
  BY <1>1 DEF Txn
<1>2. CASE t = NoTxn
  BY <1>2 DEF NoTxn
<1> QED
  BY <1>1, <1>2

LEMMA PinsFields ==
  ASSUME NEW x \in Pins
  PROVE  /\ x.assignments \in [Agent -> Assignment \ {Forgotten}] /\ x.commits \in Nat
         /\ x.committed \in [Agent -> Nat]
         /\ x = [assignments |-> x.assignments, commits |-> x.commits,
                 committed |-> x.committed]
  BY DEF Pins

LEMMA SomeFacts ==
  ASSUME NEW V, NEW f \in Some(V)
  PROVE  /\ DOMAIN f \subseteq Agent /\ f \in [DOMAIN f -> V]
         /\ \A a \in DOMAIN f : f[a] \in V
  BY DEF Some

LEMMA SomeMade ==
  ASSUME NEW V, NEW A \in SUBSET Agent, NEW f \in [A -> V]
  PROVE  f \in Some(V) /\ DOMAIN f = A
  BY DEF Some

LEMMA ReadFields ==
  ASSUME NEW x \in Read \cup {NoRead}
  PROVE  /\ x.pc \in {"none", "rows", "read", "taken"}
         /\ x.pc # "none" => /\ x \in Read /\ x.began \in Nat /\ x.agents \subseteq Agent
                             /\ x.found \in Some(Assignment)
  BY DEF Read, NoRead

LEMMA ReadingFields ==
  ASSUME NEW x \in Reading \cup {Quiet}
  PROVE  /\ x.pc \in {"none", "catalogue", "agents", "compare", "again"}
         /\ x.pc = "none" <=> x = Quiet
         /\ x.pc # "none" => x \in Reading /\ x.due \subseteq Everything /\ x.left \subseteq Kinds
<1>1. CASE x = Quiet
  BY <1>1 DEF Quiet
<1>2. CASE x \in Reading
  BY <1>2 DEF Reading, Quiet
<1> QED
  BY <1>1, <1>2

LEMMA ActFields ==
  ASSUME NEW x \in Act \cup {Idle}
  PROVE  /\ x.pc \in {"idle", "putting", "dropping", "packaging", "reading", "pressed",
                      "releasing", "collect"}
         /\ x = Idle <=> x.pc = "idle"
         /\ x.pc = "putting" => x.on \in Deployment /\ x.what \in Configuration
         /\ x.pc = "dropping" => x.what \in Configuration \cup Package
         /\ x.pc = "packaging" =>
              x.on \in Package /\ x.what \in {"upload", "sign", "unsign", "delete"}
         /\ x.pc = "reading" => x.on \in Deployment
         /\ x.pc = "pressed" => x.releases \in Some(Released) /\ x.touched \subseteq Configuration
         /\ x.pc = "releasing" => x.names \subseteq Configuration /\ x.touched \subseteq Configuration
         /\ x.pc = "collect" => x.names \subseteq Configuration /\ x.names # {}
<1>1. CASE x = Idle
  BY <1>1 DEF Idle
<1>2. CASE x \in [pc : {"putting"}, on : Deployment, what : Configuration]
  BY <1>2 DEF Idle
<1>3. CASE x \in [pc : {"dropping"}, what : Configuration \cup Package]
  BY <1>3 DEF Idle
<1>4. CASE x \in [pc : {"packaging"}, on : Package, what : {"upload", "sign", "unsign", "delete"}]
  BY <1>4 DEF Idle
<1>5. CASE x \in [pc : {"reading"}, on : Deployment]
  BY <1>5 DEF Idle
<1>6. CASE x \in [pc : {"pressed"}, releases : Some(Released), touched : SUBSET Configuration]
  BY <1>6 DEF Idle
<1>7. CASE x \in [pc : {"releasing"}, names : SUBSET Configuration, touched : SUBSET Configuration]
  BY <1>7 DEF Idle
<1>8. CASE x \in [pc : {"collect"}, names : (SUBSET Configuration) \ {{}}]
  BY <1>8 DEF Idle
<1> QED
  BY <1>1, <1>2, <1>3, <1>4, <1>5, <1>6, <1>7, <1>8 DEF Act

LEMMA ActsMade ==
  /\ Idle \in Act \cup {Idle} /\ Idle.pc = "idle"
  /\ \A d \in Deployment, c \in Configuration : [pc |-> "putting", on |-> d, what |-> c] \in Act
  /\ \A c \in Configuration \cup Package : [pc |-> "dropping", what |-> c] \in Act
  /\ \A p \in Package, w \in {"upload", "sign", "unsign", "delete"} :
        [pc |-> "packaging", on |-> p, what |-> w] \in Act
  /\ \A d \in Deployment : [pc |-> "reading", on |-> d] \in Act
  /\ \A f \in Some(Released), T \in SUBSET Configuration :
        [pc |-> "pressed", releases |-> f, touched |-> T] \in Act
  /\ \A N, T \in SUBSET Configuration : [pc |-> "releasing", names |-> N, touched |-> T] \in Act
  /\ \A N \in SUBSET Configuration :
        /\ Collecting(N) \in Act \cup {Idle}
        /\ Collecting(N).pc \in {"idle", "collect"}
<1>1. \A N \in SUBSET Configuration : /\ Collecting(N) \in Act \cup {Idle}
                                      /\ Collecting(N).pc \in {"idle", "collect"}
  <2> TAKE N \in SUBSET Configuration
  <2>1. CASE N = {}
    BY <2>1 DEF Collecting, Idle
  <2>2. CASE N # {}
    BY <2>2 DEF Collecting, Act
  <2> QED
    BY <2>1, <2>2
<1>2. Idle \in Act \cup {Idle} /\ Idle.pc = "idle"
  BY DEF Idle
<1>3. \A f \in Some(Released), T \in SUBSET Configuration :
        [pc |-> "pressed", releases |-> f, touched |-> T] \in Act
  BY DEF Act
<1>4. /\ \A N, T \in SUBSET Configuration : [pc |-> "releasing", names |-> N, touched |-> T] \in Act
      /\ \A d \in Deployment : [pc |-> "reading", on |-> d] \in Act
  BY DEF Act
<1>5. /\ \A p \in Package, w \in {"upload", "sign", "unsign", "delete"} :
            [pc |-> "packaging", on |-> p, what |-> w] \in Act
      /\ \A c \in Configuration \cup Package : [pc |-> "dropping", what |-> c] \in Act
      /\ \A d \in Deployment, c \in Configuration :
            [pc |-> "putting", on |-> d, what |-> c] \in Act
  BY DEF Act
<1> QED
  BY <1>1, <1>2, <1>3, <1>4, <1>5

-------------------------------------------------------------------------------
(* The rows a release asks for                                             *)

LEMMA SetAsSeq ==
  ASSUME NEW S \in SUBSET Row, IsFiniteSet(S)
  PROVE  SetToSeq(S) \in Seq(Row) /\ ToSet(SetToSeq(S)) = S
<1> DEFINE n == Cardinality(S)
           q == SetToSeq(S)
<1>1. n \in Nat /\ ExistsBijection(1 .. n, S)
  BY FS_CardinalityType
<1>2. PICK g : g \in Bijection(1 .. n, S)
  BY <1>1 DEF ExistsBijection
<1>3. g \in [1 .. n -> S] /\ IsInjective(g)
  BY <1>2 DEF Bijection, Injection
<1>4. q \in [1 .. n -> S] /\ IsInjective(q)
  BY <1>3 DEF SetToSeq
<1> HIDE DEF q
<1>5. q \in Injection(1 .. n, S)
  BY <1>4 DEF Injection
<1>6. IsFiniteSet(1 .. n) /\ Cardinality(1 .. n) = n
  BY <1>1, FS_Interval
<1>7. q \in Surjection(1 .. n, S)
  BY <1>1, <1>5, <1>6, FS_Injection
<1>8. DOMAIN q = 1 .. n /\ \A x \in S : \E i \in 1 .. n : q[i] = x
  BY <1>4, <1>7 DEF Surjection
<1>9. ToSet(q) = S
  BY <1>4, <1>8 DEF ToSet
<1>10. q \in Seq(Row)
  BY <1>1, <1>4, SeqDef
<1> QED
  BY <1>9, <1>10 DEF q

LEMMA SetOfSeq ==
  ASSUME NEW q \in Seq(Row)
  PROVE  /\ ToSet(q) = {q[i] : i \in 1 .. Len(q)} /\ ToSet(q) \subseteq Row /\ Len(q) \in Nat
<1>1. Len(q) \in Nat /\ q \in [1 .. Len(q) -> Row] /\ DOMAIN q = 1 .. Len(q)
  BY LenProperties
<1> QED
  BY <1>1 DEF ToSet

LEMMA SetOfNone == ToSet(<<>>) = {} /\ <<>> \in Seq(Row)
<1>1. <<>> \in Seq(Row)
  BY EmptySeq
<1> QED
  BY <1>1 DEF ToSet

LEMMA SetOfConcat ==
  ASSUME NEW q \in Seq(Row), NEW r \in Seq(Row)
  PROVE  q \o r \in Seq(Row) /\ ToSet(q \o r) = ToSet(q) \cup ToSet(r)
<1> DEFINE z == q \o r
<1>1. /\ z \in Seq(Row) /\ Len(z) = Len(q) + Len(r)
      /\ \A i \in 1 .. Len(q) + Len(r) : z[i] = IF i <= Len(q) THEN q[i] ELSE r[i - Len(q)]
  BY ConcatProperties
<1> HIDE DEF z
<1>2. Len(q) \in Nat /\ Len(r) \in Nat
  BY LenProperties
<1>3. \A i \in 1 .. Len(q) : i \in 1 .. Len(z) /\ z[i] = q[i]
  BY <1>1, <1>2
<1>4. ASSUME NEW i \in 1 .. Len(r)
      PROVE  Len(q) + i \in 1 .. Len(z) /\ z[Len(q) + i] = r[i]
  <2>1. Len(q) + i \in 1 .. Len(q) + Len(r) /\ ~(Len(q) + i <= Len(q)) /\ Len(q) + i - Len(q) = i
    BY <1>2
  <2> QED
    BY <1>1, <2>1
<1>5. \A i \in 1 .. Len(z) : \/ i \in 1 .. Len(q) /\ z[i] = q[i]
                             \/ i - Len(q) \in 1 .. Len(r) /\ z[i] = r[i - Len(q)]
  BY <1>1, <1>2
<1>6. /\ ToSet(z) = {z[i] : i \in 1 .. Len(z)} /\ ToSet(q) = {q[i] : i \in 1 .. Len(q)}
      /\ ToSet(r) = {r[i] : i \in 1 .. Len(r)}
  BY <1>1, SetOfSeq
<1>7. ToSet(z) = ToSet(q) \cup ToSet(r)
  BY <1>3, <1>4, <1>5, <1>6
<1> QED
  BY <1>1, <1>7 DEF z

LEMMA SetOfAppend ==
  ASSUME NEW q \in Seq(Row), NEW x \in Row
  PROVE  Append(q, x) \in Seq(Row) /\ ToSet(Append(q, x)) = ToSet(q) \cup {x}
<1> DEFINE z == Append(q, x)
<1>1. /\ z \in Seq(Row) /\ Len(z) = Len(q) + 1
      /\ \A i \in 1 .. Len(q) : z[i] = q[i] /\ z[Len(q) + 1] = x
  BY AppendProperties
<1>2. z[Len(q) + 1] = x
  BY AppendProperties
<1> HIDE DEF z
<1>3. Len(q) \in Nat
  BY LenProperties
<1>4. ToSet(z) = {z[i] : i \in 1 .. Len(z)} /\ ToSet(q) = {q[i] : i \in 1 .. Len(q)}
  BY <1>1, SetOfSeq
<1>5. \A i \in 1 .. Len(z) : i \in 1 .. Len(q) \/ i = Len(q) + 1
  BY <1>1, <1>3
<1>6. \A i \in 1 .. Len(q) : i \in 1 .. Len(z)
  BY <1>1, <1>3
<1>7. Len(q) + 1 \in 1 .. Len(z)
  BY <1>1, <1>3
<1>8. ToSet(z) = ToSet(q) \cup {x}
  BY <1>1, <1>2, <1>4, <1>5, <1>6, <1>7
<1> QED
  BY <1>1, <1>8 DEF z

LEMMA SetOfTail ==
  ASSUME NEW q \in Seq(Row), q # <<>>
  PROVE  /\ Head(q) \in Row /\ Tail(q) \in Seq(Row)
         /\ ToSet(q) = ToSet(Tail(q)) \cup {Head(q)}
<1> DEFINE z == Tail(q)
<1>1. /\ Head(q) \in Row /\ z \in Seq(Row) /\ Len(z) = Len(q) - 1
      /\ \A i \in 1 .. Len(z) : z[i] = q[i + 1]
  BY HeadTailProperties
<1>2. Head(q) = q[1]
  OBVIOUS
<1>3. Len(q) \in Nat \ {0}
  BY EmptySeq
<1> HIDE DEF z
<1>4. ToSet(z) = {z[i] : i \in 1 .. Len(z)} /\ ToSet(q) = {q[i] : i \in 1 .. Len(q)}
  BY <1>1, SetOfSeq
<1>5. \A i \in 1 .. Len(q) : i = 1 \/ (i - 1 \in 1 .. Len(z) /\ q[i] = z[i - 1])
  BY <1>1, <1>3
<1>6. \A i \in 1 .. Len(z) : i + 1 \in 1 .. Len(q) /\ z[i] = q[i + 1]
  BY <1>1, <1>3
<1>7. 1 \in 1 .. Len(q)
  BY <1>3
<1>8. ToSet(q) = ToSet(z) \cup {Head(q)}
  <2>1. \A x \in ToSet(q) : x = q[1] \/ x \in ToSet(z)
    BY <1>4, <1>5
  <2>2. \A x \in ToSet(z) : x \in ToSet(q)
    BY <1>4, <1>6
  <2>3. q[1] \in ToSet(q)
    BY <1>4, <1>7
  <2> QED
    BY <1>2, <2>1, <2>2, <2>3
<1> QED
  BY <1>1, <1>8 DEF z

-------------------------------------------------------------------------------
(* What a step leaves alone stays sound                                    *)

LEMMA InvParts ==
  ASSUME CatalogueInv
  PROVE  /\ CatalogueTypeOK /\ SoundRows(db)
         /\ \A s \in Server : SoundRows(mem[s]) /\ Local(s)
<1>1. \A s \in Server : OwnPins(s)
  BY Constants DEF CatalogueInv, OwnCommitsPinned, OwnPins
<1> QED
  BY <1>1 DEF CatalogueInv, RowsSound, Local

LEMMA Assembled ==
  ASSUME CatalogueTypeOK', SoundRows(db'), \A s \in Server : SoundRows(mem'[s]) /\ Local(s)'
  PROVE  CatalogueInv'
<1>1. last' \in [Agent -> Server \cup {None}]
  BY TypedNext
<1>2. OwnCommitsPinned'
  <2> SUFFICES ASSUME NEW a \in Agent, last'[a] # None
               PROVE  pins'[last'[a]].assignments[a] = (IF Stored(a)' THEN assigned'[a] ELSE Unassigned)
    BY DEF OwnCommitsPinned, Unassigned, Blank
  <2>1. last'[a] \in Server
    BY <1>1
  <2>2. PICK s \in Server : s = last'[a]
    BY <2>1
  <2>3. OwnPins(s)'
    BY DEF Local
  <2>4. pins'[s].assignments[a] = (IF Stored(a)' THEN assigned'[a] ELSE Unassigned)
    BY <2>2, <2>3 DEF OwnPins, Unassigned, Blank
  <2> QED
    BY <2>2, <2>4
<1>3. RowsSound'
  BY DEF RowsSound
<1>4. \A s \in Server :
        (Coupled(s) /\ HoldsWhatItPins(s) /\ ReadsKnowCommits(s) /\ BehindIsDue(s))'
  BY DEF Local
<1> QED
  BY <1>2, <1>3, <1>4 DEF CatalogueInv

LEMMA CoupledStays ==
  ASSUME NEW t \in Server, Coupled(t), act'[t] = act[t], txn'[t] = txn[t],
         reading'[t] = reading[t], reads'[t] = reads[t]
  PROVE  Coupled(t)'
  BY DEF Coupled

LEMMA HoldsStays ==
  ASSUME NEW t \in Server, HoldsWhatItPins(t), txn'[t] = txn[t],
         txn[t].open => \A row \in ToSet(txn[t].holds) : InDb(row) => InDb(row)',
         txn[t].open /\ txn[t].waited => act'[t] = act[t]
  PROVE  HoldsWhatItPins(t)'
<1>1. Unassigned' = Unassigned
  BY DEF Unassigned, Blank
<1> QED
  BY <1>1 DEF HoldsWhatItPins, AskedFor

LEMMA ReadsStay ==
  ASSUME NEW t \in Server, CatalogueTypeOK, CatalogueTypeOK', ReadsKnowCommits(t),
         reads'[t] = reads[t], pins'[t].commits >= pins[t].commits,
         \A a \in Agent : last'[a] = t =>
            \/ pins'[t].committed[a] > pins[t].commits
            \/ /\ last[a] = t /\ assigned'[a] = assigned[a]
               /\ pins'[t].committed[a] = pins[t].committed[a]
  PROVE  ReadsKnowCommits(t)'
<1> SUFFICES ASSUME NEW r \in Readers, reads'[t][r].pc \in {"rows", "read"}
             PROVE  /\ reads'[t][r].began <= pins'[t].commits
                    /\ \A a \in reads'[t][r].agents : last'[a] = t =>
                          \/ pins'[t].committed[a] > reads'[t][r].began
                          \/ reads'[t][r].found[a] = assigned'[a]
  BY DEF ReadsKnowCommits
<1>1. /\ pins[t].commits \in Nat /\ pins'[t].commits \in Nat
      /\ pins'[t].committed \in [Agent -> Nat]
  BY Typed, TypedNext, PinsFields
<1>2. reads[t][r] \in Read \cup {NoRead} /\ reads[t][r].began \in Nat /\ reads[t][r].agents \subseteq Agent
  BY Typed, ReadFields
<1>3. reads[t][r].began <= pins[t].commits
  BY DEF ReadsKnowCommits
<1>4. reads'[t][r].began <= pins'[t].commits
  BY <1>1, <1>2, <1>3
<1>5. ASSUME NEW a \in reads'[t][r].agents, last'[a] = t
      PROVE  \/ pins'[t].committed[a] > reads'[t][r].began
             \/ reads'[t][r].found[a] = assigned'[a]
  <2>1. a \in Agent /\ a \in reads[t][r].agents
    BY <1>2, <1>5
  <2>2. CASE pins'[t].committed[a] > pins[t].commits
    BY <1>1, <1>2, <1>3, <2>1, <2>2
  <2>3. CASE /\ last[a] = t /\ assigned'[a] = assigned[a]
             /\ pins'[t].committed[a] = pins[t].committed[a]
    BY <2>1, <2>3 DEF ReadsKnowCommits
  <2> QED
    BY <1>5, <2>1, <2>2, <2>3
<1> QED
  BY <1>4, <1>5

LEMMA OwnStays ==
  ASSUME NEW t \in Server, OwnPins(t),
         \A a \in Agent : last'[a] = t =>
            /\ last[a] = t /\ assigned'[a] = assigned[a]
            /\ pins'[t].assignments[a] = pins[t].assignments[a]
  PROVE  OwnPins(t)'
<1>1. Unassigned' = Unassigned /\ Forgotten' = Forgotten
  BY DEF Unassigned, Forgotten, Blank
<1> QED
  BY <1>1 DEF OwnPins, Stored

(* What others change is heard of, but for a record created where there    *)
(* was none.                                                               *)
Told(t) ==
  /\ heard[t] \subseteq heard'[t]
  /\ "configurations" \in heard'[t] \/ (db'.saved = db.saved /\ db'.retained = db.retained)
  /\ "deployments" \in heard'[t] \/ db'.deployments = db.deployments
  /\ "packages" \in heard'[t] \/ db'.packages = db.packages
  /\ \A a \in Agent : a \in heard'[t] \/ assigned'[a] \in {assigned[a]}
                                      \/ assigned[a] = Forgotten

LEMMA BehindStays ==
  ASSUME NEW t \in Server, CatalogueTypeOK, Coupled(t), BehindIsDue(t), mem'[t] = mem[t],
         held'[t] = held[t], reads'[t]["follow"] = reads[t]["follow"], reading'[t] = reading[t],
         listening'[t] = listening[t], passed'[t] = passed[t], t \notin doubt' => t \notin doubt,
         listening[t] => Told(t)
  PROVE  BehindIsDue(t)'
<1> SUFFICES ASSUME listening'[t], t \notin doubt' PROVE BehindIsDue(t)'
  BY DEF BehindIsDue
<1>1. Told(t) /\ listening[t] /\ t \notin doubt
  OBVIOUS
<1>2. Forgotten' = Forgotten /\ Held(t)' = Held(t) /\ Held(t) \subseteq Agent
  BY DEF Forgotten, Blank, Held
<1>3. Awaited(t) \subseteq Awaited(t)'
  BY <1>1 DEF Awaited, Told
<1>4. /\ "configurations" \notin Awaited(t)' =>
           /\ mem'[t].saved = db'.saved
           /\ \A c \in Configuration : db'.retained[c] \subseteq mem'[t].retained[c]
      /\ "deployments" \notin Awaited(t)' => mem'[t].deployments = db'.deployments
      /\ "packages" \notin Awaited(t)' => mem'[t].packages = db'.packages
  <2>1. /\ "configurations" \notin Awaited(t)' => "configurations" \notin heard'[t]
        /\ "deployments" \notin Awaited(t)' => "deployments" \notin heard'[t]
        /\ "packages" \notin Awaited(t)' => "packages" \notin heard'[t]
    BY DEF Awaited
  <2> QED
    BY <1>1, <1>3, <2>1 DEF BehindIsDue, Told
<1>5. \A a \in Agent : Fresh(t, a) => a \in heard'[t] \/ Fresh(t, a)'
  BY <1>1, <1>2 DEF Fresh, Told
<1>6. \A a \in Agent : AgentDue(t, a) => AgentDue(t, a)'
  BY <1>1, <1>5 DEF AgentDue, Told
<1>7. ASSUME NEW a \in Held(t) \ passed[t]
      PROVE  held'[t][a] = assigned'[a] \/ AgentDue(t, a)'
  <2>1. a \in Agent /\ held[t][a] # Forgotten
    BY <1>7 DEF Held
  <2>2. CASE a \in heard'[t]
    BY <2>2 DEF AgentDue
  <2>3. CASE assigned'[a] = assigned[a] \/ assigned[a] = Forgotten
    BY <1>1, <1>6, <1>7, <2>1, <2>3 DEF BehindIsDue
  <2> QED
    BY <1>1, <2>1, <2>2, <2>3 DEF Told
<1>8. reading'[t].pc = "again" =>
        \A a \in reads'[t]["follow"].agents : a \in heard'[t] \/ Fresh(t, a)'
  <2> SUFFICES ASSUME reading[t].pc = "again", NEW a \in reads[t]["follow"].agents
               PROVE  a \in heard'[t] \/ Fresh(t, a)'
    OBVIOUS
  <2>1. a \in heard[t] \/ Fresh(t, a)
    BY <1>1 DEF BehindIsDue
  <2>2. CASE a \in heard[t]
    BY <1>1, <2>2 DEF Told
  <2>3. a \in Agent
    BY Typed, ReadFields DEF Coupled, Readers
  <2> QED
    BY <1>5, <2>1, <2>2, <2>3
<1> QED
  BY <1>2, <1>4, <1>7, <1>8 DEF BehindIsDue

(* Everything that is one instance's own.                                  *)
Steady(t) ==
  /\ mem'[t] = mem[t] /\ held'[t] = held[t] /\ pins'[t] = pins[t] /\ txn'[t] = txn[t]
  /\ reads'[t] = reads[t] /\ act'[t] = act[t] /\ reading'[t] = reading[t]
  /\ listening'[t] = listening[t] /\ passed'[t] = passed[t] /\ (t \notin doubt' => t \notin doubt)

(* What others do leaves an instance sound that hears of it, whose rows    *)
(* they respect, and whose commits they do not take for theirs.            *)
LEMMA BystanderKeeps ==
  ASSUME NEW t \in Server, CatalogueTypeOK, CatalogueTypeOK', Local(t), Steady(t),
         listening[t] => Told(t),
         txn[t].open => \A row \in ToSet(txn[t].holds) : InDb(row) => InDb(row)',
         \A a \in Agent : last'[a] = t => last[a] = t /\ assigned'[a] = assigned[a]
  PROVE  Local(t)'
<1> USE DEF Local, Steady
<1>1. Coupled(t)'
  BY CoupledStays
<1>2. HoldsWhatItPins(t)'
  BY HoldsStays
<1>3. pins[t] \in Pins /\ pins[t].commits \in Nat
  BY Typed, PinsFields
<1>4. pins'[t].commits >= pins[t].commits
  BY <1>3
<1>5. ReadsKnowCommits(t)'
  BY <1>4, ReadsStay
<1>6. BehindIsDue(t)'
  BY BehindStays
<1>7. OwnPins(t)'
  BY OwnStays
<1> QED
  BY <1>1, <1>2, <1>5, <1>6, <1>7

(* A step of one instance that writes nothing.                             *)
LEMMA LocalStep ==
  ASSUME CatalogueInv, PinsResolve, CatalogueTypeOK', NEW s \in Server,
         db' = db, assigned' = assigned, last' = last,
         \A t \in Server \ {s} : Steady(t) /\ heard'[t] = heard[t],
         SoundRows(mem'[s]), Local(s)'
  PROVE  Preserved
<1>1. /\ CatalogueTypeOK /\ SoundRows(db)
      /\ \A t \in Server : SoundRows(mem[t]) /\ Local(t)
  BY InvParts
<1>2. ASSUME NEW t \in Server PROVE SoundRows(mem'[t]) /\ Local(t)'
  <2>1. CASE t = s
    BY <2>1
  <2>2. CASE t # s
    <3>1. Steady(t) /\ heard'[t] = heard[t]
      BY <2>2
    <3>2. Told(t)
      BY <3>1 DEF Told
    <3>3. \A row : InDb(row) => InDb(row)'
      BY DEF InDb
    <3>4. Local(t)'
      BY <1>1, <3>1, <3>2, <3>3, BystanderKeeps
    <3> QED
      BY <1>1, <3>1, <3>4 DEF Steady
  <2> QED
    BY <2>1, <2>2
<1>3. CatalogueInv'
  BY <1>1, <1>2, Assembled
<1>4. PinsResolve' /\ BytesStay
  BY DEF PinsResolve, BytesStay
<1> QED
  BY <1>3, <1>4 DEF Preserved

(* Only the act moves, and no release begins or ends.                      *)
LEMMA ActStep ==
  ASSUME CatalogueInv, PinsResolve, NEW s \in Server, NEW v \in Act \cup {Idle},
         act' = [act EXCEPT ![s] = v],
         UNCHANGED <<database, mem, held, pins, reads, reading, ears, ghosts>>,
         act[s].pc # "releasing", v.pc \notin {"releasing", "reading", "pressed"},
         reading[s].pc = "again" => v.pc \in {"idle", "packaging"}
  PROVE  Preserved
<1> USE DEF database, ears, ghosts
<1>1. /\ CatalogueTypeOK /\ SoundRows(mem[s]) /\ Local(s)
  BY InvParts
<1>2. /\ act' \in [Server -> Act \cup {Idle}] /\ act'[s] = v
      /\ \A t \in Server \ {s} : act'[t] = act[t]
  BY <1>1, Typed, OneUpdated
<1>3. CatalogueTypeOK'
  BY <1>1, <1>2, Typed, TypedNext
<1>4. \A t \in Server \ {s} : Steady(t) /\ heard'[t] = heard[t]
  BY <1>2 DEF Steady
<1>5. Coupled(s)'
  BY <1>1, <1>2 DEF Local, Coupled
<1>6. \A row : InDb(row) => InDb(row)'
  BY DEF InDb
<1>7. HoldsWhatItPins(s)'
  <2>1. ~(txn[s].open /\ txn[s].waited)
    BY <1>1 DEF Local, Coupled
  <2> QED
    BY <1>1, <1>6, <2>1, HoldsStays DEF Local
<1>8. pins[s].commits \in Nat
  BY <1>1, Typed, PinsFields
<1>9. ReadsKnowCommits(s)' /\ OwnPins(s)'
  BY <1>1, <1>3, <1>8, ReadsStay, OwnStays DEF Local
<1>10. BehindIsDue(s)'
  <2>1. Told(s)
    BY DEF Told
  <2> QED
    BY <1>1, <2>1, BehindStays DEF Local
<1> QED
  BY <1>1, <1>2, <1>3, <1>4, <1>5, <1>7, <1>9, <1>10, LocalStep DEF Local

LEMMA PutCheckKeeps ==
  ASSUME CatalogueInv, PinsResolve, NEW s \in Server, NEW d \in Deployment,
         NEW c \in Configuration, PutCheck(s, d, c)
  PROVE  Preserved
<1> DEFINE v == [pc |-> "putting", on |-> d, what |-> c]
<1>1. v \in Act /\ v.pc = "putting"
  BY ActsMade
<1>2. /\ act' = [act EXCEPT ![s] = v] /\ act[s] = Idle /\ reading[s].pc # "again"
      /\ UNCHANGED <<database, mem, held, pins, reads, reading, ears, ghosts>>
  BY DEF PutCheck, FleetFree
<1>3. act[s].pc # "releasing"
  BY <1>2, ActsMade
<1> HIDE DEF v
<1> QED
  BY <1>1, <1>2, <1>3, ActStep

LEMMA PutRefusedKeeps ==
  ASSUME CatalogueInv, PinsResolve, NEW s \in Server, PutRefused(s)
  PROVE  Preserved
<1>1. /\ act' = [act EXCEPT ![s] = Idle] /\ act[s].pc = "putting"
      /\ UNCHANGED <<database, mem, held, pins, reads, reading, ears, ghosts>>
  BY DEF PutRefused
<1> QED
  BY <1>1, ActStep, ActsMade

LEMMA DropFailsKeeps ==
  ASSUME CatalogueInv, PinsResolve, NEW s \in Server, DropFails(s)
  PROVE  Preserved
<1>1. /\ act' = [act EXCEPT ![s] = Idle] /\ act[s].pc = "dropping"
      /\ UNCHANGED <<database, mem, held, pins, reads, reading, ears, ghosts>>
  BY DEF DropFails
<1> QED
  BY <1>1, ActStep, ActsMade

LEMMA CollectFailsKeeps ==
  ASSUME CatalogueInv, PinsResolve, NEW s \in Server, CollectFails(s)
  PROVE  Preserved
<1>1. /\ act' = [act EXCEPT ![s] = Idle] /\ act[s].pc = "collect"
      /\ UNCHANGED <<database, mem, held, pins, reads, reading, ears, ghosts>>
  BY DEF CollectFails
<1> QED
  BY <1>1, ActStep, ActsMade

LEMMA PackageCheckKeeps ==
  ASSUME CatalogueInv, PinsResolve, NEW s \in Server, NEW p \in Package,
         NEW w \in {"upload", "sign", "unsign", "delete"}, PackageCheck(s, p, w)
  PROVE  Preserved
<1> DEFINE v == [pc |-> "packaging", on |-> p, what |-> w]
<1>1. v \in Act /\ v.pc = "packaging"
  BY ActsMade
<1>2. /\ act' = [act EXCEPT ![s] = v] /\ act[s] = Idle
      /\ UNCHANGED <<database, mem, held, pins, reads, reading, ears, ghosts>>
  BY DEF PackageCheck
<1>3. act[s].pc # "releasing"
  BY <1>2, ActsMade
<1> HIDE DEF v
<1> QED
  BY <1>1, <1>2, <1>3, ActStep

LEMMA PackageRefusedKeeps ==
  ASSUME CatalogueInv, PinsResolve, NEW s \in Server, PackageRefused(s)
  PROVE  Preserved
<1>1. /\ act' = [act EXCEPT ![s] = Idle] /\ act[s].pc = "packaging"
      /\ UNCHANGED <<database, mem, held, pins, reads, reading, ears, ghosts>>
  BY DEF PackageRefused
<1> QED
  BY <1>1, ActStep, ActsMade

-------------------------------------------------------------------------------
(* Hearing, and taking up what was heard                                   *)

(* What nobody writes to leaves each part sound that it leaves alone.      *)
LEMMA QuietParts ==
  ASSUME NEW s \in Server, CatalogueTypeOK, CatalogueTypeOK', Local(s),
         db' = db, assigned' = assigned, last' = last
  PROVE  /\ /\ act'[s] = act[s] /\ txn'[s] = txn[s]
            /\ reading'[s] = reading[s] /\ reads'[s] = reads[s]
            => Coupled(s)'
         /\ act'[s] = act[s] /\ txn'[s] = txn[s] => HoldsWhatItPins(s)'
         /\ reads'[s] = reads[s] /\ pins'[s] = pins[s] => ReadsKnowCommits(s)'
         /\ pins'[s].assignments = pins[s].assignments => OwnPins(s)'
         /\ /\ mem'[s] = mem[s] /\ held'[s] = held[s] /\ reads'[s]["follow"] = reads[s]["follow"]
            /\ reading'[s] = reading[s] /\ heard'[s] = heard[s] /\ listening'[s] = listening[s]
            /\ passed'[s] = passed[s] /\ doubt' = doubt
            => BehindIsDue(s)'
<1> USE DEF Local
<1>1. \A row : InDb(row) => InDb(row)'
  BY DEF InDb
<1>2. pins[s].commits \in Nat
  BY Typed, PinsFields
<1>3. act'[s] = act[s] /\ txn'[s] = txn[s] => HoldsWhatItPins(s)'
  BY <1>1, HoldsStays
<1>4. reads'[s] = reads[s] /\ pins'[s] = pins[s] => ReadsKnowCommits(s)'
  BY <1>2, ReadsStay
<1>5. heard'[s] = heard[s] => Told(s)
  BY DEF Told
<1> QED
  BY <1>3, <1>4, <1>5, CoupledStays, OwnStays, BehindStays

LEMMA DeafenKeeps ==
  ASSUME CatalogueInv, PinsResolve, NEW s \in Server, Deafen(s)
  PROVE  Preserved
<1>1. CatalogueTypeOK /\ SoundRows(mem[s]) /\ Local(s)
  BY InvParts
<1>2. /\ listening' = [listening EXCEPT ![s] = FALSE] /\ db' = db /\ assigned' = assigned
      /\ txn' = txn /\ mem' = mem /\ held' = held /\ pins' = pins /\ reads' = reads
      /\ act' = act /\ reading' = reading /\ heard' = heard /\ last' = last /\ doubt' = doubt
      /\ passed' = passed
  BY DEF Deafen, database, ghosts
<1>3. /\ listening' \in [Server -> BOOLEAN] /\ listening'[s] = FALSE
      /\ \A t \in Server \ {s} : listening'[t] = listening[t]
  BY <1>1, <1>2, Typed
<1>4. CatalogueTypeOK'
  BY <1>1, <1>2, <1>3, Typed, TypedNext
<1>5. \A t \in Server \ {s} : Steady(t) /\ heard'[t] = heard[t]
  BY <1>2, <1>3 DEF Steady
<1>6. BehindIsDue(s)'
  BY <1>3 DEF BehindIsDue
<1>7. Local(s)'
  BY <1>1, <1>2, <1>4, <1>6, QuietParts DEF Local
<1> QED
  BY <1>1, <1>2, <1>4, <1>5, <1>7, LocalStep

LEMMA ListenKeeps ==
  ASSUME CatalogueInv, PinsResolve, NEW s \in Server, Listen(s)
  PROVE  Preserved
<1>1. CatalogueTypeOK /\ SoundRows(mem[s]) /\ Local(s)
  BY InvParts
<1>2. /\ listening' = [listening EXCEPT ![s] = TRUE] /\ db' = db /\ assigned' = assigned
      /\ txn' = txn /\ mem' = mem /\ held' = held /\ pins' = pins /\ reads' = reads
      /\ act' = act /\ reading' = reading /\ last' = last /\ doubt' = doubt
      /\ passed' = passed /\ heard' = [heard EXCEPT ![s] = Everything]
  BY DEF Listen, database, ghosts
<1>3. /\ listening' \in [Server -> BOOLEAN]
      /\ \A t \in Server \ {s} : listening'[t] = listening[t]
  BY <1>1, <1>2, Typed
<1>4. /\ heard' \in [Server -> SUBSET Everything] /\ heard'[s] = Everything
      /\ \A t \in Server \ {s} : heard'[t] = heard[t]
  BY <1>1, <1>2, Typed, OneUpdated
<1>5. CatalogueTypeOK'
  BY <1>1, <1>2, <1>3, <1>4, Typed, TypedNext
<1>6. \A t \in Server \ {s} : Steady(t) /\ heard'[t] = heard[t]
  BY <1>2, <1>3, <1>4 DEF Steady
<1>7. BehindIsDue(s)'
  <2>1. Kinds \subseteq heard'[s] /\ Agent \subseteq heard'[s]
    BY <1>4 DEF Everything
  <2>2. "configurations" \in Awaited(s)' /\ "deployments" \in Awaited(s)' /\ "packages" \in Awaited(s)'
    BY <2>1 DEF Awaited, Kinds
  <2>3. \A a \in Agent : AgentDue(s, a)'
    BY <2>1 DEF AgentDue
  <2>4. Held(s)' \subseteq Agent
    BY DEF Held
  <2>5. reading[s].pc = "again" => reads[s]["follow"].agents \subseteq Agent
    BY <1>1, Typed, ReadFields DEF Local, Coupled, Readers
  <2> QED
    BY <1>2, <2>1, <2>2, <2>3, <2>4, <2>5 DEF BehindIsDue
<1>8. Local(s)'
  BY <1>1, <1>2, <1>5, <1>7, QuietParts DEF Local
<1> QED
  BY <1>1, <1>2, <1>5, <1>6, <1>8, LocalStep

LEMMA FollowStartKeeps ==
  ASSUME CatalogueInv, PinsResolve, NEW s \in Server, FollowStart(s)
  PROVE  Preserved
<1>1. CatalogueTypeOK /\ SoundRows(mem[s]) /\ Local(s)
  BY InvParts
<1> DEFINE v == [pc |-> "catalogue", due |-> heard[s], left |-> heard[s] \cap Kinds]
<1>2. /\ reading[s].pc = "none" /\ db' = db /\ assigned' = assigned
      /\ txn' = txn /\ mem' = mem /\ held' = held /\ pins' = pins /\ reads' = reads
      /\ act' = act /\ last' = last /\ listening' = listening
      /\ passed' = passed /\ heard' = [heard EXCEPT ![s] = {}]
      /\ reading' = [reading EXCEPT ![s] = v]
      /\ doubt' = IF heard[s] = Everything THEN doubt \ {s} ELSE doubt
  BY DEF FollowStart, database
<1>3. heard[s] \subseteq Everything
  BY <1>1, Typed
<1>4. v \in Reading /\ v.pc = "catalogue" /\ v.due = heard[s] /\ v.left = heard[s] \cap Kinds
  BY <1>3 DEF Reading
<1> HIDE DEF v
<1>5. /\ reading' \in [Server -> Reading \cup {Quiet}] /\ reading'[s] = v
      /\ \A t \in Server \ {s} : reading'[t] = reading[t]
  BY <1>1, <1>2, <1>4, Typed, OneUpdated
<1>6. /\ heard' \in [Server -> SUBSET Everything] /\ heard'[s] = {}
      /\ \A t \in Server \ {s} : heard'[t] = heard[t]
  BY <1>1, <1>2, Typed, OneUpdated
<1>7. CatalogueTypeOK'
  BY <1>1, <1>2, <1>5, <1>6, Typed, TypedNext
<1>8. \A t \in Server \ {s} : Steady(t) /\ heard'[t] = heard[t]
  BY <1>2, <1>5, <1>6 DEF Steady
<1>9. Coupled(s)'
  BY <1>1, <1>2, <1>4, <1>5 DEF Local, Coupled
<1>10. BehindIsDue(s)'
  <2> SUFFICES ASSUME listening[s], s \notin doubt' PROVE BehindIsDue(s)'
    BY <1>2 DEF BehindIsDue
  <2>1. reads[s]["follow"].pc = "none" /\ Held(s)' = Held(s) /\ Held(s) \subseteq Agent
    BY <1>1, <1>2 DEF Local, Coupled, Held, Forgotten, Blank
  <2>2. Awaited(s) = heard[s] /\ Awaited(s)' = heard[s] \cap Kinds
    BY <1>2, <1>4, <1>5, <1>6 DEF Awaited
  <2>3. CASE heard[s] = Everything
    <3>1. \A a \in Agent : AgentDue(s, a)'
      BY <1>4, <1>5, <2>3 DEF AgentDue, Everything
    <3>2. Awaited(s)' = Kinds
      BY <2>2, <2>3 DEF Everything
    <3> QED
      BY <1>4, <1>5, <2>1, <3>1, <3>2 DEF BehindIsDue, Kinds
  <2>4. CASE heard[s] # Everything
    <3>1. BehindIsDue(s) /\ s \notin doubt
      BY <1>1, <1>2, <2>4 DEF Local
    <3>2. \A k \in Kinds : k \notin Awaited(s)' => k \notin Awaited(s)
      BY <2>2
    <3>3. \A a \in Agent : AgentDue(s, a) => AgentDue(s, a)'
      BY <1>2, <1>4, <1>5, <2>1 DEF AgentDue
    <3> QED
      BY <1>2, <1>4, <1>5, <2>1, <3>1, <3>2, <3>3 DEF BehindIsDue, Kinds
  <2> QED
    BY <2>3, <2>4
<1>11. Local(s)'
  BY <1>1, <1>2, <1>7, <1>9, <1>10, QuietParts DEF Local
<1> QED
  BY <1>1, <1>2, <1>7, <1>8, <1>11, LocalStep

(* Memory, with the parts of it that were read again.                      *)
LEMMA ReloadRows ==
  ASSUME CatalogueTypeOK, SoundRows(db), NEW s \in Server, SoundRows(mem[s]), NEW kind \in Kinds,
         \/ /\ kind = "configurations"
            /\ mem' = [mem EXCEPT ![s].saved = db.saved, ![s].retained = db.retained]
         \/ kind = "deployments" /\ mem' = [mem EXCEPT ![s].deployments = db.deployments]
         \/ kind = "packages" /\ mem' = [mem EXCEPT ![s].packages = db.packages]
  PROVE  /\ mem' \in [Server -> Rows] /\ \A t \in Server \ {s} : mem'[t] = mem[t]
         /\ SoundRows(mem'[s])
         /\ IF kind = "configurations" THEN mem'[s].saved = db.saved /\ mem'[s].retained = db.retained
            ELSE mem'[s].saved = mem[s].saved /\ mem'[s].retained = mem[s].retained
         /\ mem'[s].deployments = IF kind = "deployments" THEN db.deployments ELSE mem[s].deployments
         /\ mem'[s].packages = IF kind = "packages" THEN db.packages ELSE mem[s].packages
<1>1. db \in Rows /\ mem \in [Server -> Rows] /\ mem[s] \in Rows
  BY Typed
<1> DEFINE m == mem[s]
<1>2. /\ db.saved \in [Configuration -> Revision \cup {0}]
      /\ db.retained \in [Configuration -> SUBSET Revision]
      /\ db.deployments \in [Deployment -> Member] /\ db.packages \in [Package -> Artifact]
      /\ m.saved \in [Configuration -> Revision \cup {0}]
      /\ m.retained \in [Configuration -> SUBSET Revision]
      /\ m.deployments \in [Deployment -> Member] /\ m.packages \in [Package -> Artifact]
      /\ m = [saved |-> m.saved, retained |-> m.retained, deployments |-> m.deployments,
              packages |-> m.packages]
  BY <1>1, RowsFields
<1>3. CASE kind = "configurations"
  <2> DEFINE v == [saved |-> db.saved, retained |-> db.retained, deployments |-> m.deployments,
                   packages |-> m.packages]
  <2>1. mem' = [mem EXCEPT ![s] = v]
    BY <1>1, <1>2, <1>3
  <2>2. v \in Rows
    BY <1>2, RowsMade
  <2>3. SoundRows(v)
    BY DEF SoundRows
  <2>4. /\ v.saved = db.saved /\ v.retained = db.retained /\ v.deployments = m.deployments
        /\ v.packages = m.packages
    OBVIOUS
  <2> HIDE DEF v
  <2> QED
    BY <1>1, <1>3, <2>1, <2>2, <2>3, <2>4, OneUpdated
<1>4. CASE kind = "deployments"
  <2> DEFINE v == [saved |-> m.saved, retained |-> m.retained, deployments |-> db.deployments,
                   packages |-> m.packages]
  <2>1. mem' = [mem EXCEPT ![s] = v]
    BY <1>1, <1>2, <1>4
  <2>2. v \in Rows
    BY <1>2, RowsMade
  <2>3. SoundRows(v)
    BY DEF SoundRows
  <2>4. /\ v.saved = m.saved /\ v.retained = m.retained /\ v.deployments = db.deployments
        /\ v.packages = m.packages
    OBVIOUS
  <2> HIDE DEF v
  <2> QED
    BY <1>1, <1>4, <2>1, <2>2, <2>3, <2>4, OneUpdated
<1>5. CASE kind = "packages"
  <2> DEFINE v == [saved |-> m.saved, retained |-> m.retained, deployments |-> m.deployments,
                   packages |-> db.packages]
  <2>1. mem' = [mem EXCEPT ![s] = v]
    BY <1>1, <1>2, <1>5
  <2>2. v \in Rows
    BY <1>2, RowsMade
  <2>3. SoundRows(v)
    BY DEF SoundRows
  <2>4. /\ v.saved = m.saved /\ v.retained = m.retained /\ v.deployments = m.deployments
        /\ v.packages = db.packages
    OBVIOUS
  <2> HIDE DEF v
  <2> QED
    BY <1>1, <1>5, <2>1, <2>2, <2>3, <2>4, OneUpdated
<1> QED
  BY <1>3, <1>4, <1>5 DEF Kinds

LEMMA ReloadKeeps ==
  ASSUME CatalogueInv, PinsResolve, NEW s \in Server, NEW kind \in Kinds, Reload(s, kind)
  PROVE  Preserved
<1>1. CatalogueTypeOK /\ SoundRows(db) /\ SoundRows(mem[s]) /\ Local(s)
  BY InvParts
<1>2. /\ reading[s].pc = "catalogue" /\ db' = db /\ assigned' = assigned
      /\ txn' = txn /\ held' = held /\ pins' = pins /\ reads' = reads
      /\ act' = act /\ last' = last /\ listening' = listening /\ heard' = heard
      /\ passed' = passed /\ doubt' = doubt
      /\ reading' = [reading EXCEPT ![s].left = @ \ {kind}]
  BY DEF Reload, database, ears, ghosts
<1>3. \/ /\ kind = "configurations"
         /\ mem' = [mem EXCEPT ![s].saved = db.saved, ![s].retained = db.retained]
      \/ kind = "deployments" /\ mem' = [mem EXCEPT ![s].deployments = db.deployments]
      \/ kind = "packages" /\ mem' = [mem EXCEPT ![s].packages = db.packages]
  BY DEF Reload
<1>4. /\ mem' \in [Server -> Rows] /\ \A t \in Server \ {s} : mem'[t] = mem[t]
      /\ SoundRows(mem'[s])
      /\ IF kind = "configurations" THEN mem'[s].saved = db.saved /\ mem'[s].retained = db.retained
         ELSE mem'[s].saved = mem[s].saved /\ mem'[s].retained = mem[s].retained
      /\ mem'[s].deployments = IF kind = "deployments" THEN db.deployments ELSE mem[s].deployments
      /\ mem'[s].packages = IF kind = "packages" THEN db.packages ELSE mem[s].packages
  BY <1>1, <1>3, ReloadRows
<1> DEFINE v == [reading[s] EXCEPT !.left = @ \ {kind}]
<1>5. reading[s] \in Reading /\ reading \in [Server -> Reading \cup {Quiet}]
  BY <1>1, <1>2, Typed, ReadingFields
<1>6. /\ v \in Reading /\ v.pc = "catalogue" /\ v.due = reading[s].due
      /\ v.left = reading[s].left \ {kind}
  BY <1>2, <1>5 DEF Reading
<1>7. reading' = [reading EXCEPT ![s] = v]
  BY <1>2, <1>5
<1> HIDE DEF v
<1>8. /\ reading' \in [Server -> Reading \cup {Quiet}] /\ reading'[s] = v
      /\ \A t \in Server \ {s} : reading'[t] = reading[t]
  BY <1>5, <1>6, <1>7, OneUpdated
<1>9. CatalogueTypeOK'
  BY <1>1, <1>2, <1>4, <1>8, Typed, TypedNext
<1>10. \A t \in Server \ {s} : Steady(t) /\ heard'[t] = heard[t]
  BY <1>2, <1>4, <1>8 DEF Steady
<1>11. Coupled(s)'
  BY <1>1, <1>2, <1>6, <1>8 DEF Local, Coupled
<1>12. BehindIsDue(s)'
  <2> SUFFICES ASSUME listening[s], s \notin doubt PROVE BehindIsDue(s)'
    BY <1>2 DEF BehindIsDue
  <2>1. Held(s)' = Held(s) /\ Held(s) \subseteq Agent
    BY <1>2 DEF Held, Forgotten, Blank
  <2>2. \A k : k \notin Awaited(s)' => k \notin Awaited(s) \/ k = kind
    BY <1>2, <1>6, <1>8 DEF Awaited
  <2>3. \A a \in Agent : Fresh(s, a)' <=> Fresh(s, a)
    BY <1>2 DEF Fresh, Forgotten, Blank
  <2>4. \A a \in Agent : AgentDue(s, a) => AgentDue(s, a)'
    BY <1>2, <1>6, <1>8, <2>3 DEF AgentDue
  <2>5. BehindIsDue(s)
    BY <1>1 DEF Local
  <2>6. /\ "configurations" \notin Awaited(s)' =>
             /\ mem'[s].saved = db.saved
             /\ \A c \in Configuration : db.retained[c] \subseteq mem'[s].retained[c]
        /\ "deployments" \notin Awaited(s)' => mem'[s].deployments = db.deployments
        /\ "packages" \notin Awaited(s)' => mem'[s].packages = db.packages
    BY <1>4, <2>2, <2>5 DEF BehindIsDue
  <2> QED
    BY <1>2, <1>6, <1>8, <2>1, <2>4, <2>5, <2>6 DEF BehindIsDue
<1>13. Local(s)'
  BY <1>1, <1>2, <1>9, <1>11, <1>12, QuietParts DEF Local
<1> QED
  BY <1>1, <1>2, <1>4, <1>9, <1>10, <1>13, LocalStep

-------------------------------------------------------------------------------
(* The reads of Agents' records                                            *)

LEMMA ReadUpdated ==
  ASSUME CatalogueTypeOK, NEW s \in Server, NEW r \in Readers, NEW v \in Read \cup {NoRead},
         reads' = [reads EXCEPT ![s][r] = v]
  PROVE  /\ reads' \in [Server -> [Readers -> Read \cup {NoRead}]] /\ reads'[s][r] = v
         /\ \A q \in Readers \ {r} : reads'[s][q] = reads[s][q]
         /\ \A t \in Server \ {s} : reads'[t] = reads[t]
  BY Typed

(* The records, as they are stored when they are read.                     *)
LEMMA BeginFacts ==
  ASSUME CatalogueTypeOK, NEW agents \in SUBSET Agent, NEW n \in Nat, NEW pc \in {"rows", "read"}
  PROVE  LET v == [pc |-> pc, began |-> n, agents |-> agents, found |-> [a \in agents |-> assigned[a]]]
         IN  /\ v \in Read /\ v.pc = pc /\ v.began = n /\ v.agents = agents
             /\ DOMAIN v.found = agents /\ \A a \in agents : v.found[a] = assigned[a]
<1> DEFINE f == [a \in agents |-> assigned[a]]
<1>1. f \in [agents -> Assignment]
  BY Typed, ReleasedFacts
<1>2. f \in Some(Assignment) /\ DOMAIN f = agents /\ \A a \in agents : f[a] = assigned[a]
  BY <1>1, SomeMade
<1> HIDE DEF f
<1>3. [pc |-> pc, began |-> n, agents |-> agents, found |-> f] \in Read
  BY <1>2 DEF Read
<1> QED
  BY <1>2, <1>3 DEF f

(* A read begins: it has what is stored.                                   *)
LEMMA BegunKnowsCommits ==
  ASSUME CatalogueTypeOK, NEW s \in Server, ReadsKnowCommits(s), NEW r \in Readers,
         assigned' = assigned, last' = last, pins' = pins,
         \A q \in Readers \ {r} : reads'[s][q] = reads[s][q],
         reads'[s][r].began = pins[s].commits,
         \A a \in reads'[s][r].agents : reads'[s][r].found[a] = assigned[a]
  PROVE  ReadsKnowCommits(s)'
<1>1. pins[s].commits \in Nat
  BY Typed, PinsFields
<1> SUFFICES ASSUME NEW q \in Readers, reads'[s][q].pc \in {"rows", "read"}
             PROVE  /\ reads'[s][q].began <= pins[s].commits
                    /\ \A a \in reads'[s][q].agents : last[a] = s =>
                          \/ pins[s].committed[a] > reads'[s][q].began
                          \/ reads'[s][q].found[a] = assigned[a]
  BY DEF ReadsKnowCommits
<1>2. CASE q = r
  BY <1>1, <1>2
<1>3. CASE q # r
  BY <1>3 DEF ReadsKnowCommits
<1> QED
  BY <1>2, <1>3

(* A read ends: what it found is taken, but for what was committed since.  *)
LEMMA EndedFacts ==
  ASSUME CatalogueTypeOK, NEW s \in Server, NEW r \in Readers, ReadsKnowCommits(s)
  PROVE  LET e == Ended(pins[s].committed, InFlight(s, r))
         IN  /\ e \in [Agent -> Nat]
             /\ \A q \in Readers \ {r} : reads[s][q].pc \in {"rows", "read"} =>
                  \A a \in Agent : pins[s].committed[a] > reads[s][q].began => e[a] = pins[s].committed[a]
<1> DEFINE m == pins[s].committed
           e == Ended(m, InFlight(s, r))
<1>1. m \in [Agent -> Nat]
  BY Typed, PinsFields
<1>2. e \in [Agent -> Nat]
  BY <1>1 DEF Ended
<1>3. ASSUME NEW q \in Readers \ {r}, reads[s][q].pc \in {"rows", "read"}, NEW a \in Agent,
             m[a] > reads[s][q].began
      PROVE  e[a] = m[a]
  <2>1. reads[s][q].began \in InFlight(s, r)
    BY <1>3 DEF InFlight
  <2> QED
    BY <1>3, <2>1 DEF Ended
<1> QED
  BY <1>2, <1>3

(* The one read over, the others know what they knew.                      *)
LEMMA EndedKnowsCommits ==
  ASSUME CatalogueTypeOK, NEW s \in Server, NEW r \in Readers, ReadsKnowCommits(s),
         assigned' = assigned, last' = last,
         pins'[s].committed = Ended(pins[s].committed, InFlight(s, r)),
         pins'[s].commits = pins[s].commits,
         \A q \in Readers \ {r} : reads'[s][q] = reads[s][q],
         reads'[s][r].pc \notin {"rows", "read"}
  PROVE  ReadsKnowCommits(s)'
<1> DEFINE e == Ended(pins[s].committed, InFlight(s, r))
<1>1. \A q \in Readers \ {r} : reads[s][q].pc \in {"rows", "read"} =>
        \A a \in Agent : pins[s].committed[a] > reads[s][q].began => e[a] = pins[s].committed[a]
  BY EndedFacts
<1>2. pins'[s].committed = e
  OBVIOUS
<1> HIDE DEF e
<1> SUFFICES ASSUME NEW q \in Readers, reads'[s][q].pc \in {"rows", "read"}
             PROVE  /\ reads'[s][q].began <= pins'[s].commits
                    /\ \A a \in reads'[s][q].agents : last[a] = s =>
                          \/ e[a] > reads'[s][q].began
                          \/ reads'[s][q].found[a] = assigned[a]
  BY <1>2 DEF ReadsKnowCommits
<1>3. q # r /\ reads'[s][q] = reads[s][q] /\ reads[s][q].pc \in {"rows", "read"}
  OBVIOUS
<1>4. reads[s][q].agents \subseteq Agent
  BY <1>3, Typed, ReadFields, SMTT(60)
<1> QED
  BY <1>1, <1>3, <1>4 DEF ReadsKnowCommits

LEMMA RefreshKeeps ==
  ASSUME CatalogueTypeOK, NEW s \in Server, NEW r \in Readers, ReadsKnowCommits(s), OwnPins(s),
         DOMAIN reads[s][r].found = reads[s][r].agents,
         assigned' = assigned, last' = last, pins' = [pins EXCEPT ![s] = Refresh(s, r)],
         reads[s][r].pc \in {"rows", "read"},
         \A q \in Readers \ {r} : reads'[s][q] = reads[s][q],
         reads'[s][r].pc \notin {"rows", "read"}
  PROVE  /\ pins' \in [Server -> Pins] /\ \A t \in Server \ {s} : pins'[t] = pins[t]
         /\ ReadsKnowCommits(s)' /\ OwnPins(s)'
<1> DEFINE v == Refresh(s, r)
           read == reads[s][r]
           e == Ended(pins[s].committed, InFlight(s, r))
<1>1. /\ pins[s] \in Pins /\ pins[s].assignments \in [Agent -> Assignment \ {Forgotten}]
      /\ pins[s].commits \in Nat /\ pins[s].committed \in [Agent -> Nat]
  BY Typed, PinsFields
<1>2. read.agents \subseteq Agent /\ read.found \in Some(Assignment) /\ read.began \in Nat
  <2>1. read \in Read \cup {NoRead} /\ read.pc # "none"
    BY Typed
  <2> QED
    BY <2>1, ReadFields
<1>3. \A a \in read.agents : read.found[a] \in Assignment
  BY <1>2, SomeFacts
<1>4. Taken(s, r) \in [Agent -> Assignment \ {Forgotten}]
  <2> SUFFICES ASSUME NEW a \in Agent
               PROVE  (IF a \in read.agents /\ pins[s].committed[a] <= read.began
                       THEN (IF read.found[a] = Forgotten THEN Unassigned ELSE read.found[a])
                       ELSE pins[s].assignments[a]) \in Assignment \ {Forgotten}
    BY DEF Taken
  <2> QED
    BY <1>1, <1>3, BlankFacts
<1>5. e \in [Agent -> Nat]
  BY EndedFacts
<1>6. v = [pins[s] EXCEPT !.assignments = Taken(s, r), !.committed = e]
  BY DEF Refresh
<1> HIDE DEF e, v
<1>7. v = [assignments |-> Taken(s, r), commits |-> pins[s].commits, committed |-> e]
  BY <1>1, <1>6 DEF Pins
<1>8. v \in Pins /\ v.assignments = Taken(s, r) /\ v.commits = pins[s].commits /\ v.committed = e
  BY <1>1, <1>4, <1>5, <1>7 DEF Pins
<1>9. pins' = [pins EXCEPT ![s] = v] /\ pins \in [Server -> Pins]
  BY Typed DEF v
<1>10. /\ pins' \in [Server -> Pins] /\ pins'[s] = v /\ \A t \in Server \ {s} : pins'[t] = pins[t]
  BY <1>8, <1>9, OneUpdated
<1>11. ReadsKnowCommits(s)'
  BY <1>8, <1>10, EndedKnowsCommits DEF e
<1>12. OwnPins(s)'
  <2> SUFFICES ASSUME NEW a \in Agent, last[a] = s
               PROVE  pins'[s].assignments[a] = (IF Stored(a) THEN assigned[a] ELSE Unassigned)
    BY DEF OwnPins, Stored, Unassigned, Forgotten, Blank
  <2>1. pins'[s].assignments[a] =
          (IF a \in read.agents /\ pins[s].committed[a] <= read.began
           THEN (IF read.found[a] = Forgotten THEN Unassigned ELSE read.found[a])
           ELSE pins[s].assignments[a])
    BY <1>8, <1>10 DEF Taken
  <2>2. CASE a \in read.agents /\ pins[s].committed[a] <= read.began
    <3>1. read.found[a] = assigned[a]
      <4>1. pins[s].committed[a] \in Nat
        BY <1>1
      <4> QED
        BY <1>2, <2>2, <4>1 DEF ReadsKnowCommits
    <3> QED
      BY <2>1, <2>2, <3>1 DEF Stored
  <2>3. CASE ~(a \in read.agents /\ pins[s].committed[a] <= read.began)
    BY <2>1, <2>3 DEF OwnPins
  <2> QED
    BY <2>2, <2>3
<1> QED
  BY <1>10, <1>11, <1>12

(* A read moves on: only its place changes.                                *)
LEMMA MovedFacts ==
  ASSUME CatalogueTypeOK, NEW s \in Server, NEW r \in Readers, reads[s][r].pc # "none",
         reads' = [reads EXCEPT ![s][r].pc = "taken"]
  PROVE  /\ reads' \in [Server -> [Readers -> Read \cup {NoRead}]]
         /\ reads'[s][r] \in Read /\ reads'[s][r].pc = "taken"
         /\ reads'[s][r].agents = reads[s][r].agents /\ reads'[s][r].found = reads[s][r].found
         /\ \A q \in Readers \ {r} : reads'[s][q] = reads[s][q]
         /\ \A t \in Server \ {s} : reads'[t] = reads[t]
<1> DEFINE v == [reads[s][r] EXCEPT !.pc = "taken"]
<1>1. reads[s][r] \in Read /\ reads \in [Server -> [Readers -> Read \cup {NoRead}]]
  BY Typed, ReadFields
<1>2. /\ v \in Read /\ v.pc = "taken" /\ v.agents = reads[s][r].agents
      /\ v.found = reads[s][r].found
  BY <1>1 DEF Read
<1>3. reads' = [reads EXCEPT ![s][r] = v]
  BY <1>1
<1> HIDE DEF v
<1>4. /\ reads' \in [Server -> [Readers -> Read \cup {NoRead}]] /\ reads'[s][r] = v
      /\ \A q \in Readers \ {r} : reads'[s][q] = reads[s][q]
      /\ \A t \in Server \ {s} : reads'[t] = reads[t]
  BY <1>2, <1>3, ReadUpdated
<1> QED
  BY <1>2, <1>4

(* A read that is not the take-up's moves.                                 *)
LEMMA CoupledReads ==
  ASSUME NEW s \in Server, Coupled(s), act'[s] = act[s], txn'[s] = txn[s],
         reading'[s] = reading[s], reads'[s]["follow"] = reads[s]["follow"],
         \A r \in Readers : reads'[s][r].pc # "none" =>
            DOMAIN reads'[s][r].found = reads'[s][r].agents
  PROVE  Coupled(s)'
  BY DEF Coupled

LEMMA LoadBeginKeeps ==
  ASSUME CatalogueInv, PinsResolve, NEW s \in Server, NEW b \in Agent, LoadBegin(s, b)
  PROVE  Preserved
<1>1. CatalogueTypeOK /\ SoundRows(mem[s]) /\ Local(s)
  BY InvParts
<1> DEFINE v == [pc |-> "rows", began |-> pins[s].commits, agents |-> {b},
                 found |-> [a \in {b} |-> assigned[a]]]
<1>2. /\ db' = db /\ assigned' = assigned /\ txn' = txn /\ held' = held /\ pins' = pins
      /\ act' = act /\ last' = last /\ listening' = listening /\ heard' = heard
      /\ passed' = passed /\ doubt' = doubt /\ mem' = mem /\ reading' = reading
      /\ reads' = [reads EXCEPT ![s]["load"] = v]
  BY DEF LoadBegin, Begin, database, ears, ghosts
<1>3. pins[s].commits \in Nat
  BY <1>1, Typed, PinsFields
<1>4. /\ v \in Read /\ v.pc = "rows" /\ v.began = pins[s].commits /\ v.agents = {b}
      /\ DOMAIN v.found = {b} /\ \A a \in {b} : v.found[a] = assigned[a]
  BY <1>1, <1>3, BeginFacts
<1> HIDE DEF v
<1>5. "load" \in Readers /\ "follow" \in Readers \ {"load"}
  BY DEF Readers
<1>6. /\ reads' \in [Server -> [Readers -> Read \cup {NoRead}]] /\ reads'[s]["load"] = v
      /\ \A q \in Readers \ {"load"} : reads'[s][q] = reads[s][q]
      /\ \A t \in Server \ {s} : reads'[t] = reads[t]
  BY <1>1, <1>2, <1>4, <1>5, ReadUpdated
<1>7. CatalogueTypeOK'
  BY <1>1, <1>2, <1>6, Typed, TypedNext
<1>8. \A t \in Server \ {s} : Steady(t) /\ heard'[t] = heard[t]
  BY <1>2, <1>6 DEF Steady
<1>9. Coupled(s)'
  <2>1. ASSUME NEW r \in Readers, reads'[s][r].pc # "none"
        PROVE  DOMAIN reads'[s][r].found = reads'[s][r].agents
    <3>1. CASE r = "load"
      BY <1>4, <1>6, <3>1
    <3>2. CASE r # "load"
      BY <1>1, <1>6, <2>1, <3>2 DEF Local, Coupled
    <3> QED
      BY <3>1, <3>2
  <2> QED
    BY <1>1, <1>2, <1>5, <1>6, <2>1, CoupledReads DEF Local
<1>10. ReadsKnowCommits(s)'
  BY <1>1, <1>2, <1>4, <1>5, <1>6, BegunKnowsCommits DEF Local
<1>11. Local(s)'
  BY <1>1, <1>2, <1>5, <1>6, <1>7, <1>9, <1>10, QuietParts DEF Local
<1> QED
  BY <1>1, <1>2, <1>7, <1>8, <1>11, LocalStep

LEMMA LoadRefreshKeeps ==
  ASSUME CatalogueInv, PinsResolve, NEW s \in Server, LoadRefresh(s)
  PROVE  Preserved
<1>1. CatalogueTypeOK /\ SoundRows(mem[s]) /\ Local(s)
  BY InvParts
<1>2. /\ db' = db /\ assigned' = assigned /\ txn' = txn /\ held' = held
      /\ act' = act /\ last' = last /\ listening' = listening /\ heard' = heard
      /\ passed' = passed /\ doubt' = doubt /\ mem' = mem /\ reading' = reading
      /\ reads[s]["load"].pc = "read" /\ pins' = [pins EXCEPT ![s] = Refresh(s, "load")]
      /\ reads' = [reads EXCEPT ![s]["load"].pc = "taken"]
  BY DEF LoadRefresh, database, ears, ghosts
<1>3. "load" \in Readers /\ "follow" \in Readers \ {"load"}
  BY DEF Readers
<1>4. /\ reads' \in [Server -> [Readers -> Read \cup {NoRead}]]
      /\ reads'[s]["load"] \in Read /\ reads'[s]["load"].pc = "taken"
      /\ reads'[s]["load"].agents = reads[s]["load"].agents
      /\ reads'[s]["load"].found = reads[s]["load"].found
      /\ \A q \in Readers \ {"load"} : reads'[s][q] = reads[s][q]
      /\ \A t \in Server \ {s} : reads'[t] = reads[t]
  BY <1>1, <1>2, <1>3, MovedFacts, ZenonT(60)
<1>5. \A r \in Readers : reads'[s][r].pc # "none" =>
          DOMAIN reads'[s][r].found = reads'[s][r].agents
  BY <1>1, <1>2, <1>4 DEF Local, Coupled
<1>6. /\ pins' \in [Server -> Pins] /\ \A t \in Server \ {s} : pins'[t] = pins[t]
      /\ ReadsKnowCommits(s)' /\ OwnPins(s)'
  <2>1. DOMAIN reads[s]["load"].found = reads[s]["load"].agents
    BY <1>1, <1>2, <1>3 DEF Local, Coupled
  <2> QED
    BY <1>1, <1>2, <1>3, <1>4, <2>1, RefreshKeeps DEF Local
<1>7. CatalogueTypeOK'
  BY <1>1, <1>2, <1>4, <1>6, Typed, TypedNext
<1>8. \A t \in Server \ {s} : Steady(t) /\ heard'[t] = heard[t]
  BY <1>2, <1>4, <1>6 DEF Steady
<1>9. Coupled(s)'
  BY <1>1, <1>2, <1>3, <1>4, <1>5, CoupledReads DEF Local
<1>10. Local(s)'
  BY <1>1, <1>2, <1>3, <1>4, <1>6, <1>7, <1>9, QuietParts DEF Local
<1> QED
  BY <1>1, <1>2, <1>7, <1>8, <1>10, LocalStep

LEMMA ReadChanged ==
  ASSUME NEW x \in Read, NEW g
  PROVE  [x EXCEPT !.pc = "read", !.found = g]
           = [pc |-> "read", began |-> x.began, agents |-> x.agents, found |-> g]
<1> DEFINE y == [x EXCEPT !.pc = "read"]
<1>1. y = [pc |-> "read", began |-> x.began, agents |-> x.agents, found |-> x.found]
  BY DEF Read
<1> HIDE DEF y
<1>2. [y EXCEPT !.found = g] = [pc |-> "read", began |-> x.began, agents |-> x.agents, found |-> g]
  BY <1>1
<1> QED
  BY <1>2 DEF y

(* The Configurations a record names are read again.                       *)
LEMMA ReadConfigurationsFacts ==
  ASSUME CatalogueTypeOK, NEW s \in Server, NEW r \in Readers, reads[s][r].pc = "rows",
         DOMAIN reads[s][r].found = reads[s][r].agents,
         reads' = [reads EXCEPT ![s][r].pc = "read",
            ![s][r].found = [a \in reads[s][r].agents |->
               IF @[a] = Forgotten THEN Forgotten
               ELSE [@[a] EXCEPT !.configurations = assigned[a].configurations]]]
  PROVE  /\ reads' \in [Server -> [Readers -> Read \cup {NoRead}]]
         /\ reads'[s][r].pc = "read" /\ reads'[s][r].began = reads[s][r].began
         /\ reads'[s][r].agents = reads[s][r].agents
         /\ DOMAIN reads'[s][r].found = reads[s][r].agents
         /\ \A a \in reads[s][r].agents : reads[s][r].found[a] \in {assigned[a], Forgotten} =>
               reads'[s][r].found[a] = reads[s][r].found[a]
         /\ \A q \in Readers \ {r} : reads'[s][q] = reads[s][q]
         /\ \A t \in Server \ {s} : reads'[t] = reads[t]
<1> DEFINE x == reads[s][r]
           g == [a \in x.agents |-> IF x.found[a] = Forgotten THEN Forgotten
                   ELSE [x.found[a] EXCEPT !.configurations = assigned[a].configurations]]
           v == [pc |-> "read", began |-> x.began, agents |-> x.agents, found |-> g]
<1>1. /\ x \in Read /\ x.began \in Nat /\ x.agents \subseteq Agent /\ x.found \in Some(Assignment)
      /\ reads \in [Server -> [Readers -> Read \cup {NoRead}]]
  <2>1. x \in Read \cup {NoRead} /\ x.pc # "none"
    BY Typed
  <2> QED
    BY <2>1, ReadFields, Typed
<1>2. \A a \in x.agents : x.found[a] \in Assignment
  BY <1>1, SomeFacts
<1>3. \A a \in x.agents : assigned[a] \in Assignment
  BY <1>1, Typed, ReleasedFacts
<1>4. ASSUME NEW a \in x.agents
      PROVE  /\ [x.found[a] EXCEPT !.configurations = assigned[a].configurations] \in Assignment
             /\ x.found[a] = assigned[a] =>
                  [x.found[a] EXCEPT !.configurations = assigned[a].configurations] = x.found[a]
  BY <1>2, <1>3, <1>4 DEF Assignment
<1>5. g \in [x.agents -> Assignment]
  BY <1>4, BlankFacts
<1>7. \A a \in x.agents : x.found[a] \in {assigned[a], Forgotten} => g[a] = x.found[a]
  BY <1>4
<1>12. reads' = [reads EXCEPT ![s][r] = [x EXCEPT !.pc = "read", !.found = g]]
  BY <1>1
<1> HIDE DEF g
<1>6. g \in Some(Assignment) /\ DOMAIN g = x.agents
  BY <1>1, <1>5, SomeMade
<1>8. reads' = [reads EXCEPT ![s][r] = v]
  <2>1. [x EXCEPT !.pc = "read", !.found = g] = v
    <3> HIDE DEF x
    <3> QED
      BY <1>1, ReadChanged
  <2> QED
    BY <1>12, <2>1
<1>9. v \in Read
  BY <1>1, <1>6 DEF Read
<1>10. /\ v.pc = "read" /\ v.began = x.began /\ v.agents = x.agents /\ v.found = g
  OBVIOUS
<1> HIDE DEF v
<1>11. /\ reads' \in [Server -> [Readers -> Read \cup {NoRead}]] /\ reads'[s][r] = v
       /\ \A q \in Readers \ {r} : reads'[s][q] = reads[s][q]
       /\ \A t \in Server \ {s} : reads'[t] = reads[t]
  BY <1>8, <1>9, ReadUpdated
<1> QED
  BY <1>6, <1>7, <1>10, <1>11

LEMMA ReadConfigurationsKeeps ==
  ASSUME CatalogueInv, PinsResolve, NEW s \in Server, NEW r \in {"follow", "load"},
         ReadConfigurations(s, r)
  PROVE  Preserved
<1>1. CatalogueTypeOK /\ SoundRows(mem[s]) /\ Local(s)
  BY InvParts
<1>2. /\ db' = db /\ assigned' = assigned /\ txn' = txn /\ held' = held /\ pins' = pins
      /\ act' = act /\ last' = last /\ listening' = listening /\ heard' = heard
      /\ passed' = passed /\ doubt' = doubt /\ mem' = mem /\ reading' = reading
      /\ reads[s][r].pc = "rows"
  BY DEF ReadConfigurations, database, ears, ghosts
<1>3. r \in Readers /\ "follow" \in Readers
  BY DEF Readers
<1>4. DOMAIN reads[s][r].found = reads[s][r].agents
  BY <1>1, <1>2, <1>3 DEF Local, Coupled
<1>5. /\ reads' \in [Server -> [Readers -> Read \cup {NoRead}]]
      /\ reads'[s][r].pc = "read" /\ reads'[s][r].began = reads[s][r].began
      /\ reads'[s][r].agents = reads[s][r].agents
      /\ DOMAIN reads'[s][r].found = reads[s][r].agents
      /\ \A a \in reads[s][r].agents : reads[s][r].found[a] \in {assigned[a], Forgotten} =>
            reads'[s][r].found[a] = reads[s][r].found[a]
      /\ \A q \in Readers \ {r} : reads'[s][q] = reads[s][q]
      /\ \A t \in Server \ {s} : reads'[t] = reads[t]
  BY <1>1, <1>2, <1>3, <1>4, ReadConfigurationsFacts DEF ReadConfigurations
<1>6. CatalogueTypeOK'
  BY <1>1, <1>2, <1>5, Typed, TypedNext
<1>7. \A t \in Server \ {s} : Steady(t) /\ heard'[t] = heard[t]
  BY <1>2, <1>5 DEF Steady
<1>8. Coupled(s)'
  <2>1. \A q \in Readers : reads'[s][q].pc # "none" =>
            DOMAIN reads'[s][q].found = reads'[s][q].agents
    BY <1>1, <1>4, <1>5 DEF Local, Coupled
  <2>2. CASE r = "load"
    BY <1>1, <1>2, <1>3, <1>5, <2>1, <2>2, CoupledReads DEF Local
  <2>3. CASE r = "follow"
    BY <1>1, <1>2, <1>3, <1>5, <2>1, <2>3 DEF Local, Coupled
  <2> QED
    BY <2>2, <2>3
<1>9. ReadsKnowCommits(s)'
  <2> SUFFICES ASSUME NEW q \in Readers, reads'[s][q].pc \in {"rows", "read"}
               PROVE  /\ reads'[s][q].began <= pins[s].commits
                      /\ \A a \in reads'[s][q].agents : last[a] = s =>
                            \/ pins[s].committed[a] > reads'[s][q].began
                            \/ reads'[s][q].found[a] = assigned[a]
    BY <1>2 DEF ReadsKnowCommits
  <2>1. CASE q # r
    BY <1>1, <1>5, <2>1 DEF Local, ReadsKnowCommits
  <2>2. CASE q = r
    BY <1>1, <1>2, <1>5, <2>2 DEF Local, ReadsKnowCommits
  <2> QED
    BY <2>1, <2>2
<1>10. BehindIsDue(s)'
  <2>1. CASE r = "load"
    BY <1>1, <1>2, <1>3, <1>5, <1>6, <2>1, QuietParts
  <2>2. CASE r = "follow"
    <3> SUFFICES ASSUME listening[s], s \notin doubt PROVE BehindIsDue(s)'
      BY <1>2 DEF BehindIsDue
    <3>1. Held(s)' = Held(s) /\ Forgotten' = Forgotten /\ Awaited(s)' = Awaited(s)
      BY <1>2 DEF Held, Forgotten, Blank, Awaited
    <3>2. \A a \in reads[s][r].agents : Fresh(s, a) => Fresh(s, a)'
      BY <1>2, <1>5, <2>2, <3>1 DEF Fresh
    <3>3. \A a : AgentDue(s, a) => AgentDue(s, a)'
      BY <1>2, <1>5, <2>2, <3>2 DEF AgentDue
    <3> QED
      BY <1>1, <1>2, <1>5, <2>2, <3>1, <3>2, <3>3 DEF BehindIsDue, Local
  <2> QED
    BY <2>1, <2>2
<1>11. Local(s)'
  BY <1>1, <1>2, <1>6, <1>8, <1>9, <1>10, QuietParts DEF Local
<1> QED
  BY <1>1, <1>2, <1>6, <1>7, <1>11, LocalStep


LEMMA NoReadFacts == NoRead \in Read \cup {NoRead} /\ NoRead.pc = "none"
  BY DEF NoRead

LEMMA QuietFacts == Quiet \in Reading \cup {Quiet} /\ Quiet.pc = "none"
  BY DEF Quiet

(* A read begun has every record as it is stored.                          *)
LEMMA BeganFacts ==
  ASSUME CatalogueTypeOK, NEW s \in Server, NEW r \in Readers, NEW agents \in SUBSET Agent,
         Begin(s, r, agents)
  PROVE  /\ reads' \in [Server -> [Readers -> Read \cup {NoRead}]] /\ reads'[s][r] \in Read
         /\ reads'[s][r].pc = "rows" /\ reads'[s][r].began = pins[s].commits
         /\ reads'[s][r].agents = agents /\ DOMAIN reads'[s][r].found = agents
         /\ \A a \in agents : reads'[s][r].found[a] = assigned[a]
         /\ \A q \in Readers \ {r} : reads'[s][q] = reads[s][q]
         /\ \A t \in Server \ {s} : reads'[t] = reads[t]
<1> DEFINE v == [pc |-> "rows", began |-> pins[s].commits, agents |-> agents,
                 found |-> [a \in agents |-> assigned[a]]]
<1>1. pins[s].commits \in Nat
  BY Typed, PinsFields
<1>2. /\ v \in Read /\ v.pc = "rows" /\ v.began = pins[s].commits /\ v.agents = agents
      /\ DOMAIN v.found = agents /\ \A a \in agents : v.found[a] = assigned[a]
  BY <1>1, BeginFacts
<1>3. reads' = [reads EXCEPT ![s][r] = v]
  BY DEF Begin
<1> HIDE DEF v
<1>4. /\ reads' \in [Server -> [Readers -> Read \cup {NoRead}]] /\ reads'[s][r] = v
      /\ \A q \in Readers \ {r} : reads'[s][q] = reads[s][q]
      /\ \A t \in Server \ {s} : reads'[t] = reads[t]
  BY <1>2, <1>3, ReadUpdated
<1> QED
  BY <1>2, <1>4

(* The take-up moves: its place is another, and what it has to read stays. *)
LEMMA ReadingMoved ==
  ASSUME CatalogueTypeOK, NEW s \in Server, reading[s].pc # "none",
         NEW pc \in {"catalogue", "agents", "compare", "again"},
         reading' = [reading EXCEPT ![s].pc = pc]
  PROVE  /\ reading' \in [Server -> Reading \cup {Quiet}] /\ reading'[s].pc = pc
         /\ reading'[s].due = reading[s].due /\ reading'[s].left = reading[s].left
         /\ \A t \in Server \ {s} : reading'[t] = reading[t]
<1> DEFINE v == [reading[s] EXCEPT !.pc = pc]
<1>1. reading[s] \in Reading /\ reading \in [Server -> Reading \cup {Quiet}]
  BY Typed, ReadingFields
<1>2. v \in Reading /\ v.pc = pc /\ v.due = reading[s].due /\ v.left = reading[s].left
  BY <1>1 DEF Reading
<1>3. reading' = [reading EXCEPT ![s] = v]
  BY <1>1
<1> HIDE DEF v
<1> QED
  BY <1>1, <1>2, <1>3, OneUpdated

(* The take-up ends.                                                       *)
LEMMA ReadingEnds ==
  ASSUME CatalogueTypeOK, NEW s \in Server, reading' = [reading EXCEPT ![s] = Quiet]
  PROVE  /\ reading' \in [Server -> Reading \cup {Quiet}] /\ reading'[s].pc = "none"
         /\ \A t \in Server \ {s} : reading'[t] = reading[t]
  BY Typed, QuietFacts, OneUpdated

LEMMA ReadEnds ==
  ASSUME CatalogueTypeOK, NEW s \in Server, NEW r \in Readers,
         reads' = [reads EXCEPT ![s][r] = NoRead]
  PROVE  /\ reads' \in [Server -> [Readers -> Read \cup {NoRead}]] /\ reads'[s][r].pc = "none"
         /\ \A q \in Readers \ {r} : reads'[s][q] = reads[s][q]
         /\ \A t \in Server \ {s} : reads'[t] = reads[t]
  BY NoReadFacts, ReadUpdated, ZenonT(60)

(* A take-up in another place, with the read it is to have there.          *)
LEMMA CoupledTakeUp ==
  ASSUME NEW s \in Server, Coupled(s), act'[s] = act[s], txn'[s] = txn[s],
         \A r \in Readers \ {"follow"} : reads'[s][r] = reads[s][r],
         \/ reading'[s].pc \in {"none", "catalogue"} /\ reads'[s]["follow"].pc = "none"
         \/ reading'[s].pc = "agents" /\ reads'[s]["follow"].pc = "rows"
         \/ reading'[s].pc = "compare" /\ reads'[s]["follow"].pc = "taken"
         \/ /\ reading'[s].pc = "again" /\ reads'[s]["follow"].pc = "rows"
            /\ act[s].pc \in {"idle", "reading", "packaging"},
         reading'[s].pc # "none" => reading'[s].left \subseteq reading'[s].due,
         reads'[s]["follow"].pc # "none" =>
            /\ reads'[s]["follow"].agents \subseteq reading'[s].due
            /\ DOMAIN reads'[s]["follow"].found = reads'[s]["follow"].agents
  PROVE  Coupled(s)'
<1>1. \A r \in Readers : reads'[s][r].pc # "none" =>
        DOMAIN reads'[s][r].found = reads'[s][r].agents
  <2> TAKE r \in Readers
  <2>1. CASE r = "follow"
    BY <2>1
  <2>2. CASE r # "follow"
    BY <2>2 DEF Coupled
  <2> QED
    BY <2>1, <2>2
<1> QED
  BY <1>1 DEF Coupled

LEMMA FollowReadKeeps ==
  ASSUME CatalogueInv, PinsResolve, NEW s \in Server, FollowRead(s)
  PROVE  Preserved
<1>1. CatalogueTypeOK /\ SoundRows(mem[s]) /\ Local(s)
  BY InvParts
<1> DEFINE agents == reading[s].due \cap Held(s)
<1>2. /\ db' = db /\ assigned' = assigned /\ txn' = txn /\ held' = held /\ pins' = pins
      /\ act' = act /\ last' = last /\ listening' = listening /\ heard' = heard
      /\ doubt' = doubt /\ mem' = mem
      /\ reading[s].pc = "catalogue" /\ reading[s].left = {}
      /\ passed' = [passed EXCEPT ![s] = @ \ agents]
      /\ IF agents = {} THEN reading' = [reading EXCEPT ![s] = Quiet] /\ reads' = reads
         ELSE reading' = [reading EXCEPT ![s].pc = "agents"] /\ Begin(s, "follow", agents)
  BY DEF FollowRead, database, ears
<1>3. /\ Held(s) \subseteq Agent /\ agents \subseteq Agent /\ Held(s)' = Held(s) /\ Forgotten' = Forgotten
      /\ agents \subseteq reading[s].due
  BY <1>2 DEF Held, Forgotten, Blank
<1>4. \A a \in Held(s) : a \in reading[s].due => a \in agents
  OBVIOUS
<1> HIDE DEF agents
<1>5. /\ passed' \in [Server -> SUBSET Agent] /\ passed'[s] = passed[s] \ agents
      /\ \A t \in Server \ {s} : passed'[t] = passed[t]
  BY <1>1, <1>2, Typed
<1>6. reads[s]["follow"].pc = "none" /\ "follow" \in Readers
  BY <1>1, <1>2 DEF Local, Coupled, Readers
<1>7. listening[s] /\ s \notin doubt =>
        \A a \in Held(s) \ passed[s] : held[s][a] = assigned[a] \/ a \in heard[s] \/ a \in agents
  BY <1>1, <1>2, <1>4, <1>6 DEF Local, BehindIsDue, AgentDue
<1>8. CASE agents = {}
  <2>1. reading' = [reading EXCEPT ![s] = Quiet] /\ reads' = reads
    BY <1>2, <1>8
  <2>2. /\ reading' \in [Server -> Reading \cup {Quiet}] /\ reading'[s].pc = "none"
        /\ \A t \in Server \ {s} : reading'[t] = reading[t]
    BY <1>1, <2>1, ReadingEnds
  <2>3. CatalogueTypeOK'
    BY <1>1, <1>2, <1>5, <2>1, <2>2, Typed, TypedNext
  <2>4. \A t \in Server \ {s} : Steady(t) /\ heard'[t] = heard[t]
    BY <1>2, <1>5, <2>1, <2>2 DEF Steady
  <2>5. Coupled(s)'
    BY <1>1, <1>2, <1>6, <2>1, <2>2, CoupledTakeUp DEF Local
  <2>6. BehindIsDue(s)'
    <3> SUFFICES ASSUME listening[s], s \notin doubt PROVE BehindIsDue(s)'
      BY <1>2 DEF BehindIsDue
    <3>1. Awaited(s)' = Awaited(s)
      BY <1>2, <2>2 DEF Awaited
    <3>2. \A a \in Held(s) \ passed'[s] : held[s][a] = assigned[a] \/ AgentDue(s, a)'
      BY <1>2, <1>5, <1>7, <1>8 DEF AgentDue
    <3> QED
      BY <1>1, <1>2, <1>3, <2>2, <3>1, <3>2 DEF BehindIsDue, Local
  <2>7. Local(s)'
    BY <1>1, <1>2, <2>1, <2>3, <2>5, <2>6, QuietParts DEF Local
  <2> QED
    BY <1>1, <1>2, <2>3, <2>4, <2>7, LocalStep
<1>9. CASE agents # {}
  <2>1. reading' = [reading EXCEPT ![s].pc = "agents"] /\ Begin(s, "follow", agents)
    BY <1>2, <1>9
  <2>2. /\ reading' \in [Server -> Reading \cup {Quiet}] /\ reading'[s].pc = "agents"
        /\ reading'[s].due = reading[s].due /\ reading'[s].left = reading[s].left
        /\ \A t \in Server \ {s} : reading'[t] = reading[t]
    BY <1>1, <1>2, <2>1, ReadingMoved
  <2>3. /\ reads' \in [Server -> [Readers -> Read \cup {NoRead}]] /\ reads'[s]["follow"] \in Read
        /\ reads'[s]["follow"].pc = "rows" /\ reads'[s]["follow"].began = pins[s].commits
        /\ reads'[s]["follow"].agents = agents /\ DOMAIN reads'[s]["follow"].found = agents
        /\ \A a \in agents : reads'[s]["follow"].found[a] = assigned[a]
        /\ \A q \in Readers \ {"follow"} : reads'[s][q] = reads[s][q]
        /\ \A t \in Server \ {s} : reads'[t] = reads[t]
    BY <1>1, <1>3, <1>6, <2>1, BeganFacts
  <2>4. CatalogueTypeOK'
    BY <1>1, <1>2, <1>5, <2>2, <2>3, Typed, TypedNext
  <2>5. \A t \in Server \ {s} : Steady(t) /\ heard'[t] = heard[t]
    BY <1>2, <1>5, <2>2, <2>3 DEF Steady
  <2>6. Coupled(s)'
    BY <1>1, <1>2, <1>3, <2>2, <2>3, CoupledTakeUp DEF Local
  <2>7. ReadsKnowCommits(s)'
    BY <1>1, <1>2, <1>6, <2>3, BegunKnowsCommits DEF Local
  <2>8. BehindIsDue(s)'
    <3> SUFFICES ASSUME listening[s], s \notin doubt PROVE BehindIsDue(s)'
      BY <1>2 DEF BehindIsDue
    <3>1. Awaited(s)' = Awaited(s)
      BY <1>2, <2>2 DEF Awaited
    <3>2. \A a \in agents : AgentDue(s, a)'
      BY <1>2, <2>3 DEF AgentDue, Fresh
    <3>3. \A a \in Held(s) \ passed'[s] : held[s][a] = assigned[a] \/ AgentDue(s, a)'
      BY <1>2, <1>5, <1>7, <3>2 DEF AgentDue
    <3> QED
      BY <1>1, <1>2, <1>3, <2>2, <3>1, <3>3 DEF BehindIsDue, Local
  <2>9. Local(s)'
    BY <1>1, <1>2, <2>4, <2>6, <2>7, <2>8, QuietParts DEF Local
  <2> QED
    BY <1>1, <1>2, <2>4, <2>5, <2>9, LocalStep
<1> QED
  BY <1>8, <1>9


LEMMA FollowRefreshKeeps ==
  ASSUME CatalogueInv, PinsResolve, NEW s \in Server, FollowRefresh(s)
  PROVE  Preserved
<1>1. CatalogueTypeOK /\ SoundRows(mem[s]) /\ Local(s)
  BY InvParts
<1>2. /\ db' = db /\ assigned' = assigned /\ txn' = txn /\ held' = held
      /\ act' = act /\ last' = last /\ listening' = listening /\ heard' = heard
      /\ passed' = passed /\ doubt' = doubt /\ mem' = mem
      /\ reading[s].pc = "agents" /\ reads[s]["follow"].pc = "read"
      /\ pins' = [pins EXCEPT ![s] = Refresh(s, "follow")]
      /\ reads' = [reads EXCEPT ![s]["follow"].pc = "taken"]
      /\ reading' = [reading EXCEPT ![s].pc = "compare"]
  BY DEF FollowRefresh, database, ears, ghosts
<1>3. "follow" \in Readers
  BY DEF Readers
<1>4. /\ reads' \in [Server -> [Readers -> Read \cup {NoRead}]]
      /\ reads'[s]["follow"] \in Read /\ reads'[s]["follow"].pc = "taken"
      /\ reads'[s]["follow"].agents = reads[s]["follow"].agents
      /\ reads'[s]["follow"].found = reads[s]["follow"].found
      /\ \A q \in Readers \ {"follow"} : reads'[s][q] = reads[s][q]
      /\ \A t \in Server \ {s} : reads'[t] = reads[t]
  <2>1. reads[s]["follow"].pc # "none" /\ reads' = [reads EXCEPT ![s]["follow"].pc = "taken"]
    BY <1>2
  <2>2. PICK r \in Readers : r = "follow"
    BY <1>3
  <2>3. reads[s][r].pc # "none" /\ reads' = [reads EXCEPT ![s][r].pc = "taken"]
    BY <2>1, <2>2
  <2>4. /\ reads' \in [Server -> [Readers -> Read \cup {NoRead}]]
        /\ reads'[s][r] \in Read /\ reads'[s][r].pc = "taken"
        /\ reads'[s][r].agents = reads[s][r].agents /\ reads'[s][r].found = reads[s][r].found
        /\ \A q \in Readers \ {r} : reads'[s][q] = reads[s][q]
        /\ \A t \in Server \ {s} : reads'[t] = reads[t]
    BY <1>1, <2>3, MovedFacts
  <2> QED
    BY <2>2, <2>4
<1>5. /\ reading' \in [Server -> Reading \cup {Quiet}] /\ reading'[s].pc = "compare"
      /\ reading'[s].due = reading[s].due /\ reading'[s].left = reading[s].left
      /\ \A t \in Server \ {s} : reading'[t] = reading[t]
  BY <1>1, <1>2, ReadingMoved
<1>6. /\ DOMAIN reads[s]["follow"].found = reads[s]["follow"].agents
      /\ reads[s]["follow"].agents \subseteq reading[s].due /\ reading[s].left \subseteq reading[s].due
  BY <1>1, <1>2, <1>3 DEF Local, Coupled
<1>7. /\ pins' \in [Server -> Pins] /\ \A t \in Server \ {s} : pins'[t] = pins[t]
      /\ ReadsKnowCommits(s)' /\ OwnPins(s)'
  BY <1>1, <1>2, <1>3, <1>4, <1>6, RefreshKeeps DEF Local
<1>8. CatalogueTypeOK'
  BY <1>1, <1>2, <1>4, <1>5, <1>7, Typed, TypedNext
<1>9. \A t \in Server \ {s} : Steady(t) /\ heard'[t] = heard[t]
  BY <1>2, <1>4, <1>5, <1>7 DEF Steady
<1>10. Coupled(s)'
  BY <1>1, <1>2, <1>4, <1>5, <1>6, CoupledTakeUp DEF Local
<1>11. BehindIsDue(s)'
  <2>1. Held(s)' = Held(s) /\ Awaited(s)' = Awaited(s)
    BY <1>2, <1>5 DEF Held, Forgotten, Blank, Awaited
  <2>2. \A a : AgentDue(s, a) => AgentDue(s, a)'
    BY <1>2, <1>4, <1>5 DEF AgentDue, Fresh, Forgotten, Blank
  <2> QED
    BY <1>1, <1>2, <1>5, <2>1, <2>2 DEF BehindIsDue, Local
<1>12. Local(s)'
  BY <1>1, <1>2, <1>7, <1>8, <1>10, <1>11, QuietParts DEF Local
<1> QED
  BY <1>1, <1>2, <1>8, <1>9, <1>12, LocalStep

(* What does not differ from what was read is not behind it.               *)
LEMMA AlikeIsCurrent ==
  ASSUME CatalogueTypeOK, NEW s \in Server, BehindIsDue(s), Coupled(s), listening[s], s \notin doubt,
         reading[s].pc = "compare", NEW a \in Held(s) \ passed[s], a \notin Differing(s)
  PROVE  held[s][a] = assigned[a] \/ a \in heard[s]
<1>1. held[s][a] = assigned[a] \/ AgentDue(s, a)
  BY DEF BehindIsDue
<1>2. held[s][a] # Forgotten
  BY DEF Held
<1>3. a \in reads[s]["follow"].agents => reads[s]["follow"].found[a] = held[s][a]
  BY DEF Differing
<1> QED
  BY <1>1, <1>2, <1>3 DEF AgentDue, Fresh

LEMMA FollowCompareKeeps ==
  ASSUME CatalogueInv, PinsResolve, NEW s \in Server, FollowCompare(s)
  PROVE  Preserved
<1>1. CatalogueTypeOK /\ SoundRows(mem[s]) /\ Local(s)
  BY InvParts
<1>2. /\ db' = db /\ assigned' = assigned /\ txn' = txn /\ held' = held /\ pins' = pins
      /\ act' = act /\ last' = last /\ listening' = listening /\ heard' = heard
      /\ passed' = passed /\ doubt' = doubt /\ mem' = mem
      /\ reading[s].pc = "compare" /\ act[s].pc \in {"idle", "reading", "packaging"}
      /\ IF Differing(s) = {}
         THEN /\ reading' = [reading EXCEPT ![s] = Quiet]
              /\ reads' = [reads EXCEPT ![s]["follow"] = NoRead]
         ELSE /\ reading' = [reading EXCEPT ![s].pc = "again"]
              /\ Begin(s, "follow", Differing(s))
  BY DEF FollowCompare, FleetFree, database, ears, ghosts
<1>3. "follow" \in Readers
  BY DEF Readers
<1>4. /\ Held(s)' = Held(s) /\ Held(s) \subseteq Agent
      /\ Differing(s) \subseteq Agent /\ Differing(s) \subseteq reads[s]["follow"].agents
  BY <1>2 DEF Held, Forgotten, Blank, Differing
<1>5. /\ reads[s]["follow"].pc = "taken" /\ reads[s]["follow"].agents \subseteq reading[s].due
      /\ reading[s].left \subseteq reading[s].due
  BY <1>1, <1>2 DEF Local, Coupled
<1>6. listening[s] /\ s \notin doubt =>
        \A a \in Held(s) \ passed[s] :
           held[s][a] = assigned[a] \/ a \in heard[s] \/ a \in Differing(s)
  BY <1>1, <1>2, AlikeIsCurrent DEF Local
<1>7. CASE Differing(s) = {}
  <2>1. /\ reading' \in [Server -> Reading \cup {Quiet}] /\ reading'[s].pc = "none"
        /\ \A t \in Server \ {s} : reading'[t] = reading[t]
    BY <1>1, <1>2, <1>7, ReadingEnds
  <2>2. /\ reads' \in [Server -> [Readers -> Read \cup {NoRead}]] /\ reads'[s]["follow"].pc = "none"
        /\ \A q \in Readers \ {"follow"} : reads'[s][q] = reads[s][q]
        /\ \A t \in Server \ {s} : reads'[t] = reads[t]
    BY <1>1, <1>2, <1>3, <1>7, ReadEnds
  <2>3. CatalogueTypeOK'
    BY <1>1, <1>2, <2>1, <2>2, Typed, TypedNext
  <2>4. \A t \in Server \ {s} : Steady(t) /\ heard'[t] = heard[t]
    BY <1>2, <2>1, <2>2 DEF Steady
  <2>5. Coupled(s)'
    BY <1>1, <1>2, <2>1, <2>2, CoupledTakeUp DEF Local
  <2>6. ReadsKnowCommits(s)'
    <3>1. \A q \in Readers : reads'[s][q].pc \in {"rows", "read"} => reads'[s][q] = reads[s][q]
      BY <2>2
    <3> QED
      BY <1>1, <1>2, <3>1 DEF ReadsKnowCommits, Local
  <2>7. BehindIsDue(s)'
    <3> SUFFICES ASSUME listening[s], s \notin doubt PROVE BehindIsDue(s)'
      BY <1>2 DEF BehindIsDue
    <3>1. Awaited(s)' = Awaited(s)
      BY <1>2, <2>1 DEF Awaited
    <3>2. \A a \in Held(s) \ passed'[s] : held[s][a] = assigned[a] \/ AgentDue(s, a)'
      BY <1>2, <1>6, <1>7 DEF AgentDue
    <3> QED
      BY <1>1, <1>2, <1>4, <2>1, <3>1, <3>2 DEF BehindIsDue, Local
  <2>8. Local(s)'
    BY <1>1, <1>2, <2>3, <2>5, <2>6, <2>7, QuietParts DEF Local
  <2> QED
    BY <1>1, <1>2, <2>3, <2>4, <2>8, LocalStep
<1>8. CASE Differing(s) # {}
  <2> DEFINE agents == Differing(s)
  <2>1. reading' = [reading EXCEPT ![s].pc = "again"] /\ Begin(s, "follow", agents)
    BY <1>2, <1>8
  <2> HIDE DEF agents
  <2>2. /\ reading' \in [Server -> Reading \cup {Quiet}] /\ reading'[s].pc = "again"
        /\ reading'[s].due = reading[s].due /\ reading'[s].left = reading[s].left
        /\ \A t \in Server \ {s} : reading'[t] = reading[t]
    BY <1>1, <1>2, <2>1, ReadingMoved
  <2>3. /\ reads' \in [Server -> [Readers -> Read \cup {NoRead}]] /\ reads'[s]["follow"] \in Read
        /\ reads'[s]["follow"].pc = "rows" /\ reads'[s]["follow"].began = pins[s].commits
        /\ reads'[s]["follow"].agents = agents /\ DOMAIN reads'[s]["follow"].found = agents
        /\ \A a \in agents : reads'[s]["follow"].found[a] = assigned[a]
        /\ \A q \in Readers \ {"follow"} : reads'[s][q] = reads[s][q]
        /\ \A t \in Server \ {s} : reads'[t] = reads[t]
    BY <1>1, <1>3, <1>4, <2>1, BeganFacts DEF agents
  <2>4. CatalogueTypeOK'
    BY <1>1, <1>2, <2>2, <2>3, Typed, TypedNext
  <2>5. \A t \in Server \ {s} : Steady(t) /\ heard'[t] = heard[t]
    BY <1>2, <2>2, <2>3 DEF Steady
  <2>6. Coupled(s)'
    <3>1. agents \subseteq reading[s].due
      BY <1>4, <1>5 DEF agents
    <3> QED
      BY <1>1, <1>2, <1>5, <2>2, <2>3, <3>1, CoupledTakeUp DEF Local
  <2>7. ReadsKnowCommits(s)'
    BY <1>1, <1>2, <1>3, <2>3, BegunKnowsCommits DEF Local
  <2>8. BehindIsDue(s)'
    <3> SUFFICES ASSUME listening[s], s \notin doubt PROVE BehindIsDue(s)'
      BY <1>2 DEF BehindIsDue
    <3>1. Awaited(s)' = Awaited(s)
      BY <1>2, <2>2 DEF Awaited
    <3>2. \A a \in agents : Fresh(s, a)' /\ AgentDue(s, a)'
      BY <1>2, <2>3 DEF AgentDue, Fresh
    <3>3. \A a \in Held(s) \ passed'[s] : held[s][a] = assigned[a] \/ AgentDue(s, a)'
      BY <1>2, <1>6, <3>2 DEF AgentDue, agents
    <3> QED
      BY <1>1, <1>2, <1>4, <2>2, <2>3, <3>1, <3>2, <3>3 DEF BehindIsDue, Local
  <2>9. Local(s)'
    BY <1>1, <1>2, <2>4, <2>6, <2>7, <2>8, QuietParts DEF Local
  <2> QED
    BY <1>1, <1>2, <2>4, <2>5, <2>9, LocalStep
<1> QED
  BY <1>7, <1>8

LEMMA FollowApplyKeeps ==
  ASSUME CatalogueInv, PinsResolve, NEW s \in Server, FollowApply(s)
  PROVE  Preserved
<1>1. CatalogueTypeOK /\ SoundRows(mem[s]) /\ Local(s)
  BY InvParts
<1> DEFINE read == reads[s]["follow"]
           h == [a \in Agent |-> IF a \in read.agents THEN read.found[a] ELSE held[s][a]]
<1>2. /\ db' = db /\ assigned' = assigned /\ txn' = txn
      /\ act' = act /\ last' = last /\ listening' = listening /\ heard' = heard
      /\ passed' = passed /\ doubt' = doubt /\ mem' = mem
      /\ reading[s].pc = "again" /\ read.pc = "read"
      /\ pins' = [pins EXCEPT ![s] = Refresh(s, "follow")]
      /\ reads' = [reads EXCEPT ![s]["follow"] = NoRead]
      /\ reading' = [reading EXCEPT ![s] = Quiet]
  BY DEF FollowApply, database, ears, ghosts
<1>3. held' = [held EXCEPT ![s] = h]
  <2>1. held \in [Server -> [Agent -> Assignment]]
    BY <1>1, Typed
  <2> QED
    BY <2>1 DEF FollowApply
<1>4. "follow" \in Readers
  BY DEF Readers
<1>5. /\ read.agents \subseteq Agent /\ \A a \in read.agents : read.found[a] \in Assignment
  <2>1. read \in Read \cup {NoRead} /\ read.pc # "none"
    BY <1>1, <1>2, <1>4, Typed
  <2>2. read.agents \subseteq Agent /\ read.found \in Some(Assignment) /\ DOMAIN read.found = read.agents
    BY <1>1, <2>1, <1>4, ReadFields DEF Local, Coupled
  <2> QED
    BY <2>2, SomeFacts
<1>6. h \in [Agent -> Assignment]
  <2>1. held[s] \in [Agent -> Assignment]
    BY <1>1, Typed
  <2> QED
    BY <1>5, <2>1
<1>7. \A a \in Agent : h[a] = IF a \in read.agents THEN read.found[a] ELSE held[s][a]
  OBVIOUS
<1> HIDE DEF h
<1>8. /\ held' \in [Server -> [Agent -> Assignment]] /\ held'[s] = h
      /\ \A t \in Server \ {s} : held'[t] = held[t]
  <2>1. held \in [Server -> [Agent -> Assignment]]
    BY <1>1, Typed
  <2> QED
    BY <1>3, <1>6, <2>1, OneUpdated
<1>9. /\ reading' \in [Server -> Reading \cup {Quiet}] /\ reading'[s].pc = "none"
      /\ \A t \in Server \ {s} : reading'[t] = reading[t]
  BY <1>1, <1>2, ReadingEnds
<1>10. /\ reads' \in [Server -> [Readers -> Read \cup {NoRead}]] /\ reads'[s]["follow"].pc = "none"
       /\ \A q \in Readers \ {"follow"} : reads'[s][q] = reads[s][q]
       /\ \A t \in Server \ {s} : reads'[t] = reads[t]
  BY <1>1, <1>2, <1>4, ReadEnds
<1>11. /\ pins' \in [Server -> Pins] /\ \A t \in Server \ {s} : pins'[t] = pins[t]
       /\ ReadsKnowCommits(s)' /\ OwnPins(s)'
  <2>1. DOMAIN reads[s]["follow"].found = reads[s]["follow"].agents
    BY <1>1, <1>2, <1>4 DEF Local, Coupled
  <2> QED
    BY <1>1, <1>2, <1>4, <1>10, <2>1, RefreshKeeps DEF Local
<1>12. CatalogueTypeOK'
  BY <1>1, <1>2, <1>8, <1>9, <1>10, <1>11, Typed, TypedNext
<1>13. \A t \in Server \ {s} : Steady(t) /\ heard'[t] = heard[t]
  BY <1>2, <1>8, <1>9, <1>10, <1>11 DEF Steady
<1>14. Coupled(s)'
  BY <1>1, <1>2, <1>9, <1>10, CoupledTakeUp DEF Local
<1>15. BehindIsDue(s)'
  <2> SUFFICES ASSUME listening[s], s \notin doubt PROVE BehindIsDue(s)'
    BY <1>2 DEF BehindIsDue
  <2>1. Awaited(s)' = Awaited(s) /\ Forgotten' = Forgotten /\ BehindIsDue(s)
    BY <1>1, <1>2, <1>9 DEF Awaited, Forgotten, Blank, Local
  <2>2. ASSUME NEW a \in Held(s)' \ passed[s] PROVE h[a] = assigned[a] \/ a \in heard[s]
    <3>1. a \in Agent /\ h[a] # Forgotten
      BY <1>8, <2>1, <2>2 DEF Held
    <3>2. CASE a \in read.agents
      BY <1>2, <1>7, <2>1, <3>1, <3>2 DEF BehindIsDue, Fresh
    <3>3. CASE a \notin read.agents
      <4>1. h[a] = held[s][a] /\ a \in Held(s) \ passed[s]
        BY <1>7, <2>2, <3>1, <3>3 DEF Held
      <4> QED
        BY <1>2, <2>1, <3>3, <4>1 DEF BehindIsDue, AgentDue
    <3> QED
      BY <3>2, <3>3
  <2>3. \A a \in Held(s)' \ passed'[s] : held'[s][a] = assigned'[a] \/ AgentDue(s, a)'
    BY <1>2, <1>8, <2>2 DEF AgentDue
  <2> QED
    BY <1>2, <1>9, <2>1, <2>3 DEF BehindIsDue
<1>16. Local(s)'
  BY <1>1, <1>2, <1>11, <1>12, <1>14, <1>15, QuietParts DEF Local
<1> QED
  BY <1>1, <1>2, <1>12, <1>13, <1>16, LocalStep

LEMMA FollowFailsKeeps ==
  ASSUME CatalogueInv, PinsResolve, NEW s \in Server, FollowFails(s)
  PROVE  Preserved
<1>1. CatalogueTypeOK /\ SoundRows(mem[s]) /\ Local(s)
  BY InvParts
<1> DEFINE due == reading[s].due \cup heard[s]
           v == [pc |-> "catalogue", due |-> due, left |-> due \cap Kinds]
           e == Ended(pins[s].committed, InFlight(s, "follow"))
           x == [pins[s] EXCEPT !.committed = e]
<1>2. /\ db' = db /\ assigned' = assigned /\ txn' = txn /\ held' = held
      /\ act' = act /\ last' = last /\ listening' = listening
      /\ passed' = passed /\ doubt' = doubt /\ mem' = mem
      /\ reading[s].pc # "none" /\ heard' = [heard EXCEPT ![s] = {}]
      /\ reads' = [reads EXCEPT ![s]["follow"] = NoRead]
      /\ reading' = [reading EXCEPT ![s] = v]
  BY DEF FollowFails, database, ghosts
<1>3. pins' = [pins EXCEPT ![s] = x] /\ pins \in [Server -> Pins] /\ pins[s] \in Pins
  <2>1. pins \in [Server -> Pins] /\ pins[s] \in Pins
    BY <1>1, Typed
  <2> QED
    BY <2>1 DEF FollowFails
<1>4. "follow" \in Readers
  BY DEF Readers
<1>5. e \in [Agent -> Nat]
  BY <1>1, <1>4, EndedFacts DEF Local
<1>6. /\ x \in Pins /\ x.assignments = pins[s].assignments /\ x.commits = pins[s].commits
      /\ x.committed = e
  <2> HIDE DEF e
  <2> QED
    BY <1>3, <1>5 DEF Pins
<1>7. reading[s].due \subseteq Everything /\ heard[s] \subseteq Everything /\ due \subseteq Everything
  BY <1>1, <1>2, Typed, ReadingFields
<1>8. v \in Reading /\ v.pc = "catalogue" /\ v.due = due /\ v.left = due \cap Kinds
  BY <1>7 DEF Reading
<1>9. reading[s].due \subseteq due /\ heard[s] \subseteq due
  OBVIOUS
<1> HIDE DEF x, v, due, e
<1>10. /\ pins' \in [Server -> Pins] /\ pins'[s] = x /\ \A t \in Server \ {s} : pins'[t] = pins[t]
  BY <1>3, <1>6, OneUpdated
<1>11. /\ reading' \in [Server -> Reading \cup {Quiet}] /\ reading'[s] = v
       /\ \A t \in Server \ {s} : reading'[t] = reading[t]
  BY <1>1, <1>2, <1>8, Typed, OneUpdated
<1>12. /\ heard' \in [Server -> SUBSET Everything] /\ heard'[s] = {}
       /\ \A t \in Server \ {s} : heard'[t] = heard[t]
  BY <1>1, <1>2, Typed, OneUpdated
<1>13. /\ reads' \in [Server -> [Readers -> Read \cup {NoRead}]] /\ reads'[s]["follow"].pc = "none"
       /\ \A q \in Readers \ {"follow"} : reads'[s][q] = reads[s][q]
       /\ \A t \in Server \ {s} : reads'[t] = reads[t]
  BY <1>1, <1>2, <1>4, ReadEnds
<1>14. CatalogueTypeOK'
  BY <1>1, <1>2, <1>10, <1>11, <1>12, <1>13, Typed, TypedNext
<1>15. \A t \in Server \ {s} : Steady(t) /\ heard'[t] = heard[t]
  BY <1>2, <1>10, <1>11, <1>12, <1>13 DEF Steady
<1>16. Coupled(s)'
  BY <1>1, <1>2, <1>8, <1>11, <1>13, CoupledTakeUp DEF Local
<1>17. ReadsKnowCommits(s)'
  BY <1>1, <1>2, <1>4, <1>6, <1>10, <1>13, EndedKnowsCommits DEF Local, e
<1>18. BehindIsDue(s)'
  <2> SUFFICES ASSUME listening[s], s \notin doubt PROVE BehindIsDue(s)'
    BY <1>2 DEF BehindIsDue
  <2>1. Held(s)' = Held(s) /\ Held(s) \subseteq Agent /\ BehindIsDue(s)
    BY <1>1, <1>2 DEF Held, Forgotten, Blank, Local
  <2>2. \A k \in Kinds : k \notin Awaited(s)' => k \notin Awaited(s)
    <3>1. reading[s].left \subseteq due /\ heard[s] \subseteq due
      BY <1>1, <1>2, <1>9 DEF Local, Coupled
    <3>2. Awaited(s)' = due \cap Kinds
      BY <1>8, <1>11, <1>12 DEF Awaited
    <3> QED
      BY <3>1, <3>2 DEF Awaited
  <2>3. \A a \in Agent : AgentDue(s, a) => AgentDue(s, a)'
    BY <1>1, <1>8, <1>9, <1>11 DEF AgentDue, Local, Coupled
  <2> QED
    BY <1>2, <1>8, <1>11, <2>1, <2>2, <2>3 DEF BehindIsDue, Kinds
<1>19. Local(s)'
  BY <1>1, <1>2, <1>6, <1>10, <1>14, <1>16, <1>17, <1>18, QuietParts DEF Local
<1> QED
  BY <1>1, <1>2, <1>14, <1>15, <1>19, LocalStep


-------------------------------------------------------------------------------
(* The rollout up to its commit                                            *)

LEMMA RolloutReadKeeps ==
  ASSUME CatalogueInv, PinsResolve, NEW s \in Server, NEW d \in Deployment,
         NEW agents \in SUBSET Agent, RolloutRead(s, d, agents)
  PROVE  Preserved
<1>1. CatalogueTypeOK /\ SoundRows(mem[s]) /\ Local(s)
  BY InvParts
<1> DEFINE v == [pc |-> "read", began |-> pins[s].commits, agents |-> agents,
                 found |-> [a \in agents |-> assigned[a]]]
           x == [pc |-> "reading", on |-> d]
<1>2. /\ db' = db /\ assigned' = assigned /\ txn' = txn /\ held' = held /\ pins' = pins
      /\ last' = last /\ listening' = listening /\ heard' = heard
      /\ passed' = passed /\ doubt' = doubt /\ mem' = mem /\ reading' = reading
      /\ act[s] = Idle /\ ~txn[s].open
      /\ reads' = [reads EXCEPT ![s]["act"] = v] /\ act' = [act EXCEPT ![s] = x]
  BY DEF RolloutRead, database, ears, ghosts
<1>3. pins[s].commits \in Nat
  BY <1>1, Typed, PinsFields
<1>4. /\ v \in Read /\ v.pc = "read" /\ v.began = pins[s].commits /\ v.agents = agents
      /\ DOMAIN v.found = agents /\ \A a \in agents : v.found[a] = assigned[a]
  BY <1>1, <1>3, BeginFacts
<1>5. x \in Act /\ x.pc = "reading"
  BY ActsMade
<1> HIDE DEF v, x
<1>6. "act" \in Readers /\ "follow" \in Readers \ {"act"}
  BY DEF Readers
<1>7. /\ reads' \in [Server -> [Readers -> Read \cup {NoRead}]] /\ reads'[s]["act"] = v
      /\ \A q \in Readers \ {"act"} : reads'[s][q] = reads[s][q]
      /\ \A t \in Server \ {s} : reads'[t] = reads[t]
  BY <1>1, <1>2, <1>4, <1>6, ReadUpdated
<1>8. /\ act' \in [Server -> Act \cup {Idle}] /\ act'[s] = x
      /\ \A t \in Server \ {s} : act'[t] = act[t]
  BY <1>1, <1>2, <1>5, Typed, OneUpdated
<1>9. CatalogueTypeOK'
  BY <1>1, <1>2, <1>7, <1>8, Typed, TypedNext
<1>10. \A t \in Server \ {s} : Steady(t) /\ heard'[t] = heard[t]
  BY <1>2, <1>7, <1>8 DEF Steady
<1>11. Coupled(s)'
  <2>1. ASSUME NEW r \in Readers, reads'[s][r].pc # "none"
        PROVE  DOMAIN reads'[s][r].found = reads'[s][r].agents
    <3>1. CASE r = "act"
      BY <1>4, <1>7, <3>1
    <3>2. CASE r # "act"
      BY <1>1, <1>7, <2>1, <3>2 DEF Local, Coupled
    <3> QED
      BY <3>1, <3>2
  <2>2. reads'[s]["follow"] = reads[s]["follow"]
    BY <1>6, <1>7
  <2> QED
    BY <1>1, <1>2, <1>5, <1>8, <2>1, <2>2 DEF Local, Coupled
<1>12. HoldsWhatItPins(s)'
  BY <1>2 DEF HoldsWhatItPins
<1>13. ReadsKnowCommits(s)'
  BY <1>1, <1>2, <1>4, <1>6, <1>7, BegunKnowsCommits DEF Local
<1>14. Local(s)'
  BY <1>1, <1>2, <1>6, <1>7, <1>9, <1>11, <1>12, <1>13, QuietParts DEF Local
<1> QED
  BY <1>1, <1>2, <1>9, <1>10, <1>14, LocalStep

LEMMA RolloutRefreshKeeps ==
  ASSUME CatalogueInv, PinsResolve, NEW s \in Server, RolloutRefresh(s)
  PROVE  Preserved
<1>1. CatalogueTypeOK /\ SoundRows(mem[s]) /\ Local(s)
  BY InvParts
<1>2. /\ db' = db /\ assigned' = assigned /\ txn' = txn /\ held' = held
      /\ act' = act /\ last' = last /\ listening' = listening /\ heard' = heard
      /\ passed' = passed /\ doubt' = doubt /\ mem' = mem /\ reading' = reading
      /\ reads[s]["act"].pc = "read" /\ pins' = [pins EXCEPT ![s] = Refresh(s, "act")]
      /\ reads' = [reads EXCEPT ![s]["act"].pc = "taken"]
  BY DEF RolloutRefresh, database, ears, ghosts
<1>3. "act" \in Readers /\ "follow" \in Readers \ {"act"}
  BY DEF Readers
<1>4. /\ reads' \in [Server -> [Readers -> Read \cup {NoRead}]]
      /\ reads'[s]["act"] \in Read /\ reads'[s]["act"].pc = "taken"
      /\ reads'[s]["act"].agents = reads[s]["act"].agents
      /\ reads'[s]["act"].found = reads[s]["act"].found
      /\ \A q \in Readers \ {"act"} : reads'[s][q] = reads[s][q]
      /\ \A t \in Server \ {s} : reads'[t] = reads[t]
  BY <1>1, <1>2, <1>3, MovedFacts, ZenonT(60)
<1>5. \A r \in Readers : reads'[s][r].pc # "none" =>
          DOMAIN reads'[s][r].found = reads'[s][r].agents
  BY <1>1, <1>2, <1>4 DEF Local, Coupled
<1>6. /\ pins' \in [Server -> Pins] /\ \A t \in Server \ {s} : pins'[t] = pins[t]
      /\ ReadsKnowCommits(s)' /\ OwnPins(s)'
  <2>1. DOMAIN reads[s]["act"].found = reads[s]["act"].agents
    BY <1>1, <1>2, <1>3 DEF Local, Coupled
  <2> QED
    BY <1>1, <1>2, <1>3, <1>4, <2>1, RefreshKeeps DEF Local
<1>7. CatalogueTypeOK'
  BY <1>1, <1>2, <1>4, <1>6, Typed, TypedNext
<1>8. \A t \in Server \ {s} : Steady(t) /\ heard'[t] = heard[t]
  BY <1>2, <1>4, <1>6 DEF Steady
<1>9. Coupled(s)'
  BY <1>1, <1>2, <1>3, <1>4, <1>5, CoupledReads DEF Local
<1>10. Local(s)'
  BY <1>1, <1>2, <1>3, <1>4, <1>6, <1>7, <1>9, QuietParts DEF Local
<1> QED
  BY <1>1, <1>2, <1>7, <1>8, <1>10, LocalStep

(* What a Deployment releases is an assignment through it, or none.        *)
LEMMA ReleaseFacts ==
  ASSUME CatalogueTypeOK, NEW s \in Server, NEW d \in Deployment, NEW now \in Assignment,
         NEW moves \in BOOLEAN
  PROVE  Release(s, d, now, moves) \in Released
<1>1. mem[s] \in Rows
  BY Typed
<1>2. /\ mem[s].deployments[d] \in Member
      /\ mem[s].saved \in [Configuration -> Revision \cup {0}]
  BY <1>1, RowsFields
<1> DEFINE deployment == mem[s].deployments[d]
           candidate == /\ deployment.package # None /\ moves
                        /\ mem[s].packages[deployment.package].bytes # 0
           package == IF candidate THEN deployment.package
                      ELSE IF deployment.package # None THEN now.package ELSE None
           configurations == [c \in Configuration |->
                                IF c \in deployment.configurations THEN mem[s].saved[c] ELSE 0]
           x == [deployment |-> d, package |-> package, configurations |-> configurations]
<1>3. deployment.package \in Package \cup {None} /\ now.package \in Package \cup {None}
  BY <1>2, MemberFields, AssignmentFields
<1>4. package \in Package \cup {None}
  BY <1>3
<1>5. configurations \in [Configuration -> Revision \cup {0}]
  BY <1>2
<1>6. \/ Release(s, d, now, moves) = Unassigned
      \/ Release(s, d, now, moves) = x
  BY DEF Release
<1> HIDE DEF configurations, package
<1>7. x \in Assignment /\ x.deployment = d
  BY <1>4, <1>5, AssignmentMade
<1> QED
  BY <1>6, <1>7, BlankFacts DEF Released

LEMMA PressKeeps ==
  ASSUME CatalogueInv, PinsResolve, NEW s \in Server, NEW moves \in BOOLEAN, Press(s, moves)
  PROVE  Preserved
<1>1. CatalogueTypeOK /\ SoundRows(mem[s]) /\ Local(s)
  BY InvParts
<1> DEFINE d == act[s].on
           agents == {a \in reads[s]["act"].agents : Matched(s, a) # Forgotten}
           moved == {a \in agents : Release(s, d, Matched(s, a), moves) # Matched(s, a)}
           f == [a \in moved |-> Release(s, d, Matched(s, a), moves)]
           T == {c \in Configuration : \E a \in moved : Matched(s, a).configurations[c] # 0}
           x == IF ~Releasable(s, d) \/ moved = {} THEN Idle
                ELSE [pc |-> "pressed", releases |-> f, touched |-> T]
<1>2. /\ db' = db /\ assigned' = assigned /\ txn' = txn /\ held' = held /\ pins' = pins
      /\ last' = last /\ listening' = listening /\ heard' = heard
      /\ passed' = passed /\ doubt' = doubt /\ mem' = mem /\ reading' = reading
      /\ act[s].pc = "reading" /\ reads[s]["act"].pc = "taken" /\ reading[s].pc # "again"
      /\ reads' = [reads EXCEPT ![s]["act"] = NoRead]
  BY DEF Press, FleetFree, database, ears, ghosts
<1>3. act' = [act EXCEPT ![s] = x]
  BY DEF Press
<1>4. act \in [Server -> Act \cup {Idle}] /\ d \in Deployment
  BY <1>1, <1>2, Typed, ActFields
<1>5. "act" \in Readers /\ "follow" \in Readers \ {"act"}
  BY DEF Readers
<1>6. /\ reads[s]["act"].agents \subseteq Agent
      /\ \A a \in reads[s]["act"].agents : reads[s]["act"].found[a] \in Assignment
  <2>1. reads[s]["act"] \in Read \cup {NoRead} /\ reads[s]["act"].pc # "none"
    BY <1>1, <1>2, <1>5, Typed
  <2>2. /\ reads[s]["act"].agents \subseteq Agent /\ reads[s]["act"].found \in Some(Assignment)
        /\ DOMAIN reads[s]["act"].found = reads[s]["act"].agents
    BY <1>1, <2>1, <1>5, ReadFields DEF Local, Coupled
  <2> QED
    BY <2>2, SomeFacts
<1>7. \A a \in reads[s]["act"].agents : Matched(s, a) \in Assignment
  <2>1. held[s] \in [Agent -> Assignment]
    BY <1>1, Typed
  <2> QED
    BY <1>6, <2>1 DEF Matched
<1>8. moved \subseteq Agent /\ \A a \in moved : Matched(s, a) \in Assignment
  BY <1>6, <1>7
<1> HIDE DEF moved, d
<1>9. f \in [moved -> Released]
  <2>1. \A a \in moved : Release(s, d, Matched(s, a), moves) \in Released
    BY <1>1, <1>4, <1>8, ReleaseFacts
  <2> QED
    BY <2>1
<1> HIDE DEF f
<1>10. f \in Some(Released)
  BY <1>8, <1>9, SomeMade
<1>11. x \in Act \cup {Idle} /\ x.pc \in {"idle", "pressed"}
  <2>1. T \in SUBSET Configuration
    OBVIOUS
  <2> HIDE DEF T
  <2>2. [pc |-> "pressed", releases |-> f, touched |-> T] \in Act
    BY <1>10, <2>1, ActsMade
  <2> QED
    BY <2>2, ActsMade
<1> HIDE DEF x
<1>12. /\ act' \in [Server -> Act \cup {Idle}] /\ act'[s] = x
       /\ \A t \in Server \ {s} : act'[t] = act[t]
  BY <1>3, <1>4, <1>11, OneUpdated
<1>13. /\ reads' \in [Server -> [Readers -> Read \cup {NoRead}]] /\ reads'[s]["act"].pc = "none"
       /\ \A q \in Readers \ {"act"} : reads'[s][q] = reads[s][q]
       /\ \A t \in Server \ {s} : reads'[t] = reads[t]
  BY <1>1, <1>2, <1>5, ReadEnds
<1>14. CatalogueTypeOK'
  BY <1>1, <1>2, <1>12, <1>13, Typed, TypedNext
<1>15. \A t \in Server \ {s} : Steady(t) /\ heard'[t] = heard[t]
  BY <1>2, <1>12, <1>13 DEF Steady
<1>16. ~txn[s].open
  BY <1>1, <1>2 DEF Local, Coupled
<1>17. \A q \in Readers : reads'[s][q].pc # "none" => reads'[s][q] = reads[s][q]
  BY <1>13
<1>18. Coupled(s)'
  <2>1. reads'[s]["follow"] = reads[s]["follow"]
    BY <1>5, <1>13
  <2> QED
    BY <1>1, <1>2, <1>11, <1>12, <1>16, <1>17, <2>1 DEF Local, Coupled
<1>19. HoldsWhatItPins(s)'
  BY <1>2, <1>16 DEF HoldsWhatItPins
<1>20. ReadsKnowCommits(s)'
  BY <1>1, <1>2, <1>17 DEF ReadsKnowCommits, Local
<1>21. Local(s)'
  BY <1>1, <1>2, <1>5, <1>13, <1>14, <1>18, <1>19, <1>20, QuietParts DEF Local
<1> QED
  BY <1>1, <1>2, <1>14, <1>15, <1>21, LocalStep


(* A release begins, moves or ends with nothing written: memory may retain *)
(* more.                                                                   *)
Retains(s) ==
  /\ mem'[s].saved = mem[s].saved /\ mem'[s].deployments = mem[s].deployments
  /\ mem'[s].packages = mem[s].packages
  /\ \A c \in Configuration : mem[s].retained[c] \subseteq mem'[s].retained[c]

LEMMA ReleaseStep ==
  ASSUME CatalogueInv, PinsResolve, NEW s \in Server,
         db' = db, assigned' = assigned, held' = held, pins' = pins, reads' = reads,
         reading' = reading, heard' = heard, listening' = listening, last' = last,
         doubt' = doubt, passed' = passed,
         txn' \in [Server -> Txn \cup {NoTxn}], act' \in [Server -> Act \cup {Idle}],
         mem' \in [Server -> Rows],
         \A t \in Server \ {s} : txn'[t] = txn[t] /\ act'[t] = act[t] /\ mem'[t] = mem[t],
         SoundRows(mem'[s]), Retains(s), Coupled(s)', HoldsWhatItPins(s)'
  PROVE  Preserved
<1>1. CatalogueTypeOK /\ Local(s)
  BY InvParts
<1>2. CatalogueTypeOK'
  BY <1>1, Typed, TypedNext
<1>3. \A t \in Server \ {s} : Steady(t) /\ heard'[t] = heard[t]
  BY DEF Steady
<1>4. BehindIsDue(s)'
  <2>1. /\ Held(s)' = Held(s) /\ Awaited(s)' = Awaited(s)
        /\ \A a : AgentDue(s, a)' <=> AgentDue(s, a)
        /\ \A a : Fresh(s, a)' <=> Fresh(s, a)
    BY DEF Held, Forgotten, Blank, Awaited, AgentDue, Fresh
  <2> QED
    BY <1>1, <2>1 DEF BehindIsDue, Local, Retains
<1>5. Local(s)'
  BY <1>1, <1>2, <1>4, QuietParts DEF Local
<1> QED
  BY <1>2, <1>3, <1>5, LocalStep

(* The rows a release is to hold, and what it writes.                      *)
LEMMA NamesFacts ==
  ASSUME NEW releases \in Some(Released)
  PROVE  /\ Names(releases) \subseteq Configuration /\ IsFiniteSet(Names(releases))
         /\ Names(releases) \subseteq Row
  BY Constants, FS_Subset DEF Names, Row

LEMMA PinnedRows ==
  ASSUME NEW releases \in Some(Released)
  PROVE  LET P == {releases[a].package : a \in DOMAIN releases} \ {None}
             D == {releases[a].deployment : a \in DOMAIN releases} \ {None}
             rows == SetToSeq(Names(releases)) \o SetToSeq(P) \o SetToSeq(D)
         IN  /\ rows \in Seq(Row) /\ ToSet(rows) = Names(releases) \cup P \cup D
<1> DEFINE P == {releases[a].package : a \in DOMAIN releases} \ {None}
           D == {releases[a].deployment : a \in DOMAIN releases} \ {None}
<1>1. \A a \in DOMAIN releases : releases[a] \in Released
  BY SomeFacts
<1>2. \A a \in DOMAIN releases :
         releases[a].package \in Package \cup {None} /\ releases[a].deployment \in Deployment \cup {None}
  BY <1>1, ReleasedFacts, BlankFacts DEF Released
<1>3. P \subseteq Package /\ D \subseteq Deployment
  BY <1>2
<1> HIDE DEF P, D
<1>4. P \subseteq Row /\ D \subseteq Row /\ IsFiniteSet(P) /\ IsFiniteSet(D)
  BY <1>3, Constants, FS_Subset DEF Row
<1>5. /\ SetToSeq(P) \in Seq(Row) /\ ToSet(SetToSeq(P)) = P
      /\ SetToSeq(D) \in Seq(Row) /\ ToSet(SetToSeq(D)) = D
      /\ SetToSeq(Names(releases)) \in Seq(Row) /\ ToSet(SetToSeq(Names(releases))) = Names(releases)
  BY <1>4, NamesFacts, SetAsSeq
<1> DEFINE q == SetToSeq(Names(releases)) \o SetToSeq(P)
<1>6. q \in Seq(Row) /\ ToSet(q) = Names(releases) \cup P
  BY <1>5, SetOfConcat
<1> HIDE DEF q
<1>7. q \o SetToSeq(D) \in Seq(Row) /\ ToSet(q \o SetToSeq(D)) = Names(releases) \cup P \cup D
  BY <1>5, <1>6, SetOfConcat
<1> QED
  BY <1>7 DEF q, P, D

(* What is written: the assignments released, at the revisions saved now.  *)
Hashed(saved, releases) ==
  [a \in DOMAIN releases |-> [releases[a] EXCEPT !.configurations =
     [c \in Configuration |-> IF @[c] # 0 THEN saved[c] ELSE 0]]]

LEMMA HashedFacts ==
  ASSUME NEW saved \in [Configuration -> Revision \cup {0}], NEW releases \in Some(Released)
  PROVE  LET hashed == Hashed(saved, releases)
         IN  /\ hashed \in Some(Released) /\ DOMAIN hashed = DOMAIN releases
             /\ \A a \in DOMAIN releases :
                  /\ hashed[a].package = releases[a].package
                  /\ hashed[a].deployment = releases[a].deployment
                  /\ releases[a].deployment = None => hashed[a] = Unassigned
                  /\ \A c \in Configuration : hashed[a].configurations[c] =
                        IF releases[a].configurations[c] # 0 THEN saved[c] ELSE 0
<1> DEFINE g(a) == [c \in Configuration |-> IF releases[a].configurations[c] # 0 THEN saved[c] ELSE 0]
           h(a) == [releases[a] EXCEPT !.configurations = g(a)]
           hashed == [a \in DOMAIN releases |-> h(a)]
<1>1. DOMAIN releases \subseteq Agent /\ \A a \in DOMAIN releases : releases[a] \in Released
  BY SomeFacts
<1>2. ASSUME NEW a \in DOMAIN releases
      PROVE  /\ h(a) \in Released /\ h(a).package = releases[a].package
             /\ h(a).deployment = releases[a].deployment /\ h(a).configurations = g(a)
             /\ releases[a].deployment = None => h(a) = Unassigned
             /\ \A c \in Configuration : h(a).configurations[c] =
                        IF releases[a].configurations[c] # 0 THEN saved[c] ELSE 0
  <2> DEFINE x == releases[a]
             m == g(a)
             y == [deployment |-> x.deployment, package |-> x.package, configurations |-> m]
  <2>1. x \in Released /\ x \in Assignment
    BY <1>1, <1>2, ReleasedFacts
  <2>2. m \in [Configuration -> Revision \cup {0}]
    OBVIOUS
  <2>3. \A c \in Configuration : m[c] = IF x.configurations[c] # 0 THEN saved[c] ELSE 0
    OBVIOUS
  <2> HIDE DEF m
  <2>4. [x EXCEPT !.configurations = m] = y
    BY <2>1 DEF Assignment
  <2>5. y \in Assignment
    BY <2>1, <2>2, AssignmentFields, AssignmentMade
  <2>6. x.deployment = None => x = Unassigned
    BY <2>1, Constants DEF Released
  <2>7. x = Unassigned => y = Unassigned
    <3> SUFFICES ASSUME x = Unassigned PROVE y = Unassigned
      OBVIOUS
    <3>1. m = [c \in Configuration |-> 0]
      BY <2>2, <2>3, BlankFacts
    <3> QED
      BY <3>1, BlankFacts DEF Unassigned, Blank
  <2>8. y.deployment = x.deployment /\ y.package = x.package /\ y.configurations = m
    OBVIOUS
  <2>9. y \in Released
    BY <2>1, <2>5, <2>7, <2>8 DEF Released
  <2>10. h(a) = y
    BY <2>4 DEF m
  <2> HIDE DEF y, h
  <2> QED
    BY <2>3, <2>6, <2>7, <2>8, <2>9, <2>10 DEF m
<1>3. hashed \in [DOMAIN releases -> Released]
  BY <1>2
<1>4. hashed \in Some(Released) /\ DOMAIN hashed = DOMAIN releases
  <2>1. \A z \in [DOMAIN releases -> Released] : z \in Some(Released) /\ DOMAIN z = DOMAIN releases
    BY <1>1, SomeMade
  <2> QED
    BY <1>3, <2>1
<1>5. \A a \in DOMAIN releases : hashed[a] = h(a)
  OBVIOUS
<1>6. \A a \in DOMAIN releases :
        /\ hashed[a].package = releases[a].package
        /\ hashed[a].deployment = releases[a].deployment
        /\ releases[a].deployment = None => hashed[a] = Unassigned
        /\ \A c \in Configuration : hashed[a].configurations[c] =
              IF releases[a].configurations[c] # 0 THEN saved[c] ELSE 0
  <2> HIDE DEF h, hashed
  <2> QED
    BY <1>2, <1>5, ZenonT(60)
<1>7. hashed = Hashed(saved, releases)
  BY DEF Hashed
<1> HIDE DEF hashed
<1> QED
  BY <1>4, <1>6, <1>7


LEMMA NoTxnFacts == NoTxn \in Txn \cup {NoTxn} /\ NoTxn.open = FALSE
  BY DEF NoTxn

LEMMA PinKeeps ==
  ASSUME CatalogueInv, PinsResolve, NEW s \in Server, Pin(s)
  PROVE  Preserved
<1>1. CatalogueTypeOK /\ SoundRows(mem[s]) /\ Local(s)
  BY InvParts
<1> DEFINE releases == act[s].releases
           names == Names(releases)
           saved == mem[s].saved
           hashed == Hashed(saved, releases)
           P == {releases[a].package : a \in DOMAIN releases} \ {None}
           D == {releases[a].deployment : a \in DOMAIN releases} \ {None}
           rows == SetToSeq(names) \o SetToSeq(P) \o SetToSeq(D)
           pinned == [c \in Configuration |-> IF c \in names THEN {saved[c]} ELSE {}]
           T == act[s].touched \cup names
           x == [pc |-> "releasing", names |-> names, touched |-> T]
           z == [open |-> TRUE, waited |-> TRUE, todo |-> rows, holds |-> <<>>,
                 writes |-> hashed, pinned |-> pinned]
<1>2. /\ db' = db /\ assigned' = assigned /\ held' = held /\ pins' = pins /\ reads' = reads
      /\ last' = last /\ listening' = listening /\ heard' = heard
      /\ passed' = passed /\ doubt' = doubt /\ mem' = mem /\ reading' = reading
      /\ act[s].pc = "pressed"
  BY DEF Pin, ears, ghosts
<1>3. \/ act' = [act EXCEPT ![s] = Collecting(names)] /\ txn' = txn
      \/ /\ \A c \in names : saved[c] # 0
         /\ act' = [act EXCEPT ![s] = x] /\ txn' = [txn EXCEPT ![s] = z]
  BY DEF Pin, Hashed
<1>4. /\ act \in [Server -> Act \cup {Idle}] /\ txn \in [Server -> Txn \cup {NoTxn}]
      /\ mem \in [Server -> Rows] /\ saved \in [Configuration -> Revision \cup {0}]
      /\ releases \in Some(Released) /\ act[s].touched \subseteq Configuration
  BY <1>1, <1>2, Typed, ActFields, RowsFields
<1>5. names \subseteq Configuration
  BY <1>4, NamesFacts
<1>6. ~txn[s].open /\ reading[s].pc # "again"
  BY <1>1, <1>2 DEF Local, Coupled
<1>7. Retains(s)
  BY <1>2 DEF Retains
<1>8. CASE act' = [act EXCEPT ![s] = Collecting(names)] /\ txn' = txn
  <2>1. Collecting(names) \in Act \cup {Idle} /\ Collecting(names).pc \in {"idle", "collect"}
    BY <1>5, ActsMade
  <2>2. /\ act' \in [Server -> Act \cup {Idle}] /\ act'[s] = Collecting(names)
        /\ \A t \in Server \ {s} : act'[t] = act[t]
    BY <1>4, <1>8, <2>1, OneUpdated
  <2>3. Coupled(s)'
    BY <1>1, <1>2, <1>6, <1>8, <2>1, <2>2 DEF Local, Coupled
  <2>4. HoldsWhatItPins(s)'
    BY <1>6, <1>8 DEF HoldsWhatItPins
  <2> QED
    BY <1>1, <1>2, <1>4, <1>7, <1>8, <2>2, <2>3, <2>4, ReleaseStep
<1>9. CASE /\ \A c \in names : saved[c] # 0
           /\ act' = [act EXCEPT ![s] = x] /\ txn' = [txn EXCEPT ![s] = z]
  <2>1. x \in Act /\ x.pc = "releasing" /\ x.names = names
    <3>1. T \in SUBSET Configuration /\ names \in SUBSET Configuration
      BY <1>4, <1>5
    <3> HIDE DEF T, names
    <3> QED
      BY <3>1, ActsMade
  <2> HIDE DEF releases, saved
  <2>2. /\ hashed \in Some(Released) /\ DOMAIN hashed = DOMAIN releases
        /\ \A a \in DOMAIN releases :
             /\ hashed[a].package = releases[a].package
             /\ hashed[a].deployment = releases[a].deployment
             /\ releases[a].deployment = None => hashed[a] = Unassigned
             /\ \A c \in Configuration : hashed[a].configurations[c] =
                   IF releases[a].configurations[c] # 0 THEN saved[c] ELSE 0
    BY <1>4, HashedFacts
  <2>3. rows \in Seq(Row) /\ ToSet(rows) = names \cup P \cup D
    BY <1>4, PinnedRows
  <2>4. pinned \in [Configuration -> SUBSET Revision]
    BY <1>4, <1>5, <1>9
  <2>5. \A c \in Configuration : pinned[c] = IF c \in names THEN {saved[c]} ELSE {}
    OBVIOUS
  <2>6. ASSUME NEW a \in DOMAIN releases
        PROVE  /\ releases[a].package \in P \cup {None} /\ releases[a].deployment \in D \cup {None}
               /\ \A c \in Configuration : releases[a].configurations[c] # 0 => c \in names
    BY DEF Names
  <2> HIDE DEF hashed, rows, pinned, P, D, names, x
  <2>7. /\ z.open = TRUE /\ z.waited = TRUE /\ z.todo = rows /\ z.holds = <<>>
        /\ z.writes = hashed /\ z.pinned = pinned
    OBVIOUS
  <2>8. z \in Txn
    BY <2>2, <2>3, <2>4, SetOfNone DEF Txn
  <2> HIDE DEF z
  <2>9. /\ act' \in [Server -> Act \cup {Idle}] /\ act'[s] = x
        /\ \A t \in Server \ {s} : act'[t] = act[t]
    BY <1>4, <1>9, <2>1, OneUpdated
  <2>10. /\ txn' \in [Server -> Txn \cup {NoTxn}] /\ txn'[s] = z
         /\ \A t \in Server \ {s} : txn'[t] = txn[t]
    BY <1>4, <1>9, <2>8, OneUpdated
  <2>11. Coupled(s)'
    BY <1>1, <1>2, <1>6, <2>1, <2>7, <2>9, <2>10 DEF Local, Coupled
  <2>12. HoldsWhatItPins(s)'
    <3>1. ToSet(z.holds) = {} /\ AskedFor(z) = names \cup P \cup D
      BY <2>3, <2>7, SetOfNone DEF AskedFor
    <3>2. \A c \in Configuration : z.pinned[c] # {} => c \in AskedFor(z) /\ c \in x.names
      BY <2>1, <2>5, <2>7, <3>1
    <3>3. ASSUME NEW a \in DOMAIN hashed, hashed[a] # Unassigned
          PROVE  /\ hashed[a].deployment \in AskedFor(z)
                 /\ hashed[a].package \in AskedFor(z) \cup {None}
                 /\ \A c \in Configuration : hashed[a].configurations[c] # 0 =>
                       hashed[a].configurations[c] \in pinned[c]
      <4>1. a \in DOMAIN releases
        BY <2>2, <3>3
      <4>2. hashed[a].deployment \in D /\ hashed[a].package \in P \cup {None}
        BY <2>2, <2>6, <3>3, <4>1
      <4>3. \A c \in Configuration : hashed[a].configurations[c] # 0 =>
               c \in names /\ hashed[a].configurations[c] = saved[c]
        BY <2>2, <2>6, <4>1
      <4> QED
        BY <2>5, <3>1, <4>2, <4>3
    <3>4. \A row \in ToSet(z.holds) : InDb(row)'
      BY <3>1
    <3>5. AskedFor(txn[s])' = AskedFor(z) /\ Unassigned' = Unassigned
      BY <2>10 DEF AskedFor, Unassigned, Blank
    <3> QED
      BY <2>7, <2>9, <2>10, <3>2, <3>3, <3>4, <3>5 DEF HoldsWhatItPins
  <2> QED
    BY <1>1, <1>2, <1>4, <1>7, <2>9, <2>10, <2>11, <2>12, ReleaseStep
<1> QED
  BY <1>3, <1>8, <1>9

LEMMA HoldRowKeeps ==
  ASSUME CatalogueInv, PinsResolve, NEW s \in Server, HoldRow(s)
  PROVE  Preserved
<1>1. CatalogueTypeOK /\ SoundRows(mem[s]) /\ Local(s)
  BY InvParts
<1> DEFINE t == txn[s]
           q == Tail(t.todo)
           h == Append(t.holds, Head(t.todo))
           y == [t EXCEPT !.todo = q]
           z == [y EXCEPT !.holds = h]
<1>2. /\ db' = db /\ assigned' = assigned /\ held' = held /\ pins' = pins /\ reads' = reads
      /\ last' = last /\ listening' = listening /\ heard' = heard
      /\ passed' = passed /\ doubt' = doubt /\ mem' = mem /\ reading' = reading /\ act' = act
      /\ t.open /\ t.todo # <<>> /\ InDb(Head(t.todo))
  BY DEF HoldRow, ears, ghosts
<1>3. /\ act \in [Server -> Act \cup {Idle}] /\ txn \in [Server -> Txn \cup {NoTxn}]
      /\ mem \in [Server -> Rows]
  BY <1>1, Typed
<1>4. /\ t \in Txn /\ t.waited \in BOOLEAN /\ t.todo \in Seq(Row) /\ t.holds \in Seq(Row)
      /\ t.writes \in Some(Released) /\ t.pinned \in [Configuration -> SUBSET Revision]
  BY <1>2, <1>3, TxnFields
<1>5. txn' = [txn EXCEPT ![s] = z]
  BY <1>3 DEF HoldRow
<1>6. /\ Head(t.todo) \in Row /\ q \in Seq(Row) /\ ToSet(t.todo) = ToSet(q) \cup {Head(t.todo)}
  BY <1>2, <1>4, SetOfTail
<1>7. h \in Seq(Row) /\ ToSet(h) = ToSet(t.holds) \cup {Head(t.todo)}
  BY <1>4, <1>6, SetOfAppend
<1> HIDE DEF q, h
<1>8. /\ y \in Txn /\ y.open = TRUE /\ y.waited = t.waited /\ y.todo = q /\ y.holds = t.holds
      /\ y.writes = t.writes /\ y.pinned = t.pinned
  <2> HIDE DEF t
  <2> QED
    BY <1>4, <1>6 DEF Txn
<1> HIDE DEF y
<1>9. /\ z \in Txn /\ z.open = TRUE /\ z.waited = t.waited /\ z.todo = q /\ z.holds = h
      /\ z.writes = t.writes /\ z.pinned = t.pinned
  <2>1. /\ z \in Txn /\ z.open = TRUE /\ z.waited = y.waited /\ z.todo = y.todo /\ z.holds = h
        /\ z.writes = y.writes /\ z.pinned = y.pinned
    BY <1>7, <1>8 DEF Txn
  <2> QED
    BY <1>8, <2>1
<1> HIDE DEF z
<1>10. /\ txn' \in [Server -> Txn \cup {NoTxn}] /\ txn'[s] = z
       /\ \A u \in Server \ {s} : txn'[u] = txn[u]
  BY <1>3, <1>5, <1>9, OneUpdated
<1>11. Coupled(s)'
  BY <1>1, <1>2, <1>9, <1>10 DEF Local, Coupled
<1>12. HoldsWhatItPins(s)'
  <2>1. AskedFor(z) = AskedFor(t)
    BY <1>6, <1>7, <1>9 DEF AskedFor
  <2>2. \A row \in ToSet(z.holds) : InDb(row)'
    <3>1. \A row \in ToSet(z.holds) : InDb(row)
      BY <1>1, <1>2, <1>7, <1>9 DEF Local, HoldsWhatItPins
    <3> QED
      BY <1>2, <3>1 DEF InDb
  <2>3. AskedFor(txn[s])' = AskedFor(z) /\ Unassigned' = Unassigned
    BY <1>10 DEF AskedFor, Unassigned, Blank
  <2> QED
    BY <1>1, <1>2, <1>9, <1>10, <2>1, <2>2, <2>3 DEF HoldsWhatItPins, Local
<1>13. Retains(s)
  BY <1>2 DEF Retains
<1> QED
  BY <1>1, <1>2, <1>3, <1>10, <1>11, <1>12, <1>13, ReleaseStep

(* What a release pinned is retained in memory, where it is still saved.   *)
LEMMA RetainedFacts ==
  ASSUME CatalogueTypeOK, NEW s \in Server, SoundRows(mem[s]), txn[s].open,
         mem' = Retained(s, txn[s])
  PROVE  /\ mem' \in [Server -> Rows] /\ \A t \in Server \ {s} : mem'[t] = mem[t]
         /\ SoundRows(mem'[s]) /\ Retains(s)
         /\ \A c \in Configuration : mem[s].saved[c] # 0 => txn[s].pinned[c] \subseteq mem'[s].retained[c]
<1> DEFINE m == mem[s]
           pinned == txn[s].pinned
           g == [c \in Configuration |-> IF m.saved[c] = 0 THEN {} ELSE m.retained[c] \cup pinned[c]]
           v == [saved |-> m.saved, retained |-> g, deployments |-> m.deployments,
                 packages |-> m.packages]
<1>1. mem \in [Server -> Rows] /\ m \in Rows /\ pinned \in [Configuration -> SUBSET Revision]
  BY Typed, TxnFields
<1>2. /\ m.saved \in [Configuration -> Revision \cup {0}]
      /\ m.retained \in [Configuration -> SUBSET Revision]
      /\ m.deployments \in [Deployment -> Member] /\ m.packages \in [Package -> Artifact]
  BY <1>1, RowsFields
<1>3. mem' = [mem EXCEPT ![s] = [m EXCEPT !.retained = g]]
  BY <1>1 DEF Retained
<1>4. g \in [Configuration -> SUBSET Revision]
  BY <1>1, <1>2
<1>5. \A c \in Configuration : g[c] = IF m.saved[c] = 0 THEN {} ELSE m.retained[c] \cup pinned[c]
  OBVIOUS
<1> HIDE DEF g
<1>6. [m EXCEPT !.retained = g] = v
  BY <1>1 DEF Rows
<1>7. v \in Rows
  BY <1>2, <1>4, RowsMade
<1>8. /\ v.saved = m.saved /\ v.retained = g /\ v.deployments = m.deployments
      /\ v.packages = m.packages
  OBVIOUS
<1> HIDE DEF v
<1>9. mem' \in [Server -> Rows] /\ mem'[s] = v /\ \A t \in Server \ {s} : mem'[t] = mem[t]
  BY <1>1, <1>3, <1>6, <1>7, OneUpdated
<1>10. SoundRows(v)
  BY <1>5, <1>8 DEF SoundRows
<1>11. Retains(s)
  <2>1. \A c \in Configuration : m.saved[c] = 0 => m.retained[c] = {}
    BY DEF SoundRows
  <2> QED
    BY <1>5, <1>8, <1>9, <2>1 DEF Retains
<1> QED
  BY <1>5, <1>8, <1>9, <1>10, <1>11

(* The act of a release that failed.                                       *)
LEMMA FailedFacts ==
  ASSUME CatalogueTypeOK, NEW s \in Server, Coupled(s), txn[s].open, txn[s].waited,
         act' = [act EXCEPT ![s] = Collecting(act[s].names)]
  PROVE  /\ act' \in [Server -> Act \cup {Idle}] /\ act'[s].pc \in {"idle", "collect"}
         /\ \A t \in Server \ {s} : act'[t] = act[t]
<1>1. act[s].pc = "releasing" /\ act \in [Server -> Act \cup {Idle}]
  BY Typed DEF Coupled
<1>2. act[s].names \subseteq Configuration
  BY <1>1, ActFields
<1>3. /\ Collecting(act[s].names) \in Act \cup {Idle}
      /\ Collecting(act[s].names).pc \in {"idle", "collect"}
  BY <1>2, ActsMade
<1> QED
  BY <1>1, <1>3, OneUpdated

LEMMA AbortKeeps ==
  ASSUME CatalogueInv, PinsResolve, NEW s \in Server, Abort(s)
  PROVE  Preserved
<1>1. CatalogueTypeOK /\ SoundRows(mem[s]) /\ Local(s)
  BY InvParts
<1>2. /\ db' = db /\ assigned' = assigned /\ held' = held /\ pins' = pins /\ reads' = reads
      /\ last' = last /\ listening' = listening /\ heard' = heard
      /\ passed' = passed /\ doubt' = doubt /\ reading' = reading
      /\ txn[s].open /\ txn' = [txn EXCEPT ![s] = NoTxn]
      /\ IF txn[s].waited THEN Failed(s) ELSE mem' = mem /\ act' = act
  BY DEF Abort, ears, ghosts
<1>3. /\ txn' \in [Server -> Txn \cup {NoTxn}] /\ txn'[s].open = FALSE
      /\ \A t \in Server \ {s} : txn'[t] = txn[t]
  BY <1>1, <1>2, Typed, NoTxnFacts, OneUpdated
<1>4. HoldsWhatItPins(s)'
  BY <1>3 DEF HoldsWhatItPins
<1>5. CASE txn[s].waited
  <2>1. mem' = Retained(s, txn[s]) /\ act' = [act EXCEPT ![s] = Collecting(act[s].names)]
    BY <1>2, <1>5 DEF Failed
  <2>2. /\ mem' \in [Server -> Rows] /\ \A t \in Server \ {s} : mem'[t] = mem[t]
        /\ SoundRows(mem'[s]) /\ Retains(s)
    BY <1>1, <1>2, <2>1, RetainedFacts
  <2>3. /\ act' \in [Server -> Act \cup {Idle}] /\ act'[s].pc \in {"idle", "collect"}
        /\ \A t \in Server \ {s} : act'[t] = act[t]
    BY <1>1, <1>2, <1>5, <2>1, FailedFacts DEF Local
  <2>4. act[s].pc = "releasing" /\ reading[s].pc # "again"
    BY <1>1, <1>2, <1>5 DEF Local, Coupled
  <2>5. Coupled(s)'
    BY <1>1, <1>2, <1>3, <2>3, <2>4 DEF Local, Coupled
  <2> QED
    BY <1>1, <1>2, <1>3, <1>4, <2>2, <2>3, <2>5, ReleaseStep
<1>6. CASE ~txn[s].waited
  <2>1. mem' = mem /\ act' = act
    BY <1>2, <1>6
  <2>2. mem \in [Server -> Rows] /\ act \in [Server -> Act \cup {Idle}]
    BY <1>1, Typed
  <2>3. Coupled(s)'
    BY <1>1, <1>2, <1>3, <1>6, <2>1 DEF Local, Coupled
  <2>4. Retains(s)
    BY <2>1 DEF Retains
  <2> QED
    BY <1>1, <1>2, <1>3, <1>4, <2>1, <2>2, <2>3, <2>4, ReleaseStep
<1> QED
  BY <1>5, <1>6

LEMMA GiveUpKeeps ==
  ASSUME CatalogueInv, PinsResolve, NEW s \in Server, GiveUp(s)
  PROVE  Preserved
<1>1. CatalogueTypeOK /\ SoundRows(mem[s]) /\ Local(s)
  BY InvParts
<1> DEFINE z == [txn[s] EXCEPT !.waited = FALSE]
<1>2. /\ db' = db /\ assigned' = assigned /\ held' = held /\ pins' = pins /\ reads' = reads
      /\ last' = last /\ listening' = listening /\ heard' = heard
      /\ passed' = passed /\ doubt' = doubt /\ reading' = reading
      /\ txn[s].open /\ txn[s].waited /\ txn' = [txn EXCEPT ![s].waited = FALSE]
      /\ mem' = Retained(s, txn[s]) /\ act' = [act EXCEPT ![s] = Collecting(act[s].names)]
  BY DEF GiveUp, Failed, ears, ghosts
<1>3. txn \in [Server -> Txn \cup {NoTxn}] /\ txn[s] \in Txn
  BY <1>1, <1>2, Typed, TxnFields
<1>4. /\ z \in Txn /\ z.open /\ z.waited = FALSE /\ z.todo = txn[s].todo /\ z.holds = txn[s].holds
      /\ z.writes = txn[s].writes /\ z.pinned = txn[s].pinned
  BY <1>2, <1>3 DEF Txn
<1>5. txn' = [txn EXCEPT ![s] = z]
  BY <1>2, <1>3
<1> HIDE DEF z
<1>6. /\ txn' \in [Server -> Txn \cup {NoTxn}] /\ txn'[s] = z
      /\ \A t \in Server \ {s} : txn'[t] = txn[t]
  BY <1>3, <1>4, <1>5, OneUpdated
<1>7. /\ mem' \in [Server -> Rows] /\ \A t \in Server \ {s} : mem'[t] = mem[t]
      /\ SoundRows(mem'[s]) /\ Retains(s)
  BY <1>1, <1>2, RetainedFacts
<1>8. /\ act' \in [Server -> Act \cup {Idle}] /\ act'[s].pc \in {"idle", "collect"}
      /\ \A t \in Server \ {s} : act'[t] = act[t]
  BY <1>1, <1>2, FailedFacts DEF Local
<1>9. act[s].pc = "releasing" /\ reading[s].pc # "again"
  BY <1>1, <1>2 DEF Local, Coupled
<1>10. Coupled(s)'
  BY <1>1, <1>2, <1>4, <1>6, <1>8, <1>9 DEF Local, Coupled
<1>11. HoldsWhatItPins(s)'
  <2>1. AskedFor(txn[s])' = AskedFor(txn[s]) /\ Unassigned' = Unassigned
    BY <1>4, <1>6 DEF AskedFor, Unassigned, Blank
  <2>2. \A row : InDb(row) => InDb(row)'
    BY <1>2 DEF InDb
  <2>3. /\ \A row \in ToSet(txn[s].holds) : InDb(row)
        /\ \A c \in Configuration : txn[s].pinned[c] # {} => c \in AskedFor(txn[s])
        /\ \A a \in DOMAIN txn[s].writes : txn[s].writes[a] # Unassigned =>
              /\ txn[s].writes[a].deployment \in AskedFor(txn[s])
              /\ txn[s].writes[a].package \in AskedFor(txn[s]) \cup {None}
              /\ \A c \in Configuration : txn[s].writes[a].configurations[c] # 0 =>
                    txn[s].writes[a].configurations[c] \in txn[s].pinned[c]
    BY <1>1, <1>2 DEF HoldsWhatItPins, Local
  <2>4. /\ txn'[s].holds = txn[s].holds /\ txn'[s].pinned = txn[s].pinned
        /\ txn'[s].writes = txn[s].writes /\ ~txn'[s].waited
    BY <1>4, <1>6
  <2> QED
    BY <2>1, <2>2, <2>3, <2>4 DEF HoldsWhatItPins
<1> QED
  BY <1>1, <1>2, <1>6, <1>7, <1>8, <1>10, <1>11, ReleaseStep


-------------------------------------------------------------------------------
(* Rows that are written                                                   *)

LEMMA PackageRow ==
  ASSUME NEW r \in Rows, NEW p \in Package, NEW k \in Artifact
  PROVE  LET q == [r EXCEPT !.packages[p] = k]
         IN  /\ q \in Rows /\ q.saved = r.saved /\ q.retained = r.retained
             /\ q.deployments = r.deployments /\ q.packages = [r.packages EXCEPT ![p] = k]
             /\ q.packages[p] = k /\ \A o \in Package \ {p} : q.packages[o] = r.packages[o]
             /\ SoundRows(r) /\ (k.signed => k.bytes # 0) /\ (k.bytes # 0 => k.stored) => SoundRows(q)
<1> DEFINE f == [r.packages EXCEPT ![p] = k]
           q == [r EXCEPT !.packages = f]
<1>1. r.packages \in [Package -> Artifact]
  BY RowsFields
<1>2. f \in [Package -> Artifact] /\ f[p] = k /\ \A o \in Package \ {p} : f[o] = r.packages[o]
  BY <1>1
<1>3. q = [r EXCEPT !.packages[p] = k]
  BY DEF Rows
<1> HIDE DEF f
<1>4. /\ q \in Rows /\ q.saved = r.saved /\ q.retained = r.retained
      /\ q.deployments = r.deployments /\ q.packages = f
  BY <1>2 DEF Rows
<1> HIDE DEF q
<1>5. SoundRows(r) /\ (k.signed => k.bytes # 0) /\ (k.bytes # 0 => k.stored) => SoundRows(q)
  <2> SUFFICES ASSUME SoundRows(r), k.signed => k.bytes # 0, k.bytes # 0 => k.stored
               PROVE  SoundRows(q)
    OBVIOUS
  <2>1. ASSUME NEW o \in Package
        PROVE  /\ f[o].signed => f[o].bytes # 0
               /\ f[o].bytes # 0 => f[o].stored
    BY <1>2 DEF SoundRows
  <2> QED
    BY <1>4, <2>1 DEF SoundRows
<1> QED
  BY <1>2, <1>3, <1>4, <1>5 DEF f

LEMMA DeploymentRow ==
  ASSUME NEW r \in Rows, NEW d \in Deployment, NEW k \in Member
  PROVE  LET q == [r EXCEPT !.deployments[d] = k]
         IN  /\ q \in Rows /\ q.saved = r.saved /\ q.retained = r.retained
             /\ q.packages = r.packages /\ q.deployments = [r.deployments EXCEPT ![d] = k]
             /\ q.deployments[d] = k /\ \A o \in Deployment \ {d} : q.deployments[o] = r.deployments[o]
             /\ SoundRows(r) /\ (~k.stored => k = NoDeployment) => SoundRows(q)
<1> DEFINE f == [r.deployments EXCEPT ![d] = k]
           q == [r EXCEPT !.deployments = f]
<1>1. r.deployments \in [Deployment -> Member]
  BY RowsFields
<1>2. f \in [Deployment -> Member] /\ f[d] = k /\ \A o \in Deployment \ {d} : f[o] = r.deployments[o]
  BY <1>1
<1>3. q = [r EXCEPT !.deployments[d] = k]
  BY DEF Rows
<1> HIDE DEF f
<1>4. /\ q \in Rows /\ q.saved = r.saved /\ q.retained = r.retained
      /\ q.packages = r.packages /\ q.deployments = f
  BY <1>2 DEF Rows
<1> HIDE DEF q
<1>5. SoundRows(r) /\ (~k.stored => k = NoDeployment) => SoundRows(q)
  <2> SUFFICES ASSUME SoundRows(r), ~k.stored => k = NoDeployment
               PROVE  SoundRows(q)
    OBVIOUS
  <2>1. ASSUME NEW o \in Deployment
        PROVE  ~f[o].stored => f[o] = NoDeployment
    BY <1>2 DEF SoundRows
  <2> QED
    BY <1>4, <2>1 DEF SoundRows
<1> QED
  BY <1>2, <1>3, <1>4, <1>5 DEF f

LEMMA SavedRow ==
  ASSUME NEW r \in Rows, NEW c \in Configuration, NEW n \in Revision
  PROVE  LET q == [r EXCEPT !.saved[c] = n]
         IN  /\ q \in Rows /\ q.retained = r.retained
             /\ q.packages = r.packages /\ q.deployments = r.deployments
             /\ q.saved = [r.saved EXCEPT ![c] = n]
             /\ q.saved[c] = n /\ \A o \in Configuration \ {c} : q.saved[o] = r.saved[o]
             /\ SoundRows(r) => SoundRows(q)
<1> DEFINE f == [r.saved EXCEPT ![c] = n]
           q == [r EXCEPT !.saved = f]
<1>1. r.saved \in [Configuration -> Revision \cup {0}]
  BY RowsFields
<1>2. /\ f \in [Configuration -> Revision \cup {0}] /\ f[c] = n
      /\ \A o \in Configuration \ {c} : f[o] = r.saved[o]
  BY <1>1
<1>3. q = [r EXCEPT !.saved[c] = n]
  BY DEF Rows
<1> HIDE DEF f
<1>4. /\ q \in Rows /\ q.saved = f /\ q.retained = r.retained
      /\ q.packages = r.packages /\ q.deployments = r.deployments
  BY <1>2 DEF Rows
<1> HIDE DEF q
<1>5. ASSUME SoundRows(r) PROVE SoundRows(q)
  <2>1. \A o \in Configuration : f[o] = 0 => o # c /\ r.saved[o] = 0
    BY <1>2, Constants
  <2> QED
    BY <1>4, <1>5, <2>1 DEF SoundRows
<1> QED
  BY <1>2, <1>3, <1>4, <1>5 DEF f

LEMMA DeletedRow ==
  ASSUME NEW r \in Rows, NEW c \in Configuration
  PROVE  LET q == [r EXCEPT !.saved[c] = 0, !.retained[c] = {}]
         IN  /\ q \in Rows /\ q.packages = r.packages /\ q.deployments = r.deployments
             /\ q.saved = [r.saved EXCEPT ![c] = 0] /\ q.retained = [r.retained EXCEPT ![c] = {}]
             /\ q.saved[c] = 0 /\ q.retained[c] = {}
             /\ \A o \in Configuration \ {c} : q.saved[o] = r.saved[o] /\ q.retained[o] = r.retained[o]
             /\ SoundRows(r) => SoundRows(q)
<1> DEFINE f == [r.saved EXCEPT ![c] = 0]
           g == [r.retained EXCEPT ![c] = {}]
           y == [r EXCEPT !.saved = f]
           q == [y EXCEPT !.retained = g]
<1>1. r.saved \in [Configuration -> Revision \cup {0}] /\ r.retained \in [Configuration -> SUBSET Revision]
  BY RowsFields
<1>2. /\ f \in [Configuration -> Revision \cup {0}] /\ f[c] = 0
      /\ g \in [Configuration -> SUBSET Revision] /\ g[c] = {}
      /\ \A o \in Configuration \ {c} : f[o] = r.saved[o] /\ g[o] = r.retained[o]
  BY <1>1
<1>3. q = [r EXCEPT !.saved[c] = 0, !.retained[c] = {}]
  BY DEF Rows
<1> HIDE DEF f, g
<1>4. /\ y \in Rows /\ y.saved = f /\ y.retained = r.retained
      /\ y.packages = r.packages /\ y.deployments = r.deployments
  BY <1>2 DEF Rows
<1> HIDE DEF y
<1>5. /\ q \in Rows /\ q.saved = y.saved /\ q.retained = g
      /\ q.packages = y.packages /\ q.deployments = y.deployments
  BY <1>2, <1>4 DEF Rows
<1> HIDE DEF q
<1>6. ASSUME SoundRows(r) PROVE SoundRows(q)
  <2>1. \A o \in Configuration : f[o] = 0 => g[o] = {}
    BY <1>2, <1>6 DEF SoundRows
  <2> QED
    BY <1>4, <1>5, <1>6, <2>1 DEF SoundRows
<1> QED
  BY <1>2, <1>3, <1>4, <1>5, <1>6 DEF f, g, y

LEMMA RetainedRow ==
  ASSUME NEW r \in Rows, NEW c \in Configuration, NEW n \in SUBSET Revision
  PROVE  LET q == [r EXCEPT !.retained[c] = n]
         IN  /\ q \in Rows /\ q.saved = r.saved
             /\ q.packages = r.packages /\ q.deployments = r.deployments
             /\ q.retained = [r.retained EXCEPT ![c] = n]
             /\ q.retained[c] = n /\ \A o \in Configuration \ {c} : q.retained[o] = r.retained[o]
             /\ SoundRows(r) /\ (r.saved[c] = 0 => n = {}) => SoundRows(q)
<1> DEFINE f == [r.retained EXCEPT ![c] = n]
           q == [r EXCEPT !.retained = f]
<1>1. r.retained \in [Configuration -> SUBSET Revision]
  BY RowsFields
<1>2. /\ f \in [Configuration -> SUBSET Revision] /\ f[c] = n
      /\ \A o \in Configuration \ {c} : f[o] = r.retained[o]
  BY <1>1
<1>3. q = [r EXCEPT !.retained[c] = n]
  BY DEF Rows
<1> HIDE DEF f
<1>4. /\ q \in Rows /\ q.saved = r.saved /\ q.retained = f
      /\ q.packages = r.packages /\ q.deployments = r.deployments
  BY <1>2 DEF Rows
<1> HIDE DEF q
<1>5. ASSUME SoundRows(r), r.saved[c] = 0 => n = {} PROVE SoundRows(q)
  <2>1. \A o \in Configuration : r.saved[o] = 0 => f[o] = {}
    BY <1>2, <1>5 DEF SoundRows
  <2> QED
    BY <1>4, <1>5, <2>1 DEF SoundRows
<1> QED
  BY <1>2, <1>3, <1>4, <1>5 DEF f


-------------------------------------------------------------------------------
(* An edit that commits                                                    *)

(* Rows that differ in one kind only, and a copy that has a kind of them.  *)
Only(r, q, kind) ==
  /\ kind # "configurations" => q.saved = r.saved /\ q.retained = r.retained
  /\ kind # "deployments" => q.deployments = r.deployments
  /\ kind # "packages" => q.packages = r.packages

Current(m, r, kind) ==
  /\ kind = "configurations" =>
        m.saved = r.saved /\ \A c \in Configuration : r.retained[c] \subseteq m.retained[c]
  /\ kind = "deployments" => m.deployments = r.deployments
  /\ kind = "packages" => m.packages = r.packages

(* The act ends, or goes on to one that is no release.                     *)
ActMoves(s) ==
  /\ act' \in [Server -> Act \cup {Idle}] /\ \A t \in Server \ {s} : act'[t] = act[t]
  /\ act[s].pc # "releasing" /\ act'[s].pc \notin {"releasing", "reading", "pressed"}
  /\ reading[s].pc = "again" => act'[s].pc \in {"idle", "packaging"}

(* Every row a release holds is still there.                               *)
RowsStay ==
  \A t \in Server : txn[t].open => \A row \in ToSet(txn[t].holds) : InDb(row) => InDb(row)'

LEMMA ActUnmoved ==
  ASSUME CatalogueTypeOK, NEW s \in Server, act[s] = Idle, act' = act
  PROVE  ActMoves(s)
  BY Typed, ActsMade DEF ActMoves

LEMMA ActOver ==
  ASSUME CatalogueTypeOK, NEW s \in Server, act[s].pc # "releasing", act' = [act EXCEPT ![s] = Idle]
  PROVE  ActMoves(s)
<1>1. act \in [Server -> Act \cup {Idle}] /\ Idle \in Act \cup {Idle} /\ Idle.pc = "idle"
  BY Typed, ActsMade
<1>2. /\ act' \in [Server -> Act \cup {Idle}] /\ act'[s] = Idle
      /\ \A t \in Server \ {s} : act'[t] = act[t]
  BY <1>1, OneUpdated
<1> QED
  BY <1>1, <1>2 DEF ActMoves

LEMMA AnnounceFacts ==
  ASSUME CatalogueTypeOK, NEW s \in Server, NEW W \in SUBSET Everything, Announce(s, W)
  PROVE  /\ heard' \in [Server -> SUBSET Everything] /\ heard'[s] = heard[s]
         /\ \A t \in Server : heard[t] \subseteq heard'[t]
         /\ \A t \in Server \ {s} : listening[t] => W \subseteq heard'[t]
<1>1. heard \in [Server -> SUBSET Everything]
  BY Typed
<1> QED
  BY <1>1 DEF Announce

LEMMA KindsHeard == Kinds \subseteq Everything /\ Agent \subseteq Everything
  BY DEF Everything

LEMMA WriteStep ==
  ASSUME CatalogueInv, PinsResolve, NEW s \in Server, NEW rows \in Rows, NEW known \in Rows,
         NEW said \in Kinds, NEW W \in SUBSET Everything, rows # db => said \in W,
         NEW lost \in BOOLEAN, db' = rows,
         mem' = IF lost THEN mem ELSE [mem EXCEPT ![s] = known],
         doubt' = IF lost THEN doubt \cup {s} ELSE doubt, Announce(s, W),
         assigned' = assigned, txn' = txn, held' = held, pins' = pins, reads' = reads,
         reading' = reading, listening' = listening, last' = last, passed' = passed,
         SoundRows(rows), SoundRows(known), Only(db, rows, said), Only(mem[s], known, said),
         Current(mem[s], db, said) => Current(known, rows, said),
         ActMoves(s), RowsStay, PinsResolve', BytesStay
  PROVE  Preserved
<1>1. /\ CatalogueTypeOK /\ SoundRows(db)
      /\ \A t \in Server : SoundRows(mem[t]) /\ Local(t)
  BY InvParts
<1>4. /\ heard' \in [Server -> SUBSET Everything] /\ heard'[s] = heard[s]
      /\ \A t \in Server : heard[t] \subseteq heard'[t]
      /\ \A t \in Server \ {s} : listening[t] => W \subseteq heard'[t]
  BY <1>1, AnnounceFacts
<1>5. mem \in [Server -> Rows] /\ doubt \subseteq Server
  BY <1>1, Typed
<1>6. /\ mem' \in [Server -> Rows] /\ mem'[s] = (IF lost THEN mem[s] ELSE known)
      /\ \A t \in Server \ {s} : mem'[t] = mem[t]
  BY <1>5, OneUpdated
<1>7. doubt' \subseteq Server /\ doubt \subseteq doubt' /\ (lost => s \in doubt')
  BY <1>5
<1>8. CatalogueTypeOK'
  BY <1>1, <1>4, <1>6, <1>7, Typed, TypedNext DEF ActMoves
<1>9. ASSUME NEW t \in Server PROVE SoundRows(mem'[t]) /\ Local(t)'
  <2>1. CASE t # s
    <3>1. Steady(t)
      BY <1>6, <1>7, <2>1 DEF Steady, ActMoves
    <3>2. listening[t] => Told(t)
      <4> SUFFICES ASSUME listening[t] PROVE Told(t)
        OBVIOUS
      <4>1. rows = db \/ said \in heard'[t]
        BY <1>4, <2>1
      <4> QED
        BY <1>4, <4>1 DEF Told, Only
    <3>3. Local(t)'
      BY <1>1, <1>8, <3>1, <3>2, BystanderKeeps DEF RowsStay
    <3> QED
      BY <1>1, <1>6, <2>1, <3>3
  <2>2. CASE t = s
    <3>1. SoundRows(mem'[s])
      BY <1>1, <1>6
    <3>2. Coupled(s)'
      BY <1>1 DEF Local, Coupled, ActMoves
    <3>3. HoldsWhatItPins(s)'
      <4>1. ~(txn[s].open /\ txn[s].waited)
        BY <1>1 DEF Local, Coupled, ActMoves
      <4> QED
        BY <1>1, <4>1, HoldsStays DEF Local, RowsStay
    <3>4. pins[s].commits \in Nat
      BY <1>1, Typed, PinsFields
    <3>5. ReadsKnowCommits(s)'
      BY <1>1, <1>8, <3>4, ReadsStay DEF Local
    <3>6. OwnPins(s)'
      BY <1>1, OwnStays DEF Local
    <3>7. BehindIsDue(s)'
      <4> SUFFICES ASSUME listening[s], s \notin doubt' PROVE BehindIsDue(s)'
        BY DEF BehindIsDue
      <4>1. ~lost /\ s \notin doubt /\ BehindIsDue(s) /\ mem'[s] = known
        BY <1>1, <1>6, <1>7 DEF Local
      <4>2. /\ Held(s)' = Held(s) /\ Awaited(s)' = Awaited(s)
            /\ \A a : AgentDue(s, a)' <=> AgentDue(s, a)
            /\ \A a : Fresh(s, a)' <=> Fresh(s, a)
        BY <1>4 DEF Held, Forgotten, Blank, Awaited, AgentDue, Fresh
      <4>3. /\ "configurations" \notin Awaited(s) =>
                 /\ known.saved = rows.saved
                 /\ \A c \in Configuration : rows.retained[c] \subseteq known.retained[c]
            /\ "deployments" \notin Awaited(s) => known.deployments = rows.deployments
            /\ "packages" \notin Awaited(s) => known.packages = rows.packages
        BY <4>1 DEF BehindIsDue, Only, Current, Kinds
      <4>4. heard'[s] = heard[s]
        BY <1>4
      <4> QED
        BY <4>1, <4>2, <4>3, <4>4 DEF BehindIsDue
    <3> QED
      BY <2>2, <3>1, <3>2, <3>3, <3>5, <3>6, <3>7 DEF Local
  <2> QED
    BY <2>1, <2>2
<1>10. CatalogueInv'
  BY <1>8, <1>9, Assembled
<1> QED
  BY <1>10 DEF Preserved

LEMMA CommitStep ==
  ASSUME CatalogueInv, PinsResolve, NEW s \in Server, NEW rows \in Rows, NEW known \in Rows,
         NEW what, NEW said \in Kinds, Commit(s, what, rows, known, said),
         SoundRows(rows), SoundRows(known), Only(db, rows, said), Only(mem[s], known, said),
         Current(mem[s], db, said) => Current(known, rows, said),
         ActMoves(s), RowsStay, PinsResolve', BytesStay
  PROVE  Preserved
<1> DEFINE W == IF rows = db THEN {} ELSE {said}
<1>1. PICK lost \in BOOLEAN :
        /\ db' = rows /\ mem' = IF lost THEN mem ELSE [mem EXCEPT ![s] = known]
        /\ doubt' = IF lost THEN doubt \cup {s} ELSE doubt
        /\ Announce(s, W)
        /\ assigned' = assigned /\ txn' = txn /\ held' = held /\ pins' = pins /\ reads' = reads
        /\ reading' = reading /\ listening' = listening /\ last' = last /\ passed' = passed
  BY DEF Commit
<1>2. W \in SUBSET Everything /\ (rows # db => said \in W)
  BY KindsHeard
<1> HIDE DEF W
<1> QED
  BY <1>1, <1>2, WriteStep

(* A row held is one of a table, and of no other.                          *)
LEMMA HeldRows ==
  ASSUME CatalogueTypeOK, NEW t \in Server, txn[t].open
  PROVE  ToSet(txn[t].holds) \subseteq Row
  BY Typed, TxnFields, SetOfSeq

LEMMA SaveKeeps ==
  ASSUME CatalogueInv, PinsResolve, NEW s \in Server, NEW c \in Configuration, NEW r \in Revision,
         Save(s, c, r)
  PROVE  Preserved
<1>1. CatalogueTypeOK /\ SoundRows(db) /\ SoundRows(mem[s]) /\ db \in Rows /\ mem[s] \in Rows
  BY InvParts, Typed
<1> DEFINE rows == [db EXCEPT !.saved[c] = r]
           known == [mem[s] EXCEPT !.saved[c] = r]
<1>2. act[s] = Idle /\ act' = act /\ Commit(s, "edits", rows, known, "configurations")
  BY DEF Save
<1>3. /\ rows \in Rows /\ rows.retained = db.retained
      /\ rows.packages = db.packages /\ rows.deployments = db.deployments
      /\ rows.saved = [db.saved EXCEPT ![c] = r]
      /\ rows.saved[c] = r /\ \A o \in Configuration \ {c} : rows.saved[o] = db.saved[o]
      /\ SoundRows(rows)
  BY <1>1, SavedRow
<1>4. /\ known \in Rows /\ known.retained = mem[s].retained
      /\ known.packages = mem[s].packages /\ known.deployments = mem[s].deployments
      /\ known.saved = [mem[s].saved EXCEPT ![c] = r] /\ SoundRows(known)
  BY <1>1, SavedRow
<1> HIDE DEF rows, known
<1>5. db' = rows /\ assigned' = assigned /\ txn' = txn
  BY <1>2 DEF Commit
<1>6. Only(db, rows, "configurations") /\ Only(mem[s], known, "configurations")
  BY <1>3, <1>4 DEF Only
<1>7. Current(mem[s], db, "configurations") => Current(known, rows, "configurations")
  BY <1>3, <1>4 DEF Current
<1>8. RowsStay
  BY <1>3, <1>5, Constants DEF RowsStay, InDb
<1>9. PinsResolve' /\ BytesStay
  BY <1>3, <1>5 DEF PinsResolve, BytesStay
<1>10. ActMoves(s)
  BY <1>1, <1>2, ActUnmoved
<1>11. "configurations" \in Kinds
  BY DEF Kinds
<1> QED
  BY <1>2, <1>3, <1>4, <1>6, <1>7, <1>8, <1>9, <1>10, <1>11, CommitStep

(* A Deployment's row is written.                                          *)
LEMMA DeploymentStep ==
  ASSUME CatalogueInv, PinsResolve, NEW s \in Server, NEW d \in Deployment, NEW k \in Member,
         NEW what, Commit(s, what, [db EXCEPT !.deployments[d] = k],
                          [mem[s] EXCEPT !.deployments[d] = k], "deployments"),
         ActMoves(s),
         \/ k.stored
         \/ k = NoDeployment /\ Unheld(d) /\ \A a \in Agent : assigned[a].deployment # d
  PROVE  Preserved
<1>1. CatalogueTypeOK /\ SoundRows(db) /\ SoundRows(mem[s]) /\ db \in Rows /\ mem[s] \in Rows
  BY InvParts, Typed
<1> DEFINE rows == [db EXCEPT !.deployments[d] = k]
           known == [mem[s] EXCEPT !.deployments[d] = k]
<1>2. Commit(s, what, rows, known, "deployments") /\ (~k.stored => k = NoDeployment)
  OBVIOUS
<1>3. /\ rows \in Rows /\ rows.retained = db.retained
      /\ rows.packages = db.packages /\ rows.saved = db.saved
      /\ rows.deployments = [db.deployments EXCEPT ![d] = k]
      /\ rows.deployments[d] = k /\ \A o \in Deployment \ {d} : rows.deployments[o] = db.deployments[o]
      /\ SoundRows(rows)
  BY <1>1, <1>2, DeploymentRow
<1>4. /\ known \in Rows /\ known.retained = mem[s].retained
      /\ known.packages = mem[s].packages /\ known.saved = mem[s].saved
      /\ known.deployments = [mem[s].deployments EXCEPT ![d] = k] /\ SoundRows(known)
  BY <1>1, <1>2, DeploymentRow
<1> HIDE DEF rows, known
<1>5. db' = rows /\ assigned' = assigned /\ txn' = txn
  BY <1>2 DEF Commit
<1>6. Only(db, rows, "deployments") /\ Only(mem[s], known, "deployments")
  BY <1>3, <1>4 DEF Only
<1>7. Current(mem[s], db, "deployments") => Current(known, rows, "deployments")
  BY <1>3, <1>4 DEF Current
<1>8. RowsStay
  <2> SUFFICES ASSUME NEW t \in Server, txn[t].open, NEW row \in ToSet(txn[t].holds), InDb(row)
               PROVE  InDb(row)'
    BY DEF RowsStay
  <2>1. CASE row = d
    <3>1. ~Unheld(d)
      BY <2>1 DEF Unheld
    <3>2. rows.deployments[d].stored
      BY <1>3, <3>1
    <3> QED
      BY <1>5, <2>1, <3>2 DEF InDb
  <2>2. CASE row # d
    BY <1>3, <1>5, <2>2 DEF InDb
  <2> QED
    BY <2>1, <2>2
<1>9. PinsResolve'
  <2> SUFFICES ASSUME NEW a \in Agent, assigned[a].deployment \in Deployment
               PROVE  rows.deployments[assigned[a].deployment].stored
    BY <1>3, <1>5 DEF PinsResolve
  <2>1. CASE assigned[a].deployment = d
    BY <1>3, <2>1
  <2>2. CASE assigned[a].deployment # d
    BY <1>3, <2>2 DEF PinsResolve
  <2> QED
    BY <2>1, <2>2
<1>10. BytesStay
  BY <1>3, <1>5 DEF BytesStay
<1>11. "deployments" \in Kinds
  BY DEF Kinds
<1> QED
  BY <1>2, <1>3, <1>4, <1>6, <1>7, <1>8, <1>9, <1>10, <1>11, CommitStep

LEMMA StoredMember ==
  ASSUME CatalogueTypeOK, NEW d \in Deployment
  PROVE  LET row == db.deployments[d]
         IN  /\ row \in Member
             /\ [row EXCEPT !.stored = TRUE] \in Member /\ [row EXCEPT !.stored = TRUE].stored
             /\ row.stored =>
                  /\ \A N \in SUBSET Configuration : /\ [row EXCEPT !.configurations = N] \in Member
                                                     /\ [row EXCEPT !.configurations = N].stored
                  /\ \A p \in Package \cup {None} : /\ [row EXCEPT !.package = p] \in Member
                                                    /\ [row EXCEPT !.package = p].stored
<1> DEFINE row == db.deployments[d]
<1>1. row \in Member
  BY Typed, RowsFields
<1> HIDE DEF row
<1>2. /\ [row EXCEPT !.stored = TRUE] \in Member /\ [row EXCEPT !.stored = TRUE].stored
  BY <1>1 DEF Member
<1>3. ASSUME row.stored, NEW N \in SUBSET Configuration
      PROVE  [row EXCEPT !.configurations = N] \in Member /\ [row EXCEPT !.configurations = N].stored
  BY <1>1, <1>3 DEF Member
<1>4. ASSUME row.stored, NEW p \in Package \cup {None}
      PROVE  [row EXCEPT !.package = p] \in Member /\ [row EXCEPT !.package = p].stored
  BY <1>1, <1>4 DEF Member
<1> QED
  BY <1>1, <1>2, <1>3, <1>4 DEF row

LEMMA PutDeploymentKeeps ==
  ASSUME CatalogueInv, PinsResolve, NEW s \in Server, NEW d \in Deployment, PutDeployment(s, d)
  PROVE  Preserved
<1>1. CatalogueTypeOK
  BY InvParts
<1> DEFINE k == [db.deployments[d] EXCEPT !.stored = TRUE]
<1>2. k \in Member /\ k.stored
  BY <1>1, StoredMember
<1>3. /\ act[s] = Idle /\ act' = act
      /\ Commit(s, "edits", [db EXCEPT !.deployments[d] = k],
                [mem[s] EXCEPT !.deployments[d] = k], "deployments")
  BY DEF PutDeployment, Amend
<1> HIDE DEF k
<1>4. ActMoves(s)
  BY <1>1, <1>3, ActUnmoved
<1> QED
  BY <1>2, <1>3, <1>4, DeploymentStep

LEMMA PutConfigurationKeeps ==
  ASSUME CatalogueInv, PinsResolve, NEW s \in Server, PutConfiguration(s)
  PROVE  Preserved
<1>1. CatalogueTypeOK
  BY InvParts
<1> DEFINE d == act[s].on
           N == db.deployments[d].configurations \cup {act[s].what}
           k == [db.deployments[d] EXCEPT !.configurations = N]
<1>2. /\ act[s].pc = "putting" /\ db.deployments[d].stored /\ act' = [act EXCEPT ![s] = Idle]
      /\ Commit(s, "edits", [db EXCEPT !.deployments[d] = k],
                [mem[s] EXCEPT !.deployments[d] = k], "deployments")
  BY DEF PutConfiguration, Amend
<1>3. d \in Deployment /\ act[s].what \in Configuration
  BY <1>1, <1>2, Typed, ActFields
<1> HIDE DEF d
<1>4. N \in SUBSET Configuration
  <2>1. db.deployments[d] \in Member
    BY <1>1, <1>3, StoredMember
  <2> QED
    BY <1>3, <2>1, MemberFields
<1>5. k \in Member /\ k.stored
  <2> HIDE DEF N
  <2> QED
    BY <1>1, <1>2, <1>3, <1>4, StoredMember
<1> HIDE DEF k
<1>6. ActMoves(s)
  BY <1>1, <1>2, ActOver
<1> QED
  BY <1>2, <1>3, <1>5, <1>6, DeploymentStep

LEMMA ChangeMembersKeeps ==
  ASSUME CatalogueInv, PinsResolve, NEW s \in Server, NEW d \in Deployment, ChangeMembers(s, d)
  PROVE  Preserved
<1>1. CatalogueTypeOK
  BY InvParts
<1> DEFINE row == db.deployments[d]
<1>2. act[s] = Idle /\ act' = act /\ row.stored
  BY DEF ChangeMembers
<1>3. row.configurations \subseteq Configuration /\ row \in Member
  <2>1. row \in Member
    BY <1>1, StoredMember
  <2> QED
    BY <2>1, MemberFields
<1>4. PICK k \in Member : k.stored /\ Amend(s, d, k)
  <2>1. CASE \E c \in row.configurations : Amend(s, d, [row EXCEPT !.configurations = @ \ {c}])
    <3>1. PICK c \in row.configurations : Amend(s, d, [row EXCEPT !.configurations = @ \ {c}])
      BY <2>1
    <3>2. row.configurations \ {c} \in SUBSET Configuration
      BY <1>3
    <3> DEFINE N == row.configurations \ {c}
               k == [row EXCEPT !.configurations = N]
    <3>3. Amend(s, d, k)
      BY <3>1
    <3> HIDE DEF N
    <3>4. k \in Member /\ k.stored
      BY <1>1, <1>2, <3>2, StoredMember DEF N
    <3> HIDE DEF k
    <3> QED
      BY <3>3, <3>4
  <2>2. CASE \E p \in Package : Amend(s, d, [row EXCEPT !.package = p])
    <3>1. PICK p \in Package : Amend(s, d, [row EXCEPT !.package = p])
      BY <2>2
    <3>2. [row EXCEPT !.package = p] \in Member /\ [row EXCEPT !.package = p].stored
      BY <1>1, <1>2, StoredMember
    <3> QED
      BY <3>1, <3>2
  <2>3. CASE Amend(s, d, [row EXCEPT !.package = None])
    <3>1. [row EXCEPT !.package = None] \in Member /\ [row EXCEPT !.package = None].stored
      BY <1>1, <1>2, StoredMember
    <3> QED
      BY <2>3, <3>1
  <2> QED
    BY <2>1, <2>2, <2>3 DEF ChangeMembers
<1>5. Commit(s, "edits", [db EXCEPT !.deployments[d] = k],
             [mem[s] EXCEPT !.deployments[d] = k], "deployments")
  BY <1>4 DEF Amend
<1>6. ActMoves(s)
  BY <1>1, <1>2, ActUnmoved
<1> QED
  BY <1>4, <1>5, <1>6, DeploymentStep

LEMMA DeleteDeploymentKeeps ==
  ASSUME CatalogueInv, PinsResolve, NEW s \in Server, NEW d \in Deployment, DeleteDeployment(s, d)
  PROVE  Preserved
<1>1. CatalogueTypeOK
  BY InvParts
<1>2. /\ act[s] = Idle /\ act' = act /\ RemovableDeployment(d)
      /\ Commit(s, "deletes", [db EXCEPT !.deployments[d] = NoDeployment],
                [mem[s] EXCEPT !.deployments[d] = NoDeployment], "deployments")
  BY DEF DeleteDeployment
<1>3. Unheld(d) /\ \A a \in Agent : assigned[a].deployment # d
  BY <1>2 DEF RemovableDeployment, PinsDeployment, PinsResolve
<1>4. ActMoves(s)
  BY <1>1, <1>2, ActUnmoved
<1> QED
  BY <1>2, <1>3, <1>4, EmptyRows, DeploymentStep


LEMMA ActDropping ==
  ASSUME CatalogueTypeOK, NEW s \in Server, act[s] = Idle, reading[s].pc # "again",
         NEW x \in Configuration \cup Package,
         act' = [act EXCEPT ![s] = [pc |-> "dropping", what |-> x]]
  PROVE  ActMoves(s)
<1> DEFINE v == [pc |-> "dropping", what |-> x]
<1>1. act \in [Server -> Act \cup {Idle}] /\ v \in Act /\ v.pc = "dropping" /\ Idle.pc = "idle"
  BY Typed, ActsMade
<1> HIDE DEF v
<1>2. /\ act' \in [Server -> Act \cup {Idle}] /\ act'[s] = v
      /\ \A t \in Server \ {s} : act'[t] = act[t]
  BY <1>1, OneUpdated DEF v
<1> QED
  BY <1>1, <1>2 DEF ActMoves

(* What may be removed is assigned to nobody.                              *)
LEMMA NobodyPinsConfiguration ==
  ASSUME CatalogueInv, PinsResolve, NEW c \in Configuration, RemovableConfiguration(c)
  PROVE  \A a \in Agent : assigned[a].configurations[c] = 0
<1>1. CatalogueTypeOK /\ SoundRows(db)
  BY InvParts
<1> SUFFICES ASSUME NEW a \in Agent, assigned[a].configurations[c] # 0 PROVE FALSE
  OBVIOUS
<1>2. assigned[a].deployment \in Deployment
  BY <1>1, Typed, ReleasedFacts
<1>3. db.retained[c] # {}
  BY <1>2 DEF PinsResolve
<1>4. db.saved[c] # 0
  BY <1>1, <1>3 DEF SoundRows
<1> QED
  BY <1>4 DEF RemovableConfiguration, PinsConfiguration

LEMMA NobodyPinsPackage ==
  ASSUME CatalogueInv, PinsResolve, NEW p \in Package, ~Unassignable(p)
  PROVE  \A a \in Agent : assigned[a].package # p
<1>1. CatalogueTypeOK
  BY InvParts
<1> SUFFICES ASSUME NEW a \in Agent, assigned[a].package = p PROVE FALSE
  OBVIOUS
<1>2. assigned[a].deployment \in Deployment
  BY <1>1, Typed, ReleasedFacts, Constants
<1>3. db.packages[p].stored
  BY <1>2, Constants DEF PinsResolve
<1> QED
  BY <1>3 DEF Unassignable, PinsPackage

LEMMA DeleteConfigurationKeeps ==
  ASSUME CatalogueInv, PinsResolve, NEW s \in Server, NEW c \in Configuration,
         DeleteConfiguration(s, c)
  PROVE  Preserved
<1>1. CatalogueTypeOK /\ SoundRows(db) /\ SoundRows(mem[s]) /\ db \in Rows /\ mem[s] \in Rows
  BY InvParts, Typed
<1> DEFINE rows == [db EXCEPT !.saved[c] = 0, !.retained[c] = {}]
           known == [mem[s] EXCEPT !.saved[c] = 0, !.retained[c] = {}]
<1>2. /\ act[s] = Idle /\ reading[s].pc # "again" /\ RemovableConfiguration(c)
      /\ Commit(s, "deletes", rows, known, "configurations")
      /\ act' = act \/ act' = [act EXCEPT ![s] = [pc |-> "dropping", what |-> c]]
  BY DEF DeleteConfiguration, FleetFree
<1>3. /\ rows \in Rows /\ rows.packages = db.packages /\ rows.deployments = db.deployments
      /\ rows.saved = [db.saved EXCEPT ![c] = 0] /\ rows.retained = [db.retained EXCEPT ![c] = {}]
      /\ rows.saved[c] = 0 /\ rows.retained[c] = {}
      /\ \A o \in Configuration \ {c} : rows.saved[o] = db.saved[o] /\ rows.retained[o] = db.retained[o]
      /\ SoundRows(rows)
  BY <1>1, DeletedRow
<1>4. /\ known \in Rows /\ known.packages = mem[s].packages
      /\ known.deployments = mem[s].deployments
      /\ known.saved = [mem[s].saved EXCEPT ![c] = 0]
      /\ \A o \in Configuration \ {c} : known.retained[o] = mem[s].retained[o]
      /\ SoundRows(known)
  <2> DEFINE m == mem[s]
             q == [m EXCEPT !.saved[c] = 0, !.retained[c] = {}]
  <2>1. m \in Rows /\ SoundRows(m)
    BY <1>1
  <2> HIDE DEF m
  <2>2. /\ q \in Rows /\ q.packages = m.packages /\ q.deployments = m.deployments
        /\ q.saved = [m.saved EXCEPT ![c] = 0] /\ q.retained = [m.retained EXCEPT ![c] = {}]
        /\ q.saved[c] = 0 /\ q.retained[c] = {}
        /\ \A o \in Configuration \ {c} : q.saved[o] = m.saved[o] /\ q.retained[o] = m.retained[o]
        /\ SoundRows(q)
    BY <2>1, DeletedRow
  <2>3. known = q
    BY DEF m
  <2> HIDE DEF q, known
  <2> QED
    BY <2>2, <2>3 DEF m
<1> HIDE DEF rows, known
<1>5. db' = rows /\ assigned' = assigned /\ txn' = txn
  BY <1>2 DEF Commit
<1>6. Only(db, rows, "configurations") /\ Only(mem[s], known, "configurations")
  BY <1>3, <1>4 DEF Only
<1>7. Current(mem[s], db, "configurations") => Current(known, rows, "configurations")
  <2> SUFFICES ASSUME Current(mem[s], db, "configurations")
               PROVE  Current(known, rows, "configurations")
    OBVIOUS
  <2>1. ASSUME NEW o \in Configuration PROVE rows.retained[o] \subseteq known.retained[o]
    <3>1. CASE o = c
      BY <1>3, <3>1
    <3>2. CASE o # c
      BY <1>3, <1>4, <3>2 DEF Current
    <3> QED
      BY <3>1, <3>2
  <2> QED
    BY <1>3, <1>4, <2>1 DEF Current
<1>8. RowsStay
  <2> SUFFICES ASSUME NEW t \in Server, txn[t].open, NEW row \in ToSet(txn[t].holds), InDb(row)
               PROVE  InDb(row)'
    BY DEF RowsStay
  <2>1. row # c
    BY <1>2 DEF RemovableConfiguration, Unheld
  <2> QED
    BY <1>3, <1>5, <2>1 DEF InDb
<1>9. PinsResolve'
  <2>1. \A a \in Agent : assigned[a].configurations[c] = 0
    BY <1>2, NobodyPinsConfiguration
  <2> SUFFICES ASSUME NEW a \in Agent, assigned[a].deployment \in Deployment,
                      NEW o \in Configuration, assigned[a].configurations[o] # 0
               PROVE  assigned[a].configurations[o] \in rows.retained[o]
    BY <1>3, <1>5 DEF PinsResolve
  <2>2. o # c
    BY <2>1
  <2> QED
    BY <1>3, <2>2 DEF PinsResolve
<1>10. BytesStay
  BY <1>3, <1>5 DEF BytesStay
<1>11. ActMoves(s)
  BY <1>1, <1>2, ActUnmoved, ActDropping
<1>12. "configurations" \in Kinds
  BY DEF Kinds
<1> QED
  BY <1>2, <1>3, <1>4, <1>6, <1>7, <1>8, <1>9, <1>10, <1>11, <1>12, CommitStep

(* A Package's row is written: nobody is assigned it, or it stays as it is *)
(* where it is stored.                                                     *)
LEMMA PackageStep ==
  ASSUME CatalogueInv, PinsResolve, NEW s \in Server, NEW p \in Package, NEW k \in Artifact,
         NEW m \in Artifact, NEW what,
         Commit(s, what, [db EXCEPT !.packages[p] = k], [mem[s] EXCEPT !.packages[p] = m], "packages"),
         ActMoves(s),
         k.signed => k.bytes # 0, k.bytes # 0 => k.stored,
         m.signed => m.bytes # 0, m.bytes # 0 => m.stored,
         mem[s].packages[p] = db.packages[p] => m = k,
         \/ Unheld(p) /\ ~Unassignable(p)
         \/ db.packages[p].stored => k = db.packages[p]
  PROVE  Preserved
<1>1. CatalogueTypeOK /\ SoundRows(db) /\ SoundRows(mem[s]) /\ db \in Rows /\ mem[s] \in Rows
  BY InvParts, Typed
<1> DEFINE rows == [db EXCEPT !.packages[p] = k]
           known == [mem[s] EXCEPT !.packages[p] = m]
<1>2. Commit(s, what, rows, known, "packages")
  OBVIOUS
<1>3. /\ rows \in Rows /\ rows.retained = db.retained
      /\ rows.deployments = db.deployments /\ rows.saved = db.saved
      /\ rows.packages = [db.packages EXCEPT ![p] = k]
      /\ rows.packages[p] = k /\ \A o \in Package \ {p} : rows.packages[o] = db.packages[o]
      /\ SoundRows(rows)
  BY <1>1, PackageRow
<1>4. /\ known \in Rows /\ known.retained = mem[s].retained
      /\ known.deployments = mem[s].deployments /\ known.saved = mem[s].saved
      /\ known.packages = [mem[s].packages EXCEPT ![p] = m] /\ SoundRows(known)
  BY <1>1, PackageRow
<1> HIDE DEF rows, known
<1>5. db' = rows /\ assigned' = assigned /\ txn' = txn
  BY <1>2 DEF Commit
<1>6. Only(db, rows, "packages") /\ Only(mem[s], known, "packages")
  BY <1>3, <1>4 DEF Only
<1>7. Current(mem[s], db, "packages") => Current(known, rows, "packages")
  BY <1>3, <1>4 DEF Current
<1>8. RowsStay
  <2> SUFFICES ASSUME NEW t \in Server, txn[t].open, NEW row \in ToSet(txn[t].holds), InDb(row)
               PROVE  InDb(row)'
    BY DEF RowsStay
  <2>1. CASE row = p
    <3>1. ~Unheld(p) /\ db.packages[p].stored
      BY <2>1, Constants DEF Unheld, InDb
    <3>2. rows.packages[p].stored
      BY <1>3, <3>1
    <3> QED
      BY <1>5, <2>1, <3>2 DEF InDb
  <2>2. CASE row # p
    BY <1>3, <1>5, <2>2 DEF InDb
  <2> QED
    BY <2>1, <2>2
<1>9. \A a \in Agent : assigned[a].package = p => db.packages[p].stored /\ k = db.packages[p]
  <2> SUFFICES ASSUME NEW a \in Agent, assigned[a].package = p
               PROVE  db.packages[p].stored /\ k = db.packages[p]
    OBVIOUS
  <2>1. Unassignable(p)
    BY NobodyPinsPackage
  <2> QED
    BY <2>1 DEF Unassignable
<1>10. PinsResolve'
  <2>1. ASSUME NEW a \in Agent, assigned[a].deployment \in Deployment, assigned[a].package # None
        PROVE  rows.packages[assigned[a].package].stored
    <3>1. assigned[a].package \in Package
      BY <1>1, <2>1, Typed, ReleasedFacts
    <3>2. db.packages[assigned[a].package].stored
      BY <2>1 DEF PinsResolve
    <3>3. CASE assigned[a].package = p
      BY <1>3, <1>9, <3>3
    <3>4. CASE assigned[a].package # p
      BY <1>3, <3>1, <3>2, <3>4
    <3> QED
      BY <3>3, <3>4
  <2> QED
    BY <1>3, <1>5, <2>1 DEF PinsResolve
<1>11. BytesStay
  <2> SUFFICES ASSUME NEW a \in Agent, NEW o \in Package, assigned[a].package = o
               PROVE  rows.packages[o] = db.packages[o]
    BY <1>5 DEF BytesStay
  <2>1. CASE o = p
    BY <1>3, <1>9, <2>1
  <2>2. CASE o # p
    BY <1>3, <2>2
  <2> QED
    BY <2>1, <2>2
<1>12. "packages" \in Kinds
  BY DEF Kinds
<1> QED
  BY <1>2, <1>3, <1>4, <1>6, <1>7, <1>8, <1>10, <1>11, <1>12, CommitStep

LEMMA DeletePackageKeeps ==
  ASSUME CatalogueInv, PinsResolve, NEW s \in Server, NEW p \in Package, DeletePackage(s, p)
  PROVE  Preserved
<1>1. CatalogueTypeOK
  BY InvParts
<1>2. /\ act[s] = Idle /\ reading[s].pc # "again" /\ Unheld(p) /\ ~Unassignable(p)
      /\ Commit(s, "deletes", [db EXCEPT !.packages[p] = NoPackage],
                [mem[s] EXCEPT !.packages[p] = NoPackage], "packages")
      /\ act' = act \/ act' = [act EXCEPT ![s] = [pc |-> "dropping", what |-> p]]
  BY DEF DeletePackage, FleetFree, Writable
<1>3. ActMoves(s)
  BY <1>1, <1>2, ActUnmoved, ActDropping
<1> QED
  BY <1>2, <1>3, EmptyRows, PackageStep

LEMMA StoredArtifact ==
  ASSUME CatalogueTypeOK, NEW r \in Rows, NEW p \in Package, SoundRows(r)
  PROVE  LET k == r.packages[p]
         IN  /\ k \in Artifact /\ k.bytes \in Bytes \cup {0} /\ k.signed \in BOOLEAN
             /\ k.signed => k.bytes # 0
             /\ k.bytes # 0 => k.stored
             /\ k = [stored |-> k.stored, bytes |-> k.bytes, signed |-> k.signed]
<1>1. r.packages[p] \in Artifact
  BY RowsFields
<1> QED
  BY <1>1, ArtifactFields DEF SoundRows

LEMMA CreatePackageKeeps ==
  ASSUME CatalogueInv, PinsResolve, NEW s \in Server, NEW p \in Package, CreatePackage(s, p)
  PROVE  Preserved
<1>1. CatalogueTypeOK /\ SoundRows(db) /\ SoundRows(mem[s]) /\ db \in Rows /\ mem[s] \in Rows
  BY InvParts, Typed
<1> DEFINE r == db.packages[p]
           k == [r EXCEPT !.stored = TRUE]
<1>2. /\ act[s] = Idle /\ act' = act /\ ~mem[s].packages[p].stored
      /\ Commit(s, "packages", [db EXCEPT !.packages[p] = k],
                [mem[s] EXCEPT !.packages[p] = EmptyPackage], "packages")
  BY DEF CreatePackage
<1>3. /\ r \in Artifact /\ r.bytes \in Bytes \cup {0} /\ r.signed \in BOOLEAN
      /\ r.signed => r.bytes # 0
      /\ r.bytes # 0 => r.stored
      /\ r = [stored |-> r.stored, bytes |-> r.bytes, signed |-> r.signed]
  BY <1>1, StoredArtifact
<1>4. ActMoves(s)
  BY <1>1, <1>2, ActUnmoved
<1>5. /\ k \in Artifact /\ k.stored = TRUE /\ k.bytes = r.bytes /\ k.signed = r.signed
      /\ r.stored => k = r
      /\ ~r.stored => k = EmptyPackage
  <2> HIDE DEF r
  <2>2. k \in Artifact
    BY <1>3 DEF Artifact
  <2>3. k.stored = TRUE /\ k.bytes = r.bytes /\ k.signed = r.signed
    BY <1>3 DEF Artifact
  <2>1. k = [stored |-> TRUE, bytes |-> r.bytes, signed |-> r.signed]
    <3> HIDE DEF k
    <3> QED
      BY <2>2, <2>3, ArtifactFields
  <2>4. ASSUME r.stored PROVE k = r
    <3>1. r.stored = TRUE
      BY <1>3, <2>4, ArtifactFields
    <3> QED
      BY <1>3, <2>1, <3>1
  <2>5. ASSUME ~r.stored PROVE k = EmptyPackage
    <3>1. r.bytes = 0 /\ r.signed = FALSE
      BY <1>3, <2>5
    <3> QED
      BY <2>1, <3>1, EmptyRows
  <2> QED
    BY <2>2, <2>3, <2>4, <2>5
<1>6. mem[s].packages[p] = db.packages[p] => EmptyPackage = k
  BY <1>2, <1>5
<1> HIDE DEF k
<1> QED
  BY <1>2, <1>3, <1>4, <1>5, <1>6, EmptyRows, PackageStep

LEMMA EntryKeeps ==
  ASSUME CatalogueInv, PinsResolve, NEW s \in Server, NEW p \in Package, NEW k \in Artifact,
         Entry(s, p, k), act[s].pc = "packaging", k.signed => k.bytes # 0, k.bytes # 0 => k.stored
  PROVE  Preserved
<1>1. CatalogueTypeOK
  BY InvParts
<1>2. /\ Unheld(p) /\ ~Unassignable(p) /\ act' = [act EXCEPT ![s] = Idle]
      /\ Commit(s, "packages", [db EXCEPT !.packages[p] = k],
                [mem[s] EXCEPT !.packages[p] = k], "packages")
  BY DEF Entry, Writable
<1>3. ActMoves(s)
  BY <1>1, <1>2, ActOver
<1> QED
  BY <1>2, <1>3, PackageStep

LEMMA UploadKeeps ==
  ASSUME CatalogueInv, PinsResolve, NEW s \in Server, NEW b \in Bytes, Upload(s, b)
  PROVE  Preserved
<1>1. CatalogueTypeOK
  BY InvParts
<1> DEFINE k == [stored |-> TRUE, bytes |-> b, signed |-> FALSE]
<1>2. act[s].pc = "packaging" /\ Entry(s, act[s].on, k)
  BY DEF Upload
<1>3. act[s].on \in Package
  BY <1>1, <1>2, Typed, ActFields
<1>4. k \in Artifact /\ k.stored = TRUE /\ k.signed = FALSE
  BY DEF Artifact
<1> HIDE DEF k
<1> QED
  BY <1>2, <1>3, <1>4, EntryKeeps

LEMMA SignKeeps ==
  ASSUME CatalogueInv, PinsResolve, NEW s \in Server, Sign(s)
  PROVE  Preserved
<1>1. CatalogueTypeOK /\ SoundRows(db) /\ db \in Rows
  BY InvParts, Typed
<1> DEFINE p == act[s].on
           r == db.packages[p]
           g == (act[s].what = "sign")
           k == [r EXCEPT !.signed = g]
<1>2. /\ act[s].pc = "packaging" /\ Entry(s, p, k) /\ r.bytes # 0
  BY DEF Sign
<1>3. p \in Package
  BY <1>1, <1>2, Typed, ActFields
<1>4. /\ r \in Artifact /\ r.bytes \in Bytes \cup {0} /\ r.stored
  BY <1>1, <1>2, <1>3, StoredArtifact
<1>5. g \in BOOLEAN
  OBVIOUS
<1>6. k \in Artifact /\ k.stored /\ k.bytes # 0
  <2> HIDE DEF r, g
  <2> QED
    BY <1>2, <1>4, <1>5 DEF Artifact
<1> HIDE DEF k
<1> QED
  BY <1>2, <1>3, <1>6, EntryKeeps

LEMMA DeleteEntryKeeps ==
  ASSUME CatalogueInv, PinsResolve, NEW s \in Server, DeleteEntry(s)
  PROVE  Preserved
<1>1. CatalogueTypeOK /\ SoundRows(db) /\ SoundRows(mem[s]) /\ db \in Rows /\ mem[s] \in Rows
  BY InvParts, Typed
<1> DEFINE p == act[s].on
           r == db.packages[p]
           k == [stored |-> r.stored, bytes |-> 0, signed |-> FALSE]
<1>2. /\ act[s].pc = "packaging" /\ Unheld(p) /\ ~Unassignable(p) /\ mem[s].packages[p].bytes # 0
      /\ act' = [act EXCEPT ![s] = Idle]
      /\ Commit(s, "packages",
                [db EXCEPT !.packages[p].bytes = 0, !.packages[p].signed = FALSE],
                [mem[s] EXCEPT !.packages[p] = EmptyPackage], "packages")
  BY DEF DeleteEntry, Writable
<1>3. p \in Package
  BY <1>1, <1>2, Typed, ActFields
<1> HIDE DEF p
<1>4. r \in Artifact /\ r.stored \in BOOLEAN
  <2>1. r \in Artifact
    BY <1>1, <1>3, StoredArtifact
  <2> QED
    BY <2>1, ArtifactFields
<1>5. k \in Artifact /\ k.bytes = 0 /\ k.signed = FALSE /\ k.stored = r.stored
  BY <1>4 DEF Artifact
<1>6. [db EXCEPT !.packages[p].bytes = 0, !.packages[p].signed = FALSE] = [db EXCEPT !.packages[p] = k]
  <2> DEFINE y == [r EXCEPT !.bytes = 0]
             z == [y EXCEPT !.signed = FALSE]
             e == [db EXCEPT !.packages[p] = y]
  <2>1. y = [stored |-> r.stored, bytes |-> 0, signed |-> r.signed] /\ y \in Artifact
    <3> HIDE DEF r
    <3> QED
      BY <1>4 DEF Artifact
  <2>2. z = k
    <3> HIDE DEF y, r
    <3>1. z \in Artifact /\ z.stored = y.stored /\ z.bytes = y.bytes /\ z.signed = FALSE
      BY <2>1 DEF Artifact
    <3>2. y.stored = r.stored /\ y.bytes = 0
      BY <2>1
    <3> HIDE DEF z
    <3> QED
      BY <3>1, <3>2, ArtifactFields
  <2>3. [db EXCEPT !.packages[p].bytes = 0] = e
    OBVIOUS
  <2>4. /\ e.packages[p] = y /\ e \in Rows /\ e.saved = db.saved /\ e.retained = db.retained
        /\ e.deployments = db.deployments /\ e.packages = [db.packages EXCEPT ![p] = y]
    <3> HIDE DEF y
    <3> QED
      BY <1>1, <1>3, <2>1, PackageRow
  <2>5. [e EXCEPT !.packages[p].signed = FALSE] = [e EXCEPT !.packages[p] = z]
    <3> HIDE DEF e, y
    <3> QED
      BY <2>4
  <2>6. [e EXCEPT !.packages[p] = k] = [db EXCEPT !.packages[p] = k]
    <3> HIDE DEF k, y
    <3>1. db.packages \in [Package -> Artifact]
      BY <1>1, RowsFields
    <3> QED
      BY <1>1, <1>3, <3>1 DEF Rows
  <2> QED
    BY <2>2, <2>3, <2>5, <2>6
<1>7. ActMoves(s)
  BY <1>1, <1>2, ActOver
<1>8. mem[s].packages[p] = db.packages[p] => EmptyPackage = k
  <2> SUFFICES ASSUME mem[s].packages[p] = r PROVE EmptyPackage = k
    OBVIOUS
  <2>1. r.stored
    BY <1>1, <1>2, <1>3, StoredArtifact
  <2>2. r.stored = TRUE
    BY <1>4, <2>1
  <2> QED
    BY <2>2, EmptyRows
<1> HIDE DEF k
<1> QED
  BY <1>2, <1>3, <1>5, <1>6, <1>7, <1>8, EmptyRows, PackageStep


LEMMA SignChangedKeeps ==
  ASSUME CatalogueInv, PinsResolve, NEW s \in Server, SignChanged(s)
  PROVE  Preserved
<1>1. /\ CatalogueTypeOK /\ SoundRows(db) /\ SoundRows(mem[s]) /\ Local(s)
      /\ db \in Rows /\ mem[s] \in Rows
  BY InvParts, Typed
<1> DEFINE p == act[s].on
           m == mem[s]
           r == m.packages[p]
           y == [r EXCEPT !.bytes = db.packages[p].bytes]
           k == [y EXCEPT !.signed = db.packages[p].signed]
           e == [m EXCEPT !.packages[p] = y]
           v == [e EXCEPT !.packages[p] = k]
<1>2. /\ db' = db /\ assigned' = assigned /\ txn' = txn /\ held' = held /\ pins' = pins
      /\ reads' = reads /\ last' = last /\ listening' = listening /\ heard' = heard
      /\ passed' = passed /\ doubt' = doubt /\ reading' = reading
      /\ act[s].pc = "packaging" /\ r.bytes # 0 /\ db.packages[p].bytes # r.bytes
      /\ act' = [act EXCEPT ![s] = Idle]
  BY DEF SignChanged, database, ears, ghosts
<1>3. p \in Package
  BY <1>1, <1>2, Typed, ActFields
<1>4. mem' = [mem EXCEPT ![s] = v]
  <2>1. mem \in [Server -> Rows] /\ m.packages \in [Package -> Artifact]
    BY <1>1, Typed, RowsFields
  <2>2. mem' = [[mem EXCEPT ![s].packages[p].bytes = db.packages[p].bytes]
                     EXCEPT ![s].packages[p].signed = db.packages[p].signed]
    BY DEF SignChanged
  <2>3. [mem EXCEPT ![s].packages[p].bytes = db.packages[p].bytes] = [mem EXCEPT ![s] = e]
    OBVIOUS
  <2> DEFINE M == [mem EXCEPT ![s] = e]
  <2>4. e.packages[p] = y /\ M[s] = e
    BY <1>1, <1>3, <2>1 DEF Rows
  <2>5. [M EXCEPT ![s].packages[p].signed = db.packages[p].signed] = [M EXCEPT ![s] = v]
    <3> HIDE DEF M, e, y
    <3> QED
      BY <2>4
  <2>6. [M EXCEPT ![s] = v] = [mem EXCEPT ![s] = v]
    <3> HIDE DEF v, e
    <3> QED
      BY <2>1
  <2> QED
    BY <2>2, <2>3, <2>5, <2>6
<1> HIDE DEF p
<1>5. /\ r \in Artifact /\ r.stored
      /\ db.packages[p] \in Artifact /\ db.packages[p].bytes \in Bytes \cup {0}
      /\ db.packages[p].signed \in BOOLEAN /\ (db.packages[p].signed => db.packages[p].bytes # 0)
  BY <1>1, <1>2, <1>3, StoredArtifact
<1> DEFINE b == db.packages[p].bytes
           g == db.packages[p].signed
<1>6. y \in Artifact /\ y.stored = r.stored /\ y.bytes = b
  <2> HIDE DEF r, b
  <2> QED
    BY <1>5 DEF Artifact, b
<1>7. k \in Artifact /\ k.stored = r.stored /\ k.bytes = b /\ k.signed = g
  <2>1. g \in BOOLEAN
    BY <1>5
  <2> HIDE DEF y, g, r, b
  <2>2. [y EXCEPT !.signed = g] \in Artifact /\ [y EXCEPT !.signed = g].stored = y.stored
        /\ [y EXCEPT !.signed = g].bytes = y.bytes /\ [y EXCEPT !.signed = g].signed = g
    BY <1>6, <2>1 DEF Artifact
  <2> QED
    BY <1>6, <2>2 DEF g
<1> HIDE DEF y, k, r
<1>8. /\ e \in Rows /\ e.saved = m.saved /\ e.retained = m.retained /\ e.deployments = m.deployments
      /\ \A o \in Package \ {p} : e.packages[o] = m.packages[o]
  BY <1>1, <1>3, <1>6, PackageRow
<1> HIDE DEF e
<1>9. /\ v \in Rows /\ v.saved = e.saved /\ v.retained = e.retained
      /\ v.deployments = e.deployments /\ v.packages[p] = k
      /\ \A o \in Package \ {p} : v.packages[o] = e.packages[o]
  BY <1>3, <1>7, <1>8, PackageRow
<1> HIDE DEF v
<1>10. SoundRows(v)
  <2>1. ASSUME NEW o \in Package
        PROVE  /\ v.packages[o].signed => v.packages[o].bytes # 0
               /\ v.packages[o].bytes # 0 => v.packages[o].stored
    <3>1. CASE o = p
      BY <1>5, <1>7, <1>9, <3>1
    <3>2. CASE o # p
      BY <1>1, <1>8, <1>9, <3>2 DEF SoundRows
    <3> QED
      BY <3>1, <3>2
  <2> QED
    BY <1>1, <1>8, <1>9, <2>1 DEF SoundRows
<1>11. /\ mem' \in [Server -> Rows] /\ mem'[s] = v /\ \A t \in Server \ {s} : mem'[t] = mem[t]
  BY <1>1, <1>4, <1>9, Typed, OneUpdated
<1>12. ActMoves(s)
  BY <1>1, <1>2, ActOver
<1>13. CatalogueTypeOK'
  BY <1>1, <1>2, <1>11, <1>12, Typed, TypedNext DEF ActMoves
<1>14. \A t \in Server \ {s} : Steady(t) /\ heard'[t] = heard[t]
  BY <1>2, <1>11, <1>12 DEF Steady, ActMoves
<1>15. Coupled(s)'
  BY <1>1, <1>2, <1>12 DEF Local, Coupled, ActMoves
<1>16. HoldsWhatItPins(s)'
  <2>1. ~(txn[s].open /\ txn[s].waited)
    BY <1>1, <1>12 DEF Local, Coupled, ActMoves
  <2>2. \A row : InDb(row) => InDb(row)'
    BY <1>2 DEF InDb
  <2> QED
    BY <1>1, <1>2, <2>1, <2>2, HoldsStays DEF Local
<1>17. BehindIsDue(s)'
  <2> SUFFICES ASSUME listening[s], s \notin doubt PROVE BehindIsDue(s)'
    BY <1>2 DEF BehindIsDue
  <2>1. /\ Held(s)' = Held(s) /\ Awaited(s)' = Awaited(s)
        /\ \A a : AgentDue(s, a)' <=> AgentDue(s, a)
        /\ \A a : Fresh(s, a)' <=> Fresh(s, a)
    BY <1>2 DEF Held, Forgotten, Blank, Awaited, AgentDue, Fresh
  <2>2. BehindIsDue(s)
    BY <1>1 DEF Local
  <2>3. "packages" \in Awaited(s)
    BY <1>2, <2>2 DEF BehindIsDue, r
  <2>4. v.saved = m.saved /\ v.retained = m.retained /\ v.deployments = m.deployments
    BY <1>8, <1>9
  <2> QED
    BY <1>2, <1>11, <2>1, <2>2, <2>3, <2>4 DEF BehindIsDue
<1>18. Local(s)'
  BY <1>1, <1>2, <1>13, <1>15, <1>16, <1>17, QuietParts DEF Local
<1> QED
  BY <1>1, <1>2, <1>10, <1>11, <1>13, <1>14, <1>18, LocalStep

(* A Deployment without a member it had is stored, as it was.              *)
LEMMA WithoutFacts ==
  ASSUME NEW k \in Member, NEW x, ~k.stored => k = NoDeployment
  PROVE  /\ Without(k, x) \in Member /\ Without(k, x).stored = k.stored
         /\ Without(k, x) # k => k.stored
<1> DEFINE N == k.configurations \ {x}
           P == IF k.package = x THEN None ELSE k.package
           y == [k EXCEPT !.configurations = N]
           z == [y EXCEPT !.package = P]
<1>1. k.configurations \subseteq Configuration /\ k.package \in Package \cup {None}
  BY MemberFields
<1>2. N \subseteq Configuration /\ P \in Package \cup {None}
  BY <1>1
<1>3. Without(k, x) = z
  <2>1. y.package = k.package
    BY DEF Member
  <2> QED
    BY <2>1 DEF Without
<1>4. k = NoDeployment => N = {} /\ P = None
  BY EmptyRows
<1> HIDE DEF N, P
<1>5. y \in Member /\ y.stored = k.stored /\ y.configurations = N /\ y.package = k.package
  BY <1>2 DEF Member
<1> HIDE DEF y
<1>6. z \in Member /\ z.stored = y.stored /\ z.configurations = y.configurations /\ z.package = P
  BY <1>2, <1>5 DEF Member
<1> HIDE DEF z
<1>7. ~k.stored => z = k
  <2> SUFFICES ASSUME ~k.stored PROVE z = k
    OBVIOUS
  <2>1. z.stored = k.stored /\ z.configurations = k.configurations /\ z.package = k.package
    BY <1>4, <1>5, <1>6, EmptyRows
  <2>2. /\ z = [stored |-> z.stored, package |-> z.package, configurations |-> z.configurations]
        /\ k = [stored |-> k.stored, package |-> k.package, configurations |-> k.configurations]
    BY <1>6, MemberFields
  <2> QED
    BY <2>1, <2>2
<1> QED
  BY <1>3, <1>5, <1>6, <1>7

LEMMA DropKeeps ==
  ASSUME CatalogueInv, PinsResolve, NEW s \in Server, Drop(s)
  PROVE  Preserved
<1>1. CatalogueTypeOK /\ SoundRows(db) /\ SoundRows(mem[s]) /\ db \in Rows /\ mem[s] \in Rows
  BY InvParts, Typed
<1> DEFINE x == act[s].what
           m == mem[s]
           holding == {d \in Deployment : Without(db.deployments[d], x) # db.deployments[d]}
           f == [d \in Deployment |-> IF d \in holding THEN Without(db.deployments[d], x)
                                      ELSE db.deployments[d]]
           g == [d \in Deployment |-> IF d \in holding THEN Without(db.deployments[d], x)
                                      ELSE m.deployments[d]]
           rows == [db EXCEPT !.deployments = f]
           known == [m EXCEPT !.deployments = g]
           W == IF holding = {} THEN {} ELSE {"deployments"}
<1>2. /\ act[s].pc = "dropping" /\ act' = [act EXCEPT ![s] = Idle]
      /\ assigned' = assigned /\ txn' = txn /\ held' = held /\ pins' = pins
      /\ reads' = reads /\ last' = last /\ listening' = listening
      /\ passed' = passed /\ doubt' = doubt /\ reading' = reading
  BY DEF Drop, ghosts
<1>3. db' = rows /\ mem' = [mem EXCEPT ![s] = known] /\ Announce(s, W)
  <2>1. mem \in [Server -> Rows]
    BY <1>1, Typed
  <2> QED
    BY <2>1 DEF Drop
<1>4. \A d \in Deployment : db.deployments[d] \in Member /\ m.deployments[d] \in Member
  BY <1>1, RowsFields
<1>5. \A d \in Deployment :
        /\ Without(db.deployments[d], x) \in Member
        /\ Without(db.deployments[d], x).stored = db.deployments[d].stored
        /\ d \in holding => db.deployments[d].stored
  <2> TAKE d \in Deployment
  <2>1. ~db.deployments[d].stored => db.deployments[d] = NoDeployment
    BY <1>1 DEF SoundRows
  <2> QED
    BY <1>4, <2>1, WithoutFacts
<1>6. /\ f \in [Deployment -> Member]
      /\ \A d \in Deployment : f[d].stored = db.deployments[d].stored
      /\ \A d \in Deployment : f[d] = db.deployments[d] \/ f[d].stored
  <2>1. f \in [Deployment -> Member]
    BY <1>4, <1>5
  <2>2. \A d \in Deployment : f[d].stored = db.deployments[d].stored
    BY <1>5
  <2>3. \A d \in Deployment : f[d] = db.deployments[d] \/ f[d].stored
    BY <1>5
  <2> QED
    BY <2>1, <2>2, <2>3
<1>7. /\ g \in [Deployment -> Member]
      /\ \A d \in Deployment : g[d] = m.deployments[d] \/ g[d].stored
  <2>1. g \in [Deployment -> Member]
    BY <1>4, <1>5
  <2>2. \A d \in Deployment : g[d] = m.deployments[d] \/ g[d].stored
    BY <1>5
  <2> QED
    BY <2>1, <2>2
<1>8. m.deployments = db.deployments => g = f
  OBVIOUS
<1>9. holding = {} => rows = db
  <2> SUFFICES ASSUME holding = {} PROVE rows = db
    OBVIOUS
  <2>1. f = [d \in Deployment |-> db.deployments[d]]
    OBVIOUS
  <2>2. db.deployments \in [Deployment -> Member]
    BY <1>1, RowsFields
  <2>3. f = db.deployments
    BY <2>1, <2>2
  <2> HIDE DEF f
  <2> QED
    BY <1>1, <2>3 DEF Rows
<1>10. W \in SUBSET Everything /\ (rows # db => "deployments" \in W) /\ "deployments" \in Kinds
  <2> HIDE DEF rows, holding
  <2> QED
    BY <1>9, KindsHeard DEF Kinds
<1> HIDE DEF f, g, W
<1>11. /\ rows \in Rows /\ rows.saved = db.saved /\ rows.retained = db.retained
       /\ rows.packages = db.packages /\ rows.deployments = f
  BY <1>1, <1>6 DEF Rows
<1>12. /\ known \in Rows /\ known.saved = m.saved /\ known.retained = m.retained
       /\ known.packages = m.packages /\ known.deployments = g
  <2> HIDE DEF m
  <2> QED
    BY <1>1, <1>7 DEF Rows, m
<1> HIDE DEF rows, known
<1>13. SoundRows(rows) /\ SoundRows(known)
  <2>1. \A d \in Deployment : ~f[d].stored => f[d] = NoDeployment
    BY <1>1, <1>6 DEF SoundRows
  <2>2. \A d \in Deployment : ~g[d].stored => g[d] = NoDeployment
    BY <1>1, <1>7 DEF SoundRows
  <2> QED
    BY <1>1, <1>11, <1>12, <2>1, <2>2 DEF SoundRows
<1>14. Only(db, rows, "deployments") /\ Only(mem[s], known, "deployments")
  BY <1>11, <1>12 DEF Only
<1>15. Current(mem[s], db, "deployments") => Current(known, rows, "deployments")
  BY <1>8, <1>11, <1>12 DEF Current
<1>16. RowsStay
  BY <1>3, <1>6, <1>11 DEF RowsStay, InDb
<1>17. PinsResolve' /\ BytesStay
  BY <1>2, <1>3, <1>6, <1>11 DEF PinsResolve, BytesStay
<1>18. ActMoves(s)
  BY <1>1, <1>2, ActOver
<1> QED
  BY <1>2, <1>3, <1>10, <1>11, <1>12, <1>13, <1>14, <1>15, <1>16, <1>17, <1>18, WriteStep

LEMMA CollectKeeps ==
  ASSUME CatalogueInv, PinsResolve, NEW s \in Server, Collect(s)
  PROVE  Preserved
<1>1. /\ CatalogueTypeOK /\ SoundRows(db) /\ SoundRows(mem[s]) /\ Local(s)
      /\ db \in Rows /\ mem[s] \in Rows
  BY InvParts, Typed
<1> DEFINE c == CHOOSE c \in act[s].names : TRUE
           kept == Kept(s, c)
           x == Collecting(act[s].names \ {c})
           W == IF db.retained[c] = kept THEN {} ELSE {"configurations"}
<1>2. /\ act[s].pc = "collect" /\ act' = [act EXCEPT ![s] = x]
      /\ assigned' = assigned /\ txn' = txn /\ held' = held /\ pins' = pins
      /\ reads' = reads /\ last' = last /\ listening' = listening
      /\ passed' = passed /\ doubt' = doubt /\ reading' = reading
      /\ IF mem[s].saved[c] = 0 THEN db' = db /\ mem' = mem /\ heard' = heard
         ELSE /\ db' = [db EXCEPT !.retained[c] = kept]
              /\ mem' = [mem EXCEPT ![s].retained[c] = kept]
              /\ Announce(s, W)
  BY DEF Collect, ghosts
<1>3. act[s].names \subseteq Configuration /\ act[s].names # {}
  BY <1>1, <1>2, Typed, ActFields
<1>4. c \in Configuration
  BY <1>3
<1> HIDE DEF c
<1>5. x \in Act \cup {Idle} /\ x.pc \in {"idle", "collect"}
  <2>1. act[s].names \ {c} \in SUBSET Configuration
    BY <1>3
  <2> QED
    BY <2>1, ActsMade
<1> HIDE DEF x
<1>6. reading[s].pc # "again"
  BY <1>1, <1>2 DEF Local, Coupled
<1>7. ActMoves(s)
  <2>1. act \in [Server -> Act \cup {Idle}]
    BY <1>1, Typed
  <2>2. /\ act' \in [Server -> Act \cup {Idle}] /\ act'[s] = x
        /\ \A t \in Server \ {s} : act'[t] = act[t]
    BY <1>2, <1>5, <2>1, OneUpdated
  <2> QED
    BY <1>2, <1>5, <1>6, <2>2 DEF ActMoves
<1>8. CASE mem[s].saved[c] = 0
  <2>1. UNCHANGED <<database, mem, held, pins, reads, reading, ears, ghosts>>
    BY <1>2, <1>8 DEF database, ears, ghosts
  <2> QED
    BY <1>2, <1>5, <1>6, <2>1, ActStep
<1>9. CASE mem[s].saved[c] # 0
  <2> DEFINE m == mem[s]
             rows == [db EXCEPT !.retained[c] = kept]
             known == [m EXCEPT !.retained[c] = kept]
  <2>1. /\ db' = rows /\ mem' = [mem EXCEPT ![s].retained[c] = kept] /\ Announce(s, W)
    BY <1>2, <1>9
  <2>2. mem' = [mem EXCEPT ![s] = known] /\ db.retained \in [Configuration -> SUBSET Revision]
    BY <1>1, <2>1, Typed, RowsFields
  <2>3. kept \in SUBSET Revision /\ (db.saved[c] = 0 => kept = {})
    BY <1>4, <2>2 DEF Kept
  <2>4. \A a \in Agent : assigned[a].configurations[c] \in db.retained[c] =>
           assigned[a].configurations[c] \in kept
    <3> SUFFICES ASSUME NEW a \in Agent, assigned[a].configurations[c] \in db.retained[c]
                 PROVE  assigned[a].configurations[c] \in kept
      OBVIOUS
    <3>1. db.saved[c] # 0
      BY <1>1, <1>4 DEF SoundRows
    <3> QED
      BY <3>1 DEF Kept, Referenced
  <2> HIDE DEF kept
  <2>5. /\ rows \in Rows /\ rows.saved = db.saved
        /\ rows.packages = db.packages /\ rows.deployments = db.deployments
        /\ rows.retained = [db.retained EXCEPT ![c] = kept]
        /\ rows.retained[c] = kept /\ \A o \in Configuration \ {c} : rows.retained[o] = db.retained[o]
        /\ SoundRows(rows)
    BY <1>1, <1>4, <2>3, RetainedRow, SMTT(60)
  <2>6. /\ known \in Rows /\ known.saved = m.saved
        /\ known.packages = m.packages /\ known.deployments = m.deployments
        /\ known.retained = [m.retained EXCEPT ![c] = kept]
        /\ known.retained[c] = kept /\ \A o \in Configuration \ {c} : known.retained[o] = m.retained[o]
        /\ SoundRows(known)
    BY <1>1, <1>4, <1>9, <2>3, RetainedRow
  <2>7. db.retained[c] = kept => rows = db
    <3> SUFFICES ASSUME db.retained[c] = kept PROVE rows = db
      OBVIOUS
    <3>1. rows.retained = db.retained
      BY <2>2, <2>5
    <3>2. /\ rows = [saved |-> rows.saved, retained |-> rows.retained,
                     deployments |-> rows.deployments, packages |-> rows.packages]
          /\ db = [saved |-> db.saved, retained |-> db.retained, deployments |-> db.deployments,
                   packages |-> db.packages]
      BY <1>1, <2>5, RowsFields
    <3> HIDE DEF rows
    <3> QED
      BY <2>5, <3>1, <3>2
  <2>8. W \in SUBSET Everything /\ (rows # db => "configurations" \in W) /\ "configurations" \in Kinds
    <3> HIDE DEF rows
    <3> QED
      BY <2>7, KindsHeard DEF Kinds
  <2> HIDE DEF rows, known, W
  <2>9. Only(db, rows, "configurations") /\ Only(mem[s], known, "configurations")
    BY <2>5, <2>6 DEF Only
  <2>10. Current(mem[s], db, "configurations") => Current(known, rows, "configurations")
    <3> SUFFICES ASSUME Current(mem[s], db, "configurations")
                 PROVE  Current(known, rows, "configurations")
      OBVIOUS
    <3>1. ASSUME NEW o \in Configuration PROVE rows.retained[o] \subseteq known.retained[o]
      <4>1. CASE o = c
        BY <2>5, <2>6, <4>1
      <4>2. CASE o # c
        BY <2>5, <2>6, <4>2 DEF Current
      <4> QED
        BY <4>1, <4>2
    <3> QED
      BY <2>5, <2>6, <3>1 DEF Current
  <2>11. RowsStay
    BY <2>1, <2>5 DEF RowsStay, InDb
  <2>12. PinsResolve'
    <3> SUFFICES ASSUME NEW a \in Agent, assigned[a].deployment \in Deployment,
                        NEW o \in Configuration, assigned[a].configurations[o] # 0
                 PROVE  assigned[a].configurations[o] \in rows.retained[o]
      BY <1>2, <2>1, <2>5 DEF PinsResolve
    <3>1. assigned[a].configurations[o] \in db.retained[o]
      BY DEF PinsResolve
    <3>2. CASE o = c
      BY <2>4, <2>5, <3>1, <3>2
    <3>3. CASE o # c
      BY <2>5, <3>1, <3>3
    <3> QED
      BY <3>2, <3>3
  <2>13. BytesStay
    BY <2>1, <2>5 DEF BytesStay
  <2> QED
    BY <1>2, <1>7, <2>1, <2>2, <2>5, <2>6, <2>8, <2>9, <2>10, <2>11, <2>12, <2>13, WriteStep
<1> QED
  BY <1>8, <1>9

-------------------------------------------------------------------------------
(* Assignments that are written                                            *)

(* An instance notes what it committed: the count moves on, and where a    *)
(* read is in flight the Agents it wrote have the new one.                 *)
LEMMA NotedFacts ==
  ASSUME CatalogueTypeOK, NEW s \in Server, NEW W \in SUBSET Agent,
         NEW w \in [W -> Released \cup {Forgotten}], pins' = [pins EXCEPT ![s] = Noted(s, w)]
  PROVE  /\ pins' \in [Server -> Pins] /\ \A t \in Server \ {s} : pins'[t] = pins[t]
         /\ pins'[s].commits = pins[s].commits + 1
         /\ \A a \in W : pins'[s].assignments[a] = IF w[a] = Forgotten THEN Unassigned ELSE w[a]
         /\ \A a \in Agent \ W : pins'[s].assignments[a] = pins[s].assignments[a]
         /\ \A a \in W : InFlight(s, None) # {} => pins'[s].committed[a] = pins[s].commits + 1
         /\ \A a \in Agent \ W : pins'[s].committed[a] = pins[s].committed[a]
<1> DEFINE n == pins[s].commits + 1
           f == [a \in Agent |-> IF a \notin DOMAIN w THEN pins[s].assignments[a]
                                 ELSE IF w[a] = Forgotten THEN Unassigned ELSE w[a]]
           g == [a \in Agent |-> IF a \in DOMAIN w /\ InFlight(s, None) # {}
                                 THEN n ELSE pins[s].committed[a]]
           v == [assignments |-> f, commits |-> n, committed |-> g]
<1>1. /\ pins \in [Server -> Pins] /\ pins[s].assignments \in [Agent -> Assignment \ {Forgotten}]
      /\ pins[s].commits \in Nat /\ pins[s].committed \in [Agent -> Nat]
  BY Typed, PinsFields
<1>2. DOMAIN w = W /\ \A a \in W : w[a] \in Assignment
  BY ReleasedFacts
<1>3. n \in Nat /\ g \in [Agent -> Nat]
  BY <1>1
<1>4. f \in [Agent -> Assignment \ {Forgotten}]
  <2> SUFFICES ASSUME NEW a \in Agent
               PROVE  (IF a \notin DOMAIN w THEN pins[s].assignments[a]
                       ELSE IF w[a] = Forgotten THEN Unassigned ELSE w[a]) \in Assignment \ {Forgotten}
    OBVIOUS
  <2> QED
    BY <1>1, <1>2, BlankFacts
<1>5. /\ \A a \in W : f[a] = IF w[a] = Forgotten THEN Unassigned ELSE w[a]
      /\ \A a \in Agent \ W : f[a] = pins[s].assignments[a]
      /\ \A a \in W : InFlight(s, None) # {} => g[a] = n
      /\ \A a \in Agent \ W : g[a] = pins[s].committed[a]
  BY <1>2
<1>6. pins' = [pins EXCEPT ![s] = v]
  BY DEF Noted
<1> HIDE DEF f, g
<1>7. v \in Pins /\ v.assignments = f /\ v.commits = n /\ v.committed = g
  BY <1>3, <1>4 DEF Pins
<1> HIDE DEF v
<1>8. pins' \in [Server -> Pins] /\ pins'[s] = v /\ \A t \in Server \ {s} : pins'[t] = pins[t]
  BY <1>1, <1>6, <1>7, OneUpdated
<1> QED
  BY <1>5, <1>7, <1>8

(* What it wrote is what it takes to be pinned, and no read in flight can  *)
(* put it back.                                                            *)
LEMMA NotedKeeps ==
  ASSUME CatalogueTypeOK, NEW s \in Server, ReadsKnowCommits(s), OwnPins(s),
         NEW W \in SUBSET Agent, NEW w \in [W -> Released \cup {Forgotten}],
         pins' = [pins EXCEPT ![s] = Noted(s, w)],
         \A r \in Readers : reads'[s][r].pc \in {"rows", "read"} => reads'[s][r] = reads[s][r],
         \A a \in W : assigned'[a] = w[a],
         \A a \in Agent \ W : assigned'[a] = assigned[a] /\ (last'[a] = s => last[a] = s)
  PROVE  ReadsKnowCommits(s)' /\ OwnPins(s)'
<1>1. /\ pins' \in [Server -> Pins] /\ \A t \in Server \ {s} : pins'[t] = pins[t]
      /\ pins'[s].commits = pins[s].commits + 1
      /\ \A a \in W : pins'[s].assignments[a] = IF w[a] = Forgotten THEN Unassigned ELSE w[a]
      /\ \A a \in Agent \ W : pins'[s].assignments[a] = pins[s].assignments[a]
      /\ \A a \in W : InFlight(s, None) # {} => pins'[s].committed[a] = pins[s].commits + 1
      /\ \A a \in Agent \ W : pins'[s].committed[a] = pins[s].committed[a]
  BY NotedFacts
<1>2. pins[s].commits \in Nat
  BY Typed, PinsFields
<1>3. ReadsKnowCommits(s)'
  <2> SUFFICES ASSUME NEW r \in Readers, reads'[s][r].pc \in {"rows", "read"}
               PROVE  /\ reads'[s][r].began <= pins'[s].commits
                      /\ \A a \in reads'[s][r].agents : last'[a] = s =>
                            \/ pins'[s].committed[a] > reads'[s][r].began
                            \/ reads'[s][r].found[a] = assigned'[a]
    BY DEF ReadsKnowCommits
  <2>1. reads'[s][r] = reads[s][r] /\ reads[s][r].pc \in {"rows", "read"}
    OBVIOUS
  <2>2. reads[s][r].began \in Nat /\ reads[s][r].agents \subseteq Agent
    BY <2>1, Typed, ReadFields
  <2>3. reads[s][r].began <= pins[s].commits
    BY <2>1 DEF ReadsKnowCommits
  <2>4. InFlight(s, None) # {}
    <3>1. r \in {q \in Readers \ {None} : reads[s][q].pc \in {"rows", "read"}}
      BY <2>1, Constants
    <3>2. reads[s][r].began \in InFlight(s, None)
      BY <3>1 DEF InFlight
    <3> QED
      BY <3>2
  <2>5. ASSUME NEW a \in reads[s][r].agents, last'[a] = s
        PROVE  \/ pins'[s].committed[a] > reads[s][r].began
               \/ reads[s][r].found[a] = assigned'[a]
    <3>1. CASE a \in W
      BY <1>1, <1>2, <2>2, <2>3, <2>4, <3>1
    <3>2. CASE a \notin W
      BY <1>1, <2>1, <2>2, <2>5, <3>2 DEF ReadsKnowCommits
    <3> QED
      BY <3>1, <3>2
  <2> QED
    BY <1>1, <1>2, <2>1, <2>2, <2>3, <2>5
<1>4. OwnPins(s)'
  <2>1. Unassigned' = Unassigned /\ Forgotten' = Forgotten
    BY DEF Unassigned, Forgotten, Blank
  <2> SUFFICES ASSUME NEW a \in Agent, last'[a] = s
               PROVE  pins'[s].assignments[a] =
                        IF assigned'[a] # Forgotten THEN assigned'[a] ELSE Unassigned
    BY <2>1 DEF OwnPins, Stored
  <2>2. CASE a \in W
    BY <1>1, <2>2
  <2>3. CASE a \notin W
    BY <1>1, <2>3 DEF OwnPins, Stored
  <2> QED
    BY <2>2, <2>3
<1> QED
  BY <1>3, <1>4

(* Assignments are written, and no row is lost.                            *)
LEMMA AssignStep ==
  ASSUME CatalogueInv, CatalogueTypeOK', NEW s \in Server,
         db'.saved = db.saved, db'.deployments = db.deployments, db'.packages = db.packages,
         SoundRows(db'), SoundRows(mem'[s]), Local(s)', PinsResolve',
         \A t \in Server \ {s} :
            /\ Steady(t) /\ (listening[t] => Told(t))
            /\ \A a \in Agent : last'[a] = t => last[a] = t /\ assigned'[a] = assigned[a]
  PROVE  Preserved
<1>1. CatalogueTypeOK /\ \A t \in Server : SoundRows(mem[t]) /\ Local(t)
  BY InvParts
<1>2. ASSUME NEW t \in Server PROVE SoundRows(mem'[t]) /\ Local(t)'
  <2>1. CASE t = s
    BY <2>1
  <2>2. CASE t # s
    <3>1. Steady(t) /\ (listening[t] => Told(t))
      BY <2>2
    <3>2. \A row : InDb(row) => InDb(row)'
      BY DEF InDb
    <3>3. \A a \in Agent : last'[a] = t => last[a] = t /\ assigned'[a] = assigned[a]
      BY <2>2
    <3>4. Local(t)'
      BY <1>1, <3>1, <3>2, <3>3, BystanderKeeps
    <3> QED
      BY <1>1, <3>1, <3>4 DEF Steady
  <2> QED
    BY <2>1, <2>2
<1>3. CatalogueInv'
  BY <1>2, Assembled
<1>4. BytesStay
  BY DEF BytesStay
<1> QED
  BY <1>3, <1>4 DEF Preserved

(* Records an instance comes to hold, or writes, are held as they are      *)
(* stored.                                                                 *)
LEMMA BehindHeld ==
  ASSUME NEW s \in Server, BehindIsDue(s), reads'[s]["follow"] = reads[s]["follow"],
         reading'[s] = reading[s], reading[s].pc # "again", heard'[s] = heard[s],
         listening'[s] = listening[s], s \notin doubt' => s \notin doubt,
         \A kind \in Kinds : Current(mem[s], db, kind) => Current(mem'[s], db', kind),
         \A a \in Agent : held'[s][a] # Forgotten /\ a \notin passed'[s] =>
            \/ held'[s][a] = assigned'[a]
            \/ /\ a \in Held(s) \ passed[s] /\ held'[s][a] = held[s][a]
               /\ assigned'[a] = assigned[a]
  PROVE  BehindIsDue(s)'
<1> SUFFICES ASSUME listening[s], s \notin doubt' PROVE BehindIsDue(s)'
  BY DEF BehindIsDue
<1>1. s \notin doubt /\ Forgotten' = Forgotten /\ Awaited(s)' = Awaited(s)
  BY DEF Forgotten, Blank, Awaited
<1>2. /\ "configurations" \notin Awaited(s) => Current(mem[s], db, "configurations")
      /\ "deployments" \notin Awaited(s) => Current(mem[s], db, "deployments")
      /\ "packages" \notin Awaited(s) => Current(mem[s], db, "packages")
  BY <1>1 DEF BehindIsDue, Current
<1>3. /\ "configurations" \notin Awaited(s) => Current(mem'[s], db', "configurations")
      /\ "deployments" \notin Awaited(s) => Current(mem'[s], db', "deployments")
      /\ "packages" \notin Awaited(s) => Current(mem'[s], db', "packages")
  BY <1>2 DEF Kinds
<1>4. ASSUME NEW a \in Held(s)', a \notin passed'[s]
      PROVE  held'[s][a] = assigned'[a] \/ AgentDue(s, a)'
  <2>1. a \in Agent /\ held'[s][a] # Forgotten
    BY <1>1, <1>4 DEF Held
  <2>2. CASE held'[s][a] = assigned'[a]
    BY <2>2
  <2>3. CASE /\ a \in Held(s) \ passed[s] /\ held'[s][a] = held[s][a]
             /\ assigned'[a] = assigned[a]
    <3>1. AgentDue(s, a)' <=> AgentDue(s, a)
      BY <1>1, <2>3 DEF AgentDue, Fresh
    <3> QED
      BY <1>1, <2>3, <3>1 DEF BehindIsDue
  <2> QED
    BY <1>4, <2>1, <2>2, <2>3
<1> QED
  BY <1>1, <1>3, <1>4 DEF BehindIsDue, Current

LEMMA LoadInsertKeeps ==
  ASSUME CatalogueInv, PinsResolve, NEW s \in Server, NEW a \in Agent, LoadInsert(s, a)
  PROVE  Preserved
<1>1. CatalogueTypeOK /\ SoundRows(db) /\ SoundRows(mem[s]) /\ Local(s)
  BY InvParts
<1> DEFINE found == reads[s]["load"].found
           loads == found[a] # Forgotten
           taken == IF loads THEN found[a] ELSE IF Stored(a) THEN assigned[a] ELSE Unassigned
<1>2. /\ db' = db /\ txn' = txn /\ mem' = mem /\ act' = act /\ reading' = reading
      /\ listening' = listening /\ heard' = heard /\ doubt' = doubt
      /\ reads[s]["load"].pc = "taken" /\ a \in DOMAIN found /\ FleetFree(s)
      /\ reads' = [reads EXCEPT ![s]["load"] = NoRead]
  BY DEF LoadInsert, ears
<1>3. "load" \in Readers /\ "follow" \in Readers \ {"load"}
  BY DEF Readers
<1>4. /\ reads' \in [Server -> [Readers -> Read \cup {NoRead}]] /\ reads'[s]["load"].pc = "none"
      /\ \A q \in Readers \ {"load"} : reads'[s][q] = reads[s][q]
      /\ \A t \in Server \ {s} : reads'[t] = reads[t]
  BY <1>1, <1>2, <1>3, ReadEnds
<1>5. Coupled(s)'
  <2>1. ASSUME NEW r \in Readers, reads'[s][r].pc # "none"
        PROVE  DOMAIN reads'[s][r].found = reads'[s][r].agents
    <3>1. r # "load"
      BY <1>4, <2>1
    <3> QED
      BY <1>1, <1>4, <2>1, <3>1 DEF Local, Coupled
  <2> QED
    BY <1>1, <1>2, <1>3, <1>4, <2>1, CoupledReads DEF Local
<1>6. /\ reads'[s]["follow"] = reads[s]["follow"] /\ reading[s].pc # "again"
      /\ \A r \in Readers : reads'[s][r].pc \in {"rows", "read"} => reads'[s][r] = reads[s][r]
  <2>1. ASSUME NEW r \in Readers, reads'[s][r].pc \in {"rows", "read"}
        PROVE  reads'[s][r] = reads[s][r]
    <3>1. r # "load"
      BY <1>4, <2>1
    <3> QED
      BY <1>4, <3>1
  <2> QED
    BY <1>2, <1>3, <1>4, <2>1 DEF FleetFree
<1>7. /\ held \in [Server -> [Agent -> Assignment]] /\ passed \in [Server -> SUBSET Agent]
      /\ assigned \in [Agent -> Released \cup {Forgotten}] /\ pins[s].commits \in Nat
      /\ last \in [Agent -> Server \cup {None}] /\ pins \in [Server -> Pins]
  BY <1>1, Typed, PinsFields
<1>8. found[a] \in Assignment
  <2>1. found \in Some(Assignment)
    BY <1>1, <1>2, <1>3, Typed, ReadFields
  <2> QED
    BY <1>2, <2>1, SomeFacts
<1>9. taken \in Assignment /\ taken # Forgotten /\ (~loads => taken \in Released)
  <2>1. Stored(a) => assigned[a] \in Released
    BY <1>7 DEF Stored
  <2> QED
    BY <1>8, <2>1, BlankFacts, ReleasedFacts DEF Stored
<1>10. HoldsWhatItPins(s)'
  <2>1. \A row : InDb(row) => InDb(row)'
    BY <1>2 DEF InDb
  <2> QED
    BY <1>1, <1>2, <2>1, HoldsStays DEF Local
<1>11. CASE a \in Held(s)
  <2>1. held' = held /\ assigned' = assigned /\ pins' = pins /\ last' = last /\ passed' = passed
    BY <1>11 DEF LoadInsert
  <2>2. CatalogueTypeOK'
    BY <1>1, <1>2, <1>4, <2>1, Typed, TypedNext
  <2>3. ReadsKnowCommits(s)'
    BY <1>1, <1>6, <2>1 DEF Local, ReadsKnowCommits
  <2>4. Local(s)'
    BY <1>1, <1>2, <1>5, <1>6, <1>10, <2>1, <2>2, <2>3, QuietParts DEF Local
  <2>5. \A t \in Server \ {s} : Steady(t) /\ heard'[t] = heard[t]
    BY <1>2, <1>4, <2>1 DEF Steady
  <2> QED
    BY <1>1, <1>2, <2>1, <2>2, <2>4, <2>5, LocalStep
<1>12. CASE a \notin Held(s)
  <2>1. /\ held' = [held EXCEPT ![s][a] = taken]
        /\ passed' = IF taken # assigned[a] /\ loads
                     THEN [passed EXCEPT ![s] = @ \cup {a}] ELSE passed
        /\ loads => assigned' = assigned /\ pins' = pins /\ last' = last
        /\ ~loads => /\ assigned' = [assigned EXCEPT ![a] = taken]
                     /\ pins' = [pins EXCEPT ![s] = Noted(s, [b \in {a} |-> taken])]
                     /\ last' = IF Stored(a) THEN last ELSE [last EXCEPT ![a] = s]
    BY <1>12 DEF LoadInsert
  <2> HIDE DEF taken, loads
  <2>2. /\ held' \in [Server -> [Agent -> Assignment]] /\ held'[s][a] = taken
        /\ \A b \in Agent \ {a} : held'[s][b] = held[s][b]
        /\ \A t \in Server \ {s} : held'[t] = held[t]
    BY <1>7, <1>9, <2>1
  <2>3. /\ passed' \in [Server -> SUBSET Agent] /\ passed[s] \subseteq passed'[s]
        /\ loads /\ taken # assigned[a] => a \in passed'[s]
        /\ \A t \in Server \ {s} : passed'[t] = passed[t]
    BY <1>7, <2>1
  <2>4. \A kind \in Kinds : Current(mem[s], db, kind) => Current(mem'[s], db', kind)
    BY <1>2
  <2>5. CASE loads
    <3>1. assigned' = assigned /\ pins' = pins /\ last' = last
      BY <2>1, <2>5
    <3>2. CatalogueTypeOK'
      BY <1>1, <1>2, <1>4, <2>2, <2>3, <3>1, Typed, TypedNext
    <3>3. ReadsKnowCommits(s)'
      BY <1>1, <1>6, <3>1 DEF Local, ReadsKnowCommits
    <3>4. \A b \in Agent : held'[s][b] # Forgotten /\ b \notin passed'[s] =>
            \/ held'[s][b] = assigned'[b]
            \/ /\ b \in Held(s) \ passed[s] /\ held'[s][b] = held[s][b]
               /\ assigned'[b] = assigned[b]
      <4> SUFFICES ASSUME NEW b \in Agent, held'[s][b] # Forgotten, b \notin passed'[s]
                   PROVE  \/ held'[s][b] = assigned'[b]
                          \/ /\ b \in Held(s) \ passed[s] /\ held'[s][b] = held[s][b]
                             /\ assigned'[b] = assigned[b]
        OBVIOUS
      <4>1. CASE b = a
        BY <2>2, <2>3, <2>5, <3>1, <4>1
      <4>2. CASE b # a
        BY <2>2, <2>3, <3>1, <4>2 DEF Held
      <4> QED
        BY <4>1, <4>2
    <3>5. BehindIsDue(s)'
      BY <1>1, <1>2, <1>6, <2>4, <3>4, BehindHeld DEF Local
    <3>6. OwnPins(s)'
      BY <1>1, <1>2, <3>1, OwnStays DEF Local
    <3>7. Local(s)'
      BY <1>5, <1>10, <3>3, <3>5, <3>6 DEF Local
    <3>8. \A t \in Server \ {s} : Steady(t) /\ heard'[t] = heard[t]
      BY <1>2, <1>4, <2>2, <2>3, <3>1 DEF Steady
    <3> QED
      BY <1>1, <1>2, <3>1, <3>2, <3>7, <3>8, LocalStep
  <2>6. CASE ~loads
    <3> DEFINE w == [b \in {a} |-> taken]
    <3>1. /\ assigned' = [assigned EXCEPT ![a] = taken]
          /\ pins' = [pins EXCEPT ![s] = Noted(s, w)]
          /\ last' = IF Stored(a) THEN last ELSE [last EXCEPT ![a] = s]
      BY <2>1, <2>6
    <3>2. {a} \in SUBSET Agent /\ w \in [{a} -> Released \cup {Forgotten}] /\ w[a] = taken
      BY <1>9, <2>6
    <3> HIDE DEF w
    <3>3. /\ pins' \in [Server -> Pins] /\ \A t \in Server \ {s} : pins'[t] = pins[t]
          /\ pins'[s].commits = pins[s].commits + 1
          /\ \A b \in {a} : pins'[s].assignments[b] = IF w[b] = Forgotten THEN Unassigned ELSE w[b]
          /\ \A b \in Agent \ {a} : pins'[s].assignments[b] = pins[s].assignments[b]
          /\ \A b \in {a} : InFlight(s, None) # {} => pins'[s].committed[b] = pins[s].commits + 1
          /\ \A b \in Agent \ {a} : pins'[s].committed[b] = pins[s].committed[b]
      BY <1>1, <3>1, <3>2, NotedFacts, ZenonT(60)
    <3>4. /\ assigned' \in [Agent -> Released \cup {Forgotten}] /\ assigned'[a] = taken
          /\ \A b \in Agent \ {a} : assigned'[b] = assigned[b]
      BY <1>7, <1>9, <2>6, <3>1
    <3>5. /\ last' \in [Agent -> Server \cup {None}]
          /\ \A b \in Agent \ {a} : last'[b] = last[b]
          /\ Stored(a) => last' = last
          /\ ~Stored(a) => last'[a] = s
      BY <1>7, <3>1
    <3>6. /\ Stored(a) => taken = assigned[a] /\ assigned' = assigned
          /\ ~Stored(a) => taken = Unassigned /\ assigned[a] = Forgotten
      BY <1>7, <2>6, <3>1 DEF taken, Stored
    <3>7. CatalogueTypeOK'
      BY <1>1, <1>2, <1>4, <2>2, <2>3, <3>3, <3>4, <3>5, Typed, TypedNext
    <3>8. ReadsKnowCommits(s)' /\ OwnPins(s)'
      <4>1. \A b \in {a} : assigned'[b] = w[b]
        BY <3>2, <3>4
      <4>2. \A b \in Agent \ {a} : assigned'[b] = assigned[b] /\ (last'[b] = s => last[b] = s)
        BY <3>4, <3>5
      <4> QED
        BY <1>1, <1>6, <3>1, <3>2, <4>1, <4>2, NotedKeeps DEF Local
    <3>9. \A b \in Agent : held'[s][b] # Forgotten /\ b \notin passed'[s] =>
            \/ held'[s][b] = assigned'[b]
            \/ /\ b \in Held(s) \ passed[s] /\ held'[s][b] = held[s][b]
               /\ assigned'[b] = assigned[b]
      <4> SUFFICES ASSUME NEW b \in Agent, held'[s][b] # Forgotten, b \notin passed'[s]
                   PROVE  \/ held'[s][b] = assigned'[b]
                          \/ /\ b \in Held(s) \ passed[s] /\ held'[s][b] = held[s][b]
                             /\ assigned'[b] = assigned[b]
        OBVIOUS
      <4>1. CASE b = a
        BY <2>2, <3>4, <4>1
      <4>2. CASE b # a
        BY <2>2, <2>3, <3>4, <4>2 DEF Held
      <4> QED
        BY <4>1, <4>2
    <3>10. BehindIsDue(s)'
      BY <1>1, <1>2, <1>6, <2>4, <3>9, BehindHeld DEF Local
    <3>11. Local(s)'
      BY <1>5, <1>10, <3>8, <3>10 DEF Local
    <3>12. ASSUME NEW t \in Server \ {s}
           PROVE  /\ Steady(t) /\ (listening[t] => Told(t))
                  /\ \A b \in Agent : last'[b] = t => last[b] = t /\ assigned'[b] = assigned[b]
      <4>1. Steady(t)
        BY <1>2, <1>4, <2>2, <2>3, <3>3 DEF Steady
      <4>2. \A b \in Agent : assigned'[b] = assigned[b] \/ assigned[b] = Forgotten
        BY <3>4, <3>6
      <4>3. Told(t)
        BY <1>2, <4>2 DEF Told
      <4>4. ASSUME NEW b \in Agent, last'[b] = t
            PROVE  last[b] = t /\ assigned'[b] = assigned[b]
        <5>1. CASE b = a
          BY <3>5, <3>6, <4>4, <5>1
        <5>2. CASE b # a
          BY <3>4, <3>5, <4>4, <5>2
        <5> QED
          BY <5>1, <5>2
      <4> QED
        BY <4>1, <4>3, <4>4
    <3>13. PinsResolve'
      <4>1. \A b \in Agent : assigned'[b].deployment \in Deployment => assigned'[b] = assigned[b]
        BY <3>4, <3>6, BlankFacts, Constants
      <4> QED
        BY <1>2, <4>1 DEF PinsResolve
    <3> QED
      BY <1>1, <1>2, <3>7, <3>11, <3>12, <3>13, AssignStep
  <2> QED
    BY <2>5, <2>6
<1> QED
  BY <1>11, <1>12

LEMMA ForgetKeeps ==
  ASSUME CatalogueInv, PinsResolve, NEW s \in Server, NEW a \in Agent, Forget(s, a)
  PROVE  Preserved
<1>1. CatalogueTypeOK /\ SoundRows(db) /\ SoundRows(mem[s]) /\ Local(s)
  BY InvParts
<1> DEFINE known == IF a \in Held(s) THEN held[s][a] ELSE assigned[a]
           names == {c \in Configuration : known.configurations[c] # 0}
           x == Collecting(names)
           w == [b \in {a} |-> Forgotten]
<1>2. /\ db' = db /\ txn' = txn /\ mem' = mem /\ reads' = reads /\ reading' = reading
      /\ listening' = listening /\ doubt' = doubt /\ passed' = passed
      /\ act[s] = Idle /\ FleetFree(s)
      /\ assigned' = [assigned EXCEPT ![a] = Forgotten]
      /\ held' = [held EXCEPT ![s][a] = Forgotten]
      /\ act' = [act EXCEPT ![s] = x]
      /\ Stored(a) => /\ pins' = [pins EXCEPT ![s] = Noted(s, w)]
                      /\ last' = [last EXCEPT ![a] = s] /\ Announce(s, {a})
      /\ ~Stored(a) => pins' = pins /\ last' = last /\ heard' = heard
  BY DEF Forget
<1>3. x \in Act \cup {Idle} /\ x.pc \in {"idle", "collect"}
  <2>1. names \in SUBSET Configuration
    OBVIOUS
  <2> HIDE DEF names
  <2> QED
    BY <2>1, ActsMade
<1> HIDE DEF x
<1>4. /\ act' \in [Server -> Act \cup {Idle}] /\ act'[s] = x
      /\ \A t \in Server \ {s} : act'[t] = act[t]
  <2>1. act \in [Server -> Act \cup {Idle}]
    BY <1>1, Typed
  <2> QED
    BY <1>2, <1>3, <2>1, OneUpdated
<1>5. /\ held \in [Server -> [Agent -> Assignment]] /\ pins \in [Server -> Pins]
      /\ assigned \in [Agent -> Released \cup {Forgotten}] /\ pins[s].commits \in Nat
      /\ last \in [Agent -> Server \cup {None}] /\ heard \in [Server -> SUBSET Everything]
  BY <1>1, Typed, PinsFields
<1>6. /\ held' \in [Server -> [Agent -> Assignment]] /\ held'[s][a] = Forgotten
      /\ \A b \in Agent \ {a} : held'[s][b] = held[s][b]
      /\ \A t \in Server \ {s} : held'[t] = held[t]
  BY <1>2, <1>5, BlankFacts
<1>7. /\ assigned' \in [Agent -> Released \cup {Forgotten}] /\ assigned'[a] = Forgotten
      /\ \A b \in Agent \ {a} : assigned'[b] = assigned[b]
      /\ ~Stored(a) => assigned' = assigned
  BY <1>2, <1>5 DEF Stored
<1>8. act[s].pc = "idle" /\ reading[s].pc # "again" /\ ~(txn[s].open /\ txn[s].waited)
  BY <1>1, <1>2, ActsMade DEF FleetFree, Local, Coupled
<1>9. Coupled(s)'
  BY <1>1, <1>2, <1>3, <1>4, <1>8 DEF Local, Coupled
<1>10. \A row : InDb(row) => InDb(row)'
  BY <1>2 DEF InDb
<1>11. HoldsWhatItPins(s)'
  BY <1>1, <1>2, <1>8, <1>10, HoldsStays DEF Local
<1>12. \A kind \in Kinds : Current(mem[s], db, kind) => Current(mem'[s], db', kind)
  BY <1>2
<1>13. \A b \in Agent : held'[s][b] # Forgotten /\ b \notin passed'[s] =>
          \/ held'[s][b] = assigned'[b]
          \/ /\ b \in Held(s) \ passed[s] /\ held'[s][b] = held[s][b]
             /\ assigned'[b] = assigned[b]
  <2> SUFFICES ASSUME NEW b \in Agent, held'[s][b] # Forgotten, b \notin passed'[s]
               PROVE  /\ b \in Held(s) \ passed[s] /\ held'[s][b] = held[s][b]
                      /\ assigned'[b] = assigned[b]
    OBVIOUS
  <2>1. b # a
    BY <1>6
  <2> QED
    BY <1>2, <1>6, <1>7, <2>1 DEF Held
<1>14. PinsResolve'
  <2>1. \A b \in Agent : assigned'[b].deployment \in Deployment => assigned'[b] = assigned[b]
    BY <1>7, BlankFacts, Constants
  <2> QED
    BY <1>2, <2>1 DEF PinsResolve
<1>15. CASE Stored(a)
  <2>1. /\ pins' = [pins EXCEPT ![s] = Noted(s, w)] /\ last' = [last EXCEPT ![a] = s]
        /\ Announce(s, {a})
    BY <1>2, <1>15
  <2>2. {a} \in SUBSET Agent /\ w \in [{a} -> Released \cup {Forgotten}] /\ w[a] = Forgotten
    OBVIOUS
  <2> HIDE DEF w
  <2>3. /\ pins' \in [Server -> Pins] /\ \A t \in Server \ {s} : pins'[t] = pins[t]
        /\ pins'[s].commits = pins[s].commits + 1
        /\ \A b \in {a} : pins'[s].assignments[b] = IF w[b] = Forgotten THEN Unassigned ELSE w[b]
        /\ \A b \in Agent \ {a} : pins'[s].assignments[b] = pins[s].assignments[b]
        /\ \A b \in {a} : InFlight(s, None) # {} => pins'[s].committed[b] = pins[s].commits + 1
        /\ \A b \in Agent \ {a} : pins'[s].committed[b] = pins[s].committed[b]
    <3> DEFINE W == {a}
    <3>1. /\ W \in SUBSET Agent /\ w \in [W -> Released \cup {Forgotten}]
          /\ CatalogueTypeOK /\ pins' = [pins EXCEPT ![s] = Noted(s, w)]
      BY <1>1, <2>1, <2>2
    <3> HIDE DEF W
    <3>2. /\ pins' \in [Server -> Pins] /\ \A t \in Server \ {s} : pins'[t] = pins[t]
          /\ pins'[s].commits = pins[s].commits + 1
          /\ \A b \in W : pins'[s].assignments[b] = IF w[b] = Forgotten THEN Unassigned ELSE w[b]
          /\ \A b \in Agent \ W : pins'[s].assignments[b] = pins[s].assignments[b]
          /\ \A b \in W : InFlight(s, None) # {} => pins'[s].committed[b] = pins[s].commits + 1
          /\ \A b \in Agent \ W : pins'[s].committed[b] = pins[s].committed[b]
      BY <3>1, NotedFacts, Zenon
    <3> QED
      BY <3>2, Zenon DEF W
  <2>4. {a} \in SUBSET Everything
    BY KindsHeard
  <2>5. /\ heard' \in [Server -> SUBSET Everything] /\ heard'[s] = heard[s]
        /\ \A t \in Server : heard[t] \subseteq heard'[t]
        /\ \A t \in Server \ {s} : listening[t] => {a} \subseteq heard'[t]
    BY <1>1, <2>1, <2>4, AnnounceFacts
  <2>6. /\ last' \in [Agent -> Server \cup {None}] /\ last'[a] = s
        /\ \A b \in Agent \ {a} : last'[b] = last[b]
    BY <1>5, <2>1
  <2>7. CatalogueTypeOK'
    BY <1>1, <1>2, <1>4, <1>6, <1>7, <2>3, <2>5, <2>6, Typed, TypedNext
  <2>8. ReadsKnowCommits(s)' /\ OwnPins(s)'
    <3>1. \A b \in {a} : assigned'[b] = w[b]
      BY <1>7, <2>2
    <3>2. \A b \in Agent \ {a} : assigned'[b] = assigned[b] /\ (last'[b] = s => last[b] = s)
      BY <1>7, <2>6
    <3>3. \A r \in Readers : reads'[s][r].pc \in {"rows", "read"} => reads'[s][r] = reads[s][r]
      BY <1>2
    <3> QED
      BY <1>1, <2>1, <2>2, <3>1, <3>2, <3>3, NotedKeeps DEF Local
  <2>9. BehindIsDue(s)'
    BY <1>1, <1>2, <1>8, <1>12, <1>13, <2>5, BehindHeld DEF Local
  <2>10. Local(s)'
    BY <1>9, <1>11, <2>8, <2>9 DEF Local
  <2>11. ASSUME NEW t \in Server \ {s}
         PROVE  /\ Steady(t) /\ (listening[t] => Told(t))
                /\ \A b \in Agent : last'[b] = t => last[b] = t /\ assigned'[b] = assigned[b]
    <3>1. Steady(t)
      BY <1>2, <1>4, <1>6, <2>3 DEF Steady
    <3>2. listening[t] => Told(t)
      BY <1>2, <1>7, <2>5 DEF Told
    <3>3. ASSUME NEW b \in Agent, last'[b] = t
          PROVE  last[b] = t /\ assigned'[b] = assigned[b]
      <4>1. b # a
        BY <2>6, <3>3
      <4> QED
        BY <1>7, <2>6, <3>3, <4>1
    <3> QED
      BY <3>1, <3>2, <3>3
  <2> QED
    BY <1>1, <1>2, <1>14, <2>7, <2>10, <2>11, AssignStep
<1>16. CASE ~Stored(a)
  <2>1. pins' = pins /\ last' = last /\ heard' = heard /\ assigned' = assigned
    BY <1>2, <1>7, <1>16
  <2>2. CatalogueTypeOK'
    BY <1>1, <1>2, <1>4, <1>6, <2>1, Typed, TypedNext
  <2>3. BehindIsDue(s)'
    BY <1>1, <1>2, <1>8, <1>12, <1>13, <2>1, BehindHeld DEF Local
  <2>4. ReadsKnowCommits(s)' /\ OwnPins(s)'
    BY <1>1, <1>2, <2>1, <2>2, QuietParts
  <2>5. Local(s)'
    BY <1>9, <1>11, <2>3, <2>4 DEF Local
  <2>6. \A t \in Server \ {s} : Steady(t) /\ heard'[t] = heard[t]
    BY <1>2, <1>4, <1>6, <2>1 DEF Steady
  <2> QED
    BY <1>1, <1>2, <2>1, <2>2, <2>5, <2>6, LocalStep
<1> QED
  BY <1>15, <1>16

(* A release that holds every row it asked for: what it pins is saved, and *)
(* what it is to write is there.                                           *)
LEMMA HoldsAll ==
  ASSUME CatalogueTypeOK, NEW s \in Server, HoldsWhatItPins(s), txn[s].open, txn[s].todo = <<>>
  PROVE  /\ \A c \in Configuration : txn[s].pinned[c] # {} => db.saved[c] # 0
         /\ \A a \in DOMAIN txn[s].writes : txn[s].writes[a].deployment \in Deployment =>
              /\ db.deployments[txn[s].writes[a].deployment].stored
              /\ txn[s].writes[a].package # None => db.packages[txn[s].writes[a].package].stored
              /\ \A c \in Configuration : txn[s].writes[a].configurations[c] # 0 =>
                    txn[s].writes[a].configurations[c] \in txn[s].pinned[c]
<1> DEFINE t == txn[s]
<1>1. AskedFor(t) = ToSet(t.holds)
  BY SetOfNone DEF AskedFor
<1>2. \A row \in AskedFor(t) : InDb(row)
  BY <1>1 DEF HoldsWhatItPins
<1>3. ASSUME NEW c \in Configuration, t.pinned[c] # {} PROVE db.saved[c] # 0
  <2>1. InDb(c)
    BY <1>2, <1>3 DEF HoldsWhatItPins
  <2> QED
    BY <2>1, Constants DEF InDb
<1>4. ASSUME NEW a \in DOMAIN t.writes, t.writes[a].deployment \in Deployment
      PROVE  /\ db.deployments[t.writes[a].deployment].stored
             /\ t.writes[a].package # None => db.packages[t.writes[a].package].stored
             /\ \A c \in Configuration : t.writes[a].configurations[c] # 0 =>
                   t.writes[a].configurations[c] \in t.pinned[c]
  <2>1. t.writes \in Some(Released)
    BY Typed, TxnFields
  <2>2. t.writes[a] \in Released
    BY <2>1, SomeFacts
  <2>3. t.writes[a].package \in Package \cup {None}
    BY <2>2, ReleasedFacts
  <2>4. t.writes[a] # Unassigned
    BY <1>4, BlankFacts, Constants
  <2>5. /\ t.writes[a].deployment \in AskedFor(t)
        /\ t.writes[a].package \in AskedFor(t) \cup {None}
        /\ \A c \in Configuration : t.writes[a].configurations[c] # 0 =>
              t.writes[a].configurations[c] \in t.pinned[c]
    BY <2>4 DEF HoldsWhatItPins
  <2>6. db.deployments[t.writes[a].deployment].stored
    <3>1. InDb(t.writes[a].deployment)
      BY <1>2, <2>5
    <3> QED
      BY <1>4, <3>1, Constants DEF InDb
  <2>7. t.writes[a].package # None => db.packages[t.writes[a].package].stored
    <3> SUFFICES ASSUME t.writes[a].package # None
                 PROVE  db.packages[t.writes[a].package].stored
      OBVIOUS
    <3>1. InDb(t.writes[a].package) /\ t.writes[a].package \in Package
      BY <1>2, <2>3, <2>5
    <3> QED
      BY <3>1, Constants DEF InDb
  <2> QED
    BY <2>5, <2>6, <2>7
<1> QED
  BY <1>3, <1>4

(* The rows, with what a release pinned retained.                          *)
LEMMA RowsRetained ==
  ASSUME NEW r \in Rows, NEW pinned \in [Configuration -> SUBSET Revision], SoundRows(r),
         \A c \in Configuration : pinned[c] # {} => r.saved[c] # 0
  PROVE  LET q == [r EXCEPT !.retained = [c \in Configuration |-> @[c] \cup pinned[c]]]
         IN  /\ q \in Rows /\ SoundRows(q) /\ q.saved = r.saved
             /\ q.deployments = r.deployments /\ q.packages = r.packages
             /\ \A c \in Configuration : q.retained[c] = r.retained[c] \cup pinned[c]
             /\ (\A c \in Configuration : pinned[c] = {}) => q.retained = r.retained
<1> DEFINE g == [c \in Configuration |-> r.retained[c] \cup pinned[c]]
           v == [saved |-> r.saved, retained |-> g, deployments |-> r.deployments,
                 packages |-> r.packages]
<1>1. /\ r.saved \in [Configuration -> Revision \cup {0}]
      /\ r.retained \in [Configuration -> SUBSET Revision]
      /\ r.deployments \in [Deployment -> Member] /\ r.packages \in [Package -> Artifact]
  BY RowsFields
<1>2. /\ g \in [Configuration -> SUBSET Revision]
      /\ \A c \in Configuration : g[c] = r.retained[c] \cup pinned[c]
      /\ (\A c \in Configuration : pinned[c] = {}) => g = r.retained
  BY <1>1
<1>3. [r EXCEPT !.retained = [c \in Configuration |-> @[c] \cup pinned[c]]]
        = [r EXCEPT !.retained = g]
  OBVIOUS
<1> HIDE DEF g
<1>4. [r EXCEPT !.retained = g] = v
  BY DEF Rows
<1>5. v \in Rows
  BY <1>1, <1>2, RowsMade
<1>6. /\ v.saved = r.saved /\ v.retained = g /\ v.deployments = r.deployments
      /\ v.packages = r.packages
  OBVIOUS
<1> HIDE DEF v
<1>7. SoundRows(v)
  BY <1>2, <1>6 DEF SoundRows
<1> QED
  BY <1>2, <1>3, <1>4, <1>5, <1>6, <1>7

LEMMA CommitReleaseKeeps ==
  ASSUME CatalogueInv, PinsResolve, NEW s \in Server, CommitRelease(s)
  PROVE  Preserved
<1>1. CatalogueTypeOK /\ SoundRows(db) /\ SoundRows(mem[s]) /\ Local(s)
  BY InvParts
<1> DEFINE t == txn[s]
           W == {a \in DOMAIN t.writes : Stored(a)}
           w == [a \in W |-> t.writes[a]]
           said == W \cup (IF act[s].pc = "releasing" /\ act[s].names = {} THEN {}
                           ELSE {"configurations"})
<1>2. /\ t.open /\ t.todo = <<>> /\ txn' = [txn EXCEPT ![s] = NoTxn]
      /\ assigned' = [a \in Agent |-> IF a \in W THEN w[a] ELSE assigned[a]]
      /\ db' = [db EXCEPT !.retained = [c \in Configuration |-> @[c] \cup t.pinned[c]]]
      /\ Announce(s, said)
      /\ reads' = reads /\ reading' = reading /\ listening' = listening /\ passed' = passed
  BY DEF CommitRelease
<1>3. /\ db \in Rows /\ mem \in [Server -> Rows]
      /\ held \in [Server -> [Agent -> Assignment]] /\ pins \in [Server -> Pins]
      /\ assigned \in [Agent -> Released \cup {Forgotten}] /\ pins[s].commits \in Nat
      /\ last \in [Agent -> Server \cup {None}] /\ heard \in [Server -> SUBSET Everything]
      /\ act \in [Server -> Act \cup {Idle}] /\ doubt \subseteq Server
  BY <1>1, Typed, PinsFields
<1>4. t.writes \in Some(Released) /\ t.pinned \in [Configuration -> SUBSET Revision]
  BY <1>1, <1>2, Typed, TxnFields
<1>5. DOMAIN t.writes \subseteq Agent /\ \A a \in DOMAIN t.writes : t.writes[a] \in Released
  BY <1>4, SomeFacts
<1>6. /\ W \in SUBSET Agent /\ w \in [W -> Released \cup {Forgotten}]
      /\ \A a \in W : w[a] = t.writes[a] /\ w[a] \in Released /\ a \in DOMAIN t.writes
  BY <1>5
<1>7. \A a \in DOMAIN t.writes : a \notin W => assigned[a] = Forgotten
  BY DEF Stored
<1>8. /\ txn' \in [Server -> Txn \cup {NoTxn}] /\ txn'[s].open = FALSE
      /\ \A u \in Server \ {s} : txn'[u] = txn[u]
  BY <1>1, <1>2, Typed, NoTxnFacts, OneUpdated
<1>9. /\ \A c \in Configuration : t.pinned[c] # {} => db.saved[c] # 0
      /\ \A a \in DOMAIN t.writes : t.writes[a].deployment \in Deployment =>
           /\ db.deployments[t.writes[a].deployment].stored
           /\ t.writes[a].package # None => db.packages[t.writes[a].package].stored
           /\ \A c \in Configuration : t.writes[a].configurations[c] # 0 =>
                 t.writes[a].configurations[c] \in t.pinned[c]
  BY <1>1, <1>2, HoldsAll DEF Local
<1>10. /\ db' \in Rows /\ SoundRows(db') /\ db'.saved = db.saved
       /\ db'.deployments = db.deployments /\ db'.packages = db.packages
       /\ \A c \in Configuration : db'.retained[c] = db.retained[c] \cup t.pinned[c]
       /\ (\A c \in Configuration : t.pinned[c] = {}) => db'.retained = db.retained
  <2> DEFINE pinned == t.pinned
             q == [db EXCEPT !.retained = [c \in Configuration |-> @[c] \cup pinned[c]]]
  <2>1. /\ pinned \in [Configuration -> SUBSET Revision]
        /\ \A c \in Configuration : pinned[c] # {} => db.saved[c] # 0
    BY <1>4, <1>9
  <2>2. db' = q
    BY <1>2
  <2> HIDE DEF pinned
  <2>3. /\ q \in Rows /\ SoundRows(q) /\ q.saved = db.saved
        /\ q.deployments = db.deployments /\ q.packages = db.packages
        /\ \A c \in Configuration : q.retained[c] = db.retained[c] \cup pinned[c]
        /\ (\A c \in Configuration : pinned[c] = {}) => q.retained = db.retained
    BY <1>1, <1>3, <2>1, RowsRetained
  <2> HIDE DEF q
  <2> QED
    BY <2>2, <2>3 DEF pinned
<1>11. "configurations" \in said \/ db'.retained = db.retained
  <2> SUFFICES ASSUME act[s].pc = "releasing", act[s].names = {}
               PROVE  db'.retained = db.retained
    OBVIOUS
  <2>1. t.waited
    BY <1>1 DEF Local, Coupled
  <2>2. \A c \in Configuration : t.pinned[c] = {}
    BY <1>1, <1>2, <2>1 DEF Local, HoldsWhatItPins
  <2> QED
    BY <1>10, <2>2
<1>12. said \in SUBSET Everything /\ W \subseteq said
  BY <1>6, KindsHeard DEF Kinds
<1> HIDE DEF said
<1>13. /\ heard' \in [Server -> SUBSET Everything] /\ heard'[s] = heard[s]
       /\ \A u \in Server : heard[u] \subseteq heard'[u]
       /\ \A u \in Server \ {s} : listening[u] => said \subseteq heard'[u]
  BY <1>1, <1>2, <1>12, AnnounceFacts
<1>14. /\ assigned' \in [Agent -> Released \cup {Forgotten}]
       /\ \A a \in W : assigned'[a] = w[a]
       /\ \A a \in Agent \ W : assigned'[a] = assigned[a]
  <2> HIDE DEF w, W
  <2> QED
    BY <1>2, <1>3, <1>6
<1> HIDE DEF w, W
<1>15. \A u \in Server \ {s} : listening[u] => Told(u)
  BY <1>10, <1>11, <1>12, <1>13, <1>14 DEF Told
<1>16. PinsResolve'
  <2> SUFFICES ASSUME NEW a \in Agent, assigned'[a].deployment \in Deployment
               PROVE  /\ db'.deployments[assigned'[a].deployment].stored
                      /\ assigned'[a].package # None => db'.packages[assigned'[a].package].stored
                      /\ \A c \in Configuration : assigned'[a].configurations[c] # 0 =>
                            assigned'[a].configurations[c] \in db'.retained[c]
    BY DEF PinsResolve
  <2>1. CASE a \in W
    BY <1>6, <1>9, <1>10, <1>14, <2>1
  <2>2. CASE a \notin W
    BY <1>10, <1>14, <2>2 DEF PinsResolve
  <2> QED
    BY <2>1, <2>2
<1>17. HoldsWhatItPins(s)'
  BY <1>8 DEF HoldsWhatItPins
<1>18. CASE t.waited
  <2>1. /\ mem' = Retained(s, t) /\ pins' = [pins EXCEPT ![s] = Noted(s, w)]
        /\ held' = [held EXCEPT ![s] = [a \in Agent |->
                      IF a \notin DOMAIN t.writes \cap Held(s) THEN @[a]
                      ELSE IF a \in W THEN w[a] ELSE Forgotten]]
        /\ act' = [act EXCEPT ![s] = Collecting(act[s].touched)]
        /\ last' = [a \in Agent |-> IF a \in W THEN s ELSE last[a]] /\ doubt' = doubt
    BY <1>18 DEF CommitRelease, w, W
  <2>2. /\ mem' \in [Server -> Rows] /\ \A u \in Server \ {s} : mem'[u] = mem[u]
        /\ SoundRows(mem'[s]) /\ Retains(s)
        /\ \A c \in Configuration : mem[s].saved[c] # 0 => t.pinned[c] \subseteq mem'[s].retained[c]
    BY <1>1, <1>2, <2>1, RetainedFacts
  <2>3. /\ pins' \in [Server -> Pins] /\ \A u \in Server \ {s} : pins'[u] = pins[u]
        /\ pins'[s].commits = pins[s].commits + 1
        /\ \A a \in W : pins'[s].assignments[a] = IF w[a] = Forgotten THEN Unassigned ELSE w[a]
        /\ \A a \in Agent \ W : pins'[s].assignments[a] = pins[s].assignments[a]
        /\ \A a \in W : InFlight(s, None) # {} => pins'[s].committed[a] = pins[s].commits + 1
        /\ \A a \in Agent \ W : pins'[s].committed[a] = pins[s].committed[a]
    BY <1>1, <1>6, <2>1, NotedFacts
  <2>4. /\ held' \in [Server -> [Agent -> Assignment]]
        /\ \A a \in Agent : held'[s][a] = IF a \notin DOMAIN t.writes \cap Held(s) THEN held[s][a]
                                          ELSE IF a \in W THEN w[a] ELSE Forgotten
        /\ \A u \in Server \ {s} : held'[u] = held[u]
    <3> DEFINE h == [a \in Agent |-> IF a \notin DOMAIN t.writes \cap Held(s) THEN held[s][a]
                                     ELSE IF a \in W THEN w[a] ELSE Forgotten]
    <3>1. h \in [Agent -> Assignment]
      <4> SUFFICES ASSUME NEW a \in Agent
                   PROVE  (IF a \notin DOMAIN t.writes \cap Held(s) THEN held[s][a]
                           ELSE IF a \in W THEN w[a] ELSE Forgotten) \in Assignment
        OBVIOUS
      <4>1. a \in W => w[a] \in Assignment
        BY <1>6, ReleasedFacts
      <4> QED
        BY <1>3, <4>1, BlankFacts
    <3>2. held' = [held EXCEPT ![s] = h]
      BY <2>1
    <3>3. \A a \in Agent : h[a] = IF a \notin DOMAIN t.writes \cap Held(s) THEN held[s][a]
                                  ELSE IF a \in W THEN w[a] ELSE Forgotten
      OBVIOUS
    <3> HIDE DEF h
    <3>4. /\ held' \in [Server -> [Agent -> Assignment]] /\ held'[s] = h
          /\ \A u \in Server \ {s} : held'[u] = held[u]
      BY <1>3, <3>1, <3>2, OneUpdated
    <3> QED
      BY <3>3, <3>4
  <2>5. act[s].pc = "releasing" /\ reading[s].pc # "again"
    BY <1>1, <1>2, <1>18 DEF Local, Coupled
  <2>6. /\ act' \in [Server -> Act \cup {Idle}] /\ act'[s].pc \in {"idle", "collect"}
        /\ \A u \in Server \ {s} : act'[u] = act[u]
    <3>1. act[s].touched \subseteq Configuration
      BY <1>3, <2>5, ActFields
    <3>2. /\ Collecting(act[s].touched) \in Act \cup {Idle}
          /\ Collecting(act[s].touched).pc \in {"idle", "collect"}
      BY <3>1, ActsMade
    <3> QED
      BY <1>3, <2>1, <3>2, OneUpdated
  <2>7. /\ last' \in [Agent -> Server \cup {None}] /\ \A a \in W : last'[a] = s
        /\ \A a \in Agent \ W : last'[a] = last[a]
    BY <1>3, <1>6, <2>1
  <2>8. CatalogueTypeOK'
    BY <1>1, <1>2, <1>8, <1>10, <1>13, <1>14, <2>1, <2>2, <2>3, <2>4, <2>6, <2>7, Typed, TypedNext
  <2>9. Coupled(s)'
    BY <1>1, <1>2, <1>8, <2>5, <2>6 DEF Local, Coupled
  <2>10. ReadsKnowCommits(s)' /\ OwnPins(s)'
    <3>1. \A a \in Agent \ W : assigned'[a] = assigned[a] /\ (last'[a] = s => last[a] = s)
      BY <1>14, <2>7
    <3>2. \A r \in Readers : reads'[s][r].pc \in {"rows", "read"} => reads'[s][r] = reads[s][r]
      BY <1>2
    <3> QED
      BY <1>1, <1>6, <1>14, <2>1, <3>1, <3>2, NotedKeeps DEF Local
  <2>11. \A kind \in Kinds : Current(mem[s], db, kind) => Current(mem'[s], db', kind)
    <3> SUFFICES ASSUME NEW kind \in Kinds, Current(mem[s], db, kind)
                 PROVE  Current(mem'[s], db', kind)
      OBVIOUS
    <3>1. CASE kind = "configurations"
      <4>1. mem[s].saved = db.saved /\ \A c \in Configuration : db.retained[c] \subseteq mem[s].retained[c]
        BY <3>1 DEF Current
      <4>2. \A c \in Configuration : t.pinned[c] \subseteq mem'[s].retained[c]
        BY <1>9, <2>2, <4>1
      <4> QED
        BY <1>10, <2>2, <3>1, <4>1, <4>2 DEF Current, Retains
    <3>2. CASE kind # "configurations"
      BY <1>10, <2>2, <3>2 DEF Current, Retains
    <3> QED
      BY <3>1, <3>2
  <2>12. \A a \in Agent : held'[s][a] # Forgotten /\ a \notin passed'[s] =>
            \/ held'[s][a] = assigned'[a]
            \/ /\ a \in Held(s) \ passed[s] /\ held'[s][a] = held[s][a]
               /\ assigned'[a] = assigned[a]
    <3> SUFFICES ASSUME NEW a \in Agent, held'[s][a] # Forgotten, a \notin passed'[s]
                 PROVE  \/ held'[s][a] = assigned'[a]
                        \/ /\ a \in Held(s) \ passed[s] /\ held'[s][a] = held[s][a]
                           /\ assigned'[a] = assigned[a]
      OBVIOUS
    <3>1. CASE a \in DOMAIN t.writes \cap Held(s)
      BY <1>14, <2>4, <3>1
    <3>2. CASE a \notin DOMAIN t.writes \cap Held(s)
      <4>1. held'[s][a] = held[s][a] /\ a \in Held(s)
        BY <2>4, <3>2 DEF Held
      <4>2. a \notin W
        BY <1>6, <3>2, <4>1
      <4> QED
        BY <1>2, <1>14, <4>1, <4>2
    <3> QED
      BY <3>1, <3>2
  <2>13. BehindIsDue(s)'
    BY <1>1, <1>2, <1>13, <2>1, <2>5, <2>11, <2>12, BehindHeld DEF Local
  <2>14. Local(s)'
    BY <1>17, <2>9, <2>10, <2>13 DEF Local
  <2>15. ASSUME NEW u \in Server \ {s}
         PROVE  /\ Steady(u) /\ (listening[u] => Told(u))
                /\ \A a \in Agent : last'[a] = u => last[a] = u /\ assigned'[a] = assigned[a]
    <3>1. Steady(u)
      BY <1>2, <1>8, <2>1, <2>2, <2>3, <2>4, <2>6 DEF Steady
    <3>2. ASSUME NEW a \in Agent, last'[a] = u
          PROVE  last[a] = u /\ assigned'[a] = assigned[a]
      <4>1. a \notin W
        BY <2>7, <3>2
      <4> QED
        BY <1>14, <2>7, <3>2, <4>1
    <3> QED
      BY <1>15, <3>1, <3>2
  <2> QED
    BY <1>10, <1>16, <2>2, <2>8, <2>14, <2>15, AssignStep
<1>19. CASE ~t.waited
  <2>1. /\ mem' = mem /\ pins' = pins /\ held' = held /\ act' = act
        /\ last' = [a \in Agent |-> IF a \in W THEN None ELSE last[a]] /\ doubt' = doubt \cup {s}
    BY <1>19 DEF CommitRelease, W
  <2>2. /\ last' \in [Agent -> Server \cup {None}] /\ \A a \in W : last'[a] = None
        /\ \A a \in Agent \ W : last'[a] = last[a]
    BY <1>3, <1>6, <2>1
  <2>3. CatalogueTypeOK'
    BY <1>1, <1>2, <1>3, <1>8, <1>10, <1>13, <1>14, <2>1, <2>2, Typed, TypedNext
  <2>4. \A u \in Server : \A a \in Agent : last'[a] = u => last[a] = u /\ assigned'[a] = assigned[a]
    <3> SUFFICES ASSUME NEW u \in Server, NEW a \in Agent, last'[a] = u
                 PROVE  last[a] = u /\ assigned'[a] = assigned[a]
      OBVIOUS
    <3>1. a \notin W
      BY <2>2, Constants
    <3> QED
      BY <1>14, <2>2, <3>1
  <2>5. Coupled(s)'
    BY <1>1, <1>2, <1>8, <1>19, <2>1 DEF Local, Coupled
  <2>6. ReadsKnowCommits(s)'
    BY <1>1, <1>2, <1>3, <2>1, <2>3, <2>4, ReadsStay DEF Local
  <2>7. OwnPins(s)'
    BY <1>1, <2>1, <2>4, OwnStays DEF Local
  <2>8. BehindIsDue(s)'
    BY <2>1 DEF BehindIsDue
  <2>9. Local(s)'
    BY <1>17, <2>5, <2>6, <2>7, <2>8 DEF Local
  <2>10. \A u \in Server \ {s} : Steady(u)
    BY <1>2, <1>8, <2>1 DEF Steady
  <2> QED
    BY <1>1, <1>10, <1>15, <1>16, <2>1, <2>3, <2>4, <2>9, <2>10, AssignStep
<1> QED
  BY <1>18, <1>19

-------------------------------------------------------------------------------
(* The start, and every step                                               *)

LEMMA FirstRowsFacts == FirstRows \in Rows /\ SoundRows(FirstRows)
<1> DEFINE v == CHOOSE r \in Revision : TRUE
           q == CHOOSE p \in Package : TRUE
           b == CHOOSE x \in Bytes : TRUE
           member == [stored |-> TRUE, package |-> q, configurations |-> Configuration]
           artifact == [stored |-> TRUE, bytes |-> b, signed |-> TRUE]
           saved == [c \in Configuration |-> v]
           retained == [c \in Configuration |-> {}]
           deployments == [d \in Deployment |-> member]
           packages == [p \in Package |-> artifact]
           z == [saved |-> saved, retained |-> retained, deployments |-> deployments,
                 packages |-> packages]
<1>1. v \in Revision /\ q \in Package /\ b \in Bytes
  BY Constants
<1>2. FirstRows = z
  BY DEF FirstRows
<1> HIDE DEF v, q, b
<1>3. member \in Member /\ artifact \in Artifact
  BY <1>1 DEF Member, Artifact
<1>4. member.stored /\ artifact.stored /\ artifact.bytes # 0
  BY <1>1, Constants
<1> HIDE DEF member, artifact
<1>5. /\ saved \in [Configuration -> Revision \cup {0}]
      /\ retained \in [Configuration -> SUBSET Revision]
      /\ deployments \in [Deployment -> Member] /\ packages \in [Package -> Artifact]
  BY <1>1, <1>3
<1>6. /\ \A c \in Configuration : saved[c] # 0
      /\ \A d \in Deployment : deployments[d].stored
      /\ \A p \in Package : packages[p].stored /\ packages[p].bytes # 0
  BY <1>1, <1>4, Constants
<1> HIDE DEF saved, retained, deployments, packages
<1>7. z \in Rows
  BY <1>5, RowsMade
<1>8. z.saved = saved /\ z.deployments = deployments /\ z.packages = packages
  OBVIOUS
<1> HIDE DEF z
<1>9. SoundRows(z)
  BY <1>6, <1>8 DEF SoundRows
<1> QED
  BY <1>2, <1>7, <1>9

LEMMA CatalogueInit ==
  ASSUME Init
  PROVE  CatalogueInv /\ PinsResolve
<1> DEFINE p == [assignments |-> [a \in Agent |-> Unassigned], commits |-> 0,
                 committed |-> [a \in Agent |-> 0]]
<1>1. /\ db = FirstRows /\ assigned = [a \in Agent |-> Unassigned]
      /\ txn = [s \in Server |-> NoTxn] /\ mem = [s \in Server |-> FirstRows]
      /\ held = [s \in Server |-> [a \in Agent |-> Forgotten]]
      /\ pins = [s \in Server |-> p]
      /\ reads = [s \in Server |-> [r \in Readers |-> NoRead]]
      /\ act = [s \in Server |-> Idle] /\ reading = [s \in Server |-> Quiet]
      /\ heard = [s \in Server |-> {}] /\ listening = [s \in Server |-> TRUE]
      /\ last = [a \in Agent |-> None] /\ doubt = {} /\ passed = [s \in Server |-> {}]
  BY DEF Init
<1>2. p \in Pins
  BY BlankFacts DEF Pins
<1> HIDE DEF p
<1>3. CatalogueTypeOK
  BY <1>1, <1>2, FirstRowsFacts, BlankFacts, NoTxnFacts, NoReadFacts, QuietFacts, ActsMade, Typed
<1>4. \A a \in Agent : assigned[a] = Unassigned /\ last[a] = None
  BY <1>1
<1>5. RowsSound
  BY <1>1, FirstRowsFacts DEF RowsSound
<1>6. OwnCommitsPinned
  BY <1>4 DEF OwnCommitsPinned
<1>7. PinsResolve
  BY <1>4, BlankFacts, Constants DEF PinsResolve
<1>8. ASSUME NEW s \in Server
      PROVE  Coupled(s) /\ HoldsWhatItPins(s) /\ ReadsKnowCommits(s) /\ BehindIsDue(s)
  <2>1. /\ txn[s].open = FALSE /\ act[s].pc = "idle" /\ reading[s].pc = "none"
        /\ \A r \in Readers : reads[s][r].pc = "none"
    BY <1>1, NoTxnFacts, NoReadFacts, QuietFacts, ActsMade
  <2>2. mem[s] = db /\ \A a \in Agent : held[s][a] = Forgotten
    BY <1>1
  <2>3. "follow" \in Readers
    BY DEF Readers
  <2>4. Coupled(s)
    BY <2>1, <2>3 DEF Coupled
  <2>5. HoldsWhatItPins(s) /\ ReadsKnowCommits(s)
    BY <2>1 DEF HoldsWhatItPins, ReadsKnowCommits
  <2>6. BehindIsDue(s)
    BY <2>1, <2>2 DEF BehindIsDue, Held
  <2> QED
    BY <2>4, <2>5, <2>6
<1> QED
  BY <1>3, <1>5, <1>6, <1>7, <1>8 DEF CatalogueInv

LEMMA StutterKeeps ==
  ASSUME CatalogueInv, PinsResolve, UNCHANGED vars
  PROVE  Preserved
<1>1. /\ db' = db /\ assigned' = assigned /\ txn' = txn /\ mem' = mem /\ held' = held
      /\ pins' = pins /\ reads' = reads /\ act' = act /\ reading' = reading /\ heard' = heard
      /\ listening' = listening /\ last' = last /\ doubt' = doubt /\ passed' = passed
  BY DEF vars, database, ears, ghosts
<1>2. /\ CatalogueTypeOK /\ SoundRows(db)
      /\ \A s \in Server : SoundRows(mem[s]) /\ Local(s)
  BY InvParts
<1>3. CatalogueTypeOK'
  BY <1>1, <1>2, Typed, TypedNext
<1>4. ASSUME NEW s \in Server PROVE Local(s)'
  BY <1>1, <1>2, <1>3, QuietParts DEF Local
<1>5. CatalogueInv'
  BY <1>1, <1>2, <1>3, <1>4, Assembled
<1> QED
  BY <1>1, <1>5 DEF Preserved, PinsResolve, BytesStay

LEMMA FollowKeeps ==
  ASSUME CatalogueInv, PinsResolve, NEW s \in Server, Follow(s)
  PROVE  Preserved
  BY ListenKeeps, FollowStartKeeps, FollowReadKeeps, FollowRefreshKeeps, FollowCompareKeeps,
     FollowApplyKeeps, FollowFailsKeeps, ReloadKeeps, ReadConfigurationsKeeps DEF Follow

LEMMA LoadKeeps ==
  ASSUME CatalogueInv, PinsResolve, NEW s \in Server, Load(s)
  PROVE  Preserved
  BY LoadBeginKeeps, LoadInsertKeeps DEF Load

LEMMA EditKeeps ==
  ASSUME CatalogueInv, PinsResolve, NEW s \in Server, Edit(s)
  PROVE  Preserved
  BY SaveKeeps, PutDeploymentKeeps, ChangeMembersKeeps, DeleteDeploymentKeeps, PutCheckKeeps,
     PutConfigurationKeeps, PutRefusedKeeps, DeleteConfigurationKeeps, DropKeeps, DropFailsKeeps
     DEF Edit

LEMMA EditPackageKeeps ==
  ASSUME CatalogueInv, PinsResolve, NEW s \in Server, EditPackage(s)
  PROVE  Preserved
  BY CreatePackageKeeps, DeletePackageKeeps, PackageCheckKeeps, UploadKeeps, SignKeeps,
     SignChangedKeeps, DeleteEntryKeeps, PackageRefusedKeeps DEF EditPackage

LEMMA RolloutKeeps ==
  ASSUME CatalogueInv, PinsResolve, NEW s \in Server, Rollout(s)
  PROVE  Preserved
<1>1. {Agent} \cup {{a} : a \in Agent} \subseteq SUBSET Agent
  OBVIOUS
<1> QED
  BY <1>1, RolloutReadKeeps, RolloutRefreshKeeps, PressKeeps, PinKeeps, HoldRowKeeps, AbortKeeps,
     GiveUpKeeps, CommitReleaseKeeps, CollectKeeps, CollectFailsKeeps DEF Rollout

LEMMA StepKeeps ==
  ASSUME CatalogueInv, PinsResolve, [Next]_vars
  PROVE  Preserved
<1>1. CASE Next
  <2>1. PICK s \in Server : \/ Follow(s) \/ Load(s) \/ LoadRefresh(s) \/ Deafen(s)
                            \/ Edit(s) \/ EditPackage(s) \/ Rollout(s)
                            \/ \E a \in Agent : Forget(s, a)
    BY <1>1 DEF Next
  <2> QED
    BY <2>1, FollowKeeps, LoadKeeps, LoadRefreshKeeps, DeafenKeeps, EditKeeps, EditPackageKeeps,
       RolloutKeeps, ForgetKeeps
<1>2. CASE UNCHANGED vars
  BY <1>2, StutterKeeps
<1> QED
  BY <1>1, <1>2

-------------------------------------------------------------------------------
(* What the catalogue keeps                                                *)

(* The whole argument in one invariant: the catalogue stays sound, and     *)
(* what is assigned stays stored.                                          *)
LEMMA SoundAndResolved == Spec => [](CatalogueInv /\ PinsResolve)
<1>1. Init => CatalogueInv /\ PinsResolve
  BY CatalogueInit
<1>2. CatalogueInv /\ PinsResolve /\ [Next]_vars => (CatalogueInv /\ PinsResolve)'
  <2> SUFFICES ASSUME CatalogueInv, PinsResolve, [Next]_vars
               PROVE  CatalogueInv' /\ PinsResolve'
    OBVIOUS
  <2>1. Preserved
    BY StepKeeps
  <2> QED
    BY <2>1 DEF Preserved
<1> QED
  BY <1>1, <1>2, PTL DEF Spec

(* Every instance stays sound through every edit, rollout, take-up and     *)
(* lost answer: its shape and its locks, the rows its release holds FOR    *)
(* KEY SHARE, its pins and reads against what it committed                 *)
(* (PgAgentStore::refresh), and, where it listens, what it is behind with  *)
(* against what it has heard (take_up).                                    *)
THEOREM CatalogueSound == Spec => []CatalogueInv
  BY SoundAndResolved, PTL

(* What an Agent is assigned is stored: the Deployment it was released     *)
(* through, the Package and the revision of every Configuration, whatever  *)
(* other instances delete, collect or save while a rollout is on its way   *)
(* (release_assignments, delete_within, collect_revisions).                *)
THEOREM AssignmentsResolve == Spec => []PinsResolve
  BY SoundAndResolved, PTL

(* The bytes and the signature of a Package never change under an Agent    *)
(* that is assigned it before and after a step (upload, sign and delete of *)
(* an entry, each against the assignments stored when it commits).         *)
THEOREM AssignedBytesStay == Spec => AssignedBytesKept
<1>1. CatalogueInv /\ PinsResolve /\ [Next]_vars =>
        [\A a \in Agent : \A p \in Package :
           assigned[a].package = p /\ assigned'[a].package = p
              => db'.packages[p] = db.packages[p]]_vars
  <2> SUFFICES ASSUME CatalogueInv, PinsResolve, [Next]_vars
               PROVE  \A a \in Agent : \A p \in Package :
                        assigned[a].package = p /\ assigned'[a].package = p
                           => db'.packages[p] = db.packages[p]
    OBVIOUS
  <2>1. Preserved
    BY StepKeeps
  <2> QED
    BY <2>1 DEF Preserved, BytesStay
<1> QED
  BY <1>1, SoundAndResolved, PTL DEF Spec, AssignedBytesKept

(* An instance that listens, has nothing left of what it heard, is in no   *)
(* act and has had every answer holds the catalogue and the assignments as *)
(* they are stored, and can offer every revision they name (take_up,       *)
(* reload_catalogue, take_up_agents, compose).                             *)
THEOREM CaughtUpAlways == Spec => []CaughtUp
<1>1. CatalogueInv /\ PinsResolve => CaughtUp
  <2> SUFFICES ASSUME CatalogueInv, PinsResolve, NEW s \in Server,
                      listening[s], heard[s] = {}, reading[s].pc = "none", act[s] = Idle,
                      ~txn[s].open, s \notin doubt
               PROVE  /\ mem[s].saved = db.saved /\ mem[s].deployments = db.deployments
                      /\ mem[s].packages = db.packages
                      /\ \A c \in Configuration : db.retained[c] \subseteq mem[s].retained[c]
                      /\ \A a \in Held(s) \ passed[s] :
                           /\ held[s][a] = assigned[a]
                           /\ Composed(s, a) =
                                {c \in Configuration : assigned[a].configurations[c] # 0}
    BY DEF CaughtUp
  <2>1. CatalogueTypeOK /\ Coupled(s) /\ BehindIsDue(s)
    BY InvParts DEF Local
  <2>2. Awaited(s) = {}
    BY DEF Awaited
  <2>3. /\ mem[s].saved = db.saved /\ mem[s].deployments = db.deployments
        /\ mem[s].packages = db.packages
        /\ \A c \in Configuration : db.retained[c] \subseteq mem[s].retained[c]
    BY <2>1, <2>2 DEF BehindIsDue
  <2>4. \A a : ~AgentDue(s, a)
    BY <2>1 DEF AgentDue, Coupled
  <2>5. ASSUME NEW a \in Held(s) \ passed[s]
        PROVE  /\ held[s][a] = assigned[a]
               /\ Composed(s, a) = {c \in Configuration : assigned[a].configurations[c] # 0}
    <3>1. held[s][a] = assigned[a] /\ a \in Agent
      BY <2>1, <2>4, <2>5 DEF BehindIsDue, Held
    <3>2. assigned[a] \in Released \cup {Forgotten} /\ mem[s].retained \in [Configuration -> SUBSET Revision]
      BY <2>1, <3>1, Typed, RowsFields
    <3>3. \A c \in Configuration : assigned[a].configurations[c] # 0 => assigned[a].deployment \in Deployment
      BY <3>2, ReleasedFacts
    <3>4. ASSUME NEW c \in Configuration
          PROVE  assigned[a].configurations[c] \in mem[s].retained[c] <=>
                   assigned[a].configurations[c] # 0
      <4>1. assigned[a].configurations[c] # 0 => assigned[a].configurations[c] \in db.retained[c]
        BY <3>1, <3>3 DEF PinsResolve
      <4>2. 0 \notin mem[s].retained[c]
        BY <3>2, Constants
      <4> QED
        BY <2>3, <4>1, <4>2
    <3> QED
      BY <3>1, <3>4 DEF Composed
  <2> QED
    BY <2>3, <2>5
<1> QED
  BY <1>1, SoundAndResolved, PTL
===============================================================================
