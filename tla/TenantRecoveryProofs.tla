------------------------- MODULE TenantRecoveryProofs -------------------------
(***************************************************************************)
(* Proofs about TenantRecovery, for every choice of its constants: whatever *)
(* write fails and wherever a crash comes, state and ledger stay together, *)
(* the process goes on from what is saved, a restore keeps its safety      *)
(* copy, and a backup that was reported is followed by one that loads.     *)
(***************************************************************************)
EXTENDS TenantRecovery, FiniteSetTheorems, SequenceTheorems,
        WellFoundedInduction, TLAPS

Files == [envelope : Contents \cup {Absent}, order : Nat, scheduled : BOOLEAN]

\* A backup is being made, and being removed again.
Making == {"prune", "pruneManifest", "created"}
Undoing == {"undo", "remove", "undoManifest"}
Replicating == {"replicate", "replicaManifest", "pruneReplicas", "undoReplica",
                "replicated", "replicatedAgain", "replicationFailed"}
Replacing == {"reload", "rollback"}
Phases == {"idle", "manifest", "drill", "end", "overwrite"}
            \cup Making \cup Undoing \cup Replicating \cup Replacing

Ops == [phase : Phases, root : {"none", "backup", "replicate", "cycle", "restore"},
        id : Points \cup {0}, created : BOOLEAN,
        target : Contents \cup {Absent}, prev : Contents \cup {Absent}]

TypeOK ==
  /\ memory \in Contents /\ durable \in Contents \cup {Absent} /\ split \in BOOLEAN
  /\ waiting \in Waits \cup {Absent} /\ overtaken \in BOOLEAN
  /\ backups \in [Points -> Files] /\ replicas \in [Points -> Files]
  /\ op \in Ops /\ reported \in BOOLEAN
  /\ made \in 0..MaxBackup /\ faults \in Nat

\* What an operation knows when it is in a phase.
OperationOK ==
  /\ op.phase \notin {"idle", "drill", "end"} => op.id \in 1..made
  /\ op.phase \in Replacing \cup {"overwrite"} => op.root = "restore"
  /\ op.root = "restore" => op.target \in Contents
  /\ op.phase \in Replacing => op.prev \in Contents

\* State and ledger agree, also in what an operation holds.
LedgerOK ==
  ~overtaken => AlwaysConsistent /\ Consistent(op.target) /\ Consistent(op.prev)

\* Only a restore that replaces the snapshot lets it differ from the memory.
DurableOK ==
  op.phase \notin Replacing /\ durable # Absent /\ ~split /\ ~overtaken
    => memory = durable

\* Orders tell recovery points apart, and one that is made is the newest.
OrderOK ==
  /\ \A i \in Points : i > made => backups[i].order = 0
  /\ \A i, j \in Listed(backups) : backups[i].order = backups[j].order => i = j
  /\ op.phase = "manifest" => /\ backups[op.id].envelope # Absent
                              /\ backups[op.id].order = 0
  /\ op.phase \in Making =>
       /\ Loadable(backups, op.id)
       /\ \A i \in Listed(backups) : backups[i].order <= backups[op.id].order
  /\ op.phase = "pruneManifest" =>
       /\ NextExpired(backups, Retention) \in Expired(backups, Retention)
       /\ backups[NextExpired(backups, Retention)].envelope = Absent

\* The copy lacks nothing but events that came later.
Precedes(copy, c) == copy.entities = c.entities /\ IsPrefix(copy.events, c.events)

CopyOK ==
  op.root = "restore" =>
    /\ op.phase \in Replicating \cup Replacing \cup {"overwrite"} => Loadable(backups, op.id)
    /\ op.phase \in Making \cup Replicating \cup {"manifest", "overwrite"}
         => Precedes(backups[op.id].envelope, memory)
    /\ op.phase \in Replacing => Precedes(backups[op.id].envelope, op.prev)

\* Recovery points that load, and those that are listed and do not.
Good == {i \in Points : Loadable(backups, i)}
Broken == {i \in Listed(backups) : backups[i].envelope = Absent}

\* What an operation is about to remove from the list.
Pending == CASE At("pruneManifest") -> {NextExpired(backups, Retention)}
             [] At("undoManifest")  -> {op.id}
             [] OTHER                -> {}

\* Each broken one has cost a failure.  The one that is made may be removed
\* again, so another loads or there were as many failures as make up for it.
LoadsOK ==
  /\ Cardinality(Broken \ Pending) <= faults
  /\ reported =>
       /\ op.phase \in Making => Good \ {op.id} # {} \/ faults >= Retention - 1
       /\ op.phase \in Undoing => Good \ {op.id} # {} \/ faults >= Retention
       /\ op.phase \notin Making \cup Undoing => Good # {} \/ faults >= Retention

Inv ==
  /\ TypeOK /\ OperationOK /\ LedgerOK /\ DurableOK
  /\ OrderOK /\ CopyOK /\ LoadsOK
-----------------------------------------------------------------------------
(* The newest of the recovery points.                                       *)

\* A set of numbers that is not empty has a least one.
LEMMA LeastNatural ==
  ASSUME NEW T \in SUBSET Nat, T # {}
  PROVE  \E n \in T : \A m \in T : n <= m
<1>1. PICK n \in T : \A m \in T : ~(<<m, n>> \in OpToRel(<, Nat))
  BY NatLessThanWellFounded, WFMin, Zenon
<1>2. \A m \in T : ~(m < n)
  BY <1>1 DEF OpToRel
<1>3. QED BY <1>2

\* What is finite and not empty has a member whose number is greatest.
LEMMA GreatestOf ==
  ASSUME NEW S, IsFiniteSet(S), S # {}, NEW g, \A i \in S : g[i] \in Nat
  PROVE  \E i \in S : \A j \in S : g[j] <= g[i]
<1> DEFINE Above(i) == {j \in S : g[j] > g[i]}
           T == {Cardinality(Above(i)) : i \in S}
<1>1. \A i \in S : /\ IsFiniteSet(Above(i)) /\ Cardinality(Above(i)) \in Nat
  BY FS_Subset, FS_CardinalityType
<1>2. PICK i \in S : \A j \in S : Cardinality(Above(i)) <= Cardinality(Above(j))
  <2>1. T \in SUBSET Nat /\ T # {}
    BY <1>1
  <2>2. PICK n \in T : \A m \in T : n <= m
    BY <2>1, LeastNatural
  <2>3. PICK i \in S : n = Cardinality(Above(i))
    BY <2>2
  <2>4. \A j \in S : Cardinality(Above(j)) \in T
    OBVIOUS
  <2>5. QED BY <2>2, <2>3, <2>4
<1>3. ASSUME NEW j \in S, g[j] > g[i] PROVE FALSE
  <2>1. Above(j) \in SUBSET Above(i) /\ j \in Above(i) /\ j \notin Above(j)
    BY <1>3
  <2> HIDE DEF Above
  <2>2. Cardinality(Above(j)) <= Cardinality(Above(i)) /\ Cardinality(Above(j)) # Cardinality(Above(i))
    BY <1>1, <2>1, FS_Subset
  <2>3. QED BY <1>1, <1>2, <2>2
<1>4. QED BY <1>3

LEMMA ListedFinite ==
  ASSUME NEW f, NEW S \in SUBSET Listed(f)
  PROVE  IsFiniteSet(S) /\ Cardinality(S) \in Nat
<1>1. IsFiniteSet(Points)
  BY RecoveryAssumption, FS_Interval DEF Points
<1>2. S \in SUBSET Points
  BY DEF Listed
<1>3. QED BY <1>1, <1>2, FS_Subset, FS_CardinalityType

\* createdOrder and the first of list.
LEMMA NewestListed ==
  ASSUME NEW f \in [Points -> Files]
  PROVE  /\ LatestOrder(f) \in Nat
         /\ \A i \in Listed(f) : f[i].order <= LatestOrder(f)
         /\ Listed(f) # {} => Newest(f) \in Listed(f)
<1>1. CASE Listed(f) = {}
  BY <1>1 DEF LatestOrder
<1>2. CASE Listed(f) # {}
  <2> DEFINE g == [i \in Listed(f) |-> f[i].order]
             N == {f[i].order : i \in Listed(f)}
  <2>1. \A i \in Listed(f) : g[i] \in Nat /\ g[i] = f[i].order
    BY DEF Listed, Files
  <2>2. IsFiniteSet(Listed(f))
    BY ListedFinite
  <2>3. PICK i \in Listed(f) : \A j \in Listed(f) : g[j] <= g[i]
    <3> HIDE DEF g
    <3>1. QED BY <1>2, <2>1, <2>2, GreatestOf
  <2>4. \E n \in N : \A j \in Listed(f) : f[j].order <= n
    BY <2>1, <2>3
  <2> DEFINE n == CHOOSE n \in N : \A j \in Listed(f) : f[j].order <= n
  <2>5. n \in N /\ \A j \in Listed(f) : f[j].order <= n
    BY <2>4
  <2>6. LatestOrder(f) = n
    BY <1>2 DEF LatestOrder
  <2>7. \E j \in Listed(f) : f[j].order = LatestOrder(f)
    BY <2>5, <2>6
  <2>8. LatestOrder(f) \in Nat
    BY <2>1, <2>7
  <2>9. Newest(f) \in Listed(f)
    BY <2>7 DEF Newest
  <2>10. QED BY <2>5, <2>6, <2>8, <2>9
<1>3. QED BY <1>1, <1>2

LEMMA NextOrderGreater ==
  ASSUME NEW f \in [Points -> Files], NEW clock \in 1..MaxClock
  PROVE  /\ NextOrder(f, clock) \in Nat \ {0}
         /\ \A i \in Listed(f) : f[i].order < NextOrder(f, clock)
BY NewestListed, RecoveryAssumption DEF NextOrder, Listed, Files

\* What prune takes first.
LEMMA NextExpiredFound ==
  ASSUME NEW f \in [Points -> Files], NEW limit, Expired(f, limit) # {}
  PROVE  /\ NextExpired(f, limit) \in Expired(f, limit)
         /\ \A j \in Expired(f, limit) : f[j].order <= f[NextExpired(f, limit)].order
<1> DEFINE E == Expired(f, limit)
           g == [i \in E |-> f[i].order]
<1>1. E \in SUBSET Listed(f)
  BY DEF Expired
<1>2. IsFiniteSet(E)
  BY <1>1, ListedFinite
<1>3. \A i \in E : g[i] \in Nat /\ g[i] = f[i].order
  BY <1>1 DEF Listed, Files
<1>4. PICK i \in E : \A j \in E : g[j] <= g[i]
  <2> HIDE DEF g, E
  <2>1. E # {}
    BY DEF E
  <2>2. QED BY <1>2, <1>3, <2>1, GreatestOf
<1>5. \E k \in E : \A j \in E : f[j].order <= f[k].order
  BY <1>3, <1>4
<1>6. QED BY <1>5 DEF NextExpired

\* It is the only one where orders differ.
LEMMA NextExpiredOnly ==
  ASSUME NEW f \in [Points -> Files], NEW limit, NEW i \in Expired(f, limit),
         \A j \in Expired(f, limit) : f[j].order <= f[i].order,
         \A j, k \in Listed(f) : f[j].order = f[k].order => j = k
  PROVE  NextExpired(f, limit) = i
<1>1. NextExpired(f, limit) \in Expired(f, limit)
      /\ f[i].order <= f[NextExpired(f, limit)].order
  BY NextExpiredFound
<1>2. Expired(f, limit) \subseteq Listed(f) /\ \A j \in Listed(f) : f[j].order \in Nat
  BY DEF Expired, Listed, Files
<1>3. QED BY <1>1, <1>2

\* What expires depends on the orders only.
LEMMA ExpiredSame ==
  ASSUME NEW f, NEW g, NEW limit, \A i \in Points : f[i].order = g[i].order
  PROVE  Listed(f) = Listed(g) /\ Expired(f, limit) = Expired(g, limit)
<1>1. Listed(f) = Listed(g)
  BY DEF Listed
<1>2. \A i \in Listed(f) : {j \in Listed(f) : f[j].order > f[i].order}
                             = {j \in Listed(g) : g[j].order > g[i].order}
  BY <1>1 DEF Listed
<1>3. QED BY <1>1, <1>2 DEF Expired

\* The newest never expires.
LEMMA NewestKept ==
  ASSUME NEW f \in [Points -> Files], NEW i,
         \A j \in Listed(f) : f[j].order <= f[i].order
  PROVE  i \notin Expired(f, Retention)
<1>1. SUFFICES ASSUME i \in Listed(f) PROVE i \notin Expired(f, Retention)
  BY DEF Expired
<1>2. {j \in Listed(f) : f[j].order > f[i].order} = {}
  BY <1>1 DEF Listed, Files
<1>3. Cardinality({}) = 0
  BY FS_EmptySet
<1>4. QED BY <1>2, <1>3, RecoveryAssumption DEF Expired

-----------------------------------------------------------------------------
(* Ledgers and the state they account for.                                  *)

LEMMA EventAppended ==
  ASSUME NEW c \in Contents, NEW e \in Kinds \cup {Operation}
  PROVE  /\ WithEvent(c, e) \in Contents
         /\ WithEvent(c, e).entities = c.entities
         /\ WithEvent(c, e).events = Append(c.events, e)
BY DEF WithEvent, Contents

LEMMA CountAppended ==
  ASSUME NEW c \in Contents, NEW e \in Kinds \cup {Operation}, NEW kind \in Kinds
  PROVE  /\ Count(c, kind) \in Nat
         /\ Count(WithEvent(c, e), kind)
              = IF e = kind THEN Count(c, kind) + 1 ELSE Count(c, kind)
<1> DEFINE s == c.events
           t == Append(s, e)
           A == {n \in DOMAIN s : s[n] = kind}
           B == {n \in DOMAIN t : t[n] = kind}
<1>1. s \in Seq(Kinds \cup {Operation}) /\ Len(s) \in Nat /\ DOMAIN s = 1..Len(s)
  BY DEF Contents
<1>2. /\ DOMAIN t = 1..(Len(s) + 1) /\ t[Len(s) + 1] = e
      /\ \A n \in 1..Len(s) : t[n] = s[n]
  BY <1>1
<1>3. IsFiniteSet(A) /\ Cardinality(A) \in Nat /\ Len(s) + 1 \notin A
  <2>1. IsFiniteSet(1..Len(s)) /\ A \in SUBSET (1..Len(s))
    BY <1>1, FS_Interval
  <2>2. QED BY <1>1, <2>1, FS_Subset, FS_CardinalityType
<1>4. B = IF e = kind THEN A \cup {Len(s) + 1} ELSE A
  BY <1>1, <1>2
<1>5. Cardinality(B) = IF e = kind THEN Cardinality(A) + 1 ELSE Cardinality(A)
  <2> HIDE DEF A, B
  <2>1. QED BY <1>3, <1>4, FS_AddElement
<1>6. QED BY <1>3, <1>5, EventAppended DEF Count

\* An event that creates nothing.
LEMMA OperationConsistent ==
  ASSUME NEW c \in Contents, Consistent(c)
  PROVE  Consistent(WithEvent(c, Operation))
<1>1. c.entities = [kind \in Kinds |-> Count(c, kind)]
  BY ContentsAssumption DEF Consistent
<1>2. \A kind \in Kinds : Count(WithEvent(c, Operation), kind) = Count(c, kind)
  BY CountAppended, ContentsAssumption
<1>3. WithEvent(c, Operation).entities = c.entities
  BY EventAppended
<1>4. QED BY <1>1, <1>2, <1>3 DEF Consistent

Created(c, kind) == WithEvent([c EXCEPT !.entities[kind] = @ + 1], kind)

LEMMA CreatedConsistent ==
  ASSUME NEW c \in Contents, NEW kind \in Kinds
  PROVE  /\ Created(c, kind) \in Contents
         /\ Consistent(c) => Consistent(Created(c, kind))
<1> DEFINE d == [c EXCEPT !.entities[kind] = @ + 1]
<1>1. d \in Contents /\ d.events = c.events
      /\ d.entities = [c.entities EXCEPT ![kind] = @ + 1]
  <2> DEFINE f == [c.entities EXCEPT ![kind] = @ + 1]
  <2>1. c = [entities |-> c.entities, events |-> c.events]
        /\ c.entities \in [Kinds -> Nat] /\ c.events \in Seq(Kinds \cup {Operation})
    BY DEF Contents, States
  <2>2. f \in [Kinds -> Nat]
    BY <2>1
  <2>3. d = [c EXCEPT !.entities = f]
    BY <2>1
  <2>4. QED BY <2>1, <2>2, <2>3 DEF Contents, States
<1>2. \A k \in Kinds : Count(d, k) = Count(c, k)
  BY <1>1 DEF Count
<1> HIDE DEF d
<1>3. Created(c, kind) = WithEvent(d, kind)
  BY DEF Created, d
<1>4. Created(c, kind) \in Contents /\ Created(c, kind).entities = d.entities
  BY <1>1, <1>3, EventAppended
<1>5. ASSUME Consistent(c) PROVE Consistent(Created(c, kind))
  <2>1. c.entities = [k \in Kinds |-> Count(c, k)]
    BY <1>5, ContentsAssumption DEF Consistent
  <2>2. \A k \in Kinds : Count(Created(c, kind), k)
                            = IF kind = k THEN Count(c, k) + 1 ELSE Count(c, k)
    BY <1>1, <1>2, <1>3, CountAppended
  <2>3. d.entities = [k \in Kinds |-> Count(Created(c, kind), k)]
    BY <1>1, <2>1, <2>2
  <2>4. QED BY <1>4, <2>3 DEF Consistent
<1>6. QED BY <1>4, <1>5

LEMMA SeedConsistent == Seed \in Contents /\ Consistent(Seed)
<1>1. Seed \in Contents
  BY DEF Seed, Contents, States
<1>2. \A kind \in Kinds : Count(Seed, kind) = 0
  <2>1. \A kind : {n \in DOMAIN Seed.events : Seed.events[n] = kind} = {}
    BY DEF Seed
  <2>2. QED BY <2>1, FS_EmptySet DEF Count
<1>3. QED BY <1>1, <1>2 DEF Seed, Consistent

\* A copy precedes what it is a copy of, and what comes after.
LEMMA PrecedesItself ==
  ASSUME NEW c \in Contents
  PROVE  Precedes(c, c)
BY DEF Precedes, IsPrefix, Contents

LEMMA PrecedesEvent ==
  ASSUME NEW copy \in Contents, NEW c \in Contents, Precedes(copy, c),
         NEW e \in Kinds \cup {Operation}
  PROVE  Precedes(copy, WithEvent(c, e))
<1> DEFINE s == copy.events
           t == c.events
           u == Append(t, e)
<1>1. s \in Seq(Kinds \cup {Operation}) /\ t \in Seq(Kinds \cup {Operation})
      /\ u \in Seq(Kinds \cup {Operation}) /\ Len(u) = Len(t) + 1
  BY DEF Contents
<1>2. Len(s) <= Len(t) /\ SubSeq(s, 1, Len(s)) = SubSeq(t, 1, Len(s))
  BY DEF Precedes, IsPrefix
<1>3. SubSeq(u, 1, Len(s)) = SubSeq(t, 1, Len(s))
  <2>1. Len(s) \in 0..Len(t) /\ Len(s) \in 0..Len(u)
    BY <1>1, <1>2
  <2>2. \A n \in 1..Len(s) : u[n] = t[n]
    BY <1>1, <2>1
  <2>3. QED BY <1>1, <2>1, <2>2
<1>4. IsPrefix(s, u)
  BY <1>1, <1>2, <1>3 DEF IsPrefix
<1>5. copy.entities = c.entities
  BY DEF Precedes
<1>6. QED BY <1>4, <1>5, EventAppended DEF Precedes

-----------------------------------------------------------------------------
(* Types, and what an operation knows.                                      *)

LEMMA OperationMoves ==
  ASSUME op \in Ops, NEW phase \in Phases, op' = [op EXCEPT !.phase = phase]
  PROVE  /\ op' \in Ops /\ op'.phase = phase /\ op'.root = op.root /\ op'.id = op.id
         /\ op'.created = op.created /\ op'.target = op.target /\ op'.prev = op.prev
BY DEF Ops

LEMMA NoOperation ==
  /\ NoOp \in Ops /\ NoOp.phase = "idle" /\ NoOp.root = "none"
  /\ NoOp.target = Absent /\ NoOp.prev = Absent
BY DEF NoOp, Ops, Phases

LEMMA AfterBackupPhase ==
  ASSUME op \in Ops, AfterBackup
  PROVE  \E phase \in {"overwrite", "drill", "end"} :
           /\ op' = [op EXCEPT !.phase = phase]
           /\ phase = "overwrite" <=> op.root = "restore"
BY DEF AfterBackup, Go

LEMMA FilesChange ==
  ASSUME NEW f \in [Points -> Files], NEW i
  PROVE  /\ WithoutEnvelope(f, i) \in [Points -> Files]
         /\ WithoutManifest(f, i) \in [Points -> Files]
         /\ \A j \in Points :
              /\ WithoutEnvelope(f, i)[j].order = f[j].order
              /\ j # i => WithoutEnvelope(f, i)[j] = f[j] /\ WithoutManifest(f, i)[j] = f[j]
              /\ j = i => /\ WithoutEnvelope(f, i)[j].envelope = Absent
                          /\ WithoutManifest(f, i)[j].order = 0
                          /\ WithoutManifest(f, i)[j].envelope = f[j].envelope
BY DEF Files, WithoutEnvelope, WithoutManifest

LEMMA FilesTypes ==
  ASSUME NEW f \in [Points -> Files], NEW i
  PROVE  /\ WithoutEnvelope(f, i) \in [Points -> Files]
         /\ WithoutManifest(f, i) \in [Points -> Files]
         /\ WithoutManifest(WithoutEnvelope(f, i), i) \in [Points -> Files]
<1>1. /\ WithoutEnvelope(f, i) \in [Points -> Files]
      /\ WithoutManifest(f, i) \in [Points -> Files]
  BY FilesChange
<1>2. WithoutManifest(WithoutEnvelope(f, i), i) \in [Points -> Files]
  BY <1>1, FilesChange
<1>3. QED BY <1>1, <1>2

LEMMA InitType == Init => TypeOK /\ OperationOK
<1> SUFFICES ASSUME Init PROVE TypeOK /\ OperationOK
  OBVIOUS
<1>1. NoFiles \in Files
  BY DEF NoFiles, Files
<1>2. backups \in [Points -> Files] /\ replicas \in [Points -> Files]
  BY <1>1 DEF Init
<1>3. made \in 0..MaxBackup /\ faults \in Nat
  BY RecoveryAssumption DEF Init
<1>4. op = NoOp /\ op \in Ops
  BY NoOperation DEF Init
<1>5. OperationOK
  BY <1>4, NoOperation DEF OperationOK, Replacing
<1>6. TypeOK
  BY <1>2, <1>3, <1>4, SeedConsistent DEF Init, TypeOK
<1>7. QED BY <1>5, <1>6

\* What persistState does to memory and snapshot.
LEMMA PersistTypes ==
  ASSUME memory \in Contents, durable \in Contents \cup {Absent}, split \in BOOLEAN,
         faults \in Nat, NEW next \in Contents,
         \/ Persist(next) /\ UNCHANGED faults
         \/ PersistFails(next)
  PROVE  /\ memory' \in Contents /\ durable' \in Contents \cup {Absent}
         /\ split' \in BOOLEAN /\ faults' \in Nat
<1>1. CASE Persist(next) /\ UNCHANGED faults
  BY <1>1 DEF Persist, SaveSnapshot
<1>2. CASE PersistFails(next)
  BY <1>2 DEF PersistFails, SaveFails, Fault, RolledBack
<1>3. QED BY <1>1, <1>2

\* A backup begins.
LEMMA StartsBackup ==
  ASSUME TypeOK, NEW root \in {"backup", "cycle", "restore"},
         NEW target \in Contents \cup {Absent}, StartBackup(root, target)
  PROVE  /\ made < MaxBackup /\ made' = made + 1 /\ made + 1 \in Points
         /\ op' \in Ops /\ op'.phase = "manifest" /\ op'.root = root
         /\ op'.id = made + 1 /\ op'.target = target /\ op'.prev = Absent
         /\ memory' = memory /\ durable' = memory /\ split' = FALSE
         /\ backups' \in [Points -> Files]
         /\ \A i \in Points : /\ backups'[i].order = backups[i].order
                              /\ i # made + 1 => backups'[i] = backups[i]
         /\ backups'[made + 1].envelope = memory
         /\ UNCHANGED <<requests, replicas, reported, faults>>
<1>1. made \in 0..MaxBackup /\ made < MaxBackup /\ made' = made + 1
  BY DEF TypeOK, StartBackup
<1>2. made + 1 \in Points
  BY <1>1, RecoveryAssumption DEF Points
<1>3. /\ op' \in Ops /\ op'.phase = "manifest" /\ op'.root = root
      /\ op'.id = made + 1 /\ op'.target = target /\ op'.prev = Absent
  BY <1>2 DEF StartBackup, NoOp, Ops, Phases
<1>4. memory' = memory /\ durable' = memory /\ split' = FALSE
  BY DEF StartBackup, Persist, SaveSnapshot
<1>5. backups' = [backups EXCEPT ![made + 1].envelope = memory]
      /\ backups \in [Points -> Files] /\ memory \in Contents
  BY DEF TypeOK, StartBackup
<1>6. /\ backups' \in [Points -> Files]
      /\ \A i \in Points : /\ backups'[i].order = backups[i].order
                           /\ i # made + 1 => backups'[i] = backups[i]
      /\ backups'[made + 1].envelope = memory
  BY <1>2, <1>5 DEF Files
<1>7. QED BY <1>1, <1>2, <1>3, <1>4, <1>6 DEF StartBackup

\* How the operation goes on.
LEMMA OperationEnds ==
  ASSUME op' = NoOp
  PROVE  op' \in Ops /\ OperationOK'
BY NoOperation DEF OperationOK, Replacing

LEMMA OperationGoes ==
  ASSUME TypeOK, OperationOK, NEW phase \in Phases, UNCHANGED made,
         op.phase \notin {"idle", "drill", "end"},
         phase \in Replacing \cup {"overwrite"} => op.root = "restore",
         phase \notin Replacing,
         op' = [op EXCEPT !.phase = phase]
  PROVE  op' \in Ops /\ OperationOK'
<1>1. op \in Ops
  BY DEF TypeOK
<1>2. /\ op' \in Ops /\ op'.phase = phase /\ op'.root = op.root /\ op'.id = op.id
      /\ op'.target = op.target
  BY <1>1, OperationMoves
<1>3. QED BY <1>2 DEF OperationOK

LEMMA OperationStays ==
  ASSUME TypeOK, OperationOK, UNCHANGED <<op, made>>
  PROVE  op' \in Ops /\ OperationOK'
BY DEF TypeOK, OperationOK

LEMMA OperationFollowsBackup ==
  ASSUME TypeOK, OperationOK, UNCHANGED made,
         op.phase \notin {"idle", "drill", "end"}, AfterBackup
  PROVE  op' \in Ops /\ OperationOK'
<1>1. PICK phase \in {"overwrite", "drill", "end"} :
        op' = [op EXCEPT !.phase = phase] /\ (phase = "overwrite" <=> op.root = "restore")
  BY AfterBackupPhase DEF TypeOK
<1>2. phase \in Phases /\ phase \notin Replacing
  BY DEF Phases, Replacing
<1>3. QED BY <1>1, <1>2, OperationGoes

\* A request and a service that was replaced.
LEMMA ReplaceTypes ==
  ASSUME TypeOK, ReplaceService
  PROVE  waiting' \in Waits \cup {Absent}
<1>1. memory.entities \in States
  BY DEF TypeOK, Contents
<1>2. QED BY <1>1 DEF TypeOK, ReplaceService, Waits

LEMMA RequestTypes ==
  ASSUME TypeOK, OperationOK, OrderOK, Requests
  PROVE  TypeOK' /\ OperationOK'
<1>1. ASSUME NEW kind \in Kinds, LookUpService(kind) PROVE TypeOK' /\ OperationOK'
  <2>1. waiting' \in Waits
    BY <1>1 DEF LookUpService, Waits
  <2>2. op' \in Ops /\ OperationOK'
    BY <1>1, OperationStays DEF LookUpService
  <2>3. QED BY <1>1, <2>1, <2>2 DEF LookUpService, TypeOK, state
<1>2. CASE Mutate
  <2>1. waiting \in Waits /\ waiting.kind \in Kinds
    BY <1>2 DEF Mutate, TypeOK, Waits
  <2>2. Created(memory, waiting.kind) \in Contents
    BY <2>1, CreatedConsistent DEF TypeOK
  <2>3. \/ Persist(Created(memory, waiting.kind)) /\ UNCHANGED faults
        \/ PersistFails(Created(memory, waiting.kind))
    BY <1>2 DEF Mutate, Created
  <2>4. /\ memory' \in Contents /\ durable' \in Contents \cup {Absent}
        /\ split' \in BOOLEAN /\ faults' \in Nat
    BY <2>2, <2>3, PersistTypes DEF TypeOK
  <2>5. op' \in Ops /\ OperationOK'
    BY <1>2, OperationStays DEF Mutate
  <2>6. QED BY <1>2, <2>4, <2>5 DEF Mutate, TypeOK
<1>3. CASE MutateReplaced
  <2> DEFINE old == [memory EXCEPT !.entities = waiting.replaced]
             next == Created(old, waiting.kind)
  <2>1. waiting \in Waits /\ waiting.kind \in Kinds /\ waiting.replaced \in States
    BY <1>3 DEF MutateReplaced, TypeOK, Waits
  <2>2. old \in Contents
    BY <2>1 DEF TypeOK, Contents
  <2>3. next \in Contents /\ next.events \in Seq(Kinds \cup {Operation})
    BY <2>1, <2>2, CreatedConsistent DEF Contents
  <2> HIDE DEF next
  <2>4. \/ /\ SaveSnapshot(next) /\ memory' = [memory EXCEPT !.events = next.events]
           /\ overtaken' = TRUE /\ UNCHANGED <<split, faults>>
        \/ SaveFails /\ UNCHANGED <<memory, split, overtaken>>
    BY <1>3 DEF MutateReplaced, Created, next
  <2>5. /\ memory' \in Contents /\ durable' \in Contents \cup {Absent}
        /\ split' \in BOOLEAN /\ faults' \in Nat /\ overtaken' \in BOOLEAN
    <3>1. CASE SaveSnapshot(next) /\ UNCHANGED <<split, faults>> /\ overtaken' = TRUE
               /\ memory' = [memory EXCEPT !.events = next.events]
      <4>1. memory' \in Contents
        BY <2>3, <3>1 DEF TypeOK, Contents
      <4>2. QED BY <2>3, <3>1, <4>1 DEF TypeOK, SaveSnapshot
    <3>2. CASE SaveFails /\ UNCHANGED <<memory, split, overtaken>>
      BY <3>2 DEF TypeOK, SaveFails, Fault
    <3>3. QED BY <2>4, <3>1, <3>2
  <2>6. op' \in Ops /\ OperationOK'
    BY <1>3, OperationStays DEF MutateReplaced
  <2>7. QED BY <1>3, <2>5, <2>6 DEF MutateReplaced, TypeOK
<1>4. ASSUME NEW root \in {"backup", "cycle", "restore"},
             NEW target \in Contents \cup {Absent}, StartBackup(root, target),
             root = "restore" => target \in Contents
      PROVE  TypeOK' /\ OperationOK'
  <2>1. /\ made < MaxBackup /\ made' = made + 1
        /\ op' \in Ops /\ op'.phase = "manifest" /\ op'.root = root
        /\ op'.id = made + 1 /\ op'.target = target
        /\ memory' = memory /\ durable' = memory /\ split' = FALSE
        /\ backups' \in [Points -> Files]
        /\ UNCHANGED <<requests, replicas, reported, faults>>
    BY <1>4, StartsBackup
  <2>2. made \in Nat /\ made' \in 0..MaxBackup
    BY <2>1, RecoveryAssumption DEF TypeOK
  <2>3. OperationOK'
    BY <1>4, <2>1, <2>2 DEF OperationOK, Replacing
  <2>4. QED BY <2>1, <2>2, <2>3 DEF TypeOK, requests
<1>5. CASE CreateTenantBackup
  BY <1>4, <1>5 DEF CreateTenantBackup
<1>6. ASSUME NEW i \in Points, ReplicateTenantBackup(i) PROVE TypeOK' /\ OperationOK'
  <2>1. op' \in Ops /\ op'.phase = "replicate" /\ op'.root = "replicate" /\ op'.id = i
    BY <1>6 DEF ReplicateTenantBackup, NoOp, Ops, Phases, Replicating
  <2>2. i \in 1..made
    <3>1. made \in Nat /\ i \in Nat /\ i > 0
      BY RecoveryAssumption DEF TypeOK, Points
    <3>2. backups[i].order # 0
      BY <1>6 DEF ReplicateTenantBackup, Loadable
    <3>3. ~(i > made)
      BY <3>2 DEF OrderOK
    <3>4. QED BY <3>1, <3>3
  <2>3. OperationOK'
    BY <1>6, <2>1, <2>2 DEF ReplicateTenantBackup, OperationOK, Replacing
  <2>4. QED BY <1>6, <2>1, <2>3 DEF ReplicateTenantBackup, TypeOK, state, requests
<1>7. ASSUME NEW i \in Points, RunRecoveryDrill(i) PROVE TypeOK' /\ OperationOK'
  <2>1. WithEvent(memory, Operation) \in Contents
    BY EventAppended DEF TypeOK
  <2>2. /\ memory' \in Contents /\ durable' \in Contents \cup {Absent}
        /\ split' \in BOOLEAN /\ faults' \in Nat
    BY <1>7, <2>1, PersistTypes DEF RunRecoveryDrill, Drilled, TypeOK
  <2>3. op' \in Ops /\ OperationOK'
    BY <1>7, OperationStays DEF RunRecoveryDrill
  <2>4. QED BY <1>7, <2>2, <2>3 DEF RunRecoveryDrill, TypeOK, requests
<1>8. ASSUME NEW i \in Points, RestoreTenantBackup(i) PROVE TypeOK' /\ OperationOK'
  <2>1. backups[i].envelope \in Contents
    BY <1>8 DEF RestoreTenantBackup, Loadable, TypeOK, Files
  <2>2. QED BY <1>4, <1>8, <2>1 DEF RestoreTenantBackup
<1>9. QED BY <1>1, <1>2, <1>3, <1>5, <1>6, <1>7, <1>8 DEF Requests

LEMMA FaultsCounted ==
  ASSUME TypeOK, Fault \/ UNCHANGED faults
  PROVE  faults' \in Nat /\ faults <= faults'
BY DEF TypeOK, Fault

LEMMA BackupTypes ==
  ASSUME TypeOK, OperationOK, BackupSteps
  PROVE  TypeOK' /\ OperationOK'
<1> USE DEF At, Go
<1>1. CASE WriteManifest
  <2>1. op' \in Ops /\ OperationOK'
    BY <1>1, OperationGoes DEF WriteManifest, Phases, Making, Undoing, Replacing
  <2>2. ASSUME NEW clock \in 1..MaxClock
        PROVE  [backups EXCEPT ![op.id].order = NextOrder(backups, clock),
                               ![op.id].scheduled = (op.root = "cycle")] \in [Points -> Files]
    <3>1. NextOrder(backups, clock) \in Nat
      BY NextOrderGreater DEF TypeOK
    <3>2. QED BY <3>1 DEF TypeOK, Files
  <2>3. backups' \in [Points -> Files] /\ faults' \in Nat
    <3>1. backups' \in [Points -> Files]
      <4>1. CASE \E clock \in 1..MaxClock :
                   backups' = [backups EXCEPT ![op.id].order = NextOrder(backups, clock),
                                              ![op.id].scheduled = (op.root = "cycle")]
        BY <2>2, <4>1
      <4>2. CASE UNCHANGED backups
        BY <4>2 DEF TypeOK
      <4>3. QED BY <1>1, <4>1, <4>2 DEF WriteManifest
    <3>2. Fault \/ UNCHANGED faults
      BY <1>1 DEF WriteManifest, TypeOK
    <3>3. QED BY <3>1, <3>2, FaultsCounted
  <2>4. QED BY <1>1, <2>1, <2>3 DEF WriteManifest, TypeOK, state, requests
<1>2. CASE PruneEnvelope \/ PruneManifest
  <2>1. op' \in Ops /\ OperationOK'
    BY <1>2, OperationGoes DEF PruneEnvelope, PruneManifest, Phases, Making, Undoing, Replacing
  <2>2. backups' \in [Points -> Files] /\ faults' \in Nat
    <3>1. backups' \in [Points -> Files]
      <4>1. backups \in [Points -> Files]
        BY DEF TypeOK
      <4>2. QED BY <1>2, <4>1, FilesTypes DEF PruneEnvelope, PruneManifest
    <3>2. Fault \/ UNCHANGED faults
      BY <1>2 DEF PruneEnvelope, PruneManifest, TypeOK
    <3>3. QED BY <3>1, <3>2, FaultsCounted
  <2>3. QED BY <1>2, <2>1, <2>2 DEF PruneEnvelope, PruneManifest, TypeOK, state, requests
<1>3. CASE RecordBackup
  <2>1. WithEvent(memory, Operation) \in Contents
    BY EventAppended DEF TypeOK
  <2>2. /\ memory' \in Contents /\ durable' \in Contents \cup {Absent}
        /\ split' \in BOOLEAN /\ faults' \in Nat
    BY <1>3, <2>1, PersistTypes DEF RecordBackup, TypeOK
  <2>3. reported' \in BOOLEAN
    BY <1>3 DEF RecordBackup, TypeOK
  <2>4. CASE Go("remove")
    <3>1. op' \in Ops /\ OperationOK'
      BY <1>3, <2>4, OperationGoes DEF RecordBackup, Phases, Undoing, Replacing
    <3>2. QED BY <1>3, <2>2, <2>3, <3>1 DEF RecordBackup, TypeOK, requests
  <2>5. CASE op' = [op EXCEPT !.phase = "replicate", !.created = TRUE]
    <3>1. /\ op' \in Ops /\ op'.phase = "replicate" /\ op'.root = op.root /\ op'.id = op.id
          /\ op'.target = op.target
      BY <2>5 DEF TypeOK, Ops, Phases, Replicating
    <3>2. OperationOK'
      BY <1>3, <3>1 DEF RecordBackup, OperationOK, Replacing
    <3>3. QED BY <1>3, <2>2, <2>3, <3>1, <3>2 DEF RecordBackup, TypeOK, requests
  <2>6. QED BY <1>3, <2>4, <2>5 DEF RecordBackup
<1>4. CASE UndoEnvelope
  <2>1. op' \in Ops /\ OperationOK'
    <3>1. "undoManifest" \in Phases /\ "undoManifest" \notin Replacing \cup {"overwrite"}
      BY DEF Phases, Undoing, Replacing
    <3>2. CASE Go("undoManifest")
      BY <1>4, <3>1, <3>2, OperationGoes DEF UndoEnvelope
    <3>3. CASE End
      BY <3>3, OperationEnds DEF End
    <3>4. QED BY <1>4, <3>2, <3>3 DEF UndoEnvelope
  <2>2. backups' \in [Points -> Files] /\ faults' \in Nat
    <3>1. backups' \in [Points -> Files]
      <4>1. backups \in [Points -> Files]
        BY DEF TypeOK
      <4>2. QED BY <1>4, <4>1, FilesTypes DEF UndoEnvelope
    <3>2. Fault \/ UNCHANGED faults
      BY <1>4 DEF UndoEnvelope, TypeOK
    <3>3. QED BY <3>1, <3>2, FaultsCounted
  <2>3. QED BY <1>4, <2>1, <2>2 DEF UndoEnvelope, TypeOK, state, requests
<1>5. CASE UndoManifest
  <2>1. op' \in Ops /\ OperationOK'
    BY <1>5, OperationEnds DEF UndoManifest, End
  <2>2. backups' \in [Points -> Files] /\ faults' \in Nat
    <3>1. backups' \in [Points -> Files]
      <4>1. backups \in [Points -> Files]
        BY DEF TypeOK
      <4>2. QED BY <1>5, <4>1, FilesTypes DEF UndoManifest
    <3>2. Fault \/ UNCHANGED faults
      BY <1>5 DEF UndoManifest, TypeOK
    <3>3. QED BY <3>1, <3>2, FaultsCounted
  <2>3. QED BY <1>5, <2>1, <2>2 DEF UndoManifest, TypeOK, state, requests
<1>6. QED BY <1>1, <1>2, <1>3, <1>4, <1>5 DEF BackupSteps

LEMMA ReplicaTypes ==
  ASSUME TypeOK, OperationOK, ReplicaSteps
  PROVE  TypeOK' /\ OperationOK'
<1> USE DEF At, Go
<1>1. WithEvent(memory, Operation) \in Contents
  BY EventAppended DEF TypeOK
<1>2. CASE WriteReplica
  <2>1. op' \in Ops /\ OperationOK'
    BY <1>2, OperationGoes DEF WriteReplica, Phases, Replicating, Replacing
  <2>2. op.id \in Points /\ backups[op.id].envelope \in Contents \cup {Absent}
    <3>1. op.id \in 1..made /\ made \in 0..MaxBackup
      BY <1>2 DEF WriteReplica, OperationOK, TypeOK
    <3>2. op.id \in Points
      BY <3>1, RecoveryAssumption DEF Points
    <3>3. QED BY <3>2 DEF TypeOK, Files
  <2>3. [replicas EXCEPT ![op.id].envelope = backups[op.id].envelope] \in [Points -> Files]
    BY <2>2 DEF TypeOK, Files
  <2>4. replicas' \in [Points -> Files] /\ faults' \in Nat
    <3>1. replicas' \in [Points -> Files]
      BY <1>2, <2>3 DEF WriteReplica, TypeOK
    <3>2. Fault \/ UNCHANGED faults
      BY <1>2 DEF WriteReplica, TypeOK
    <3>3. QED BY <3>1, <3>2, FaultsCounted
  <2>5. QED BY <1>2, <2>1, <2>4 DEF WriteReplica, TypeOK, state, requests
<1>3. CASE WriteReplicaManifest
  <2>1. op' \in Ops /\ OperationOK'
    BY <1>3, OperationGoes DEF WriteReplicaManifest, Phases, Replicating, Replacing
  <2>2. ASSUME NEW clock \in 1..MaxClock
        PROVE  [replicas EXCEPT ![op.id].order = NextOrder(replicas, clock)] \in [Points -> Files]
    <3>1. NextOrder(replicas, clock) \in Nat
      BY NextOrderGreater DEF TypeOK
    <3>2. QED BY <3>1 DEF TypeOK, Files
  <2>3. replicas' \in [Points -> Files] /\ faults' \in Nat
    <3>1. replicas' \in [Points -> Files]
      BY <1>3, <2>2 DEF WriteReplicaManifest, TypeOK
    <3>2. Fault \/ UNCHANGED faults
      BY <1>3 DEF WriteReplicaManifest, TypeOK
    <3>3. QED BY <3>1, <3>2, FaultsCounted
  <2>4. QED BY <1>3, <2>1, <2>3 DEF WriteReplicaManifest, TypeOK, state, requests
<1>4. CASE PruneReplicas
  <2>1. op' \in Ops /\ OperationOK'
    BY <1>4, OperationGoes, OperationStays DEF PruneReplicas, Phases, Replicating, Replacing
  <2>2. replicas' \in [Points -> Files] /\ faults' \in Nat
    <3>1. replicas' \in [Points -> Files]
      <4>1. replicas \in [Points -> Files]
        BY DEF TypeOK
      <4>2. QED BY <1>4, <4>1, FilesTypes DEF PruneReplicas
    <3>2. Fault \/ UNCHANGED faults
      BY <1>4 DEF PruneReplicas, TypeOK
    <3>3. QED BY <3>1, <3>2, FaultsCounted
  <2>3. QED BY <1>4, <2>1, <2>2 DEF PruneReplicas, TypeOK, state, requests
<1>5. CASE RecordReplica
  <2>1. /\ memory' \in Contents /\ durable' \in Contents \cup {Absent}
        /\ split' \in BOOLEAN /\ faults' \in Nat
    BY <1>1, <1>5, PersistTypes DEF RecordReplica, TypeOK
  <2>2. op' \in Ops /\ OperationOK'
    BY <1>5, OperationGoes, OperationFollowsBackup
       DEF RecordReplica, Phases, Replicating, Replacing
  <2>3. QED BY <1>5, <2>1, <2>2 DEF RecordReplica, TypeOK, requests
<1>6. CASE UndoReplica
  <2>1. op' \in Ops /\ OperationOK'
    <3>1. "replicationFailed" \in Phases
          /\ "replicationFailed" \notin Replacing \cup {"overwrite"}
      BY DEF Phases, Replicating, Replacing
    <3>2. QED BY <1>6, <3>1, OperationGoes DEF UndoReplica
  <2>2. replicas' \in [Points -> Files] /\ faults' \in Nat
    <3>1. replicas' \in [Points -> Files]
      <4>1. replicas \in [Points -> Files]
        BY DEF TypeOK
      <4>2. QED BY <1>6, <4>1, FilesTypes DEF UndoReplica
    <3>2. Fault \/ UNCHANGED faults
      BY <1>6 DEF UndoReplica, TypeOK
    <3>3. QED BY <3>1, <3>2, FaultsCounted
  <2>3. QED BY <1>6, <2>1, <2>2 DEF UndoReplica, TypeOK, state, requests
<1>7. CASE ReplicationFailed
  <2>1. /\ memory' \in Contents /\ durable' \in Contents \cup {Absent}
        /\ split' \in BOOLEAN /\ faults' \in Nat
    <3>1. CASE op.created
      BY <1>1, <1>7, <3>1, PersistTypes DEF ReplicationFailed, TypeOK
    <3>2. CASE ~op.created
      BY <1>7, <3>2 DEF ReplicationFailed, TypeOK, state
    <3>3. QED BY <3>1, <3>2
  <2>2. op' \in Ops /\ OperationOK'
    BY <1>7, OperationEnds, OperationFollowsBackup DEF ReplicationFailed, End
  <2>3. QED BY <1>7, <2>1, <2>2 DEF ReplicationFailed, TypeOK, requests
<1>8. QED BY <1>2, <1>3, <1>4, <1>5, <1>6, <1>7 DEF ReplicaSteps

LEMMA RestoreTypes ==
  ASSUME TypeOK, OperationOK, RestoreSteps
  PROVE  TypeOK' /\ OperationOK'
<1> USE DEF At, Go
<1>1. CASE OverwriteSnapshot
  <2>1. PICK phase \in Replacing : op' = [op EXCEPT !.phase = phase, !.prev = memory]
    BY <1>1 DEF OverwriteSnapshot, Replacing
  <2>2. /\ op' \in Ops /\ op'.phase = phase /\ op'.root = op.root /\ op'.id = op.id
        /\ op'.target = op.target /\ op'.prev = memory
    BY <2>1 DEF TypeOK, Ops, Phases
  <2>3. OperationOK'
    BY <1>1, <2>2 DEF OverwriteSnapshot, OperationOK, TypeOK
  <2>4. op.target \in Contents
    BY <1>1 DEF OverwriteSnapshot, OperationOK
  <2>5. durable' \in Contents \cup {Absent} /\ faults' \in Nat
    BY <1>1, <2>4 DEF OverwriteSnapshot, SaveSnapshot, SaveFails, Fault, TypeOK
  <2>6. QED BY <1>1, <2>2, <2>3, <2>5 DEF OverwriteSnapshot, TypeOK, requests
<1>2. CASE ReloadState
  <2>1. op.target \in Contents /\ op.root = "restore"
    BY <1>2 DEF ReloadState, OperationOK, Replacing
  <2>2. Restored \in Contents
    BY <2>1, EventAppended DEF Restored
  <2>3. memory' = Restored /\ durable' \in Contents \cup {Absent} /\ faults' \in Nat
    BY <1>2, <2>2 DEF ReloadState, SaveSnapshot, SaveFails, Fault, TypeOK
  <2>4. waiting' \in Waits \cup {Absent}
    BY <1>2, ReplaceTypes DEF ReloadState
  <2>5. CASE End
    BY <1>2, <2>2, <2>3, <2>4, <2>5, OperationEnds DEF ReloadState, TypeOK, End
  <2>6. CASE Go("rollback")
    <3>1. "rollback" \in Phases
      BY DEF Phases, Replacing
    <3>2. /\ op' \in Ops /\ op'.phase = "rollback" /\ op'.root = op.root /\ op'.id = op.id
          /\ op'.target = op.target /\ op'.prev = op.prev
      BY <2>6, <3>1, OperationMoves DEF TypeOK
    <3>3. OperationOK'
      BY <1>2, <3>2 DEF ReloadState, OperationOK, Replacing
    <3>4. QED BY <1>2, <2>2, <2>3, <2>4, <3>2, <3>3 DEF ReloadState, TypeOK
  <2>7. QED BY <1>2, <2>5, <2>6 DEF ReloadState
<1>3. CASE RollBackRestore
  <2>1. op.prev \in Contents
    BY <1>3 DEF RollBackRestore, OperationOK, Replacing
  <2>2. /\ memory' \in Contents /\ durable' \in Contents \cup {Absent}
        /\ split' \in BOOLEAN /\ faults' \in Nat
    <3>1. CASE SaveSnapshot(op.prev) /\ memory' = TakenBack(op.prev) /\ UNCHANGED <<split, faults>>
      BY <2>1, <3>1 DEF TakenBack, SaveSnapshot, TypeOK
    <3>2. CASE SaveFails /\ split' = (memory # durable) /\ UNCHANGED memory
      BY <3>2, FaultsCounted DEF SaveFails, TypeOK
    <3>3. QED BY <1>3, <3>1, <3>2 DEF RollBackRestore
  <2>3. waiting' \in Waits \cup {Absent}
    BY <1>3, ReplaceTypes DEF RollBackRestore, TypeOK
  <2>4. op' \in Ops /\ OperationOK'
    BY <1>3, OperationEnds DEF RollBackRestore, End
  <2>5. QED BY <1>3, <2>2, <2>3, <2>4 DEF RollBackRestore, TypeOK
<1>4. QED BY <1>1, <1>2, <1>3 DEF RestoreSteps

\* The cycle, the end of an operation, and a crash.
LEMMA OtherTypes ==
  ASSUME TypeOK, OperationOK, OrderOK, RunOnce \/ EndOperation \/ Crash
  PROVE  TypeOK' /\ OperationOK'
<1> USE DEF At, Go
<1>1. CASE StartCycle /\ \E target : StartBackup("cycle", target)
  <2>1. StartBackup("cycle", Absent) /\ made \in Nat
    BY <1>1, RecoveryAssumption DEF StartCycle, TypeOK, StartBackup, NoOp
  <2>2. /\ made < MaxBackup /\ made' = made + 1
        /\ op' \in Ops /\ op'.phase = "manifest" /\ op'.root = "cycle"
        /\ op'.id = made + 1
        /\ memory' = memory /\ durable' = memory /\ split' = FALSE
        /\ backups' \in [Points -> Files]
        /\ UNCHANGED <<requests, replicas, reported, faults>>
    BY <2>1, StartsBackup
  <2>3. made' \in 0..MaxBackup
    BY <2>1, <2>2, RecoveryAssumption
  <2>4. OperationOK'
    BY <2>1, <2>2 DEF OperationOK, Replacing
  <2>5. QED BY <2>2, <2>3, <2>4 DEF TypeOK, requests
<1>2. CASE /\ Scheduled # {}
           /\ op' = [NoOp EXCEPT !.root = "cycle", !.id = Newest(backups),
                       !.phase = IF Newest(backups) \in ListedReplicas THEN "drill"
                                 ELSE IF Loadable(backups, Newest(backups))
                                      THEN "replicate" ELSE "end"]
           /\ UNCHANGED <<requests, state, backups, replicas, reported, made, faults>>
  <2> DEFINE i == Newest(backups)
  <2>1. i \in Listed(backups)
    BY <1>2, NewestListed DEF Scheduled, TypeOK
  <2>2. i \in Points /\ i \in Nat /\ i >= 1 /\ made \in Nat
    BY <2>1, RecoveryAssumption DEF Listed, Points, TypeOK
  <2>3. i \in 1..made
    <3>1. backups[i].order # 0 /\ i \in Points
      BY <2>1 DEF Listed
    <3>2. ~(i > made)
      BY <3>1 DEF OrderOK
    <3>3. QED BY <2>2, <3>2
  <2>4. /\ op' \in Ops /\ op'.root = "cycle" /\ op'.id = i
        /\ op'.phase \in {"drill", "replicate", "end"}
    BY <1>2, <2>2 DEF NoOp, Ops, Phases, Replicating
  <2>5. OperationOK'
    BY <1>2, <2>3, <2>4 DEF OperationOK, Replacing
  <2>6. QED BY <1>2, <2>4, <2>5 DEF TypeOK, state, requests
<1>3. CASE EndCycle
  <2>1. WithEvent(memory, Operation) \in Contents
    BY EventAppended DEF TypeOK
  <2>2. \/ Persist(WithEvent(memory, Operation)) /\ UNCHANGED faults
        \/ PersistFails(WithEvent(memory, Operation))
        \/ UNCHANGED <<state, faults>>
    BY <1>3 DEF EndCycle, Drilled
  <2>3. /\ memory' \in Contents /\ durable' \in Contents \cup {Absent}
        /\ split' \in BOOLEAN /\ faults' \in Nat
    BY <2>1, <2>2, PersistTypes DEF TypeOK, state
  <2>4. op' \in Ops /\ OperationOK'
    BY <1>3, OperationEnds DEF EndCycle, End
  <2>5. QED BY <1>3, <2>3, <2>4 DEF EndCycle, TypeOK, requests
<1>4. CASE EndOperation
  BY <1>4, OperationEnds DEF EndOperation, End, TypeOK, state, requests
<1>5. CASE Crash
  <2>1. Loaded \in Contents
    BY SeedConsistent DEF Loaded, HasSnapshot, TypeOK
  <2>2. op' \in Ops /\ OperationOK'
    BY <1>5, OperationEnds DEF Crash, End
  <2>3. faults' \in Nat
    BY <1>5, FaultsCounted DEF Crash
  <2>4. /\ memory' \in Contents /\ split' \in BOOLEAN /\ waiting' = Absent
        /\ UNCHANGED <<overtaken, durable, backups, replicas, reported, made>>
    BY <1>5, <2>1 DEF Crash
  <2>5. QED BY <2>2, <2>3, <2>4 DEF TypeOK
<1>6. CASE StartCycle
  BY <1>1, <1>2, <1>6 DEF StartCycle
<1>7. QED BY <1>3, <1>4, <1>5, <1>6 DEF RunOnce

LEMMA TypesKept ==
  ASSUME TypeOK, OperationOK, OrderOK, [Next]_vars
  PROVE  TypeOK' /\ OperationOK'
<1>1. CASE Next
  BY <1>1, RequestTypes, BackupTypes, ReplicaTypes, RestoreTypes, OtherTypes DEF Next
<1>2. CASE UNCHANGED vars
  BY <1>2 DEF vars, state, requests, TypeOK, OperationOK
<1>3. QED BY <1>1, <1>2

-----------------------------------------------------------------------------
(* What a step does to memory, snapshot and copies.                         *)

\* What an operation may save.
Saves == {memory, WithEvent(memory, Operation)} \cup {Created(memory, kind) : kind \in Kinds}

StateStep ==
  \/ UNCHANGED <<memory, durable, split>> /\ (op.phase \notin Replacing \/ UNCHANGED op)
  \/ memory' \in Saves /\ durable' = memory'
  \/ memory' = Loaded /\ UNCHANGED durable
  \/ op.phase = "overwrite" /\ UNCHANGED memory /\ durable' = op.target /\ op'.phase = "reload"
  \/ /\ op.phase = "reload" /\ memory' = Restored
     /\ \/ durable' = Restored
        \/ UNCHANGED durable /\ op'.phase = "rollback"
  \/ /\ op.phase = "rollback"
     /\ \/ memory' = op.prev /\ durable' = op.prev
        \/ UNCHANGED <<memory, durable>> /\ split' = (memory # durable)

LEMMA PersistSteps ==
  ASSUME NEW next \in Saves, op.phase \notin Replacing,
         \/ Persist(next) /\ UNCHANGED faults
         \/ PersistFails(next)
  PROVE  StateStep
BY DEF Persist, PersistFails, SaveSnapshot, SaveFails, RolledBack, StateStep

LEMMA StateSteps ==
  ASSUME TypeOK, OperationOK, [Next]_vars
  PROVE  overtaken' \/ (UNCHANGED overtaken /\ StateStep)
<1> USE DEF At, Go, state, requests
<1>1. memory \in Saves /\ WithEvent(memory, Operation) \in Saves
  BY DEF Saves
<1>2. ASSUME NEW root, NEW target, StartBackup(root, target)
      PROVE  UNCHANGED overtaken /\ StateStep
  BY <1>1, <1>2 DEF StartBackup, Persist, SaveSnapshot, StateStep
<1>3. ASSUME op.phase \notin Replacing,
             \/ Persist(WithEvent(memory, Operation)) /\ UNCHANGED faults
             \/ PersistFails(WithEvent(memory, Operation))
      PROVE  StateStep
  BY <1>1, <1>3, PersistSteps
<1>4. CASE Requests
  <2>1. CASE Mutate
    <3>1. Created(memory, waiting.kind) \in Saves
      BY <2>1 DEF Mutate, Saves, TypeOK, Waits
    <3>2. \/ Persist(Created(memory, waiting.kind)) /\ UNCHANGED faults
          \/ PersistFails(Created(memory, waiting.kind))
      BY <2>1 DEF Mutate, Created
    <3>3. QED BY <2>1, <3>1, <3>2, PersistSteps DEF Mutate, Replacing
  <2>2. CASE MutateReplaced
    BY <2>2 DEF MutateReplaced, SaveFails, StateStep
  <2>3. CASE \E kind \in Kinds : LookUpService(kind)
    BY <2>3 DEF LookUpService, StateStep
  <2>4. CASE CreateTenantBackup
    BY <1>2, <2>4 DEF CreateTenantBackup
  <2>5. ASSUME NEW i \in Points, ReplicateTenantBackup(i)
        PROVE  UNCHANGED overtaken /\ StateStep
    BY <2>5 DEF ReplicateTenantBackup, Quiet, Replacing, StateStep
  <2>6. ASSUME NEW i \in Points, RunRecoveryDrill(i)
        PROVE  UNCHANGED overtaken /\ StateStep
    BY <1>3, <2>6 DEF RunRecoveryDrill, Drilled, Quiet, Replacing
  <2>7. ASSUME NEW i \in Points, RestoreTenantBackup(i)
        PROVE  UNCHANGED overtaken /\ StateStep
    BY <1>2, <2>7 DEF RestoreTenantBackup
  <2>8. QED BY <1>4, <2>1, <2>2, <2>3, <2>4, <2>5, <2>6, <2>7 DEF Requests
<1>5. CASE BackupSteps
  <2>1. CASE RecordBackup
    BY <1>3, <2>1 DEF RecordBackup, Replacing
  <2>2. CASE WriteManifest \/ PruneEnvelope \/ PruneManifest \/ UndoEnvelope \/ UndoManifest
    <3>1. op.phase \notin Replacing
      BY <2>2 DEF WriteManifest, PruneEnvelope, PruneManifest, UndoEnvelope, UndoManifest, Replacing
    <3>2. UNCHANGED <<memory, durable, split, overtaken>>
      BY <2>2 DEF WriteManifest, PruneEnvelope, PruneManifest, UndoEnvelope, UndoManifest
    <3>3. QED BY <3>1, <3>2 DEF StateStep
  <2>3. QED BY <1>5, <2>1, <2>2 DEF BackupSteps
<1>6. CASE ReplicaSteps
  <2>1. CASE RecordReplica
    BY <1>3, <2>1 DEF RecordReplica, Replacing
  <2>2. CASE ReplicationFailed
    <3>1. op.phase \notin Replacing /\ UNCHANGED overtaken
      BY <2>2 DEF ReplicationFailed, Replacing
    <3>2. CASE op.created
      BY <1>3, <2>2, <3>1, <3>2 DEF ReplicationFailed
    <3>3. CASE ~op.created
      BY <2>2, <3>1, <3>3 DEF ReplicationFailed, StateStep
    <3>4. QED BY <3>1, <3>2, <3>3
  <2>3. CASE WriteReplica \/ WriteReplicaManifest \/ PruneReplicas \/ UndoReplica
    <3>1. op.phase \notin Replacing
      BY <2>3 DEF WriteReplica, WriteReplicaManifest, PruneReplicas, UndoReplica, Replacing
    <3>2. UNCHANGED <<memory, durable, split, overtaken>>
      BY <2>3 DEF WriteReplica, WriteReplicaManifest, PruneReplicas, UndoReplica
    <3>3. QED BY <3>1, <3>2 DEF StateStep
  <2>4. QED BY <1>6, <2>1, <2>2, <2>3 DEF ReplicaSteps
<1>7. CASE RestoreSteps
  <2>1. CASE OverwriteSnapshot
    <3>1. CASE SaveFails
      BY <2>1, <3>1 DEF OverwriteSnapshot, SaveFails, Replacing, StateStep
    <3>2. CASE /\ SaveSnapshot(op.target)
               /\ op' = [op EXCEPT !.phase = "reload", !.prev = memory]
      <4>1. op'.phase = "reload"
        BY <3>2 DEF TypeOK, Ops
      <4>2. QED BY <2>1, <3>2, <4>1 DEF OverwriteSnapshot, SaveSnapshot, StateStep
    <3>3. QED BY <2>1, <3>1, <3>2 DEF OverwriteSnapshot
  <2>2. CASE ReloadState
    <3>1. op' = [op EXCEPT !.phase = "rollback"] => op'.phase = "rollback"
      BY DEF TypeOK, Ops
    <3>2. op.phase = "reload" /\ memory' = Restored /\ UNCHANGED overtaken
      BY <2>2 DEF ReloadState
    <3>3. \/ durable' = Restored
          \/ UNCHANGED durable /\ op'.phase = "rollback"
      BY <2>2, <3>1 DEF ReloadState, SaveSnapshot, SaveFails
    <3>4. QED BY <3>2, <3>3 DEF StateStep
  <2>3. CASE RollBackRestore
    BY <2>3 DEF RollBackRestore, TakenBack, SaveSnapshot, SaveFails, StateStep
  <2>4. QED BY <1>7, <2>1, <2>2, <2>3 DEF RestoreSteps
<1>8. CASE RunOnce
  <2>1. CASE StartCycle
    BY <1>2, <2>1 DEF StartCycle, Quiet, Replacing, StateStep
  <2>2. CASE EndCycle
    <3>1. op.phase \notin Replacing /\ UNCHANGED overtaken
      BY <2>2 DEF EndCycle, Replacing
    <3>2. QED BY <1>3, <2>2, <3>1 DEF EndCycle, Drilled, StateStep
  <2>3. QED BY <1>8, <2>1, <2>2 DEF RunOnce
<1>9. CASE EndOperation
  BY <1>9 DEF EndOperation, Replacing, StateStep
<1>10. CASE Crash
  BY <1>10 DEF Crash, StateStep
<1>11. CASE UNCHANGED vars
  BY <1>11 DEF vars, StateStep
<1>12. QED BY <1>4, <1>5, <1>6, <1>7, <1>8, <1>9, <1>10, <1>11 DEF Next

\* What comes into a copy.
CopyStep ==
  /\ \A i \in Points :
       /\ backups'[i].envelope \in {backups[i].envelope, Absent, memory}
       /\ replicas'[i].envelope \in {replicas[i].envelope, Absent, backups[i].envelope}
  /\ op'.target \in {op.target, Absent} \cup {backups[i].envelope : i \in Points}
  /\ op'.prev \in {op.prev, Absent, memory}

LEMMA CopySteps ==
  ASSUME TypeOK, OperationOK, [Next]_vars
  PROVE  CopyStep
<1> USE DEF At, Go
<1>1. /\ op \in Ops /\ NoOp.target = Absent /\ NoOp.prev = Absent
      /\ backups \in [Points -> Files] /\ replicas \in [Points -> Files]
  BY NoOperation DEF TypeOK
<1> DEFINE Still == op'.target \in {op.target, Absent} /\ op'.prev \in {op.prev, Absent}
           Kept == /\ \A i \in Points : backups'[i].envelope \in {backups[i].envelope, Absent}
                   /\ UNCHANGED replicas
           ReplicasKept ==
             /\ \A i \in Points : replicas'[i].envelope \in {replicas[i].envelope, Absent}
             /\ UNCHANGED backups
<1>2. /\ \A phase : op' = [op EXCEPT !.phase = phase] => Still
      /\ (op' = NoOp => Still)
      /\ (UNCHANGED op => Still)
  BY <1>1 DEF Ops
<1>3. AfterBackup => Still
  BY <1>2, <1>1, AfterBackupPhase
<1>4. Still /\ (Kept \/ ReplicasKept) => CopyStep
  BY DEF CopyStep
<1>5. UNCHANGED <<backups, replicas>> => Kept
  OBVIOUS
<1>6. ASSUME NEW root \in {"backup", "cycle", "restore"},
             NEW target \in Contents \cup {Absent}, StartBackup(root, target),
             target \in {Absent} \cup {backups[i].envelope : i \in Points}
      PROVE  CopyStep
  <2>1. /\ op'.target = target /\ op'.prev = Absent /\ UNCHANGED replicas
        /\ \A i \in Points : i # made + 1 => backups'[i] = backups[i]
        /\ backups'[made + 1].envelope = memory
    BY <1>6, StartsBackup
  <2>2. QED BY <1>6, <2>1 DEF CopyStep
<1>7. CASE Requests
  <2>1. CASE \/ \E kind \in Kinds : LookUpService(kind)
             \/ Mutate \/ MutateReplaced \/ \E i \in Points : RunRecoveryDrill(i)
    <3>1. UNCHANGED <<op, backups, replicas>>
      BY <2>1 DEF LookUpService, Mutate, MutateReplaced, RunRecoveryDrill
    <3>2. QED BY <1>2, <1>4, <1>5, <3>1
  <2>2. CASE CreateTenantBackup
    BY <1>6, <2>2 DEF CreateTenantBackup
  <2>3. ASSUME NEW i \in Points, ReplicateTenantBackup(i) PROVE CopyStep
    <3>1. Still
      BY <2>3 DEF ReplicateTenantBackup, NoOp
    <3>2. UNCHANGED <<backups, replicas>>
      BY <2>3 DEF ReplicateTenantBackup
    <3>3. QED BY <1>4, <1>5, <3>1, <3>2
  <2>4. ASSUME NEW i \in Points, RestoreTenantBackup(i) PROVE CopyStep
    <3>1. backups[i].envelope \in Contents \cup {Absent}
      BY <1>1 DEF Files
    <3>2. QED BY <1>6, <2>4, <3>1 DEF RestoreTenantBackup
  <2>5. QED BY <1>7, <2>1, <2>2, <2>3, <2>4 DEF Requests
<1>8. CASE BackupSteps
  <2>1. Still
    <3>1. CASE op' = [op EXCEPT !.phase = "replicate", !.created = TRUE]
      BY <1>1, <3>1 DEF Ops
    <3>2. CASE ~(op' = [op EXCEPT !.phase = "replicate", !.created = TRUE])
      BY <1>2, <1>8, <3>2 DEF BackupSteps, WriteManifest, PruneEnvelope, PruneManifest,
         RecordBackup, UndoEnvelope, UndoManifest, End
    <3>3. QED BY <3>1, <3>2
  <2>2. Kept
    <3>1. CASE WriteManifest
      <4>1. CASE UNCHANGED <<backups, replicas>>
        BY <1>5, <4>1
      <4>2. ASSUME NEW clock,
                   backups' = [backups EXCEPT ![op.id].order = NextOrder(backups, clock),
                                              ![op.id].scheduled = (op.root = "cycle")]
            PROVE \A i \in Points : backups'[i].envelope = backups[i].envelope
        BY <1>1, <4>2 DEF Files
      <4>3. QED BY <3>1, <4>1, <4>2 DEF WriteManifest
    <3>2. \A i : \A j \in Points :
            /\ WithoutEnvelope(backups, i)[j].envelope \in {backups[j].envelope, Absent}
            /\ WithoutManifest(backups, i)[j].envelope = backups[j].envelope
      BY <1>1 DEF Files, WithoutEnvelope, WithoutManifest
    <3>3. CASE PruneEnvelope \/ PruneManifest \/ UndoEnvelope \/ UndoManifest
      BY <3>2, <3>3 DEF PruneEnvelope, PruneManifest, UndoEnvelope, UndoManifest
    <3>4. CASE RecordBackup
      BY <3>4 DEF RecordBackup
    <3>5. QED BY <1>8, <3>1, <3>3, <3>4 DEF BackupSteps
  <2>3. QED BY <1>4, <2>1, <2>2
<1>9. CASE ReplicaSteps
  <2>1. Still
    BY <1>2, <1>3, <1>9 DEF ReplicaSteps, WriteReplica, WriteReplicaManifest, PruneReplicas,
       RecordReplica, UndoReplica, ReplicationFailed, End
  <2>2. CASE WriteReplica
    <3>1. \A i \in Points :
            replicas'[i].envelope \in {replicas[i].envelope, Absent, backups[i].envelope}
      <4>1. CASE UNCHANGED replicas
        BY <4>1
      <4>2. CASE replicas' = [replicas EXCEPT ![op.id].envelope = backups[op.id].envelope]
        BY <1>1, <4>2 DEF Files
      <4>3. QED BY <2>2, <4>1, <4>2 DEF WriteReplica
    <3>2. UNCHANGED backups
      BY <2>2 DEF WriteReplica
    <3>3. QED BY <2>1, <3>1, <3>2 DEF CopyStep
  <2>3. CASE ~WriteReplica
    <3> SUFFICES Kept \/ ReplicasKept
      BY <1>4, <2>1
    <3>1. CASE WriteReplicaManifest
      <4>1. UNCHANGED backups
        BY <3>1 DEF WriteReplicaManifest
      <4>2. CASE UNCHANGED replicas
        BY <4>1, <4>2
      <4>3. ASSUME NEW clock,
                   replicas' = [replicas EXCEPT ![op.id].order = NextOrder(replicas, clock)]
            PROVE \A i \in Points : replicas'[i].envelope = replicas[i].envelope
        BY <1>1, <4>3 DEF Files
      <4>4. QED BY <3>1, <4>1, <4>2, <4>3 DEF WriteReplicaManifest
    <3>2. \A f \in [Points -> Files] : \A i : \A j \in Points :
            /\ WithoutEnvelope(f, i)[j].envelope \in {f[j].envelope, Absent}
            /\ WithoutManifest(f, i)[j].envelope = f[j].envelope
      BY DEF Files, WithoutEnvelope, WithoutManifest
    <3>3. \A i : \A j \in Points :
            /\ WithoutEnvelope(replicas, i)[j].envelope \in {replicas[j].envelope, Absent}
            /\ WithoutManifest(WithoutEnvelope(replicas, i), i)[j].envelope
                 \in {replicas[j].envelope, Absent}
      BY <1>1, <3>2, FilesTypes
    <3>4. CASE PruneReplicas \/ UndoReplica
      BY <3>3, <3>4 DEF PruneReplicas, UndoReplica
    <3>5. CASE RecordReplica \/ ReplicationFailed
      BY <3>5 DEF RecordReplica, ReplicationFailed
    <3>6. QED BY <1>9, <2>3, <3>1, <3>4, <3>5 DEF ReplicaSteps
  <2>4. QED BY <2>2, <2>3
<1>10. CASE RestoreSteps
  <2>1. UNCHANGED <<backups, replicas>>
    BY <1>10 DEF RestoreSteps, OverwriteSnapshot, ReloadState, RollBackRestore
  <2>2. op'.target \in {op.target, Absent} /\ op'.prev \in {op.prev, Absent, memory}
    <3>1. CASE OverwriteSnapshot
      BY <1>1, <3>1 DEF OverwriteSnapshot, Ops
    <3>2. CASE ReloadState \/ RollBackRestore
      BY <1>2, <3>2 DEF ReloadState, RollBackRestore, End
    <3>3. QED BY <1>10, <3>1, <3>2 DEF RestoreSteps
  <2>3. QED BY <2>1, <2>2 DEF CopyStep
<1>11. CASE RunOnce
  <2>1. CASE StartBackup("cycle", Absent)
    BY <1>6, <2>1
  <2>2. CASE EndCycle
    BY <1>2, <1>4, <1>5, <2>2 DEF EndCycle, End
  <2>3. CASE StartCycle /\ ~StartBackup("cycle", Absent)
    <3>1. Still
      BY <2>3 DEF StartCycle, NoOp
    <3>2. UNCHANGED <<backups, replicas>>
      BY <2>3 DEF StartCycle
    <3>3. QED BY <1>4, <1>5, <3>1, <3>2
  <2>4. QED BY <1>11, <2>1, <2>2, <2>3 DEF RunOnce
<1>12. CASE EndOperation \/ Crash
  BY <1>2, <1>4, <1>5, <1>12 DEF EndOperation, Crash, End
<1>13. CASE UNCHANGED vars
  BY <1>2, <1>4, <1>5, <1>13 DEF vars
<1>14. QED BY <1>7, <1>8, <1>9, <1>10, <1>11, <1>12, <1>13 DEF Next

\* README.md:212.
LEMMA LedgerKept ==
  ASSUME TypeOK, OperationOK, LedgerOK, [Next]_vars
  PROVE  LedgerOK'
<1> SUFFICES ASSUME ~overtaken'
             PROVE  AlwaysConsistent' /\ Consistent(op.target)' /\ Consistent(op.prev)'
  BY DEF LedgerOK
<1>1. StateStep /\ CopyStep /\ ~overtaken
  BY StateSteps, CopySteps
<1>2. /\ Consistent(memory) /\ Consistent(durable) /\ Consistent(op.target) /\ Consistent(op.prev)
      /\ \A i \in Points : Consistent(backups[i].envelope) /\ Consistent(replicas[i].envelope)
  BY <1>1 DEF LedgerOK, AlwaysConsistent
<1>3. Consistent(Absent)
  BY DEF Consistent
<1>4. \A next \in Saves : Consistent(next)
  BY <1>2, OperationConsistent, CreatedConsistent DEF Saves, TypeOK
<1>5. Consistent(Loaded)
  BY <1>2, SeedConsistent DEF Loaded
<1>6. op.phase = "reload" => Consistent(Restored)
  BY <1>2, OperationConsistent DEF Restored, OperationOK, Replacing
<1>7. Consistent(memory') /\ Consistent(durable')
  BY <1>1, <1>2, <1>4, <1>5, <1>6 DEF StateStep
<1>8. /\ Consistent(op'.target) /\ Consistent(op'.prev)
      /\ \A i \in Points : Consistent(backups'[i].envelope) /\ Consistent(replicas'[i].envelope)
  BY <1>1, <1>2, <1>3 DEF CopyStep
<1>9. QED BY <1>7, <1>8 DEF AlwaysConsistent

LEMMA DurableKept ==
  ASSUME TypeOK, OperationOK, DurableOK, [Next]_vars
  PROVE  DurableOK'
<1> SUFFICES ASSUME op'.phase \notin Replacing, durable' # Absent, ~split', ~overtaken'
             PROVE  memory' = durable'
  BY DEF DurableOK
<1>1. StateStep /\ ~overtaken
  BY StateSteps
<1>2. CASE UNCHANGED <<memory, durable, split>> /\ (op.phase \notin Replacing \/ UNCHANGED op)
  BY <1>1, <1>2 DEF DurableOK
<1>3. CASE memory' = Loaded /\ UNCHANGED durable
  BY <1>3 DEF Loaded, HasSnapshot
<1>4. CASE UNCHANGED <<memory, durable>> /\ split' = (memory # durable)
  <2>1. memory = durable
    BY <1>4
  <2>2. QED BY <1>4, <2>1
<1>5. op'.phase # "reload" /\ op'.phase # "rollback"
  BY DEF Replacing
<1>6. QED BY <1>1, <1>2, <1>3, <1>4, <1>5 DEF StateStep

-----------------------------------------------------------------------------
(* The files of the backups.                                                *)

LEMMA PendingNone ==
  /\ op.phase \notin {"pruneManifest", "undoManifest"} => Pending = {}
  /\ op'.phase \notin {"pruneManifest", "undoManifest"} => Pending' = {}
BY DEF Pending, At

LEMMA OwnPoint ==
  ASSUME Inv, op.phase \notin {"idle", "drill", "end"}
  PROVE  op.id \in Points /\ op.id \in 1..made /\ made \in Nat
<1>1. op.id \in 1..made /\ made \in 0..MaxBackup
  BY DEF Inv, TypeOK, OperationOK
<1>2. QED BY <1>1, RecoveryAssumption DEF Points

LEMMA BrokenFinite ==
  ASSUME TypeOK, NEW S
  PROVE  /\ IsFiniteSet(Broken) /\ IsFiniteSet(Broken \ S)
         /\ Cardinality(Broken) \in Nat /\ Cardinality(Broken \ S) \in Nat
<1>1. Broken \in SUBSET Listed(backups) /\ Broken \ S \in SUBSET Listed(backups)
  BY DEF Broken
<1>2. QED BY <1>1, ListedFinite

\* One more is broken than those an operation was not about to remove.
LEMMA OneMoreBroken ==
  ASSUME TypeOK, LoadsOK
  PROVE  Cardinality(Broken) <= faults + 1
<1>1. \E x : Broken \subseteq (Broken \ Pending) \cup {x}
  <2>1. Pending = {} \/ \E x : Pending = {x}
    <3>1. CASE op.phase = "pruneManifest"
      <4>1. Pending = {NextExpired(backups, Retention)}
        BY <3>1 DEF Pending, At
      <4>2. QED BY <4>1
    <3>2. CASE op.phase = "undoManifest"
      <4>1. Pending = {op.id}
        BY <3>2 DEF Pending, At
      <4>2. QED BY <4>1
    <3>3. CASE op.phase \notin {"pruneManifest", "undoManifest"}
      BY <3>3, PendingNone
    <3>4. QED BY <3>1, <3>2, <3>3
  <2>2. \A x : Pending \subseteq {x} => Broken \subseteq (Broken \ Pending) \cup {x}
    OBVIOUS
  <2>3. QED BY <2>1, <2>2
<1>2. PICK x : Broken \subseteq (Broken \ Pending) \cup {x}
  BY <1>1
<1> DEFINE B == Broken \ Pending
<1>3. IsFiniteSet(B) /\ Cardinality(B) \in Nat /\ Cardinality(B) <= faults /\ faults \in Nat
  BY BrokenFinite DEF LoadsOK, TypeOK
<1> HIDE DEF B
<1>4. IsFiniteSet(B \cup {x}) /\ Cardinality(B \cup {x}) <= Cardinality(B) + 1
      /\ Cardinality(B \cup {x}) \in Nat
  BY <1>3, FS_AddElement
<1>5. Broken \in SUBSET (B \cup {x})
  BY <1>2 DEF B
<1>6. Cardinality(Broken) <= Cardinality(B \cup {x}) /\ Cardinality(Broken) \in Nat
  BY <1>4, <1>5, FS_Subset, BrokenFinite
<1>7. QED BY <1>3, <1>4, <1>6

\* Fewer are broken.
LEMMA FewerBroken ==
  ASSUME NEW A, IsFiniteSet(A), NEW B \in SUBSET A, NEW n \in Nat, Cardinality(A) <= n
  PROVE  Cardinality(B) <= n /\ Cardinality(B) \in Nat
BY FS_Subset, FS_CardinalityType

\* A step of an operation that makes no backup, or that leaves one as it is.
LEMMA BackupsStill ==
  ASSUME Inv, UNCHANGED <<backups, made, reported>>, Fault \/ UNCHANGED faults,
         op.phase \notin Making \cup Undoing \cup {"manifest"},
         op'.phase \notin Making \cup Undoing \cup {"manifest"}
  PROVE  OrderOK' /\ LoadsOK'
<1>1. OrderOK'
  BY DEF Inv, OrderOK, Making
<1>2. Good' = Good /\ Broken' = Broken
  BY DEF Good, Broken, Loadable, Listed
<1>3. Pending = {} /\ Pending' = {}
  BY PendingNone DEF Making, Undoing
<1>4. faults' \in Nat /\ faults <= faults' /\ faults \in Nat
  BY FaultsCounted DEF Inv, TypeOK
<1>5. Cardinality(Broken) \in Nat /\ Broken \ {} = Broken
  BY BrokenFinite DEF Inv
<1>6. Cardinality((Broken \ Pending)') <= faults'
  BY <1>2, <1>3, <1>4, <1>5 DEF Inv, LoadsOK
<1>7. reported' => Good' # {} \/ faults' >= Retention
  BY <1>2, <1>4, RecoveryAssumption DEF Inv, LoadsOK
<1>8. QED BY <1>1, <1>6, <1>7 DEF LoadsOK

LEMMA CopyStill ==
  ASSUME Inv, UNCHANGED backups, op'.root = op.root, op'.id = op.id,
         op.phase \in Replicating, op'.phase \in Replicating \cup {"overwrite", "drill", "end"},
         memory' \in {memory, WithEvent(memory, Operation)}
  PROVE  CopyOK'
<1> SUFFICES ASSUME op.root = "restore"
             PROVE  /\ Loadable(backups, op.id)'
                    /\ Precedes(backups[op.id].envelope, memory)'
  BY DEF CopyOK, Replicating, Replacing
<1>1. Loadable(backups, op.id) /\ Precedes(backups[op.id].envelope, memory)
  BY DEF Inv, CopyOK
<1>2. backups[op.id].envelope \in Contents /\ memory \in Contents
  <2>1. op.phase \notin {"idle", "drill", "end"}
    BY DEF Replicating
  <2>2. op.id \in Points
    BY <2>1, OwnPoint
  <2>3. QED BY <1>1, <2>2 DEF Loadable, Inv, TypeOK, Files
<1>3. Precedes(backups[op.id].envelope, memory')
  BY <1>1, <1>2, PrecedesEvent
<1>4. QED BY <1>1, <1>3 DEF Loadable

LEMMA StartKept ==
  ASSUME Inv, NEW root \in {"backup", "cycle", "restore"},
         NEW target \in Contents \cup {Absent}, StartBackup(root, target), Quiet
  PROVE  OrderOK' /\ CopyOK' /\ LoadsOK'
<1>1. /\ made' = made + 1 /\ made + 1 \in Points
      /\ op'.phase = "manifest" /\ op'.root = root
      /\ op'.id = made + 1 /\ memory' = memory
      /\ backups' \in [Points -> Files]
      /\ \A i \in Points : /\ backups'[i].order = backups[i].order
                           /\ i # made + 1 => backups'[i] = backups[i]
      /\ backups'[made + 1].envelope = memory
      /\ UNCHANGED <<reported, faults>>
  BY StartsBackup DEF Inv
<1>2. made \in Nat /\ memory \in Contents /\ memory # Absent /\ op.phase = "idle"
  BY RecoveryAssumption, ContentsAssumption DEF Inv, TypeOK, Quiet, At
<1>3. backups[made + 1].order = 0
  BY <1>1, <1>2 DEF Inv, OrderOK, Points
<1>4. Listed(backups)' = Listed(backups)
  BY <1>1 DEF Listed
<1>5. OrderOK'
  <2>1. \A i \in Points : i > made' => backups'[i].order = 0
    BY <1>1, <1>2 DEF Inv, OrderOK, Points
  <2>2. \A i, j \in Listed(backups)' : backups'[i].order = backups'[j].order => i = j
    BY <1>1, <1>4 DEF Inv, OrderOK, Listed
  <2>3. QED BY <1>1, <1>2, <1>3, <2>1, <2>2 DEF OrderOK, Making
<1>6. CopyOK'
  BY <1>1, <1>2, PrecedesItself DEF CopyOK, Replicating, Replacing
<1>7. Good' = Good /\ Broken' = Broken
  BY <1>1, <1>3, <1>4 DEF Good, Broken, Loadable, Listed
<1>8. Pending = {} /\ Pending' = {}
  BY <1>1, <1>2, PendingNone
<1>9. LoadsOK'
  BY <1>1, <1>2, <1>7, <1>8 DEF Inv, LoadsOK, Making, Undoing
<1>10. QED BY <1>5, <1>6, <1>9

\* The steps of createTenantBackup.
LEMMA ManifestKept ==
  ASSUME Inv, WriteManifest
  PROVE  OrderOK' /\ CopyOK' /\ LoadsOK'
<1> DEFINE id == op.id
<1>1. /\ op.phase = "manifest" /\ op \in Ops /\ backups \in [Points -> Files]
      /\ faults \in Nat /\ made \in Nat
  BY RecoveryAssumption DEF WriteManifest, At, Inv, TypeOK
<1>2. id \in 1..made /\ id \in Points
  BY <1>1, RecoveryAssumption DEF Inv, TypeOK, OperationOK, Points
<1>3. backups[id].envelope # Absent /\ backups[id].order = 0 /\ id \notin Good
  BY <1>1 DEF Inv, OrderOK, Good, Loadable
<1>4. /\ UNCHANGED <<memory, made, reported>>
      /\ Cardinality(Broken) <= faults /\ Cardinality(Broken) \in Nat
      /\ reported => Good # {} \/ faults >= Retention
  <2>1. Pending = {} /\ Broken \ {} = Broken
    BY <1>1, PendingNone
  <2>2. QED BY <1>1, <2>1, BrokenFinite DEF WriteManifest, state, Inv, LoadsOK, Making, Undoing
<1>5. CASE Fault /\ Go("undo") /\ UNCHANGED backups
  <2>1. op'.phase = "undo" /\ op'.id = id /\ op'.root = op.root /\ faults' = faults + 1
    BY <1>1, <1>5 DEF Go, Fault, Ops
  <2>2. Good' = Good /\ Broken' = Broken /\ Pending' = {} /\ Listed(backups)' = Listed(backups)
    BY <1>5, <2>1, PendingNone DEF Good, Broken, Loadable, Listed
  <2>3. OrderOK'
    BY <1>4, <1>5, <2>1, <2>2 DEF Inv, OrderOK, Making
  <2>4. CopyOK'
    BY <2>1 DEF CopyOK, Making, Replicating, Replacing
  <2>5. LoadsOK'
    BY <1>1, <1>3, <1>4, <2>1, <2>2, RecoveryAssumption DEF LoadsOK, Making, Undoing
  <2>6. QED BY <2>3, <2>4, <2>5
<1>6. ASSUME NEW clock \in 1..MaxClock, UNCHANGED faults, Go("prune"),
             backups' = [backups EXCEPT ![op.id].order = NextOrder(backups, clock),
                                        ![op.id].scheduled = (op.root = "cycle")]
      PROVE  OrderOK' /\ CopyOK' /\ LoadsOK'
  <2> DEFINE n == NextOrder(backups, clock)
  <2>1. op'.phase = "prune" /\ op'.id = id /\ op'.root = op.root
    BY <1>1, <1>6 DEF Go, Ops
  <2>2. n \in Nat \ {0} /\ \A i \in Listed(backups) : backups[i].order < n
    BY <1>1, NextOrderGreater
  <2> HIDE DEF n
  <2>3. /\ \A i \in Points : i # id => backups'[i] = backups[i]
        /\ backups'[id].order = n /\ backups'[id].envelope = backups[id].envelope
    BY <1>1, <1>2, <1>6 DEF Files, n
  <2>4. Listed(backups)' = Listed(backups) \cup {id} /\ id \notin Listed(backups)
    BY <1>2, <1>3, <2>2, <2>3 DEF Listed
  <2>5. Good' = Good \cup {id} /\ Broken' = Broken
    BY <1>2, <1>3, <2>2, <2>3, <2>4 DEF Good, Broken, Loadable, Listed
  <2>6. OrderOK'
    <3>1. \A i \in Points : i > made' => backups'[i].order = 0
      BY <1>1, <1>2, <1>4, <2>3 DEF Inv, OrderOK
    <3>2. \A i \in Listed(backups) : backups'[i].order = backups[i].order
                                      /\ backups[i].order \in Nat
      BY <1>1, <2>3, <2>4 DEF Listed, Files
    <3>3. \A i, j \in Listed(backups)' : backups'[i].order = backups'[j].order => i = j
      <4>1. \A j \in Listed(backups) : backups'[j].order < n
        BY <2>2, <3>2
      <4>2. \A i, j \in Listed(backups) : backups'[i].order = backups'[j].order => i = j
        BY <3>2 DEF Inv, OrderOK
      <4>3. backups'[id].order = n /\ n \in Nat
        BY <2>2, <2>3
      <4>4. \A j \in Listed(backups) : backups'[j].order \in Nat
        BY <3>2
      <4>5. QED BY <2>4, <4>1, <4>2, <4>3, <4>4
    <3>4. \A i \in Listed(backups)' : backups'[i].order <= backups'[id].order
      BY <2>2, <2>3, <2>4, <3>2
    <3>5. Loadable(backups, op.id)'
      BY <1>3, <2>1, <2>2, <2>3 DEF Loadable
    <3>6. QED BY <2>1, <3>1, <3>3, <3>4, <3>5 DEF OrderOK
  <2>7. CopyOK'
    BY <1>1, <1>4, <2>1, <2>3 DEF Inv, CopyOK, Making, Replicating, Replacing
  <2>8. LoadsOK'
    <3>1. Pending' = {} /\ Broken' \ {} = Broken
      BY <2>1, <2>5, PendingNone
    <3>2. Good' \ {id} = Good
      BY <1>3, <2>5
    <3>3. reported' => Good' \ {id} # {} \/ faults' >= Retention - 1
      BY <1>1, <1>4, <1>6, <3>2, RecoveryAssumption
    <3>4. QED BY <1>4, <1>6, <2>1, <2>5, <3>1, <3>3 DEF LoadsOK, Making, Undoing
  <2>9. QED BY <2>6, <2>7, <2>8
<1>7. QED BY <1>5, <1>6 DEF WriteManifest

\* A removal fails, and what was made is removed again.
LEMMA UndoKept ==
  ASSUME Inv, op.phase \in Making, Fault, Go("undo") \/ Go("remove"),
         UNCHANGED <<backups, made, reported>>
  PROVE  OrderOK' /\ CopyOK' /\ LoadsOK'
<1>1. op'.phase \in {"undo", "remove"} /\ op'.id = op.id /\ op'.root = op.root
      /\ faults' = faults + 1 /\ faults \in Nat
  BY DEF Go, Fault, Inv, TypeOK, Ops
<1>2. Good' = Good /\ Broken' = Broken /\ Pending' = {}
  BY <1>1, PendingNone DEF Good, Broken, Loadable, Listed
<1>3. OrderOK'
  BY <1>1 DEF Inv, OrderOK, Making
<1>4. CopyOK'
  BY <1>1 DEF CopyOK, Making, Replicating, Replacing
<1>5. Cardinality((Broken \ Pending)') <= faults'
  <2>1. Broken' \ {} = Broken
    BY <1>2
  <2>2. QED BY <1>1, <1>2, <2>1, OneMoreBroken DEF Inv
<1>6. reported' => Good' \ {op'.id} # {} \/ faults' >= Retention
  BY <1>1, <1>2, RecoveryAssumption DEF Inv, LoadsOK
<1>7. LoadsOK'
  BY <1>1, <1>5, <1>6 DEF LoadsOK, Making, Undoing
<1>8. QED BY <1>3, <1>4, <1>7

\* prune removes an envelope.
LEMMA EnvelopePruned ==
  ASSUME Inv, op.phase = "prune", Expired(backups, Retention) # {},
         backups' = WithoutEnvelope(backups, NextExpired(backups, Retention)),
         Go("pruneManifest"), UNCHANGED <<memory, made, reported, faults>>
  PROVE  OrderOK' /\ CopyOK' /\ LoadsOK'
<1> DEFINE id == op.id
           x == NextExpired(backups, Retention)
           Newer == {j \in Listed(backups) : backups[j].order > backups[x].order}
<1>1. /\ op'.phase = "pruneManifest" /\ op'.id = id /\ op'.root = op.root
      /\ backups \in [Points -> Files] /\ memory' = memory
      /\ faults \in Nat /\ made' = made /\ reported' = reported /\ faults' = faults
  BY DEF Go, Inv, TypeOK, Ops
<1>2. /\ x \in Expired(backups, Retention)
      /\ \A j \in Expired(backups, Retention) : backups[j].order <= backups[x].order
      /\ x \in Listed(backups) /\ Cardinality(Newer) >= Retention
  BY <1>1, NextExpiredFound DEF Expired
<1>3. /\ Loadable(backups, id) /\ id \in Points
      /\ \A i \in Listed(backups) : backups[i].order <= backups[id].order
  BY OwnPoint DEF Inv, OrderOK, Making
<1>4. id # x
  BY <1>1, <1>2, <1>3, NewestKept
<1> HIDE DEF x
<1>5. /\ backups' \in [Points -> Files] /\ x \in Points
      /\ \A j \in Points : backups'[j].order = backups[j].order
      /\ \A j \in Points : j # x => backups'[j] = backups[j]
      /\ backups'[x].envelope = Absent
  <2> DEFINE g == WithoutEnvelope(backups, x)
  <2>1. x \in Points /\ backups' = g
    BY <1>2 DEF Listed, x
  <2>2. /\ g \in [Points -> Files]
        /\ \A j \in Points : g[j].order = backups[j].order
        /\ \A j \in Points : j # x => g[j] = backups[j]
        /\ g[x].envelope = Absent
    BY <1>1, <2>1, FilesChange
  <2> HIDE DEF g
  <2>3. QED BY <2>1, <2>2
<1>6. /\ Listed(backups)' = Listed(backups)
      /\ Expired(backups, Retention)' = Expired(backups, Retention)
  BY <1>5, ExpiredSame
<1>7. \A j, k \in Listed(backups)' : backups'[j].order = backups'[k].order => j = k
  <2>1. \A j, k \in Listed(backups) : backups[j].order = backups[k].order => j = k
    BY DEF Inv, OrderOK
  <2>2. \A j \in Listed(backups) : backups'[j].order = backups[j].order
    BY <1>5 DEF Listed
  <2>3. QED BY <1>6, <2>1, <2>2
<1>8. NextExpired(backups, Retention)' = x
  <2>2. x \in Expired(backups', Retention)
        /\ \A j \in Expired(backups', Retention) : backups'[j].order <= backups'[x].order
    BY <1>2, <1>5, <1>6 DEF Expired, Listed
  <2>3. QED BY <1>5, <1>7, <2>2, NextExpiredOnly
<1>9. OrderOK'
  <2>1. \A i \in Points : i > made' => backups'[i].order = 0
    BY <1>1, <1>5 DEF Inv, OrderOK
  <2>3. Loadable(backups, op.id)'
        /\ \A i \in Listed(backups)' : backups'[i].order <= backups'[id].order
    BY <1>1, <1>3, <1>4, <1>5, <1>6 DEF Loadable, Listed
  <2>4. QED BY <1>1, <1>2, <1>5, <1>6, <1>7, <1>8, <2>1, <2>3 DEF OrderOK
<1>10. CopyOK'
  BY <1>1, <1>3, <1>4, <1>5 DEF Inv, CopyOK, Making, Replicating, Replacing
<1>11. Good' = Good \ {x} /\ Broken' = Broken \cup {x} /\ Pending' = {x} /\ Pending = {}
  <2>1. Good' = Good \ {x}
    BY <1>5 DEF Good, Loadable
  <2>2. Broken' = Broken \cup {x}
    BY <1>2, <1>5, <1>6 DEF Broken, Listed
  <2>3. Pending' = {x}
    BY <1>1, <1>8 DEF Pending, At
  <2>4. QED BY <2>1, <2>2, <2>3, PendingNone
<1>12. IsFiniteSet(Broken) /\ Cardinality(Broken) \in Nat /\ Cardinality(Broken) <= faults
  <2>1. Broken \ {} = Broken
    OBVIOUS
  <2>2. QED BY <1>11, <2>1, BrokenFinite DEF Inv, LoadsOK
<1>13. Cardinality((Broken \ Pending)') <= faults'
  <2>1. (Broken \ Pending)' \in SUBSET Broken
    BY <1>11
  <2>2. QED BY <1>1, <1>12, <2>1, FewerBroken
<1>14. ASSUME Good' \ {id} = {} PROVE faults >= Retention - 1
  <2>1. Newer \in SUBSET (Broken \cup {id})
    <3>1. ASSUME NEW j \in Newer, j # id PROVE j \in Broken
      <4>1. j # x /\ j \in Listed(backups) /\ j \in Points
        <5>1. backups[x].order \in Nat /\ j \in Listed(backups)
              /\ backups[j].order > backups[x].order
          BY <1>1, <1>5, <3>1 DEF Files
        <5>2. QED BY <5>1 DEF Listed
      <4>2. j \notin Good
        BY <1>11, <1>14, <3>1, <4>1
      <4>3. QED BY <4>1, <4>2 DEF Good, Broken, Loadable, Listed
    <3>2. QED BY <3>1
  <2>2. IsFiniteSet(Broken \cup {id}) /\ Cardinality(Broken \cup {id}) \in Nat
        /\ Cardinality(Broken \cup {id}) <= Cardinality(Broken) + 1
    <3>1. \A B, y : IsFiniteSet(B) /\ Cardinality(B) \in Nat
                     => /\ IsFiniteSet(B \cup {y}) /\ Cardinality(B \cup {y}) \in Nat
                        /\ Cardinality(B \cup {y}) <= Cardinality(B) + 1
      BY FS_AddElement
    <3>2. QED BY <1>12, <3>1
  <2> HIDE DEF Newer
  <2>3. Cardinality(Newer) <= Cardinality(Broken \cup {id}) /\ Cardinality(Newer) \in Nat
    BY <2>1, <2>2, FewerBroken
  <2>4. Cardinality(Newer) >= Retention
    BY <1>2 DEF Newer
  <2>5. QED BY <1>1, <1>12, <2>2, <2>3, <2>4, RecoveryAssumption
<1>15. LoadsOK'
  BY <1>1, <1>13, <1>14 DEF LoadsOK, Making, Undoing
<1>16. QED BY <1>9, <1>10, <1>15

\* prune removes the manifest after it.
LEMMA ManifestPruned ==
  ASSUME Inv, op.phase = "pruneManifest",
         backups' = WithoutManifest(backups, NextExpired(backups, Retention)),
         Go("prune"), UNCHANGED <<memory, made, reported, faults>>
  PROVE  OrderOK' /\ CopyOK' /\ LoadsOK'
<1> DEFINE id == op.id
           x == NextExpired(backups, Retention)
<1>1. /\ op'.phase = "prune" /\ op'.id = id /\ op'.root = op.root
      /\ backups \in [Points -> Files] /\ memory' = memory
      /\ faults \in Nat /\ made' = made /\ reported' = reported /\ faults' = faults
  BY DEF Go, Inv, TypeOK, Ops
<1>2. /\ x \in Expired(backups, Retention) /\ x \in Listed(backups) /\ x \in Points
      /\ backups[x].envelope = Absent
  BY DEF Inv, OrderOK, Expired, Listed
<1>3. /\ Loadable(backups, id) /\ id \in Points
      /\ \A i \in Listed(backups) : backups[i].order <= backups[id].order
  BY OwnPoint DEF Inv, OrderOK, Making
<1>4. id # x
  BY <1>2, <1>3 DEF Loadable
<1>5. Pending = {x}
  BY DEF Pending, At
<1>6. backups' = WithoutManifest(backups, x)
  OBVIOUS
<1> HIDE DEF x
<1>7. /\ \A j \in Points : j # x => backups'[j] = backups[j]
      /\ backups'[x].order = 0
  <2> DEFINE g == WithoutManifest(backups, x)
  <2>1. /\ \A j \in Points : j # x => g[j] = backups[j]
        /\ g[x].order = 0
    BY <1>1, <1>2, FilesChange
  <2> HIDE DEF g
  <2>2. backups' = g
    BY <1>6 DEF g
  <2>3. QED BY <2>1, <2>2
<1>8. Listed(backups)' = Listed(backups) \ {x}
  BY <1>2, <1>7 DEF Listed
<1>9. OrderOK'
  <2>1. \A i \in Points : i > made' => backups'[i].order = 0
    BY <1>1, <1>7 DEF Inv, OrderOK
  <2>2. \A j \in Listed(backups)' : backups'[j] = backups[j]
    BY <1>7, <1>8 DEF Listed
  <2>3. \A j, k \in Listed(backups) : backups[j].order = backups[k].order => j = k
    BY DEF Inv, OrderOK
  <2>4. \A j, k \in Listed(backups)' : backups'[j].order = backups'[k].order => j = k
    BY <1>8, <2>2, <2>3
  <2>5. backups'[id] = backups[id]
    BY <1>3, <1>4, <1>7
  <2>6. Loadable(backups, op.id)'
        /\ \A i \in Listed(backups)' : backups'[i].order <= backups'[id].order
    BY <1>1, <1>3, <1>8, <2>2, <2>5 DEF Loadable
  <2>7. QED BY <1>1, <2>1, <2>4, <2>6 DEF OrderOK
<1>10. CopyOK'
  BY <1>1, <1>3, <1>4, <1>7 DEF Inv, CopyOK, Making, Replicating, Replacing
<1>11. Good' = Good /\ Broken' = Broken \ {x}
  <2>1. Good' = Good
    BY <1>2, <1>7 DEF Good, Loadable
  <2>2. Broken' = Broken \ {x}
    BY <1>7, <1>8 DEF Broken, Listed
  <2>3. QED BY <2>1, <2>2
<1>12. Cardinality((Broken \ Pending)') <= faults'
  <2>1. Pending' = {} /\ (Broken \ {x}) \ {} = Broken \ Pending
    BY <1>1, <1>5, PendingNone
  <2>2. QED BY <1>1, <1>11, <2>1 DEF Inv, LoadsOK
<1>13. LoadsOK'
  BY <1>1, <1>11, <1>12 DEF Inv, LoadsOK, Making, Undoing
<1>14. QED BY <1>9, <1>10, <1>13

LEMMA PruneKept ==
  ASSUME Inv, PruneEnvelope \/ PruneManifest
  PROVE  OrderOK' /\ CopyOK' /\ LoadsOK'
<1>1. op.phase \in {"prune", "pruneManifest"} /\ UNCHANGED <<memory, made, reported>>
  BY DEF PruneEnvelope, PruneManifest, At, state
<1>2. CASE Fault /\ Go("undo") /\ UNCHANGED backups
  BY <1>1, <1>2, UndoKept DEF Making
<1>3. CASE PruneEnvelope /\ Expired(backups, Retention) = {}
  <2>1. op.phase = "prune" /\ Go("created") /\ UNCHANGED <<backups, faults>>
    BY <1>3 DEF PruneEnvelope, At
  <2>2. op'.phase = "created" /\ op'.id = op.id /\ op'.root = op.root
    BY <2>1 DEF Go, Inv, TypeOK, Ops
  <2>3. Good' = Good /\ Broken' = Broken /\ Pending' = Pending
    BY <2>1, <2>2, PendingNone DEF Good, Broken, Loadable, Listed
  <2>4. OrderOK'
    BY <1>1, <2>1, <2>2 DEF Inv, OrderOK, Making
  <2>5. CopyOK'
    BY <1>1, <2>1, <2>2 DEF Inv, CopyOK, Making, Replicating, Replacing
  <2>6. LoadsOK'
    BY <1>1, <2>1, <2>2, <2>3 DEF Inv, LoadsOK, Making, Undoing
  <2>7. QED BY <2>4, <2>5, <2>6
<1>4. CASE PruneEnvelope /\ Expired(backups, Retention) # {} /\ ~(Fault /\ Go("undo") /\ UNCHANGED backups)
  BY <1>1, <1>4, EnvelopePruned DEF PruneEnvelope, At
<1>5. CASE PruneManifest /\ ~(Fault /\ Go("undo") /\ UNCHANGED backups)
  BY <1>1, <1>5, ManifestPruned DEF PruneManifest, At
<1>6. QED BY <1>2, <1>3, <1>4, <1>5

\* createTenantBackup records the backup, or removes it.
LEMMA RecordKept ==
  ASSUME Inv, RecordBackup
  PROVE  OrderOK' /\ CopyOK' /\ LoadsOK'
<1>1. op.phase = "created" /\ UNCHANGED <<backups, replicas, made>> /\ op \in Ops
      /\ memory \in Contents
  BY DEF RecordBackup, At, Inv, TypeOK
<1>2. CASE PersistFails(WithEvent(memory, Operation)) /\ Go("remove") /\ UNCHANGED reported
  BY <1>1, <1>2, UndoKept DEF PersistFails, SaveFails, Making
<1>3. CASE /\ Persist(WithEvent(memory, Operation)) /\ UNCHANGED faults
           /\ reported' = TRUE /\ op' = [op EXCEPT !.phase = "replicate", !.created = TRUE]
  <2>1. /\ op'.phase = "replicate" /\ op'.id = op.id /\ op'.root = op.root
        /\ memory' = WithEvent(memory, Operation)
    BY <1>1, <1>3 DEF Ops, Persist
  <2>2. Loadable(backups, op.id) /\ op.id \in Points
    BY <1>1, OwnPoint DEF Inv, OrderOK, Making
  <2>3. Good' = Good /\ Broken' = Broken /\ Pending' = Pending /\ op.id \in Good
    BY <1>1, <2>1, <2>2, PendingNone DEF Good, Broken, Loadable, Listed
  <2>4. OrderOK'
    BY <1>1, <2>1 DEF Inv, OrderOK, Making
  <2>5. CopyOK'
    <3>1. backups[op.id].envelope \in Contents
      BY <2>2 DEF Loadable, Inv, TypeOK, Files
    <3>2. op.root = "restore" => Precedes(backups[op.id].envelope, memory')
      BY <1>1, <2>1, <3>1, PrecedesEvent DEF Inv, CopyOK, Making
    <3>3. QED BY <1>1, <2>1, <2>2, <3>2 DEF CopyOK, Making, Replicating, Replacing, Loadable
  <2>6. LoadsOK'
    BY <1>3, <2>1, <2>3 DEF Inv, LoadsOK, Making, Undoing
  <2>7. QED BY <2>4, <2>5, <2>6
<1>4. QED BY <1>2, <1>3 DEF RecordBackup

\* The handlers that remove it.
LEMMA RemovalKept ==
  ASSUME Inv, UndoEnvelope \/ UndoManifest
  PROVE  OrderOK' /\ CopyOK' /\ LoadsOK'
<1> DEFINE id == op.id
<1>1. /\ op.phase \in Undoing /\ op \in Ops /\ UNCHANGED <<made, reported>>
      /\ backups \in [Points -> Files] /\ id \in Points
      /\ faults \in Nat /\ faults' \in Nat /\ faults <= faults'
  <2>1. op.phase \in Undoing /\ (Fault \/ UNCHANGED faults) /\ UNCHANGED <<made, reported>>
    BY DEF UndoEnvelope, UndoManifest, At, Undoing
  <2>2. id \in Points
    BY <2>1, OwnPoint DEF Undoing
  <2>3. QED BY <2>1, <2>2, FaultsCounted DEF Inv, TypeOK
<1>2. reported => Good \ {id} # {} \/ faults >= Retention
  BY <1>1 DEF Inv, LoadsOK
<1>3. ASSUME backups' \in {backups, WithoutEnvelope(backups, id), WithoutManifest(backups, id)}
      PROVE  /\ \A j \in Points : j # id => backups'[j] = backups[j]
             /\ Good' \ {id} = Good \ {id}
             /\ Broken' \ {id} = Broken \ {id}
             /\ \A j \in Points : backups'[j].order \in {backups[j].order, 0}
  <2>1. /\ \A j \in Points : j # id => backups'[j] = backups[j]
        /\ backups'[id].order \in {backups[id].order, 0}
    <3>1. \A f \in {backups, WithoutEnvelope(backups, id), WithoutManifest(backups, id)} :
            /\ \A j \in Points : j # id => f[j] = backups[j]
            /\ f[id].order \in {backups[id].order, 0}
      BY <1>1, FilesChange
    <3>2. QED BY <1>3, <3>1
  <2>2. Good' \ {id} = Good \ {id} /\ Broken' \ {id} = Broken \ {id}
    BY <2>1 DEF Good, Broken, Loadable, Listed
  <2>3. QED BY <2>1, <2>2
<1>4. ASSUME backups' \in {backups, WithoutEnvelope(backups, id), WithoutManifest(backups, id)},
             op'.phase \in {"undoManifest", "idle"}
      PROVE  OrderOK'
  <2>1. \A i \in Points : i > made' => backups'[i].order = 0
    BY <1>1, <1>3, <1>4 DEF Inv, OrderOK
  <2>2. \A i, j \in Listed(backups)' : backups'[i].order = backups'[j].order => i = j
    BY <1>1, <1>3, <1>4 DEF Inv, OrderOK, Listed
  <2>3. QED BY <1>4, <2>1, <2>2 DEF OrderOK, Making
<1>5. CASE UndoEnvelope /\ Go("undoManifest")
  <2>1. /\ op.phase \in {"undo", "remove"} /\ op'.phase = "undoManifest" /\ op'.id = id
        /\ backups' \in {backups, WithoutEnvelope(backups, id)}
    BY <1>1, <1>5 DEF UndoEnvelope, At, Go, Ops
  <2>2. Pending = {} /\ Pending' = {id} /\ Broken \ {} = Broken
    BY <2>1, PendingNone DEF Pending, At
  <2>3. Cardinality((Broken \ Pending)') <= faults'
    <3>1. (Broken \ Pending)' \in SUBSET Broken
      BY <1>3, <2>1, <2>2
    <3>2. IsFiniteSet(Broken) /\ Cardinality(Broken) <= faults
      BY <2>2, BrokenFinite DEF Inv, LoadsOK
    <3>3. Cardinality((Broken \ Pending)') <= faults /\ Cardinality((Broken \ Pending)') \in Nat
      BY <1>1, <3>1, <3>2, FewerBroken
    <3>4. QED BY <1>1, <3>3
  <2>4. reported' => Good' \ {op'.id} # {} \/ faults' >= Retention
    BY <1>1, <1>2, <1>3, <2>1, RecoveryAssumption
  <2>5. LoadsOK'
    BY <2>1, <2>3, <2>4 DEF LoadsOK, Making, Undoing
  <2>6. CopyOK'
    BY <2>1 DEF CopyOK, Making, Replicating, Replacing
  <2>7. QED BY <1>4, <2>1, <2>5, <2>6
<1>6. CASE UndoEnvelope /\ ~Go("undoManifest")
  <2>1. /\ op.phase = "remove" /\ op' = NoOp /\ op'.phase = "idle" /\ op'.root = "none"
        /\ UNCHANGED backups /\ Fault
    BY <1>6, NoOperation DEF UndoEnvelope, At, End
  <2>2. Pending' = {} /\ Good' = Good /\ Broken' = Broken /\ faults' = faults + 1
    BY <2>1, PendingNone DEF Good, Broken, Loadable, Listed, Fault
  <2>3. Cardinality((Broken \ Pending)') <= faults'
    <3>1. Broken' \ {} = Broken
      BY <2>2
    <3>2. QED BY <2>2, <3>1, OneMoreBroken DEF Inv
  <2>4. reported' => Good' # {} \/ faults' >= Retention
    BY <1>1, <1>2, <2>2, RecoveryAssumption
  <2>5. LoadsOK'
    BY <2>1, <2>3, <2>4 DEF LoadsOK, Making, Undoing
  <2>6. CopyOK'
    BY <2>1 DEF CopyOK
  <2>7. QED BY <1>4, <2>1, <2>5, <2>6
<1>7. CASE UndoManifest
  <2>1. /\ op.phase = "undoManifest" /\ op' = NoOp /\ op'.phase = "idle" /\ op'.root = "none"
        /\ \/ backups' = WithoutManifest(backups, id) /\ UNCHANGED faults
           \/ UNCHANGED backups /\ Fault
    BY <1>7, NoOperation DEF UndoManifest, At, End
  <2>2. Pending = {id} /\ Pending' = {}
    BY <2>1, PendingNone DEF Pending, At
  <2>3. Cardinality(Broken') <= faults'
    <3>1. CASE backups' = WithoutManifest(backups, id) /\ UNCHANGED faults
      <4>1. backups'[id].order = 0
        BY <1>1, <3>1, FilesChange
      <4>2. id \notin Broken' /\ Broken' \ {id} = Broken \ {id}
        BY <1>3, <3>1, <4>1 DEF Broken, Listed
      <4>3. Broken' = Broken \ Pending
        BY <2>2, <4>2
      <4>4. QED BY <3>1, <4>3 DEF Inv, LoadsOK
    <3>2. CASE UNCHANGED backups /\ Fault
      <4>1. Broken' = Broken /\ faults' = faults + 1
        BY <3>2 DEF Broken, Listed, Fault
      <4>2. QED BY <4>1, OneMoreBroken DEF Inv
    <3>3. QED BY <2>1, <3>1, <3>2
  <2>4. reported' => Good' # {} \/ faults' >= Retention
    BY <1>1, <1>2, <1>3, <2>1, RecoveryAssumption
  <2>5. LoadsOK'
    <3>1. (Broken \ Pending)' = Broken'
      BY <2>2
    <3>2. QED BY <2>1, <2>3, <2>4, <3>1 DEF LoadsOK, Making, Undoing
  <2>6. CopyOK'
    BY <2>1 DEF CopyOK
  <2>7. QED BY <1>4, <2>1, <2>5, <2>6
<1>8. QED BY <1>5, <1>6, <1>7

-----------------------------------------------------------------------------
(* The other steps leave the backups alone.                                 *)

LEMMA CopyOver ==
  ASSUME op'.phase \in {"idle", "drill", "end"} \/ op'.root # "restore"
  PROVE  CopyOK'
BY DEF CopyOK, Making, Replicating, Replacing

LEMMA RequestsKept ==
  ASSUME Inv, Requests
  PROVE  OrderOK' /\ CopyOK' /\ LoadsOK'
<1>1. CASE \/ \E kind \in Kinds : LookUpService(kind)
           \/ Mutate \/ MutateReplaced \/ \E i \in Points : RunRecoveryDrill(i)
  <2>1. op.phase = "idle" /\ UNCHANGED <<op, backups, made, reported>>
    BY <1>1 DEF LookUpService, Mutate, MutateReplaced, RunRecoveryDrill, Quiet, At
  <2>2. Fault \/ UNCHANGED faults
    BY <1>1 DEF LookUpService, Mutate, MutateReplaced, RunRecoveryDrill, Drilled,
       PersistFails, SaveFails
  <2>3. QED BY <2>1, <2>2, BackupsStill, CopyOver DEF Making, Undoing
<1>2. CASE CreateTenantBackup
  BY <1>2, StartKept DEF CreateTenantBackup
<1>3. ASSUME NEW i \in Points, ReplicateTenantBackup(i)
      PROVE  OrderOK' /\ CopyOK' /\ LoadsOK'
  <2>1. /\ op.phase = "idle" /\ op'.phase = "replicate" /\ op'.root = "replicate"
        /\ UNCHANGED <<backups, made, reported, faults>>
    BY <1>3 DEF ReplicateTenantBackup, Quiet, At, NoOp
  <2>2. QED BY <2>1, BackupsStill, CopyOver DEF Making, Undoing
<1>4. ASSUME NEW i \in Points, RestoreTenantBackup(i)
      PROVE  OrderOK' /\ CopyOK' /\ LoadsOK'
  <2>1. backups[i].envelope \in Contents
    BY <1>4 DEF RestoreTenantBackup, Loadable, Inv, TypeOK, Files
  <2>2. QED BY <1>4, <2>1, StartKept DEF RestoreTenantBackup
<1>5. QED BY <1>1, <1>2, <1>3, <1>4 DEF Requests

LEMMA ReplicasKept ==
  ASSUME Inv, ReplicaSteps
  PROVE  OrderOK' /\ CopyOK' /\ LoadsOK'
<1>1. op.phase \in Replicating /\ op \in Ops
  BY DEF ReplicaSteps, WriteReplica, WriteReplicaManifest, PruneReplicas, RecordReplica,
     UndoReplica, ReplicationFailed, At, Replicating, Inv, TypeOK
<1>2. UNCHANGED <<backups, made, reported>>
  BY DEF ReplicaSteps, WriteReplica, WriteReplicaManifest, PruneReplicas, RecordReplica,
     UndoReplica, ReplicationFailed
<1>3. Fault \/ UNCHANGED faults
  BY DEF ReplicaSteps, WriteReplica, WriteReplicaManifest, PruneReplicas, RecordReplica,
     UndoReplica, ReplicationFailed, PersistFails, SaveFails
<1>4. memory' \in {memory, WithEvent(memory, Operation)}
  BY DEF ReplicaSteps, WriteReplica, WriteReplicaManifest, PruneReplicas, RecordReplica,
     UndoReplica, ReplicationFailed, Persist, PersistFails, RolledBack, state
<1>5. \/ op' = NoOp
      \/ \E phase \in Replicating \cup {"overwrite", "drill", "end"} :
           op' = [op EXCEPT !.phase = phase]
  <2>1. AfterBackup => \E phase \in Replicating \cup {"overwrite", "drill", "end"} :
                         op' = [op EXCEPT !.phase = phase]
    BY <1>1, AfterBackupPhase
  <2>2. CASE op' = op
    BY <1>1, <2>2 DEF Ops
  <2>3. CASE op' # op
    BY <2>1, <2>3 DEF ReplicaSteps, WriteReplica, WriteReplicaManifest, PruneReplicas,
       RecordReplica, UndoReplica, ReplicationFailed, End, Go, Replicating
  <2>4. QED BY <2>2, <2>3
<1>6. CASE op' = NoOp
  <2>1. op'.phase = "idle"
    BY <1>6, NoOperation
  <2>2. QED BY <1>1, <1>2, <1>3, <2>1, BackupsStill, CopyOver
            DEF Making, Undoing, Replicating
<1>7. ASSUME NEW phase \in Replicating \cup {"overwrite", "drill", "end"},
             op' = [op EXCEPT !.phase = phase]
      PROVE  OrderOK' /\ CopyOK' /\ LoadsOK'
  <2>1. op'.phase = phase /\ op'.root = op.root /\ op'.id = op.id
    BY <1>1, <1>7 DEF Ops
  <2>2. CopyOK'
    BY <1>1, <1>2, <1>4, <2>1, CopyStill
  <2>3. op.phase \notin Making \cup Undoing \cup {"manifest"}
        /\ op'.phase \notin Making \cup Undoing \cup {"manifest"}
    BY <1>1, <2>1 DEF Making, Undoing, Replicating
  <2>4. QED BY <1>2, <1>3, <2>2, <2>3, BackupsStill
<1>8. QED BY <1>5, <1>6, <1>7

LEMMA RestoreKept ==
  ASSUME Inv, RestoreSteps
  PROVE  OrderOK' /\ CopyOK' /\ LoadsOK'
<1>1. /\ op.phase \in Replacing \cup {"overwrite"} /\ op \in Ops
      /\ UNCHANGED <<backups, made, reported>> /\ (Fault \/ UNCHANGED faults)
  BY DEF RestoreSteps, OverwriteSnapshot, ReloadState, RollBackRestore, At, Replacing,
     SaveFails, Inv, TypeOK
<1>2. /\ op'.phase \in Replacing \cup {"idle"}
      /\ CopyOK'
  <2>1. CASE OverwriteSnapshot
    <3>1. /\ op.phase = "overwrite" /\ op'.phase \in Replacing /\ op'.root = op.root
          /\ op'.id = op.id /\ op'.prev = memory
      BY <1>1, <2>1 DEF OverwriteSnapshot, At, Ops, Replacing
    <3>2. op.root = "restore"
      BY <3>1 DEF Inv, OperationOK
    <3>3. Loadable(backups, op.id) /\ Precedes(backups[op.id].envelope, memory)
      BY <3>1, <3>2 DEF Inv, CopyOK
    <3>4. QED BY <1>1, <3>1, <3>3 DEF CopyOK, Making, Replicating, Replacing, Loadable
  <2>2. CASE ReloadState /\ Go("rollback")
    <3>1. /\ op.phase = "reload" /\ op'.phase = "rollback" /\ op'.root = op.root
          /\ op'.id = op.id /\ op'.prev = op.prev
      BY <1>1, <2>2 DEF ReloadState, At, Go, Ops
    <3>2. op.root = "restore"
      BY <3>1 DEF Inv, OperationOK, Replacing
    <3>3. Loadable(backups, op.id) /\ Precedes(backups[op.id].envelope, op.prev)
      BY <3>1, <3>2 DEF Inv, CopyOK, Replacing
    <3>4. QED BY <1>1, <3>1, <3>3 DEF CopyOK, Making, Replicating, Replacing, Loadable
  <2>3. CASE op' = NoOp
    <3>1. op'.phase = "idle"
      BY <2>3, NoOperation
    <3>2. QED BY <3>1, CopyOver
  <2>4. QED BY <2>1, <2>2, <2>3 DEF RestoreSteps, ReloadState, RollBackRestore, End
<1>3. op.phase \notin Making \cup Undoing \cup {"manifest"}
      /\ op'.phase \notin Making \cup Undoing \cup {"manifest"}
  BY <1>1, <1>2 DEF Making, Undoing, Replacing
<1>4. QED BY <1>1, <1>2, <1>3, BackupsStill

LEMMA CycleKept ==
  ASSUME Inv, RunOnce \/ EndOperation
  PROVE  OrderOK' /\ CopyOK' /\ LoadsOK'
<1>1. CASE StartCycle /\ StartBackup("cycle", Absent)
  BY <1>1, StartKept DEF StartCycle
<1>2. CASE StartCycle /\ ~StartBackup("cycle", Absent)
  <2>1. /\ op.phase = "idle" /\ op'.phase \in {"drill", "replicate", "end"}
        /\ op'.root = "cycle" /\ UNCHANGED <<backups, made, reported, faults>>
    BY <1>2 DEF StartCycle, Quiet, At, NoOp
  <2>2. QED BY <2>1, BackupsStill, CopyOver DEF Making, Undoing
<1>3. CASE EndCycle \/ EndOperation
  <2>1. /\ op.phase \in {"drill", "end"} /\ op' = NoOp
        /\ UNCHANGED <<backups, made, reported>>
    BY <1>3 DEF EndCycle, EndOperation, End, At
  <2>2. Fault \/ UNCHANGED faults
    BY <1>3 DEF EndCycle, EndOperation, Drilled, PersistFails, SaveFails
  <2>3. op'.phase = "idle"
    BY <2>1, NoOperation
  <2>4. QED BY <2>1, <2>2, <2>3, BackupsStill, CopyOver DEF Making, Undoing
<1>4. QED BY <1>1, <1>2, <1>3 DEF RunOnce

\* A crash is a failure, and leaves what was made or about to be removed.
LEMMA CrashKept ==
  ASSUME Inv, Crash
  PROVE  OrderOK' /\ CopyOK' /\ LoadsOK'
<1>1. /\ op' = NoOp /\ op'.phase = "idle" /\ UNCHANGED <<backups, made, reported>>
      /\ faults' = faults + 1 /\ faults \in Nat
  BY NoOperation DEF Crash, End, Fault, Inv, TypeOK
<1>2. Good' = Good /\ Broken' = Broken /\ Pending' = {}
  BY <1>1, PendingNone DEF Good, Broken, Loadable, Listed
<1>3. OrderOK'
  BY <1>1 DEF Inv, OrderOK, Making
<1>4. CopyOK'
  BY <1>1, CopyOver
<1>5. Cardinality((Broken \ Pending)') <= faults'
  <2>1. Broken' \ {} = Broken
    BY <1>2
  <2>2. QED BY <1>1, <1>2, <2>1, OneMoreBroken DEF Inv
<1>6. reported' => Good' # {} \/ faults' >= Retention
  <2>1. CASE op.phase \in Making
    <3>1. op.id \in Good
      BY <2>1, OwnPoint DEF Inv, OrderOK, Making, Good
    <3>2. QED BY <1>2, <3>1
  <2>2. CASE op.phase \notin Making
    BY <1>1, <1>2, <2>2, RecoveryAssumption DEF Inv, LoadsOK
  <2>3. QED BY <2>1, <2>2
<1>7. LoadsOK'
  BY <1>1, <1>5, <1>6 DEF LoadsOK, Making, Undoing
<1>8. QED BY <1>3, <1>4, <1>7

-----------------------------------------------------------------------------
LEMMA InvInit == Init => Inv
<1> SUFFICES ASSUME Init PROVE Inv
  OBVIOUS
<1>1. /\ op = NoOp /\ op.phase = "idle" /\ op.root = "none" /\ op.target = Absent
      /\ op.prev = Absent /\ memory = Seed /\ durable = Absent /\ ~reported /\ faults = 0
      /\ \A i \in Points : backups[i] = NoFiles /\ replicas[i] = NoFiles
  BY NoOperation DEF Init
<1>2. NoFiles.envelope = Absent /\ NoFiles.order = 0
  BY DEF NoFiles
<1>3. LedgerOK /\ DurableOK
  BY <1>1, <1>2, SeedConsistent DEF LedgerOK, DurableOK, AlwaysConsistent, Consistent
<1>4. OrderOK /\ CopyOK
  BY <1>1, <1>2 DEF OrderOK, CopyOK, Listed, Making, Replicating, Replacing
<1>5. LoadsOK
  <2>1. Broken \ Pending = {}
    BY <1>1, <1>2 DEF Broken, Listed
  <2>2. QED BY <1>1, <2>1, FS_EmptySet DEF LoadsOK
<1>6. QED BY <1>3, <1>4, <1>5, InitType DEF Inv

LEMMA InvKept == Inv /\ [Next]_vars => Inv'
<1> SUFFICES ASSUME Inv, [Next]_vars PROVE Inv'
  OBVIOUS
<1>1. TypeOK' /\ OperationOK' /\ LedgerOK' /\ DurableOK'
  BY TypesKept, LedgerKept, DurableKept DEF Inv
<1>2. OrderOK' /\ CopyOK' /\ LoadsOK'
  <2>1. CASE Requests
    BY <2>1, RequestsKept
  <2>2. CASE RunOnce \/ EndOperation
    BY <2>2, CycleKept
  <2>3. CASE BackupSteps
    BY <2>3, ManifestKept, PruneKept, RecordKept, RemovalKept DEF BackupSteps
  <2>4. CASE ReplicaSteps
    BY <2>4, ReplicasKept
  <2>5. CASE RestoreSteps
    BY <2>5, RestoreKept
  <2>6. CASE Crash
    BY <2>6, CrashKept
  <2>7. CASE UNCHANGED vars
    <3>1. UNCHANGED <<memory, op, backups, made, reported, faults>>
      BY <2>7 DEF vars, state
    <3>2. Good' = Good /\ Broken' = Broken /\ Pending' = Pending
      BY <3>1 DEF Good, Broken, Loadable, Listed, Pending, At, NextExpired, Expired
    <3>3. QED BY <3>1, <3>2 DEF Inv, OrderOK, CopyOK, LoadsOK
  <2>8. QED BY <2>1, <2>2, <2>3, <2>4, <2>5, <2>6, <2>7 DEF Next
<1>3. QED BY <1>1, <1>2 DEF Inv

\* Every state the tenant can be in has these parts.
THEOREM RecoveryInvariant == Spec => []Inv
<1>1. Init => Inv
  BY InvInit
<1>2. Inv /\ [Next]_vars => Inv'
  BY InvKept
<1>3. QED BY <1>1, <1>2, PTL DEF Spec

\* Whatever write of commitMutation, of a backup or of a restore fails, and
\* wherever the process dies, state and ledger stay together in memory, on
\* disk and in every copy, unless a request goes on with a replaced service.
THEOREM HistoryMatches == Spec => []StateMatchesHistory
<1>1. Inv => StateMatchesHistory
  BY DEF Inv, LedgerOK, StateMatchesHistory
<1>2. QED BY <1>1, RecoveryInvariant, PTL

\* Between operations the process goes on from what is saved.
THEOREM MemorySaved == Spec => []MemoryIsDurable
<1>1. Inv => MemoryIsDurable
  BY DEF Inv, DurableOK, MemoryIsDurable, At, Replacing
<1>2. QED BY <1>1, RecoveryInvariant, PTL

\* The safety backup of restoreTenantBackup can be loaded while the state is
\* replaced, and lacks nothing but the events that came after it.
THEOREM SafetyCopyKept == Spec => []SafetyCopyStands
<1>1. Inv => SafetyCopyStands
  <2> SUFFICES ASSUME Inv, op.phase \in {"overwrite", "reload", "rollback"}
               PROVE  /\ Loadable(backups, op.id)
                      /\ Precedes(backups[op.id].envelope,
                                  IF op.phase = "overwrite" THEN memory ELSE op.prev)
    BY DEF SafetyCopyStands, Precedes, At
  <2>1. op.root = "restore"
    BY DEF Inv, OperationOK, Replacing
  <2>2. QED BY <2>1 DEF Inv, CopyOK, Replacing
<1>2. QED BY <1>1, RecoveryInvariant, PTL

\* As long as fewer calls failed than backups are retained, one of them can be
\* loaded, once createTenantBackup has reported one.
THEOREM BackupLoadable == Spec => []SomethingLoadable
<1>1. Inv => SomethingLoadable
  <2> SUFFICES ASSUME Inv, reported, faults < Retention PROVE Good # {}
    BY DEF SomethingLoadable, Good
  <2>1. ~(faults >= Retention)
    BY RecoveryAssumption DEF Inv, TypeOK
  <2>2. CASE op.phase \in Making
    <3>1. op.id \in Good
      BY <2>2, OwnPoint DEF Inv, OrderOK, Making, Good
    <3>2. QED BY <3>1
  <2>3. CASE op.phase \notin Making
    BY <2>1, <2>3 DEF Inv, LoadsOK
  <2>4. QED BY <2>2, <2>3
<1>2. QED BY <1>1, RecoveryInvariant, PTL
=============================================================================
