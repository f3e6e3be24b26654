--------------------------- MODULE TenantRecovery ---------------------------
(***************************************************************************)
(* The audit state of one tenant and its recovery points:                  *)
(* workforceAuditRegistry.js keeps findings and the governance ledger in   *)
(* memory and saves both together, backupManager.js and replicaManager.js  *)
(* keep copies as pairs of files, an encrypted envelope and a manifest.    *)
(*                                                                         *)
(* One process runs one operation at a time, so an operation is a sequence *)
(* of steps between which only a crash can come.  Every write may fail,    *)
(* and each failure has its own handler: an event is taken back, the files *)
(* of a backup are removed, a restore is rolled back.  Encryption and the  *)
(* wording of records are left out.  With a lease, each operation works on *)
(* a registry of its own that starts from what is saved; that is the model *)
(* with a crash before the operation.                                      *)
(*                                                                         *)
(* A request is the exception: it looks up the service of the tenant and   *)
(* then waits for its body.  A restore in between replaces the service,    *)
(* and the request goes on with the old one.                               *)
(***************************************************************************)
EXTENDS Integers, FiniteSets, Sequences, SequencesExt

CONSTANTS
  MaxBackup,         \* bound on the recovery points ever made
  Retention,         \* retention of backups
  ReplicaRetention,  \* retention of replicas
  Required,          \* whether a scheduled backup must be replicated
  MaxClock,          \* bound on the clock, which may go backwards
  MaxEvents,         \* bound on the ledger
  MaxFaults,         \* bound on failing writes and crashes
  Kinds,             \* what is created in a tenant: findings, engagements
  Absent             \* "there is no such file"

ASSUME RecoveryAssumption ==
  /\ MaxBackup \in Nat /\ Retention \in Nat \ {0} /\ ReplicaRetention \in Nat \ {0}
  /\ Required \in BOOLEAN /\ MaxClock \in Nat \ {0}
  /\ MaxEvents \in Nat /\ MaxFaults \in Nat

Points == 1..MaxBackup

VARIABLES
  memory,    \* the state and the ledger in the process
  durable,   \* the saved snapshot
  backups,   \* the files of each recovery point
  replicas,  \* the files of its replica
  op,        \* the operation under way
  waiting,   \* a request that waits for its body, and the service it has
  overtaken, \* history: a request changed a service that had been replaced
  split,     \* a rollback failed, and was reported
  reported,  \* history: a backup was reported as made
  made,      \* how many recovery points were made
  faults     \* how many writes failed or processes died

requests == <<waiting, overtaken>>
state == <<memory, durable, split>>
vars == <<state, requests, backups, replicas, op, reported, made, faults>>

Seed == [entities |-> [kind \in Kinds |-> 0], events |-> <<>>]
NoFiles == [envelope |-> Absent, order |-> 0, scheduled |-> FALSE]
NoOp == [phase |-> "idle", root |-> "none", id |-> 0, created |-> FALSE,
         target |-> Absent, prev |-> Absent]

Init ==
  /\ memory = Seed /\ durable = Absent /\ split = FALSE
  /\ backups = [i \in Points |-> NoFiles] /\ replicas = [i \in Points |-> NoFiles]
  /\ waiting = Absent /\ overtaken = FALSE
  /\ op = NoOp /\ reported = FALSE /\ made = 0 /\ faults = 0

Fault == faults < MaxFaults /\ faults' = faults + 1

At(phase) == op.phase = phase
Go(phase) == op' = [op EXCEPT !.phase = phase]
End == op' = NoOp

-----------------------------------------------------------------------------
(* The ledger, the state, and the store under them.                        *)

\* appendOperationalEvent does not say more of an operation here.
Operation == "operation"

\* What a service, a snapshot and an envelope hold, and a request that waits.
States == [Kinds -> Nat]
Contents == [entities : States, events : Seq(Kinds \cup {Operation})]
Waits == [kind : Kinds, replaced : States \cup {Absent}]

ASSUME ContentsAssumption ==
  /\ Operation \notin Kinds
  /\ Absent \notin States /\ Absent \notin Contents /\ Absent \notin Waits

WithEvent(c, e) == [c EXCEPT !.events = Append(@, e)]

\* Mutant: only the ledger goes back.
RolledBack_Ledger(before, after) == [after EXCEPT !.events = before.events]

\* commitMutation and appendOperationalEvent: state and ledger go back.
RolledBack(before, after) == before

\* save and writeEncrypted: the file is replaced as a whole, or is as it was.
SaveSnapshot(content) == durable' = content
SaveFails == Fault /\ UNCHANGED durable

\* persistState of what the mutation or the event made of the memory.
Persist(next) ==
  /\ memory' = next /\ SaveSnapshot(next) /\ split' = FALSE

PersistFails(next) ==
  /\ SaveFails
  /\ memory' = RolledBack(memory, next) /\ UNCHANGED split

\* load and readEncrypted: null without a file.
HasSnapshot == durable # Absent

\* forTenant, in a process that just started.
Loaded == IF HasSnapshot THEN durable ELSE Seed

\* server.js: the service is looked up, then the body is read.
LookUpService(kind) ==
  /\ At("idle") /\ waiting = Absent
  /\ waiting' = [kind |-> kind, replaced |-> Absent]
  /\ UNCHANGED <<state, overtaken, backups, replicas, op, reported, made, faults>>

\* services.set of a restore: who has the old service keeps it.
ReplaceService ==
  waiting' = IF waiting # Absent /\ waiting.replaced = Absent
             THEN [waiting EXCEPT !.replaced = memory.entities] ELSE waiting

\* createEngagement, addFieldworkPlaceholder, createFinding.
Mutate ==
  /\ At("idle") /\ waiting # Absent /\ Len(memory.events) < MaxEvents
  /\ waiting.replaced = Absent
  /\ LET next == WithEvent([memory EXCEPT !.entities[waiting.kind] = @ + 1], waiting.kind)
     IN \/ Persist(next) /\ UNCHANGED faults
        \/ PersistFails(next)
  /\ waiting' = Absent
  /\ UNCHANGED <<overtaken, backups, replicas, op, reported, made>>

\* The same of a service that was replaced: the ledger is the tenant's, the
\* state is its own, and it saves both.
MutateReplaced ==
  /\ At("idle") /\ waiting # Absent /\ Len(memory.events) < MaxEvents
  /\ waiting.replaced # Absent
  /\ LET old == [memory EXCEPT !.entities = waiting.replaced]
         next == WithEvent([old EXCEPT !.entities[waiting.kind] = @ + 1], waiting.kind)
     IN \/ /\ SaveSnapshot(next) /\ memory' = [memory EXCEPT !.events = next.events]
           /\ overtaken' = TRUE /\ UNCHANGED <<split, faults>>
        \/ SaveFails /\ UNCHANGED <<memory, split, overtaken>>
  /\ waiting' = Absent
  /\ UNCHANGED <<backups, replicas, op, reported, made>>

-----------------------------------------------------------------------------
(* The files of recovery points.                                           *)

Listed(f) == {i \in Points : f[i].order > 0}

\* load and verify of a recovery point, or of a replica.
Loadable(f, i) == f[i].order > 0 /\ f[i].envelope # Absent
ReplicaVerifies(i) == Loadable(replicas, i)

ListedReplicas == Listed(replicas)

LatestOrder(f) == IF Listed(f) = {} THEN 0
                  ELSE CHOOSE n \in {f[i].order : i \in Listed(f)} :
                         \A i \in Listed(f) : f[i].order <= n

\* list, newest first: the first one.
Newest(f) == CHOOSE i \in Listed(f) : f[i].order = LatestOrder(f)

\* Mutant: the order is the time.
NextOrder_Clock(f, clock) == clock

\* createdOrder and replicatedOrder.
NextOrder(f, clock) == IF clock > LatestOrder(f) THEN clock ELSE LatestOrder(f) + 1

\* Mutant: the new one counts twice.
Expired_OneTooMany(f, limit) ==
  {i \in Listed(f) : Cardinality({j \in Listed(f) : f[j].order > f[i].order}) >= limit - 1}

Expired(f, limit) ==
  {i \in Listed(f) : Cardinality({j \in Listed(f) : f[j].order > f[i].order}) >= limit}

\* prune: the newest of what is too much comes first.
NextExpired(f, limit) ==
  CHOOSE i \in Expired(f, limit) : \A j \in Expired(f, limit) : f[j].order <= f[i].order

WithoutEnvelope(f, i) == [f EXCEPT ![i].envelope = Absent]
WithoutManifest(f, i) == [f EXCEPT ![i].order = 0, ![i].scheduled = FALSE]

-----------------------------------------------------------------------------
(* createTenantBackup.                                                     *)

Quiet == At("idle") /\ Len(memory.events) + 3 <= MaxEvents

\* It saves the memory, and create writes the envelope from what is saved.
StartBackup(root, target) ==
  /\ made < MaxBackup /\ made' = made + 1
  /\ op' = [NoOp EXCEPT !.phase = "manifest", !.root = root, !.id = made + 1, !.target = target]
  /\ Persist(memory)
  /\ backups' = [backups EXCEPT ![made + 1].envelope = memory]
  /\ UNCHANGED <<requests, replicas, reported, faults>>

CreateTenantBackup == Quiet /\ StartBackup("backup", Absent)

\* create: the manifest.
WriteManifest ==
  /\ At("manifest")
  /\ \/ /\ \E clock \in 1..MaxClock :
             backups' = [backups EXCEPT ![op.id].order = NextOrder(backups, clock),
                                        ![op.id].scheduled = (op.root = "cycle")]
        /\ Go("prune") /\ UNCHANGED faults
     \/ Fault /\ Go("undo") /\ UNCHANGED backups
  /\ UNCHANGED <<requests, state, replicas, reported, made>>

\* prune: an envelope goes before its manifest; the handler of a failing
\* removal removes the new files.
PruneEnvelope ==
  /\ At("prune")
  /\ IF Expired(backups, Retention) = {}
     THEN Go("created") /\ UNCHANGED <<backups, faults>>
     ELSE \/ /\ backups' = WithoutEnvelope(backups, NextExpired(backups, Retention))
             /\ Go("pruneManifest") /\ UNCHANGED faults
          \/ Fault /\ Go("undo") /\ UNCHANGED backups
  /\ UNCHANGED <<requests, state, replicas, reported, made>>

PruneManifest ==
  /\ At("pruneManifest")
  /\ \/ /\ backups' = WithoutManifest(backups, NextExpired(backups, Retention))
        /\ Go("prune") /\ UNCHANGED faults
     \/ Fault /\ Go("undo") /\ UNCHANGED backups
  /\ UNCHANGED <<requests, state, replicas, reported, made>>

\* What follows a backup that is made, replicated or not.
AfterBackup == Go(CASE op.root = "restore" -> "overwrite"
                    [] op.root = "cycle"   -> "drill"
                    [] OTHER               -> "end")

\* The event of the backup, without which it is removed.
RecordBackup ==
  /\ At("created")
  /\ \/ /\ Persist(WithEvent(memory, Operation))
        /\ reported' = TRUE /\ op' = [op EXCEPT !.phase = "replicate", !.created = TRUE]
        /\ UNCHANGED faults
     \/ PersistFails(WithEvent(memory, Operation)) /\ Go("remove") /\ UNCHANGED reported
  /\ UNCHANGED <<requests, backups, replicas, made>>

\* The handler of create removes each of the files, whether or not it could
\* remove the other.  The handler of createTenantBackup calls remove, which
\* throws at the first failure and leaves both.
UndoEnvelope ==
  /\ At("undo") \/ At("remove")
  /\ \/ /\ backups' = WithoutEnvelope(backups, op.id)
        /\ Go("undoManifest") /\ UNCHANGED faults
     \/ /\ UNCHANGED backups /\ Fault
        /\ IF At("undo") THEN Go("undoManifest") ELSE End
  /\ UNCHANGED <<requests, state, replicas, reported, made>>

UndoManifest ==
  /\ At("undoManifest")
  /\ \/ backups' = WithoutManifest(backups, op.id) /\ UNCHANGED faults
     \/ UNCHANGED backups /\ Fault
  /\ End
  /\ UNCHANGED <<requests, state, replicas, reported, made>>

-----------------------------------------------------------------------------
(* replicateTenantBackup, on its own or after a backup.                    *)

ReplicateTenantBackup(i) ==
  /\ Quiet /\ Loadable(backups, i)
  /\ op' = [NoOp EXCEPT !.phase = "replicate", !.root = "replicate", !.id = i]
  /\ UNCHANGED <<requests, state, backups, replicas, reported, made, faults>>

\* replicate: what is there already is verified and reported again.
WriteReplica ==
  /\ At("replicate")
  /\ \/ /\ op.id \in ListedReplicas
        /\ Go(IF ReplicaVerifies(op.id) THEN "replicatedAgain" ELSE "replicationFailed")
        /\ UNCHANGED <<replicas, faults>>
     \/ /\ op.id \notin ListedReplicas
        /\ replicas' = [replicas EXCEPT ![op.id].envelope = backups[op.id].envelope]
        /\ Go("replicaManifest") /\ UNCHANGED faults
     \/ /\ op.id \notin ListedReplicas
        /\ Fault /\ Go("undoReplica") /\ UNCHANGED replicas
  /\ UNCHANGED <<requests, state, backups, reported, made>>

WriteReplicaManifest ==
  /\ At("replicaManifest")
  /\ \/ /\ \E clock \in 1..MaxClock :
             replicas' = [replicas EXCEPT ![op.id].order = NextOrder(replicas, clock)]
        /\ Go("pruneReplicas") /\ UNCHANGED faults
     \/ Fault /\ Go("undoReplica") /\ UNCHANGED replicas
  /\ UNCHANGED <<requests, state, backups, reported, made>>

PruneReplicas ==
  /\ At("pruneReplicas")
  /\ IF Expired(replicas, ReplicaRetention) = {}
     THEN Go("replicated") /\ UNCHANGED <<replicas, faults>>
     ELSE LET i == NextExpired(replicas, ReplicaRetention)
          IN \/ /\ replicas' = WithoutManifest(WithoutEnvelope(replicas, i), i)
                /\ UNCHANGED <<op, faults>>
             \/ /\ Fault /\ Go("undoReplica")
                /\ replicas' \in {replicas, WithoutEnvelope(replicas, i)}
  /\ UNCHANGED <<requests, state, backups, reported, made>>

RecordReplica ==
  /\ At("replicated") \/ At("replicatedAgain")
  /\ \/ Persist(WithEvent(memory, Operation)) /\ AfterBackup /\ UNCHANGED faults
     \/ /\ PersistFails(WithEvent(memory, Operation))
        /\ Go(IF At("replicated") THEN "undoReplica" ELSE "replicationFailed")
  /\ UNCHANGED <<requests, backups, replicas, reported, made>>

UndoReplica ==
  /\ At("undoReplica")
  /\ \/ /\ replicas' = WithoutManifest(WithoutEnvelope(replicas, op.id), op.id)
        /\ UNCHANGED faults
     \/ replicas' \in {replicas, WithoutEnvelope(replicas, op.id)} /\ Fault
  /\ Go("replicationFailed")
  /\ UNCHANGED <<requests, state, backups, reported, made>>

\* A backup stands without its replica, unless the cycle requires it.
ReplicationFailed ==
  /\ At("replicationFailed")
  /\ IF op.created
     THEN /\ \/ Persist(WithEvent(memory, Operation)) /\ UNCHANGED faults
             \/ PersistFails(WithEvent(memory, Operation))
          /\ IF op.root = "cycle" /\ Required THEN End ELSE AfterBackup
     ELSE End /\ UNCHANGED <<state, faults>>
  /\ UNCHANGED <<requests, backups, replicas, reported, made>>

-----------------------------------------------------------------------------
(* Drills and the cycle of the scheduler.                                  *)

\* runRecoveryDrill of a replica: a point that is not there both times, or
\* differs, is an error.
Drilled(i) ==
  /\ Loadable(backups, i) /\ ReplicaVerifies(i)
  /\ backups[i].envelope = replicas[i].envelope
  /\ \/ Persist(WithEvent(memory, Operation)) /\ UNCHANGED faults
     \/ PersistFails(WithEvent(memory, Operation))

RunRecoveryDrill(i) ==
  /\ Quiet /\ Drilled(i)
  /\ UNCHANGED <<requests, backups, replicas, op, reported, made>>

Scheduled == {i \in Listed(backups) : backups[i].scheduled}

\* runResilienceCycle: a backup when there is none or it is old, else the
\* replica that the newest backup lacks.
StartCycle ==
  /\ Quiet
  /\ \/ StartBackup("cycle", Absent)
     \/ /\ Scheduled # {}
        /\ LET i == Newest(backups)
           IN op' = [NoOp EXCEPT !.root = "cycle", !.id = i,
                       !.phase = IF i \in ListedReplicas THEN "drill"
                                 ELSE IF Loadable(backups, i) THEN "replicate" ELSE "end"]
        /\ UNCHANGED <<requests, state, backups, replicas, reported, made, faults>>

\* The drill of the cycle, when there was none or it is old.
EndCycle ==
  /\ At("drill") /\ End
  /\ \/ ListedReplicas # {} /\ Drilled(Newest(replicas))
     \/ UNCHANGED <<state, faults>>
  /\ UNCHANGED <<requests, backups, replicas, reported, made>>

EndOperation ==
  /\ At("end") /\ End
  /\ UNCHANGED <<requests, state, backups, replicas, reported, made, faults>>

-----------------------------------------------------------------------------
(* restoreTenantBackup: the backup is read, then comes a safety copy.      *)

RestoreTenantBackup(i) ==
  /\ Quiet /\ Loadable(backups, i)
  /\ StartBackup("restore", backups[i].envelope)

\* The snapshot is replaced.
OverwriteSnapshot ==
  /\ At("overwrite")
  /\ \/ SaveSnapshot(op.target) /\ op' = [op EXCEPT !.phase = "reload", !.prev = memory]
        /\ UNCHANGED faults
     \/ SaveFails /\ op' = [op EXCEPT !.phase = "rollback", !.prev = memory]
  /\ UNCHANGED <<requests, memory, split, backups, replicas, reported, made>>

Restored == WithEvent(op.target, Operation)

\* Ledger and state are replaced, and saved with the event of the restore.
ReloadState ==
  /\ At("reload")
  /\ memory' = Restored /\ ReplaceService
  /\ \/ SaveSnapshot(Restored) /\ End /\ UNCHANGED faults
     \/ SaveFails /\ Go("rollback")
  /\ UNCHANGED <<overtaken, split, backups, replicas, reported, made>>

\* Mutant: the ledger stays as it is.
TakenBack_State(prev) == [prev EXCEPT !.events = memory.events]

TakenBack(prev) == prev

\* The rollback writes the old snapshot first; when that fails, it stops.
RollBackRestore ==
  /\ At("rollback") /\ End
  /\ \/ /\ SaveSnapshot(op.prev) /\ memory' = TakenBack(op.prev) /\ ReplaceService
        /\ UNCHANGED <<split, faults>>
     \/ SaveFails /\ split' = (memory # durable) /\ UNCHANGED <<memory, waiting>>
  /\ UNCHANGED <<overtaken, backups, replicas, reported, made>>

-----------------------------------------------------------------------------
Crash ==
  /\ Fault /\ ~(At("idle") /\ waiting = Absent)
  /\ memory' = Loaded /\ split' = FALSE /\ waiting' = Absent /\ End
  /\ UNCHANGED <<overtaken, durable, backups, replicas, reported, made>>

\* What the routes of the application begin, or do at once.
Requests ==
  \/ \E kind \in Kinds : LookUpService(kind)
  \/ Mutate \/ MutateReplaced
  \/ CreateTenantBackup
  \/ \E i \in Points : ReplicateTenantBackup(i) \/ RunRecoveryDrill(i) \/ RestoreTenantBackup(i)

\* runOnce of the scheduler, or the route of the cycle.
RunOnce == StartCycle \/ EndCycle

BackupSteps ==
  \/ WriteManifest \/ PruneEnvelope \/ PruneManifest \/ RecordBackup
  \/ UndoEnvelope \/ UndoManifest

ReplicaSteps ==
  \/ WriteReplica \/ WriteReplicaManifest \/ PruneReplicas \/ RecordReplica
  \/ UndoReplica \/ ReplicationFailed

RestoreSteps == OverwriteSnapshot \/ ReloadState \/ RollBackRestore

Next ==
  \/ Requests \/ RunOnce \/ EndOperation
  \/ BackupSteps \/ ReplicaSteps \/ RestoreSteps
  \/ Crash

Spec == Init /\ [][Next]_vars

-----------------------------------------------------------------------------
Count(c, kind) == Cardinality({n \in DOMAIN c.events : c.events[n] = kind})

Consistent(c) == c # Absent => c.entities = [kind \in Kinds |-> Count(c, kind)]

\* test/registryRecovery.test.js:71, "restores business state and chain": the
\* state and the ledger agree in memory, on disk and in every copy.
AlwaysConsistent ==
  /\ Consistent(memory) /\ Consistent(durable)
  /\ \A i \in Points : Consistent(backups[i].envelope) /\ Consistent(replicas[i].envelope)

\* README.md:212, "rolls state and history back together on failure": they do
\* whatever failed, as long as no request goes on with a replaced service.
StateMatchesHistory == ~overtaken => AlwaysConsistent

\* workforceAuditRegistry.js, appendOperationalEvent and restoreTenantBackup:
\* whatever failed in an operation, the process goes on from what is saved,
\* unless it reported that a rollback failed, or was overtaken.
MemoryIsDurable ==
  At("idle") /\ durable # Absent /\ ~split /\ ~overtaken => memory = durable

\* docs/recovery-runbook.md:33, "recover from the reported safety backup":
\* while a restore replaces the state, the copy of what it replaces can be
\* loaded, and nothing but its own events is missing from it.
SafetyCopyStands ==
  op.phase \in {"overwrite", "reload", "rollback"} =>
    /\ Loadable(backups, op.id)
    /\ LET copy == backups[op.id].envelope
           prev == IF At("overwrite") THEN memory ELSE op.prev
       IN /\ copy.entities = prev.entities
          /\ IsPrefix(copy.events, prev.events)

\* createTenantBackup and prune: as long as fewer calls failed than backups
\* are retained, a backup that was reported is followed by one that can be
\* loaded, although what cannot be loaded counts as retained.
SomethingLoadable ==
  reported /\ faults < Retention => \E i \in Points : Loadable(backups, i)
=============================================================================
