------------------------------ MODULE ScanJobs -------------------------------
(***************************************************************************)
(* Delivery of quarantined evidence to an external scanner.                *)
(* externalScanJobOutbox.js keeps one file per job in the directory of its *)
(* state; externalScanJobLifecycle.js puts a janitor in front of every     *)
(* operation.  Both hold the same mutex, one after the other, so janitor   *)
(* and operations are steps of their own.                                  *)
(*                                                                         *)
(* A transition rewrites the record where it is and then renames the file: *)
(* a process that stops in between leaves a record whose state is not its  *)
(* directory.  Times are abstract: a job expires and a claim lapses at     *)
(* some time.  A scanner may use every claim it was ever given, late or    *)
(* again; signatures, sealing and the markers against a request sent twice *)
(* verbatim are left out.                                                  *)
(***************************************************************************)
EXTENDS Integers, FiniteSets, FiniteSetsExt

CONSTANTS
  MaxJob,              \* jobs are numbered in the order of their file names
  MaxAttempts,         \* maxAttempts
  Batch,               \* the largest limit of a claim
  CompletedRetention,  \* completedRetention
  DeadRetention,       \* deadLetterRetention
  MaxQueues,           \* bound on the records of jobs queued in all
  MaxStops,            \* bound on processes that stop inside a transition
  Absent               \* "there is no such file"

Jobs == 1..MaxJob

ASSUME JobsAssumption ==
  /\ MaxJob \in Nat /\ MaxAttempts \in Nat \ {0} /\ Batch \in Nat \ {0}
  /\ CompletedRetention \in Nat /\ DeadRetention \in Nat \ {0}
  /\ MaxQueues \in Nat /\ MaxStops \in Nat

States == {"pending", "inflight", "delivered", "completed", "dead-letter"}

Record == [dir : States, state : States, attempts : Nat, token : Nat,
           lapsed : BOOLEAN, expired : BOOLEAN]

ASSUME AbsentAssumption == Absent \notin Record

VARIABLES
  jobs,    \* the file of each job: where it is, and the record in it
  held,    \* the claim tokens that the scanner was given
  queues,  \* how many records were queued
  stops    \* how often a process stopped inside a transition

jobVars == <<jobs, held, queues, stops>>

-----------------------------------------------------------------------------
(* What the operations find, and how they change a record.                 *)

In(f, dir) == {j \in Jobs : f[j] # Absent /\ f[j].dir = dir}

\* Mutant: the record goes back to what its directory says.
Reconciled_Back(f, dirs) ==
  [j \in Jobs |-> IF f[j] # Absent /\ f[j].dir \in dirs
                  THEN [f[j] EXCEPT !.state = f[j].dir] ELSE f[j]]

\* reconcileLocationsLocked, of both files: a file goes where its record says.
Reconciled(f, dirs) ==
  [j \in Jobs |-> IF f[j] # Absent /\ f[j].dir \in dirs
                  THEN [f[j] EXCEPT !.dir = f[j].state] ELSE f[j]]

NewRecord == [dir |-> "pending", state |-> "pending", attempts |-> 0, token |-> 0,
              lapsed |-> FALSE, expired |-> FALSE]

Claimed(r, t) == [r EXCEPT !.state = "inflight", !.attempts = @ + 1, !.token = t, !.lapsed = FALSE]

Left(r, state) == [r EXCEPT !.state = state, !.token = 0, !.lapsed = FALSE]

Moved(r) == [r EXCEPT !.dir = r.state]

\* Mutant: the last attempt is counted after it was made.
AfterLapse_Late(r) ==
  Left(r, IF r.attempts <= MaxAttempts /\ ~r.expired THEN "pending" ELSE "dead-letter")

AfterLapse(r) ==
  Left(r, IF r.attempts < MaxAttempts /\ ~r.expired THEN "pending" ELSE "dead-letter")

LapsedClaims(f) == {j \in In(f, "inflight") : f[j].lapsed}

\* recoverInflightLocked.
Recovered(f) ==
  [j \in Jobs |-> IF j \in LapsedClaims(f) THEN Moved(AfterLapse(f[j])) ELSE f[j]]

\* The janitor takes what is due in pending and delivered.
\* Mutant: jobs that wait for an attestation are left alone.
DueForJanitor_Pending(f) == {j \in In(f, "pending") : f[j].expired}

DueForJanitor(f) == {j \in In(f, "pending") \cup In(f, "delivered") : f[j].expired}

Buried(f) ==
  [j \in Jobs |-> IF j \in DueForJanitor(f) THEN Moved(Left(f[j], "dead-letter")) ELSE f[j]]

Without(f, gone) == [j \in Jobs |-> IF j \in gone THEN Absent ELSE f[j]]

ExcessOf(f, dir, limit) ==
  IF Cardinality(In(f, dir)) > limit THEN Cardinality(In(f, dir)) - limit ELSE 0

\* pruneTerminalLocked removes the oldest, and ages are not modelled.
Pruned(f, dir, limit) ==
  {Without(f, gone) : gone \in kSubset(ExcessOf(f, dir, limit), In(f, dir))}

\* The janitor removes the first of the names.
PrunedByName(f) ==
  Without(f, {j \in In(f, "dead-letter") :
                Cardinality({k \in In(f, "dead-letter") : k > j}) >= DeadRetention})

\* What an operation starts from: it looks into some directories only.
Prepared(dirs) ==
  LET f == Reconciled(jobs, dirs)
  IN IF \A j \in LapsedClaims(f) : AfterLapse(f[j]).state = "pending"
     THEN {Recovered(f)}
     ELSE Pruned(Recovered(f), "dead-letter", DeadRetention)

ClaimDirs == {"pending", "inflight"}
QueueDirs == {"pending", "inflight", "delivered", "dead-letter"}

\* writeAndMove, and the pruning of the directory the record went to.
Transition(f, j, r, limit) ==
  /\ jobs' \in Pruned([f EXCEPT ![j] = Moved(r)], r.state, limit)
  /\ UNCHANGED stops

\* A process stops between the rewriting and the renaming.
Interrupted(f, j, r) ==
  /\ stops < MaxStops
  /\ jobs' = [f EXCEPT ![j] = r]
  /\ stops' = stops + 1

Move(f, j, r, limit) == Transition(f, j, r, limit) \/ Interrupted(f, j, r)

-----------------------------------------------------------------------------
JobsInit ==
  /\ jobs = [j \in Jobs |-> Absent]
  /\ held = [j \in Jobs |-> {}]
  /\ queues = 0
  /\ stops = 0

\* queue: a job that has a record is a duplicate, but a dead letter gets a
\* fresh one under the same name.
QueueJob(j) ==
  /\ queues < MaxQueues
  /\ \E f \in Prepared(QueueDirs) :
       \/ /\ f[j] = Absent
          /\ jobs' = [f EXCEPT ![j] = NewRecord] /\ UNCHANGED stops
          /\ queues' = queues + 1
       \/ /\ f[j] # Absent /\ f[j].state = "dead-letter"
          /\ Move(f, j, [NewRecord EXCEPT !.dir = f[j].dir], MaxJob)
          /\ queues' = queues + 1
       \/ /\ f[j] # Absent /\ f[j].state # "dead-letter"
          /\ jobs' = f /\ UNCHANGED <<queues, stops>>
  /\ UNCHANGED held

FreshToken(f, j) ==
  CHOOSE t \in 1..(Cardinality(held[j]) + 2) : t \notin held[j] /\ (f[j] # Absent => t # f[j].token)

Claimable(f) == {j \in In(f, "pending") : ~f[j].expired}

\* The files that claimSigned comes by before it has enough.
Visited(f, limit) ==
  {j \in In(f, "pending") : Cardinality({k \in Claimable(f) : k < j}) < limit}

\* A claim, or the end of a job that expired in the meantime.
OnClaim(f, j) ==
  IF f[j].expired THEN Left(f[j], "dead-letter") ELSE Claimed(f[j], FreshToken(f, j))

AfterClaims(f, visited) ==
  [j \in Jobs |-> IF j \in visited THEN Moved(OnClaim(f, j)) ELSE f[j]]

\* claimSigned.
Claim(limit) ==
  /\ \E f \in Prepared(ClaimDirs) :
       LET visited == Visited(f, limit)
           given   == visited \cap Claimable(f)
           dead    == visited \ given
       IN /\ jobs' \in Pruned(AfterClaims(f, visited), "dead-letter",
                              IF dead = {} THEN MaxJob ELSE DeadRetention)
          /\ held' = [j \in Jobs |-> IF j \in given
                                     THEN held[j] \cup {FreshToken(f, j)} ELSE held[j]]
  /\ UNCHANGED <<queues, stops>>

\* It stops at one of the jobs: the claims before it are never handed out.
ClaimStopped(limit) ==
  /\ \E f \in Prepared(ClaimDirs) : \E last \in Visited(f, limit) :
       Interrupted(AfterClaims(f, {j \in Visited(f, limit) : j < last}), last, OnClaim(f, last))
  /\ UNCHANGED <<held, queues>>

\* readOwnedClaim, for a request with the token t.
Owned(f, j, t) ==
  /\ f[j] # Absent /\ f[j].dir = "inflight"
  /\ f[j].state = "inflight" /\ f[j].token = t /\ ~f[j].lapsed

\* acknowledgeSigned and failSigned. A claim that is not owned is an error,
\* which leaves the recovery in front of it.
Acknowledge(j, t) ==
  /\ t \in held[j]
  /\ \E f \in Prepared(ClaimDirs) :
       \/ Owned(f, j, t) /\ Move(f, j, Left(f[j], "delivered"), MaxJob)
       \/ ~Owned(f, j, t) /\ jobs' = f /\ UNCHANGED stops
  /\ UNCHANGED <<held, queues>>

AfterFailure(r, retryable) ==
  Left(r, IF retryable /\ r.attempts < MaxAttempts THEN "pending" ELSE "dead-letter")

Fail(j, t) ==
  /\ t \in held[j]
  /\ \E f \in Prepared(ClaimDirs) : \E retryable \in BOOLEAN :
       \/ Owned(f, j, t) /\ Move(f, j, AfterFailure(f[j], retryable), DeadRetention)
       \/ ~Owned(f, j, t) /\ jobs' = f /\ UNCHANGED stops
  /\ UNCHANGED <<held, queues>>

\* completeFromAttestation, from whatever state.
Complete(j) ==
  /\ \E f \in Prepared(QueueDirs) :
       IF f[j] # Absent /\ f[j].state # "completed"
       THEN Move(f, j, Left(f[j], "completed"), CompletedRetention)
       ELSE jobs' = f /\ UNCHANGED stops
  /\ UNCHANGED <<held, queues>>

\* The janitor, in front of every operation and of every look at the queue.
\* It prunes also when nothing expired.
Maintain ==
  /\ jobs' = PrunedByName(Buried(Reconciled(jobs, States)))
  /\ UNCHANGED <<held, queues, stops>>

\* It stops at one of the jobs that expired.
MaintainStopped ==
  /\ LET f == Reconciled(jobs, States)
     IN \E j \in DueForJanitor(f) : Interrupted(f, j, Left(f[j], "dead-letter"))
  /\ UNCHANGED <<held, queues>>

\* Listing and health: what they recover is all they change.
Look ==
  /\ jobs' \in Prepared(QueueDirs \ {"dead-letter"})
  /\ UNCHANGED <<held, queues, stops>>

\* A process starts: it reconciles every directory.
Restart ==
  /\ jobs' \in Prepared(States)
  /\ UNCHANGED <<held, queues, stops>>

\* expiresAt and claimExpiresAt pass.
Expire(j) ==
  /\ jobs[j] # Absent /\ ~jobs[j].expired /\ jobs[j].state \notin {"completed", "dead-letter"}
  /\ jobs' = [jobs EXCEPT ![j].expired = TRUE]
  /\ UNCHANGED <<held, queues, stops>>

Lapse(j) ==
  /\ jobs[j] # Absent /\ jobs[j].state = "inflight" /\ ~jobs[j].lapsed
  /\ jobs' = [jobs EXCEPT ![j].lapsed = TRUE]
  /\ UNCHANGED <<held, queues, stops>>

\* The requests of the scanner.
Delivery ==
  \/ \E limit \in 1..Batch : Claim(limit) \/ ClaimStopped(limit)
  \/ \E j \in Jobs : \E t \in held[j] : Acknowledge(j, t) \/ Fail(j, t)

\* The steps that queueing and attesting are not part of.
DeliveryNext ==
  \/ Delivery
  \/ \E j \in Jobs : Expire(j) \/ Lapse(j)
  \/ Maintain \/ MaintainStopped \/ Look \/ Restart

\* With nothing around it: a job is queued, and completed, at any time.
JobsNext == DeliveryNext \/ \E j \in Jobs : QueueJob(j) \/ Complete(j)

\* The queue is looked at for ever, and time passes.
JobsSpec ==
  /\ JobsInit /\ [][JobsNext]_jobVars
  /\ WF_jobVars(Maintain) /\ WF_jobVars(Look)
  /\ \A j \in Jobs : WF_jobVars(Expire(j)) /\ WF_jobVars(Lapse(j))

-----------------------------------------------------------------------------
\* Files and claims are what the readers expect.
JobsTypeOK ==
  /\ jobs \in [Jobs -> Record \cup {Absent}]
  /\ held \in [Jobs -> SUBSET (Nat \ {0})]
  /\ queues \in 0..MaxQueues
  /\ stops \in 0..MaxStops

\* recoverInflightLocked, failSigned and claimSigned: claimSigned does not
\* look at the budget, so every way into pending must have done so; and only
\* a claimed job has a token.
BudgetKept ==
  \A j \in Jobs : jobs[j] # Absent =>
    /\ jobs[j].state = "pending" => jobs[j].attempts < MaxAttempts
    /\ jobs[j].attempts <= MaxAttempts
    /\ (jobs[j].token # 0) <=> (jobs[j].state = "inflight")

\* The states that a job may go to from each; a record that was pruned may be
\* queued anew.
JobMoves ==
  {<<"pending", s>> : s \in {"inflight", "dead-letter", "completed"}}
    \cup {<<"inflight", s>> : s \in {"pending", "delivered", "dead-letter", "completed"}}
    \cup {<<"delivered", s>> : s \in {"dead-letter", "completed"}}
    \cup {<<"dead-letter", s>> : s \in {"pending", "completed"}}

\* docs/external-scan-delivery.md:140: a transition that stopped is completed
\* and never taken back; what was delivered is not handed out again unless it
\* is queued again, and what was completed stays so.
JobsMoveForward ==
  [][\A j \in Jobs :
       /\ jobs[j] # Absent /\ jobs'[j] # Absent /\ jobs[j].state # jobs'[j].state
       => <<jobs[j].state, jobs'[j].state>> \in JobMoves]_jobVars

\* run and recoverInflightLocked: a job does not hang in a claim, in a wait
\* for its attestation or between two directories.
JobsSettle ==
  \A j \in Jobs :
    jobs[j] # Absent ~>
      \/ jobs[j] = Absent
      \/ jobs[j].state \in {"completed", "dead-letter"} /\ jobs[j].dir = jobs[j].state
=============================================================================
