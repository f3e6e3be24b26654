------------------------------ MODULE ScanProofs ------------------------------
(***************************************************************************)
(* Proofs about ScanJobs, for every number of jobs, attempts and stops,    *)
(* and about ScanRelease, which puts custody, screening and attestations   *)
(* around it.                                                              *)
(***************************************************************************)
EXTENDS ScanRelease, FiniteSetTheorems, SequenceTheorems, TLAPS

-----------------------------------------------------------------------------
(* The inductive invariant.                                                 *)

\* Within its budget, and with a token exactly while it is claimed.
GoodRecord(r) ==
  /\ r \in Record
  /\ r.state = "pending" => r.attempts < MaxAttempts
  /\ r.attempts <= MaxAttempts
  /\ (r.token # 0) <=> (r.state = "inflight")

GoodFiles(f) ==
  /\ f \in [Jobs -> Record \cup {Absent}]
  /\ \A j \in Jobs : f[j] # Absent => GoodRecord(f[j])

Inv ==
  /\ JobsTypeOK
  /\ \A j \in Jobs : IsFiniteSet(held[j])
  /\ GoodFiles(jobs)

\* One transition of a job, or the recovery in front of it and the transition.
Onward(r, s) == s.state = r.state \/ <<r.state, s.state>> \in JobMoves

\* What recovery may do to the state of a job.
Recovery(r, s) ==
  s.state = r.state \/ (r.state = "inflight" /\ s.state \in {"pending", "dead-letter"})

LEMMA RecoveryThenMove ==
  ASSUME NEW q, NEW r, NEW s, Recovery(q, r), Onward(r, s)
  PROVE  Onward(q, s)
BY DEF Recovery, Onward, JobMoves

-----------------------------------------------------------------------------
(* Records.                                                                 *)

LEMMA RecordFields ==
  ASSUME NEW r \in Record, NEW state \in States
  PROVE  /\ Left(r, state) \in Record /\ Left(r, state).state = state
         /\ Left(r, state).dir = r.dir
         /\ Left(r, state).attempts = r.attempts /\ Left(r, state).token = 0
         /\ Left(r, state).expired = r.expired
BY DEF Left, Record

LEMMA LeftGood ==
  ASSUME NEW r, GoodRecord(r), NEW state \in States \ {"inflight"},
         state = "pending" => r.attempts < MaxAttempts
  PROVE  GoodRecord(Left(r, state)) /\ Left(r, state).state = state
<1>1. r \in Record /\ state \in States
  BY DEF GoodRecord
<1>2. QED BY <1>1, RecordFields DEF GoodRecord

LEMMA MovedGood ==
  ASSUME NEW r, GoodRecord(r)
  PROVE  /\ GoodRecord(Moved(r)) /\ Moved(r).state = r.state /\ Moved(r).dir = r.state
         /\ Moved(r).expired = r.expired
<1>1. r \in Record /\ r.state \in States
  BY DEF GoodRecord, Record
<1>2. /\ Moved(r) \in Record /\ Moved(r).state = r.state /\ Moved(r).dir = r.state
      /\ Moved(r).attempts = r.attempts /\ Moved(r).token = r.token
      /\ Moved(r).expired = r.expired
  BY <1>1 DEF Moved, Record
<1>3. QED BY <1>2 DEF GoodRecord

LEMMA ClaimedGood ==
  ASSUME NEW r, GoodRecord(r), r.state = "pending", NEW t \in Nat \ {0}
  PROVE  GoodRecord(Claimed(r, t)) /\ Claimed(r, t).state = "inflight"
<1>1. r \in Record /\ r.attempts \in Nat /\ r.attempts < MaxAttempts /\ MaxAttempts \in Nat
  BY JobsAssumption DEF GoodRecord, Record
<1>2. Claimed(r, t) \in Record
  <2>1. "inflight" \in States /\ r.attempts + 1 \in Nat /\ t \in Nat
    BY <1>1 DEF States
  <2>2. QED BY <1>1, <2>1 DEF Claimed, Record
<1>3. /\ Claimed(r, t).state = "inflight" /\ Claimed(r, t).attempts = r.attempts + 1
      /\ Claimed(r, t).token = t
  BY <1>1 DEF Claimed, Record
<1>4. QED BY <1>1, <1>2, <1>3 DEF GoodRecord

LEMMA NewGood ==
  ASSUME NEW dir \in States
  PROVE  LET r == [NewRecord EXCEPT !.dir = dir]
         IN  GoodRecord(r) /\ r.state = "pending" /\ GoodRecord(NewRecord)
<1>1. NewRecord \in Record
  BY DEF NewRecord, Record, States
<1>2. /\ NewRecord.state = "pending" /\ NewRecord.attempts = 0 /\ NewRecord.token = 0
  BY DEF NewRecord
<1> DEFINE r == [NewRecord EXCEPT !.dir = dir]
<1>3. r \in Record
  BY <1>1 DEF Record
<1>4. r.state = "pending" /\ r.attempts = 0 /\ r.token = 0
  BY <1>1, <1>2 DEF Record
<1> HIDE DEF r
<1>5. GoodRecord(r) /\ GoodRecord(NewRecord)
  BY <1>1, <1>2, <1>3, <1>4, JobsAssumption DEF GoodRecord
<1>6. QED BY <1>4, <1>5 DEF r

\* A lapsed claim goes back only if there is an attempt left.
LEMMA LapsedGood ==
  ASSUME NEW r, GoodRecord(r)
  PROVE  /\ GoodRecord(AfterLapse(r))
         /\ AfterLapse(r).state \in {"pending", "dead-letter"}
<1> DEFINE state == IF r.attempts < MaxAttempts /\ ~r.expired THEN "pending" ELSE "dead-letter"
<1>1. state \in States \ {"inflight"} /\ (state = "pending" => r.attempts < MaxAttempts)
  BY DEF States
<1>2. state \in {"pending", "dead-letter"} /\ AfterLapse(r) = Left(r, state)
  BY DEF AfterLapse
<1> HIDE DEF state
<1>3. QED BY <1>1, <1>2, LeftGood

\* A token that was never given exists.
LEMMA TokenExists ==
  ASSUME NEW f, NEW j \in Jobs, IsFiniteSet(held[j])
  PROVE  FreshToken(f, j) \in Nat \ {0}
<1> DEFINE n == Cardinality(held[j])
           taken == held[j] \cup {f[j].token}
<1>1. n \in Nat
  BY FS_CardinalityType
<1>2. IsFiniteSet(taken) /\ Cardinality(taken) <= n + 1
  <2>1. IsFiniteSet(taken) /\ (Cardinality(taken) = n \/ Cardinality(taken) = n + 1)
    BY FS_AddElement
  <2> HIDE DEF taken, n
  <2>2. QED BY <1>1, <2>1
<1>3. IsFiniteSet(1..(n + 2)) /\ Cardinality(1..(n + 2)) = n + 2
  BY <1>1, FS_Interval
<1>4. \E t \in 1..(n + 2) : t \notin taken
  <2> SUFFICES ASSUME 1..(n + 2) \in SUBSET taken PROVE FALSE
    OBVIOUS
  <2>1. Cardinality(1..(n + 2)) <= Cardinality(taken)
    BY <1>2, FS_Subset
  <2>2. Cardinality(taken) \in Nat
    BY <1>2, FS_CardinalityType
  <2> HIDE DEF n, taken
  <2>3. QED BY <1>1, <1>2, <1>3, <2>1, <2>2
<1>5. \E t \in 1..(n + 2) : t \notin held[j] /\ (f[j] # Absent => t # f[j].token)
  BY <1>4
<1>6. FreshToken(f, j) \in 1..(n + 2)
  BY <1>5 DEF FreshToken
<1> HIDE DEF n
<1>7. QED BY <1>1, <1>6

-----------------------------------------------------------------------------
(* Files: what comes in front of every operation.                          *)

\* After reconciliation the files of the directories that were looked into
\* are where their records say.
LEMMA ReconciledGood ==
  ASSUME NEW f, GoodFiles(f), NEW dirs
  PROVE  /\ GoodFiles(Reconciled(f, dirs))
         /\ \A j \in Jobs :
              /\ Reconciled(f, dirs)[j] = Absent <=> f[j] = Absent
              /\ f[j] # Absent => Reconciled(f, dirs)[j].state = f[j].state
         /\ \A dir \in dirs : \A j \in In(Reconciled(f, dirs), dir) :
              Reconciled(f, dirs)[j].state = dir
<1> DEFINE g == Reconciled(f, dirs)
<1>1. g = [j \in Jobs |-> IF f[j] # Absent /\ f[j].dir \in dirs THEN Moved(f[j]) ELSE f[j]]
  BY DEF Reconciled, Moved
<1> HIDE DEF g
<1>2. ASSUME NEW j \in Jobs, f[j] # Absent
      PROVE  /\ GoodRecord(g[j]) /\ g[j] # Absent /\ g[j].state = f[j].state
             /\ g[j].dir \in dirs => g[j].state = g[j].dir \/ g[j].dir = f[j].dir
             /\ f[j].dir \in dirs => g[j].state = g[j].dir
             /\ f[j].dir \notin dirs => g[j] = f[j]
  <2>1. GoodRecord(f[j])
    BY <1>2 DEF GoodFiles
  <2>2. /\ GoodRecord(Moved(f[j])) /\ Moved(f[j]).state = f[j].state
        /\ Moved(f[j]).dir = f[j].state
    BY <2>1, MovedGood
  <2>3. g[j] = IF f[j].dir \in dirs THEN Moved(f[j]) ELSE f[j]
    BY <1>1, <1>2
  <2>4. Moved(f[j]) # Absent
    BY <2>2, AbsentAssumption DEF GoodRecord
  <2>5. QED BY <1>2, <2>1, <2>2, <2>3, <2>4
<1>3. \A j \in Jobs : f[j] = Absent => g[j] = Absent
  BY <1>1
<1>4. GoodFiles(g)
  <2>1. \A j \in Jobs : g[j] \in Record \cup {Absent}
    BY <1>2, <1>3 DEF GoodRecord
  <2>2. DOMAIN g = Jobs /\ g = [j \in Jobs |-> g[j]]
    BY <1>1
  <2>3. QED BY <1>2, <1>3, <2>1, <2>2 DEF GoodFiles
<1>5. ASSUME NEW dir \in dirs, NEW j \in In(g, dir)
      PROVE  g[j].state = dir
  BY <1>2, <1>3, <1>5 DEF In
<1>6. QED BY <1>2, <1>3, <1>4, <1>5 DEF g

\* Recovery ends the lapsed claims.
LEMMA RecoveredGood ==
  ASSUME NEW f, GoodFiles(f), \A j \in In(f, "inflight") : f[j].state = "inflight",
         \A j \in In(f, "pending") : f[j].state = "pending"
  PROVE  /\ GoodFiles(Recovered(f))
         /\ \A j \in Jobs :
              /\ Recovered(f)[j] = Absent <=> f[j] = Absent
              /\ f[j] # Absent => Recovery(f[j], Recovered(f)[j])
         /\ \A j \in In(Recovered(f), "pending") : Recovered(f)[j].state = "pending"
         /\ \A j \in In(Recovered(f), "dead-letter") :
              j \in In(f, "dead-letter") \/ f[j].state = "inflight"
<1> DEFINE g == Recovered(f)
<1>1. ASSUME NEW j \in LapsedClaims(f)
      PROVE  /\ j \in Jobs /\ f[j] # Absent /\ f[j].state = "inflight"
             /\ GoodRecord(g[j]) /\ g[j] # Absent
             /\ g[j].state \in {"pending", "dead-letter"} /\ g[j].dir = g[j].state
  <2>1. j \in Jobs /\ f[j] # Absent /\ f[j].state = "inflight" /\ GoodRecord(f[j])
    BY DEF LapsedClaims, In, GoodFiles
  <2>2. GoodRecord(AfterLapse(f[j])) /\ AfterLapse(f[j]).state \in {"pending", "dead-letter"}
    BY <2>1, LapsedGood
  <2>3. g[j] = Moved(AfterLapse(f[j]))
    BY <2>1 DEF Recovered
  <2> HIDE DEF g
  <2>4. /\ GoodRecord(g[j]) /\ g[j].state \in {"pending", "dead-letter"}
        /\ g[j].dir = g[j].state
    BY <2>2, <2>3, MovedGood
  <2>5. QED BY <2>1, <2>4, AbsentAssumption DEF GoodRecord
<1>2. \A j \in Jobs \ LapsedClaims(f) : g[j] = f[j]
  BY DEF Recovered
<1>3. g = [j \in Jobs |-> g[j]]
  BY DEF Recovered
<1> HIDE DEF g
<1>4. \A j \in Jobs : g[j] # Absent => GoodRecord(g[j])
  BY <1>1, <1>2 DEF GoodFiles
<1>5. GoodFiles(g)
  BY <1>3, <1>4 DEF GoodFiles, GoodRecord
<1>6. \A j \in Jobs :
        /\ g[j] = Absent <=> f[j] = Absent
        /\ f[j] # Absent => Recovery(f[j], g[j])
  <2> TAKE j \in Jobs
  <2>1. CASE j \in LapsedClaims(f)
    BY <1>1, <2>1 DEF Recovery
  <2>2. CASE j \notin LapsedClaims(f)
    BY <1>2, <2>2 DEF Recovery
  <2>3. QED BY <2>1, <2>2
<1>7. \A j \in In(g, "pending") : g[j].state = "pending"
  BY <1>1, <1>2 DEF In
<1>8. \A j \in In(g, "dead-letter") : j \in In(f, "dead-letter") \/ f[j].state = "inflight"
  BY <1>1, <1>2 DEF In
<1>9. QED BY <1>5, <1>6, <1>7, <1>8 DEF g

\* Files that are gone do not matter.
Fewer(f, g) ==
  /\ g = [j \in Jobs |-> g[j]]
  /\ \A j \in Jobs : g[j] = f[j] \/ g[j] = Absent

LEMMA PrunedFewer ==
  ASSUME NEW f, NEW dir, NEW limit, NEW g \in Pruned(f, dir, limit)
  PROVE  Fewer(f, g) /\ \A j \in Jobs : g[j] = f[j] \/ j \in In(f, dir)
BY DEF Pruned, Without, Fewer, kSubset

LEMMA FewerGood ==
  ASSUME NEW f, GoodFiles(f), NEW g, Fewer(f, g)
  PROVE  GoodFiles(g)
<1>1. \A j \in Jobs : g[j] \in Record \cup {Absent} /\ (g[j] # Absent => GoodRecord(g[j]))
  BY DEF GoodFiles, Fewer
<1>2. QED BY <1>1 DEF GoodFiles, Fewer

\* What every operation finds.
LEMMA PreparedGood ==
  ASSUME Inv, NEW dirs, {"pending", "inflight"} \subseteq dirs, NEW f \in Prepared(dirs)
  PROVE  /\ GoodFiles(f)
         /\ \A j \in Jobs : f[j] # Absent => jobs[j] # Absent /\ Recovery(jobs[j], f[j])
         /\ \A j \in In(f, "pending") : f[j].state = "pending"
         /\ "dead-letter" \in dirs =>
              \A j \in Jobs : jobs[j] # Absent /\ f[j] = Absent =>
                                jobs[j].state \in {"dead-letter", "inflight"}
<1> DEFINE g == Reconciled(jobs, dirs)
           h == Recovered(g)
<1>1. /\ GoodFiles(g)
      /\ \A j \in Jobs : /\ g[j] = Absent <=> jobs[j] = Absent
                         /\ jobs[j] # Absent => g[j].state = jobs[j].state
      /\ \A j \in In(g, "inflight") : g[j].state = "inflight"
      /\ \A j \in In(g, "pending") : g[j].state = "pending"
      /\ "dead-letter" \in dirs => \A j \in In(g, "dead-letter") : g[j].state = "dead-letter"
  BY ReconciledGood DEF Inv
<1> HIDE DEF g
<1>2. /\ GoodFiles(h)
      /\ \A j \in Jobs : /\ h[j] = Absent <=> g[j] = Absent
                         /\ g[j] # Absent => Recovery(g[j], h[j])
      /\ \A j \in In(h, "pending") : h[j].state = "pending"
      /\ \A j \in In(h, "dead-letter") : j \in In(g, "dead-letter") \/ g[j].state = "inflight"
  BY <1>1, RecoveredGood
<1>3. Fewer(h, f) /\ \A j \in Jobs : f[j] = h[j] \/ j \in In(h, "dead-letter")
  <2>1. f = h \/ f \in Pruned(h, "dead-letter", DeadRetention)
    BY DEF Prepared, g
  <2>2. h = [j \in Jobs |-> h[j]]
    BY DEF Recovered
  <2> HIDE DEF h
  <2>3. QED BY <2>1, <2>2, PrunedFewer DEF Fewer
<1> HIDE DEF h
<1>4. GoodFiles(f)
  BY <1>2, <1>3, FewerGood
<1>5. \A j \in Jobs : f[j] # Absent => jobs[j] # Absent /\ Recovery(jobs[j], f[j])
  BY <1>1, <1>2, <1>3 DEF Fewer, Recovery
<1>6. \A j \in In(f, "pending") : f[j].state = "pending"
  BY <1>2, <1>3 DEF Fewer, In
<1>7. ASSUME "dead-letter" \in dirs, NEW j \in Jobs, jobs[j] # Absent, f[j] = Absent
      PROVE  jobs[j].state \in {"dead-letter", "inflight"}
  <2>1. g[j] # Absent /\ h[j] # Absent /\ g[j].state = jobs[j].state
    BY <1>1, <1>2, <1>7
  <2>2. j \in In(g, "dead-letter") \/ g[j].state = "inflight"
    BY <1>2, <1>3, <1>7, <2>1
  <2>3. QED BY <1>1, <1>7, <2>1, <2>2
<1>8. QED BY <1>4, <1>5, <1>6, <1>7

-----------------------------------------------------------------------------
(* Operations: the files are good, and every job went onward.              *)

Progress(g) ==
  /\ GoodFiles(g)
  /\ \A j \in Jobs : jobs[j] # Absent /\ g[j] # Absent => Onward(jobs[j], g[j])

\* Every file that is left is one of those prepared, or moved on from it.
LEMMA FilesProgress ==
  ASSUME Inv, NEW f, GoodFiles(f),
         \A j \in Jobs : f[j] # Absent => jobs[j] # Absent /\ Recovery(jobs[j], f[j]),
         NEW g, g = [j \in Jobs |-> g[j]],
         \A j \in Jobs :
           \/ g[j] = Absent \/ g[j] = f[j]
           \/ f[j] # Absent /\ GoodRecord(g[j]) /\ Onward(f[j], g[j])
           \/ GoodRecord(g[j]) /\ (jobs[j] # Absent => Onward(jobs[j], g[j]))
  PROVE  Progress(g)
<1>1. ASSUME NEW j \in Jobs, g[j] # Absent
      PROVE  GoodRecord(g[j]) /\ (jobs[j] # Absent => Onward(jobs[j], g[j]))
  <2>1. CASE g[j] = f[j]
    <3>1. GoodRecord(f[j]) /\ Recovery(jobs[j], f[j])
      BY <1>1, <2>1 DEF GoodFiles
    <3>2. Onward(f[j], f[j])
      BY DEF Onward
    <3>3. QED BY <2>1, <3>1, <3>2, RecoveryThenMove
  <2>2. CASE f[j] # Absent /\ GoodRecord(g[j]) /\ Onward(f[j], g[j])
    BY <2>2, RecoveryThenMove
  <2>3. CASE GoodRecord(g[j]) /\ (jobs[j] # Absent => Onward(jobs[j], g[j]))
    BY <2>3
  <2>4. QED BY <1>1, <2>1, <2>2, <2>3
<1>2. \A j \in Jobs : g[j] \in Record \cup {Absent}
  BY <1>1 DEF GoodRecord
<1>3. GoodFiles(g)
  BY <1>1, <1>2 DEF GoodFiles
<1>4. QED BY <1>1, <1>3 DEF Progress

\* writeAndMove of a job that was found, whether it stops or not.
LEMMA MoveProgress ==
  ASSUME Inv, NEW dirs, {"pending", "inflight"} \subseteq dirs, NEW f \in Prepared(dirs),
         NEW i \in Jobs, f[i] # Absent, NEW r, GoodRecord(r), Onward(f[i], r),
         NEW limit, Move(f, i, r, limit)
  PROVE  Progress(jobs')
<1>1. /\ GoodFiles(f)
      /\ \A j \in Jobs : f[j] # Absent => jobs[j] # Absent /\ Recovery(jobs[j], f[j])
  BY PreparedGood
<1>2. GoodRecord(Moved(r)) /\ Onward(f[i], Moved(r))
  BY MovedGood DEF Onward
<1>3. DOMAIN f = Jobs
  BY <1>1 DEF GoodFiles
<1>4. PICK s : (s = r \/ s = Moved(r)) /\ Fewer([f EXCEPT ![i] = s], jobs')
  <2>1. CASE Transition(f, i, r, limit)
    BY <2>1, PrunedFewer DEF Transition
  <2>2. CASE Interrupted(f, i, r)
    BY <1>3, <2>2 DEF Interrupted, Fewer
  <2>3. QED BY <2>1, <2>2 DEF Move
<1>5. \A j \in Jobs : \/ jobs'[j] = Absent \/ jobs'[j] = f[j]
                      \/ f[j] # Absent /\ GoodRecord(jobs'[j]) /\ Onward(f[j], jobs'[j])
  BY <1>2, <1>3, <1>4 DEF Fewer
<1>6. jobs' = [j \in Jobs |-> jobs'[j]]
  BY <1>4 DEF Fewer
<1>7. QED BY <1>1, <1>5, <1>6, FilesProgress

\* An operation that only prepared.
LEMMA PreparedProgress ==
  ASSUME Inv, NEW dirs, {"pending", "inflight"} \subseteq dirs, jobs' \in Prepared(dirs)
  PROVE  Progress(jobs')
<1>1. /\ GoodFiles(jobs')
      /\ \A j \in Jobs : jobs'[j] # Absent => jobs[j] # Absent /\ Recovery(jobs[j], jobs'[j])
  BY PreparedGood
<1>2. jobs' = [j \in Jobs |-> jobs'[j]]
  BY <1>1 DEF GoodFiles
<1>3. QED BY <1>1, <1>2, FilesProgress

LEMMA QueueProgress ==
  ASSUME Inv, NEW i \in Jobs, QueueJob(i)
  PROVE  Progress(jobs')
<1>1. {"pending", "inflight"} \subseteq QueueDirs /\ "dead-letter" \in QueueDirs
  BY DEF QueueDirs
<1>2. PICK f \in Prepared(QueueDirs) :
        \/ f[i] = Absent /\ jobs' = [f EXCEPT ![i] = NewRecord]
        \/ /\ f[i] # Absent /\ f[i].state = "dead-letter"
           /\ Move(f, i, [NewRecord EXCEPT !.dir = f[i].dir], MaxJob)
        \/ jobs' = f
  BY DEF QueueJob
<1>3. /\ GoodFiles(f)
      /\ \A j \in Jobs : f[j] # Absent => jobs[j] # Absent /\ Recovery(jobs[j], f[j])
      /\ \A j \in Jobs : jobs[j] # Absent /\ f[j] = Absent =>
                           jobs[j].state \in {"dead-letter", "inflight"}
  BY <1>1, PreparedGood
<1>4. CASE f[i] = Absent /\ jobs' = [f EXCEPT ![i] = NewRecord]
  <2>1. GoodRecord(NewRecord) /\ NewRecord.state = "pending"
    BY NewGood DEF NewRecord, States
  <2>2. jobs[i] # Absent => Onward(jobs[i], NewRecord)
    BY <1>3, <1>4, <2>1 DEF Onward, JobMoves
  <2>3. DOMAIN f = Jobs
    BY <1>3 DEF GoodFiles
  <2>4. jobs' = [j \in Jobs |-> jobs'[j]] /\ jobs'[i] = NewRecord
        /\ \A j \in Jobs \ {i} : jobs'[j] = f[j]
    BY <1>4, <2>3
  <2>5. \A j \in Jobs : \/ jobs'[j] = f[j]
                        \/ GoodRecord(jobs'[j]) /\ (jobs[j] # Absent => Onward(jobs[j], jobs'[j]))
    BY <2>1, <2>2, <2>4
  <2>6. QED BY <1>3, <2>4, <2>5, FilesProgress
<1>5. CASE /\ f[i] # Absent /\ f[i].state = "dead-letter"
           /\ Move(f, i, [NewRecord EXCEPT !.dir = f[i].dir], MaxJob)
  <2> DEFINE new == [NewRecord EXCEPT !.dir = f[i].dir]
  <2>1. f[i].dir \in States
    BY <1>3, <1>5 DEF GoodFiles, GoodRecord, Record
  <2>2. GoodRecord(new) /\ new.state = "pending"
    BY <2>1, NewGood
  <2> HIDE DEF new
  <2>3. Onward(f[i], new)
    BY <1>5, <2>2 DEF Onward, JobMoves
  <2>4. Move(f, i, new, MaxJob)
    BY <1>5 DEF new
  <2>5. QED BY <1>1, <1>5, <2>2, <2>3, <2>4, MoveProgress
<1>6. CASE jobs' = f
  BY <1>1, <1>6, PreparedProgress
<1>7. QED BY <1>2, <1>4, <1>5, <1>6

\* claimSigned, up to any of the jobs it comes by.
LEMMA ClaimsGood ==
  ASSUME Inv, NEW f \in Prepared(ClaimDirs), NEW j \in In(f, "pending")
  PROVE  /\ f[j] # Absent
         /\ GoodRecord(OnClaim(f, j)) /\ Onward(f[j], OnClaim(f, j))
         /\ GoodRecord(Moved(OnClaim(f, j))) /\ Onward(f[j], Moved(OnClaim(f, j)))
         /\ OnClaim(f, j).state # "completed" /\ Moved(OnClaim(f, j)).state # "completed"
<1>1. {"pending", "inflight"} \subseteq ClaimDirs
  BY DEF ClaimDirs
<1>2. j \in Jobs /\ f[j] # Absent /\ f[j].state = "pending" /\ GoodRecord(f[j])
  BY <1>1, PreparedGood DEF In, GoodFiles
<1>3. FreshToken(f, j) \in Nat \ {0}
  BY <1>2, TokenExists DEF Inv
<1>4. /\ GoodRecord(Claimed(f[j], FreshToken(f, j)))
      /\ Claimed(f[j], FreshToken(f, j)).state = "inflight"
  BY <1>2, <1>3, ClaimedGood
<1>5. GoodRecord(Left(f[j], "dead-letter")) /\ Left(f[j], "dead-letter").state = "dead-letter"
  BY <1>2, LeftGood DEF States
<1>6. GoodRecord(OnClaim(f, j)) /\ OnClaim(f, j).state \in {"inflight", "dead-letter"}
  BY <1>4, <1>5 DEF OnClaim
<1>7. GoodRecord(Moved(OnClaim(f, j))) /\ Moved(OnClaim(f, j)).state = OnClaim(f, j).state
  BY <1>6, MovedGood
<1>8. QED BY <1>2, <1>6, <1>7 DEF Onward, JobMoves

LEMMA ClaimProgress ==
  ASSUME Inv, NEW limit, Claim(limit) \/ ClaimStopped(limit)
  PROVE  Progress(jobs')
<1>1. PICK f \in Prepared(ClaimDirs) :
        \/ \E retention :
             jobs' \in Pruned(AfterClaims(f, Visited(f, limit)), "dead-letter", retention)
        \/ \E last \in Visited(f, limit) :
             Interrupted(AfterClaims(f, {j \in Visited(f, limit) : j < last}), last,
                         OnClaim(f, last))
  BY DEF Claim, ClaimStopped
<1>2. /\ GoodFiles(f)
      /\ \A j \in Jobs : f[j] # Absent => jobs[j] # Absent /\ Recovery(jobs[j], f[j])
  BY PreparedGood DEF ClaimDirs
<1>3. \A visited \in SUBSET Visited(f, limit) : \A j \in Jobs :
        LET g == AfterClaims(f, visited)
        IN  \/ g[j] = f[j]
            \/ f[j] # Absent /\ GoodRecord(g[j]) /\ Onward(f[j], g[j])
  <2> TAKE visited \in SUBSET Visited(f, limit)
  <2> TAKE j \in Jobs
  <2>1. CASE j \in visited
    <3>1. j \in In(f, "pending")
      BY <2>1 DEF Visited
    <3>2. AfterClaims(f, visited)[j] = Moved(OnClaim(f, j))
      BY <2>1 DEF AfterClaims
    <3>3. QED BY <3>1, <3>2, ClaimsGood
  <2>2. CASE j \notin visited
    BY <2>2 DEF AfterClaims
  <2>3. QED BY <2>1, <2>2
<1>4. CASE \E retention :
             jobs' \in Pruned(AfterClaims(f, Visited(f, limit)), "dead-letter", retention)
  <2>1. Fewer(AfterClaims(f, Visited(f, limit)), jobs')
    BY <1>4, PrunedFewer
  <2>2. jobs' = [j \in Jobs |-> jobs'[j]]
    BY <2>1 DEF Fewer
  <2>3. \A j \in Jobs : \/ jobs'[j] = Absent \/ jobs'[j] = f[j]
                        \/ f[j] # Absent /\ GoodRecord(jobs'[j]) /\ Onward(f[j], jobs'[j])
    BY <1>3, <2>1 DEF Fewer
  <2>4. QED BY <1>2, <2>2, <2>3, FilesProgress
<1>5. CASE \E last \in Visited(f, limit) :
             Interrupted(AfterClaims(f, {j \in Visited(f, limit) : j < last}), last,
                         OnClaim(f, last))
  <2>1. PICK last \in Visited(f, limit) :
          jobs' = [AfterClaims(f, {j \in Visited(f, limit) : j < last})
                     EXCEPT ![last] = OnClaim(f, last)]
    BY <1>5 DEF Interrupted
  <2> DEFINE visited == {j \in Visited(f, limit) : j < last}
             g == AfterClaims(f, visited)
  <2>2. \A j \in Jobs : \/ g[j] = f[j]
                        \/ f[j] # Absent /\ GoodRecord(g[j]) /\ Onward(f[j], g[j])
    BY <1>3
  <2>3. last \in In(f, "pending") /\ last \in Jobs
    BY DEF Visited, In
  <2>4. DOMAIN g = Jobs
    BY DEF AfterClaims
  <2> HIDE DEF g
  <2>5. jobs' = [j \in Jobs |-> jobs'[j]] /\ jobs'[last] = OnClaim(f, last)
        /\ \A j \in Jobs \ {last} : jobs'[j] = g[j]
    BY <2>1, <2>3, <2>4 DEF g
  <2>6. \A j \in Jobs : \/ jobs'[j] = Absent \/ jobs'[j] = f[j]
                        \/ f[j] # Absent /\ GoodRecord(jobs'[j]) /\ Onward(f[j], jobs'[j])
    BY <2>2, <2>3, <2>5, ClaimsGood
  <2>7. QED BY <1>2, <2>5, <2>6, FilesProgress
<1>6. QED BY <1>1, <1>4, <1>5

\* acknowledgeSigned and failSigned, from a claim that is owned.
LEMMA SettleProgress ==
  ASSUME Inv, NEW i \in Jobs, NEW t, Acknowledge(i, t) \/ Fail(i, t)
  PROVE  Progress(jobs')
<1>1. {"pending", "inflight"} \subseteq ClaimDirs
  BY DEF ClaimDirs
<1>2. CASE jobs' \in Prepared(ClaimDirs)
  BY <1>1, <1>2, PreparedProgress
<1>3. ASSUME NEW f \in Prepared(ClaimDirs), Owned(f, i, t), NEW state, NEW limit,
             state \in {"pending", "delivered", "dead-letter"},
             state = "pending" => f[i].attempts < MaxAttempts,
             Move(f, i, Left(f[i], state), limit)
      PROVE  Progress(jobs')
  <2>1. f[i] # Absent /\ f[i].state = "inflight" /\ GoodRecord(f[i])
    BY <1>1, <1>3, PreparedGood DEF Owned, GoodFiles
  <2>2. GoodRecord(Left(f[i], state)) /\ Left(f[i], state).state = state
    BY <1>3, <2>1, LeftGood DEF States
  <2>3. Onward(f[i], Left(f[i], state))
    BY <1>3, <2>1, <2>2 DEF Onward, JobMoves
  <2>4. QED BY <1>1, <1>3, <2>1, <2>2, <2>3, MoveProgress
<1>4. CASE Acknowledge(i, t)
  BY <1>2, <1>3, <1>4 DEF Acknowledge
<1>5. CASE Fail(i, t)
  <2>1. PICK f \in Prepared(ClaimDirs), retryable \in BOOLEAN :
          \/ Owned(f, i, t) /\ Move(f, i, AfterFailure(f[i], retryable), DeadRetention)
          \/ jobs' = f
    BY <1>5 DEF Fail
  <2>2. CASE jobs' = f
    BY <1>2, <2>2
  <2>3. CASE Owned(f, i, t) /\ Move(f, i, AfterFailure(f[i], retryable), DeadRetention)
    <3> DEFINE state == IF retryable /\ f[i].attempts < MaxAttempts
                        THEN "pending" ELSE "dead-letter"
    <3>1. /\ state \in {"pending", "delivered", "dead-letter"}
          /\ state = "pending" => f[i].attempts < MaxAttempts
          /\ AfterFailure(f[i], retryable) = Left(f[i], state)
      BY DEF AfterFailure
    <3> HIDE DEF state
    <3>2. QED BY <1>3, <2>3, <3>1
  <2>4. QED BY <2>1, <2>2, <2>3
<1>6. QED BY <1>4, <1>5

LEMMA CompleteProgress ==
  ASSUME Inv, NEW i \in Jobs, Complete(i)
  PROVE  Progress(jobs')
<1>1. {"pending", "inflight"} \subseteq QueueDirs
  BY DEF QueueDirs
<1>2. PICK f \in Prepared(QueueDirs) :
        \/ /\ f[i] # Absent /\ f[i].state # "completed"
           /\ Move(f, i, Left(f[i], "completed"), CompletedRetention)
        \/ jobs' = f
  BY DEF Complete
<1>3. CASE jobs' = f
  BY <1>1, <1>3, PreparedProgress
<1>4. CASE /\ f[i] # Absent /\ f[i].state # "completed"
           /\ Move(f, i, Left(f[i], "completed"), CompletedRetention)
  <2>1. GoodRecord(f[i]) /\ f[i].state \in States
    BY <1>1, <1>4, PreparedGood DEF GoodFiles, GoodRecord, Record
  <2>2. GoodRecord(Left(f[i], "completed")) /\ Left(f[i], "completed").state = "completed"
    BY <2>1, LeftGood DEF States
  <2>3. Onward(f[i], Left(f[i], "completed"))
    BY <1>4, <2>1, <2>2 DEF Onward, JobMoves, States
  <2>4. QED BY <1>1, <1>4, <2>2, <2>3, MoveProgress
<1>5. QED BY <1>2, <1>3, <1>4

\* The janitor.
LEMMA MaintainProgress ==
  ASSUME Inv, Maintain \/ MaintainStopped
  PROVE  Progress(jobs')
<1> DEFINE f == Reconciled(jobs, States)
<1>1. /\ GoodFiles(f)
      /\ \A j \in Jobs : f[j] # Absent => jobs[j] # Absent /\ f[j].state = jobs[j].state
      /\ \A j \in In(f, "pending") : f[j].state = "pending"
      /\ \A j \in In(f, "delivered") : f[j].state = "delivered"
  BY ReconciledGood DEF Inv, States
<1>2. Maintain \/ MaintainStopped =>
        \/ jobs' = PrunedByName(Buried(f))
        \/ \E j \in DueForJanitor(f) : jobs' = [f EXCEPT ![j] = Left(f[j], "dead-letter")]
  BY DEF Maintain, MaintainStopped, Interrupted
<1> HIDE DEF f
<1>3. \A j \in Jobs : f[j] # Absent => Recovery(jobs[j], f[j])
  BY <1>1 DEF Recovery
<1>4. ASSUME NEW j \in DueForJanitor(f)
      PROVE  /\ j \in Jobs /\ f[j] # Absent
             /\ \A r \in {Left(f[j], "dead-letter"), Moved(Left(f[j], "dead-letter"))} :
                  GoodRecord(r) /\ Onward(f[j], r)
  <2>1. /\ j \in Jobs /\ f[j] # Absent /\ f[j].state \in {"pending", "delivered"}
        /\ GoodRecord(f[j])
    BY <1>1 DEF DueForJanitor, In, GoodFiles
  <2>2. GoodRecord(Left(f[j], "dead-letter")) /\ Left(f[j], "dead-letter").state = "dead-letter"
    BY <2>1, LeftGood DEF States
  <2>3. /\ GoodRecord(Moved(Left(f[j], "dead-letter")))
        /\ Moved(Left(f[j], "dead-letter")).state = "dead-letter"
    BY <2>2, MovedGood
  <2>4. QED BY <2>1, <2>2, <2>3 DEF Onward, JobMoves
<1>5. DOMAIN f = Jobs
  BY <1>1 DEF GoodFiles
<1>6. CASE jobs' = PrunedByName(Buried(f))
  <2>1. jobs' = [j \in Jobs |-> jobs'[j]]
    BY <1>6 DEF PrunedByName, Without
  <2>2. \A j \in Jobs : jobs'[j] = Absent \/ jobs'[j] = Buried(f)[j]
    BY <1>6 DEF PrunedByName, Without
  <2>3. \A j \in Jobs :
          Buried(f)[j] = f[j] \/ (j \in DueForJanitor(f)
                                  /\ Buried(f)[j] = Moved(Left(f[j], "dead-letter")))
    BY DEF Buried
  <2>4. \A j \in Jobs : \/ jobs'[j] = Absent \/ jobs'[j] = f[j]
                        \/ f[j] # Absent /\ GoodRecord(jobs'[j]) /\ Onward(f[j], jobs'[j])
    BY <1>4, <2>2, <2>3
  <2>5. QED BY <1>1, <1>3, <2>1, <2>4, FilesProgress
<1>7. CASE \E j \in DueForJanitor(f) : jobs' = [f EXCEPT ![j] = Left(f[j], "dead-letter")]
  <2>1. PICK i \in DueForJanitor(f) : jobs' = [f EXCEPT ![i] = Left(f[i], "dead-letter")]
    BY <1>7
  <2>2. jobs' = [j \in Jobs |-> jobs'[j]]
    BY <1>5, <2>1
  <2>3. \A j \in Jobs : \/ jobs'[j] = f[j]
                        \/ f[j] # Absent /\ GoodRecord(jobs'[j]) /\ Onward(f[j], jobs'[j])
    BY <1>4, <1>5, <2>1
  <2>4. QED BY <1>1, <1>3, <2>2, <2>3, FilesProgress
<1>8. QED BY <1>2, <1>6, <1>7

\* Time passes.
LEMMA TimeProgress ==
  ASSUME Inv, NEW i \in Jobs, Expire(i) \/ Lapse(i)
  PROVE  Progress(jobs')
<1> DEFINE x == [jobs[i] EXCEPT !.expired = TRUE]
           y == [jobs[i] EXCEPT !.lapsed = TRUE]
<1>1. GoodFiles(jobs) /\ jobs[i] # Absent /\ GoodRecord(jobs[i]) /\ DOMAIN jobs = Jobs
  BY DEF Expire, Lapse, Inv, GoodFiles
<1>2. jobs' = [jobs EXCEPT ![i] = x] \/ jobs' = [jobs EXCEPT ![i] = y]
  BY DEF Expire, Lapse
<1>3. /\ x \in Record /\ x.state = jobs[i].state
      /\ x.attempts = jobs[i].attempts /\ x.token = jobs[i].token
  BY <1>1 DEF GoodRecord, Record
<1>4. /\ y \in Record /\ y.state = jobs[i].state
      /\ y.attempts = jobs[i].attempts /\ y.token = jobs[i].token
  BY <1>1 DEF GoodRecord, Record
<1> HIDE DEF x, y
<1>5. GoodRecord(x) /\ GoodRecord(y) /\ Onward(jobs[i], x) /\ Onward(jobs[i], y)
  BY <1>1, <1>3, <1>4 DEF GoodRecord, Onward
<1>6. jobs' = [j \in Jobs |-> jobs'[j]]
  BY <1>1, <1>2
<1>7. \A j \in Jobs : \/ jobs'[j] = jobs[j]
                      \/ jobs[j] # Absent /\ GoodRecord(jobs'[j]) /\ Onward(jobs[j], jobs'[j])
  BY <1>1, <1>2, <1>5
<1>8. \A j \in Jobs : jobs[j] # Absent => Recovery(jobs[j], jobs[j])
  BY DEF Recovery
<1>9. QED BY <1>1, <1>6, <1>7, <1>8, FilesProgress

LEMMA StepProgress == Inv /\ [JobsNext]_jobVars => Progress(jobs')
<1> SUFFICES ASSUME Inv, [JobsNext]_jobVars PROVE Progress(jobs')
  OBVIOUS
<1>1. CASE UNCHANGED jobVars
  BY <1>1 DEF jobVars, Inv, Progress, Onward
<1>2. ASSUME NEW i \in Jobs, QueueJob(i) PROVE Progress(jobs')
  BY <1>2, QueueProgress
<1>3. CASE Look \/ Restart
  <2>1. PICK dirs \in {QueueDirs \ {"dead-letter"}, States} : jobs' \in Prepared(dirs)
    BY <1>3 DEF Look, Restart
  <2>2. {"pending", "inflight"} \subseteq dirs
    BY DEF QueueDirs, States
  <2>3. QED BY <2>1, <2>2, PreparedProgress
<1>4. QED
  BY <1>1, <1>2, <1>3, ClaimProgress, SettleProgress, CompleteProgress, MaintainProgress,
     TimeProgress DEF JobsNext, DeliveryNext, Delivery

\* The rest of the types.
LEMMA CountsKept ==
  Inv /\ [JobsNext]_jobVars =>
    /\ held' \in [Jobs -> SUBSET (Nat \ {0})] /\ \A j \in Jobs : IsFiniteSet(held'[j])
    /\ queues' \in 0..MaxQueues /\ stops' \in 0..MaxStops
<1> SUFFICES ASSUME Inv, [JobsNext]_jobVars
             PROVE  /\ held' \in [Jobs -> SUBSET (Nat \ {0})]
                    /\ \A j \in Jobs : IsFiniteSet(held'[j])
                    /\ queues' \in 0..MaxQueues /\ stops' \in 0..MaxStops
  OBVIOUS
<1>1. /\ held \in [Jobs -> SUBSET (Nat \ {0})] /\ \A j \in Jobs : IsFiniteSet(held[j])
      /\ queues \in 0..MaxQueues /\ stops \in 0..MaxStops
  BY DEF Inv, JobsTypeOK
<1>2. /\ held' \in [Jobs -> SUBSET (Nat \ {0})] /\ \A j \in Jobs : IsFiniteSet(held'[j])
  <2>1. ASSUME NEW limit, Claim(limit)
        PROVE  /\ held' \in [Jobs -> SUBSET (Nat \ {0})]
               /\ \A j \in Jobs : IsFiniteSet(held'[j])
    <3>0. PICK f \in Prepared(ClaimDirs) :
            held' = [j \in Jobs |-> IF j \in Visited(f, limit) \cap Claimable(f)
                                     THEN held[j] \cup {FreshToken(f, j)} ELSE held[j]]
      BY <2>1, Zenon DEF Claim
    <3> DEFINE given == Visited(f, limit) \cap Claimable(f)
    <3>1. held' = [j \in Jobs |-> IF j \in given
                                   THEN held[j] \cup {FreshToken(f, j)} ELSE held[j]]
      BY <3>0
    <3> HIDE DEF given
    <3>2. ASSUME NEW j \in Jobs
          PROVE  held'[j] \in SUBSET (Nat \ {0}) /\ IsFiniteSet(held'[j])
      <4>1. held[j] \in SUBSET (Nat \ {0}) /\ IsFiniteSet(held[j])
        BY <1>1
      <4>2. CASE j \in given
        <5>1. held'[j] = held[j] \cup {FreshToken(f, j)}
          BY <3>1, <4>2, Zenon
        <5>2. FreshToken(f, j) \in Nat \ {0}
          BY <1>1, TokenExists
        <5>3. IsFiniteSet(held[j] \cup {FreshToken(f, j)})
          BY <4>1, FS_AddElement
        <5>4. QED BY <4>1, <5>1, <5>2, <5>3
      <4>3. CASE j \notin given
        <5>1. held'[j] = held[j]
          BY <3>1, <4>3, Zenon
        <5>2. QED BY <4>1, <5>1
      <4>4. QED BY <4>2, <4>3
    <3>3. QED BY <3>1, <3>2, Zenon
  <2>2. QED
    BY <1>1, <2>1 DEF JobsNext, DeliveryNext, Delivery, QueueJob, Complete, ClaimStopped,
       Acknowledge, Fail, Expire, Lapse, Maintain, MaintainStopped, Look, Restart, jobVars
<1>3. queues' = queues \/ (queues < MaxQueues /\ queues' = queues + 1)
  BY DEF JobsNext, DeliveryNext, Delivery, QueueJob, Complete, Claim, ClaimStopped,
     Acknowledge, Fail, Expire, Lapse, Maintain, MaintainStopped, Look, Restart, jobVars
<1>4. stops' = stops \/ (stops < MaxStops /\ stops' = stops + 1)
  BY DEF JobsNext, DeliveryNext, Delivery, QueueJob, Complete, Claim, ClaimStopped,
     Acknowledge, Fail, Expire, Lapse, Maintain, MaintainStopped, Look, Restart, jobVars,
     Move, Transition, Interrupted
<1>5. QED BY <1>1, <1>2, <1>3, <1>4, JobsAssumption

LEMMA InitInv == JobsInit => Inv
BY JobsAssumption, FS_EmptySet DEF JobsInit, Inv, JobsTypeOK, GoodFiles

LEMMA InvKept == Inv /\ [JobsNext]_jobVars => Inv'
BY StepProgress, CountsKept DEF Inv, JobsTypeOK, GoodFiles, Progress

-----------------------------------------------------------------------------
\* The inductive invariant.
THEOREM JobsInvariant == JobsSpec => []Inv
BY InitInv, InvKept, PTL DEF JobsSpec

\* recoverInflightLocked, failSigned and claimSigned: whatever lapsed, failed,
\* stopped or was queued again, no job is handed out more often than it may
\* be, and a token goes with a claim.
THEOREM BudgetsAreKept == JobsSpec => []BudgetKept
<1>1. Inv => BudgetKept
  BY DEF Inv, GoodFiles, GoodRecord, BudgetKept
<1>2. QED BY <1>1, JobsInvariant, PTL

\* docs/external-scan-delivery.md:140: no crash, late request or janitor takes
\* a transition back.
THEOREM JobsGoForward == JobsSpec => JobsMoveForward
<1>1. Inv /\ [JobsNext]_jobVars =>
        [\A j \in Jobs :
           /\ jobs[j] # Absent /\ jobs'[j] # Absent /\ jobs[j].state # jobs'[j].state
           => <<jobs[j].state, jobs'[j].state>> \in JobMoves]_jobVars
  BY StepProgress DEF Progress, Onward
<1>2. QED BY <1>1, JobsInvariant, PTL DEF JobsSpec, JobsMoveForward
-----------------------------------------------------------------------------
(* What completes a job: nothing but completeFromAttestation.               *)

\* No job but those of done was completed on the way to g.
NoneEnded(g, done) ==
  \A j \in Jobs \ done :
    g[j] # Absent /\ g[j].state = "completed" => jobs[j] # Absent /\ jobs[j].state = "completed"

LEMMA FilesNoneEnded ==
  ASSUME Inv, NEW dirs, {"pending", "inflight"} \subseteq dirs, NEW f \in Prepared(dirs),
         NEW g, NEW done,
         \A j \in Jobs \ done : \/ g[j] = Absent \/ g[j] = f[j]
                                \/ g[j].state # "completed"
  PROVE  NoneEnded(g, done)
BY PreparedGood DEF NoneEnded, Recovery

LEMMA MoveNoneEnded ==
  ASSUME Inv, NEW dirs, {"pending", "inflight"} \subseteq dirs, NEW f \in Prepared(dirs),
         NEW i \in Jobs, NEW r, GoodRecord(r), NEW limit, Move(f, i, r, limit), NEW done,
         r.state # "completed" \/ i \in done
  PROVE  NoneEnded(jobs', done)
<1>1. DOMAIN f = Jobs
  BY PreparedGood DEF GoodFiles
<1>2. Moved(r).state = r.state
  BY MovedGood
<1>3. PICK s : (s = r \/ s = Moved(r)) /\ Fewer([f EXCEPT ![i] = s], jobs')
  <2>1. CASE Transition(f, i, r, limit)
    BY <2>1, PrunedFewer DEF Transition
  <2>2. CASE Interrupted(f, i, r)
    BY <1>1, <2>2 DEF Interrupted, Fewer
  <2>3. QED BY <2>1, <2>2 DEF Move
<1>4. \A j \in Jobs \ done : \/ jobs'[j] = Absent \/ jobs'[j] = f[j]
                             \/ jobs'[j].state # "completed"
  BY <1>1, <1>2, <1>3 DEF Fewer
<1>5. QED BY <1>4, FilesNoneEnded

LEMMA ClaimNoneEnded ==
  ASSUME Inv, NEW limit, Claim(limit) \/ ClaimStopped(limit)
  PROVE  NoneEnded(jobs', {})
<1>1. PICK f \in Prepared(ClaimDirs) :
        \/ \E retention :
             jobs' \in Pruned(AfterClaims(f, Visited(f, limit)), "dead-letter", retention)
        \/ \E last \in Visited(f, limit) :
             jobs' = [AfterClaims(f, {j \in Visited(f, limit) : j < last})
                        EXCEPT ![last] = OnClaim(f, last)]
  BY DEF Claim, ClaimStopped, Interrupted
<1>2. ASSUME NEW visited \in SUBSET Visited(f, limit), NEW j \in Jobs
      PROVE  LET g == AfterClaims(f, visited)
             IN  g[j] = f[j] \/ g[j].state # "completed"
  <2>1. CASE j \in visited
    <3>1. j \in In(f, "pending") /\ AfterClaims(f, visited)[j] = Moved(OnClaim(f, j))
      BY <2>1 DEF Visited, AfterClaims
    <3>2. QED BY <3>1, ClaimsGood
  <2>2. CASE j \notin visited
    BY <2>2 DEF AfterClaims
  <2>3. QED BY <2>1, <2>2
<1>3. \A visited \in SUBSET Visited(f, limit) : DOMAIN AfterClaims(f, visited) = Jobs
  BY DEF AfterClaims
<1>4. \A j \in Jobs : \/ jobs'[j] = Absent \/ jobs'[j] = f[j] \/ jobs'[j].state # "completed"
  <2>1. CASE \E retention :
               jobs' \in Pruned(AfterClaims(f, Visited(f, limit)), "dead-letter", retention)
    BY <1>2, <2>1, PrunedFewer DEF Fewer
  <2>2. ASSUME NEW last \in Visited(f, limit),
               jobs' = [AfterClaims(f, {j \in Visited(f, limit) : j < last})
                          EXCEPT ![last] = OnClaim(f, last)]
        PROVE  \A j \in Jobs : \/ jobs'[j] = Absent \/ jobs'[j] = f[j]
                               \/ jobs'[j].state # "completed"
    <3> DEFINE visited == {j \in Visited(f, limit) : j < last}
               g == AfterClaims(f, visited)
    <3>1. visited \in SUBSET Visited(f, limit)
      OBVIOUS
    <3>2. OnClaim(f, last).state # "completed"
      BY ClaimsGood DEF Visited
    <3>3. DOMAIN g = Jobs /\ \A j \in Jobs : g[j] = f[j] \/ g[j].state # "completed"
      BY <1>2, <1>3, <3>1
    <3> HIDE DEF g
    <3>4. jobs' = [g EXCEPT ![last] = OnClaim(f, last)]
      BY <2>2 DEF g
    <3>5. QED BY <3>2, <3>3, <3>4
  <2>3. QED BY <1>1, <2>1, <2>2
<1>5. QED BY <1>4, FilesNoneEnded DEF ClaimDirs

\* The steps that queueing and attesting are not part of complete no job.
LEMMA DeliveryNoneEnded ==
  ASSUME Inv, DeliveryNext
  PROVE  NoneEnded(jobs', {})
<1>1. /\ {"pending", "inflight"} \subseteq ClaimDirs
      /\ {"pending", "inflight"} \subseteq QueueDirs \ {"dead-letter"}
      /\ {"pending", "inflight"} \subseteq States
  BY DEF ClaimDirs, QueueDirs, States
<1>2. ASSUME NEW dirs, {"pending", "inflight"} \subseteq dirs, jobs' \in Prepared(dirs)
      PROVE  NoneEnded(jobs', {})
  BY <1>2, FilesNoneEnded
<1>3. ASSUME NEW f \in Prepared(ClaimDirs), NEW i \in Jobs, NEW t, Owned(f, i, t),
             NEW state \in {"pending", "delivered", "dead-letter"}, NEW limit,
             state = "pending" => f[i].attempts < MaxAttempts,
             Move(f, i, Left(f[i], state), limit)
      PROVE  NoneEnded(jobs', {})
  <2>1. f[i] # Absent /\ GoodRecord(f[i])
    BY <1>1, <1>3, PreparedGood DEF Owned, GoodFiles
  <2>2. GoodRecord(Left(f[i], state)) /\ Left(f[i], state).state = state
    BY <1>3, <2>1, LeftGood DEF States
  <2>3. QED BY <1>1, <1>3, <2>2, MoveNoneEnded
<1>4. ASSUME NEW i \in Jobs, NEW t \in held[i], Acknowledge(i, t) PROVE NoneEnded(jobs', {})
  BY <1>1, <1>2, <1>3, <1>4 DEF Acknowledge
<1>5. ASSUME NEW i \in Jobs, NEW t \in held[i], Fail(i, t) PROVE NoneEnded(jobs', {})
  <2>1. PICK f \in Prepared(ClaimDirs), retryable \in BOOLEAN :
          \/ Owned(f, i, t) /\ Move(f, i, AfterFailure(f[i], retryable), DeadRetention)
          \/ jobs' = f
    BY <1>5 DEF Fail
  <2>2. CASE jobs' = f
    BY <1>1, <1>2, <2>2
  <2>3. CASE Owned(f, i, t) /\ Move(f, i, AfterFailure(f[i], retryable), DeadRetention)
    <3> DEFINE state == IF retryable /\ f[i].attempts < MaxAttempts
                        THEN "pending" ELSE "dead-letter"
    <3>1. /\ state \in {"pending", "delivered", "dead-letter"}
          /\ state = "pending" => f[i].attempts < MaxAttempts
          /\ AfterFailure(f[i], retryable) = Left(f[i], state)
      BY DEF AfterFailure
    <3> HIDE DEF state
    <3>2. QED BY <1>3, <2>3, <3>1
  <2>4. QED BY <2>1, <2>2, <2>3
<1>6. CASE Maintain \/ MaintainStopped
  <2> DEFINE f == Reconciled(jobs, States)
  <2>1. /\ GoodFiles(f)
        /\ \A j \in Jobs : f[j] # Absent => jobs[j] # Absent /\ f[j].state = jobs[j].state
    BY ReconciledGood DEF Inv, States
  <2>2. \/ jobs' = PrunedByName(Buried(f))
        \/ \E j \in DueForJanitor(f) : jobs' = [f EXCEPT ![j] = Left(f[j], "dead-letter")]
    BY <1>6 DEF Maintain, MaintainStopped, Interrupted
  <2> HIDE DEF f
  <2>3. \A j \in DueForJanitor(f) : /\ j \in Jobs
                                    /\ Left(f[j], "dead-letter").state # "completed"
                                    /\ Moved(Left(f[j], "dead-letter")).state # "completed"
    <3> TAKE j \in DueForJanitor(f)
    <3>1. j \in Jobs /\ GoodRecord(f[j])
      BY <2>1 DEF DueForJanitor, In, GoodFiles
    <3>2. /\ GoodRecord(Left(f[j], "dead-letter"))
          /\ Left(f[j], "dead-letter").state = "dead-letter"
      BY <3>1, LeftGood DEF States
    <3>3. QED BY <3>1, <3>2, MovedGood
  <2>4. ASSUME NEW j \in Jobs
        PROVE  jobs'[j] = Absent \/ jobs'[j] = f[j] \/ jobs'[j].state # "completed"
    <3>1. CASE jobs' = PrunedByName(Buried(f))
      <4>1. jobs'[j] = Absent \/ jobs'[j] = Buried(f)[j]
        BY <3>1 DEF PrunedByName, Without
      <4>2. Buried(f)[j] = f[j] \/ (j \in DueForJanitor(f)
                                    /\ Buried(f)[j] = Moved(Left(f[j], "dead-letter")))
        BY DEF Buried
      <4>3. QED BY <2>3, <4>1, <4>2
    <3>2. CASE \E i \in DueForJanitor(f) : jobs' = [f EXCEPT ![i] = Left(f[i], "dead-letter")]
      BY <2>1, <2>3, <3>2 DEF GoodFiles
    <3>3. QED BY <2>2, <3>1, <3>2
  <2>5. QED BY <2>1, <2>4 DEF NoneEnded
<1>7. ASSUME NEW i \in Jobs, Expire(i) \/ Lapse(i) PROVE NoneEnded(jobs', {})
  <2> DEFINE x == [jobs[i] EXCEPT !.expired = TRUE]
             y == [jobs[i] EXCEPT !.lapsed = TRUE]
  <2>1. jobs[i] # Absent /\ GoodRecord(jobs[i]) /\ DOMAIN jobs = Jobs
    BY <1>7 DEF Expire, Lapse, Inv, GoodFiles
  <2>2. x.state = jobs[i].state /\ y.state = jobs[i].state
    BY <2>1 DEF GoodRecord, Record
  <2>3. jobs' = [jobs EXCEPT ![i] = x] \/ jobs' = [jobs EXCEPT ![i] = y]
    BY <1>7 DEF Expire, Lapse
  <2> HIDE DEF x, y
  <2>4. QED BY <2>1, <2>2, <2>3 DEF NoneEnded
<1>8. CASE Look \/ Restart
  BY <1>1, <1>2, <1>8 DEF Look, Restart
<1>9. QED
  BY <1>4, <1>5, <1>6, <1>7, <1>8, ClaimNoneEnded DEF DeliveryNext, Delivery

\* A job that is queued is not completed, and attesting completes the job of
\* the attestation only.
LEMMA QueueNoneEnded ==
  ASSUME Inv, NEW i \in Jobs, QueueJob(i)
  PROVE  NoneEnded(jobs', {})
<1>1. {"pending", "inflight"} \subseteq QueueDirs
  BY DEF QueueDirs
<1>2. PICK f \in Prepared(QueueDirs) :
        \/ jobs' = [f EXCEPT ![i] = NewRecord]
        \/ f[i] # Absent /\ Move(f, i, [NewRecord EXCEPT !.dir = f[i].dir], MaxJob)
        \/ jobs' = f
  BY DEF QueueJob
<1>3. DOMAIN f = Jobs /\ (f[i] # Absent => f[i].dir \in States)
  BY <1>1, PreparedGood DEF GoodFiles, GoodRecord, Record
<1>4. CASE f[i] # Absent /\ Move(f, i, [NewRecord EXCEPT !.dir = f[i].dir], MaxJob)
  <2> DEFINE new == [NewRecord EXCEPT !.dir = f[i].dir]
  <2>1. GoodRecord(new) /\ new.state = "pending"
    BY <1>3, <1>4, NewGood
  <2> HIDE DEF new
  <2>2. Move(f, i, new, MaxJob)
    BY <1>4 DEF new
  <2>3. QED BY <1>1, <2>1, <2>2, MoveNoneEnded
<1>5. CASE jobs' = [f EXCEPT ![i] = NewRecord] \/ jobs' = f
  <2>1. NewRecord.state # "completed"
    BY DEF NewRecord
  <2>2. QED BY <1>1, <1>3, <1>5, <2>1, FilesNoneEnded
<1>6. QED BY <1>2, <1>4, <1>5

LEMMA CompleteNoneEnded ==
  ASSUME Inv, NEW i \in Jobs, Complete(i)
  PROVE  NoneEnded(jobs', {i})
<1>1. {"pending", "inflight"} \subseteq QueueDirs
  BY DEF QueueDirs
<1>2. PICK f \in Prepared(QueueDirs) :
        \/ f[i] # Absent /\ Move(f, i, Left(f[i], "completed"), CompletedRetention)
        \/ jobs' = f
  BY DEF Complete
<1>3. CASE jobs' = f
  BY <1>1, <1>3, FilesNoneEnded
<1>4. CASE f[i] # Absent /\ Move(f, i, Left(f[i], "completed"), CompletedRetention)
  <2>1. GoodRecord(f[i])
    BY <1>1, <1>4, PreparedGood DEF GoodFiles
  <2>2. GoodRecord(Left(f[i], "completed"))
    BY <2>1, LeftGood DEF States
  <2>3. QED BY <1>1, <1>4, <2>2, MoveNoneEnded
<1>5. QED BY <1>2, <1>3, <1>4

-----------------------------------------------------------------------------
(* Release of quarantined evidence.                                         *)

\* A clean verdict on the version, and none that is not clean of a later scan.
Cleared(v) ==
  \E m \in Range(accepted) :
    /\ m.version = v /\ m.verdict = "clean"
    /\ \A n \in Range(accepted) :
         n.version = v /\ n.verdict # "clean" => n.scannedAt <= m.scannedAt

\* What an operation checked under the policy mutex holds until its next step.
PolicyHolds ==
  /\ policy.kind = "attest" => Of(policy.version) # {}
  /\ policy.kind = "release" => screening # 0 /\ (Required => Cleared(policy.version))

ReleaseInv ==
  /\ Inv /\ TypeOK
  /\ screening = 0 => \A v \in Versions : screened[v] = "none"
  /\ CompletedIsAttested
  /\ PolicyHolds

\* A finite set that is not empty has a greatest member in any total order.
LEMMA GreatestExists ==
  ASSUME NEW S, IsFiniteSet(S), S # {}, NEW R,
         \A i \in S : <<i, i>> \in R,
         \A i, j \in S : <<i, j>> \in R \/ <<j, i>> \in R,
         \A i, j \in S : <<i, j>> \in R /\ <<j, i>> \in R => i = j,
         \A i, j, k \in S : <<i, j>> \in R /\ <<j, k>> \in R => <<i, k>> \in R
  PROVE  \E i \in S : \A j \in S : <<i, j>> \in R
<1> DEFINE Below(i) == {j \in S : <<i, j>> \in R}
           Rank(i) == Cardinality(Below(i))
           n == Cardinality(S)
<1>1. n \in Nat /\ n # 0
  BY FS_CardinalityType, FS_EmptySet
<1>2. \A i \in S : Below(i) \in SUBSET S /\ i \in Below(i)
  OBVIOUS
<1>3. \A i \in S : /\ IsFiniteSet(Below(i)) /\ Rank(i) \in 1..n
                   /\ Rank(i) = n => Below(i) = S
  <2> TAKE i \in S
  <2>1. IsFiniteSet(Below(i)) /\ Rank(i) <= n /\ (n = Rank(i) => S = Below(i))
    BY <1>2, FS_Subset
  <2>2. Rank(i) \in Nat /\ (Rank(i) = 0 => Below(i) = {})
    BY <2>1, FS_CardinalityType, FS_EmptySet
  <2>3. i \in Below(i)
    BY <1>2
  <2> HIDE DEF Rank, n, Below
  <2>4. Rank(i) # 0
    BY <2>2, <2>3
  <2>5. Rank(i) \in 1..n
    BY <1>1, <2>1, <2>2, <2>4
  <2>6. QED BY <2>1, <2>5
<1>4. ASSUME NEW i \in S, NEW j \in S, <<j, i>> \in R, i # j
      PROVE  Rank(i) # Rank(j)
  <2>1. Below(i) \in SUBSET Below(j) /\ j \in Below(j) /\ j \notin Below(i)
    BY <1>4
  <2> HIDE DEF Below
  <2>2. QED BY <1>3, <2>1, FS_Subset
<1>5. \A i, j \in S : Rank(i) = Rank(j) => i = j
  <2> TAKE i \in S, j \in S
  <2> HIDE DEF Rank
  <2>1. QED BY <1>4
<1> DEFINE f == [i \in S |-> Rank(i)]
<1> HIDE DEF Rank, n, Below
<1>6. f \in Injection(S, 1..n)
  BY <1>3, <1>5 DEF Injection, IsInjective
<1>7. IsFiniteSet(1..n) /\ Cardinality(1..n) = n
  BY <1>1, FS_Interval
<1>8. f \in Surjection(S, 1..n)
  BY <1>6, <1>7, FS_Injection DEF n
<1>9. PICK i \in S : Rank(i) = n
  <2>1. n \in 1..n
    BY <1>1
  <2>2. \E i \in S : f[i] = n
    BY <1>8, <2>1 DEF Surjection
  <2>3. QED BY <2>2
<1>10. Below(i) = S
  BY <1>3, <1>9
<1>11. QED BY <1>10 DEF Below

\* compareAttestationRecency finds the latest of the attestations of a
\* version.
LEMMA LatestFound ==
  ASSUME TypeOK, NEW v, Of(v) # {}
  PROVE  \E i \in Of(v) : /\ Latest(v) = accepted[i]
                          /\ \A k \in Of(v) : accepted[k].scannedAt <= accepted[i].scannedAt
<1> DEFINE R == {p \in Of(v) \X Of(v) : MoreRecent(p[1], p[2])}
<1>1. /\ accepted \in Seq(Attestations) /\ Of(v) \subseteq 1..Len(accepted)
      /\ \A i \in Of(v) : i \in Nat /\ accepted[i].scannedAt \in Nat
  BY AttestationAssumption DEF TypeOK, Of
<1>2. IsFiniteSet(Of(v))
  <2>1. Len(accepted) \in Nat
    BY <1>1
  <2>2. IsFiniteSet(1..Len(accepted))
    BY <2>1, FS_Interval
  <2>3. QED BY <1>1, <2>2, FS_Subset
<1>3. \A i, j \in Of(v) : <<i, j>> \in R <=> MoreRecent(i, j)
  OBVIOUS
<1> HIDE DEF R
<1>4. /\ \A i \in Of(v) : MoreRecent(i, i)
      /\ \A i, j \in Of(v) : MoreRecent(i, j) \/ MoreRecent(j, i)
      /\ \A i, j \in Of(v) : MoreRecent(i, j) /\ MoreRecent(j, i) => i = j
      /\ \A i, j, k \in Of(v) : MoreRecent(i, j) /\ MoreRecent(j, k) => MoreRecent(i, k)
  BY <1>1 DEF MoreRecent
<1>5. \E i \in Of(v) : \A k \in Of(v) : MoreRecent(i, k)
  <2>1. \E i \in Of(v) : \A k \in Of(v) : <<i, k>> \in R
    BY <1>2, <1>3, <1>4, GreatestExists
  <2>2. QED BY <1>3, <2>1
<1> DEFINE i == CHOOSE i \in Of(v) : \A k \in Of(v) : MoreRecent(i, k)
<1>6. i \in Of(v) /\ \A k \in Of(v) : MoreRecent(i, k)
  BY <1>5
<1>7. Latest(v) = accepted[i]
  BY DEF Latest
<1> HIDE DEF i
<1>8. \A k \in Of(v) : accepted[k].scannedAt <= accepted[i].scannedAt
  BY <1>1, <1>6 DEF MoreRecent
<1>9. QED BY <1>6, <1>7, <1>8

\* requireCleanForRelease: what passes it is cleared.
LEMMA ReleasableCleared ==
  ASSUME TypeOK, NEW v, MayRelease(v), Required
  PROVE  Cleared(v)
<1>1. Of(v) # {} /\ Latest(v).verdict = "clean"
  BY DEF MayRelease
<1>2. PICK i \in Of(v) : /\ Latest(v) = accepted[i]
                         /\ \A k \in Of(v) : accepted[k].scannedAt <= accepted[i].scannedAt
  BY <1>1, LatestFound
<1>3. accepted[i] \in Range(accepted) /\ accepted[i].version = v
  BY DEF Of, Range
<1>4. \A n \in Range(accepted) : n.version = v => n.scannedAt <= accepted[i].scannedAt
  BY <1>2 DEF Of, Range
<1>5. QED BY <1>1, <1>2, <1>3, <1>4 DEF Cleared

\* An attestation that was recorded is one of its version's, and those
\* recorded before still are.
LEMMA RecordedGrows ==
  ASSUME accepted \in Seq(Attestations), NEW m \in Attestations, accepted' = Recorded(m)
  PROVE  /\ accepted' \in Seq(Attestations)
         /\ \A v : Of(v) \subseteq Of(v)'
         /\ Of(m.version)' # {}
<1>1. CASE m \in Range(accepted)
  BY <1>1 DEF Recorded, Of, Range
<1>2. CASE m \notin Range(accepted)
  <2>1. accepted' = Append(accepted, m) /\ Len(accepted) \in Nat
    BY <1>2 DEF Recorded
  <2>2. /\ accepted' \in Seq(Attestations) /\ DOMAIN accepted' = 1..(Len(accepted) + 1)
        /\ \A i \in 1..Len(accepted) : accepted'[i] = accepted[i]
        /\ accepted'[Len(accepted) + 1] = m
    BY <2>1, AppendProperties
  <2>3. QED BY <2>1, <2>2 DEF Of
<1>3. QED BY <1>1, <1>2

\* The steps of the outbox, seen from around it.
LEMMA JobsStepKept ==
  ASSUME ReleaseInv, JobsNext,
         NEW done, NoneEnded(jobs', done), \A v \in done : Of(v) # {},
         UNCHANGED <<custody, screened, screening, accepted, released>>,
         policy' = policy \/ policy' = Idle
  PROVE  ReleaseInv'
<1>1. Inv'
  BY InvKept DEF ReleaseInv
<1>2. TypeOK'
  BY <1>1 DEF ReleaseInv, Inv, TypeOK, Operations
<1>3. \A v \in Versions : Of(v)' = Of(v)
  BY DEF Of
<1>4. CompletedIsAttested'
  BY <1>3 DEF ReleaseInv, CompletedIsAttested, NoneEnded, Versions
<1>5. PolicyHolds'
  BY DEF ReleaseInv, PolicyHolds, Of, Cleared, Idle
<1>6. QED BY <1>1, <1>2, <1>4, <1>5 DEF ReleaseInv

LEMMA ReleaseInvKept == ReleaseInv /\ [Next]_vars => ReleaseInv'
<1> SUFFICES ASSUME ReleaseInv, [Next]_vars PROVE ReleaseInv'
  OBVIOUS
<1> USE DEF ReleaseInv
<1>1. /\ custody \in Nat /\ screening \in Nat /\ screening <= custody /\ custody <= MaxJob
      /\ MaxJob \in Nat /\ policy \in Operations
      /\ screened \in [Versions -> Decisions]
  BY JobsAssumption DEF TypeOK
<1>2. jobVars' = jobVars => Inv'
  BY DEF jobVars, Inv, JobsTypeOK, GoodFiles, GoodRecord
<1>3. CASE AddVersion
  <2>1. TypeOK'
    BY <1>1, <1>2, <1>3 DEF AddVersion, TypeOK, Inv
  <2>2. CompletedIsAttested' /\ PolicyHolds'
    BY <1>3 DEF AddVersion, CompletedIsAttested, PolicyHolds, Of, Cleared, jobVars
  <2>3. QED BY <1>2, <1>3, <2>1, <2>2 DEF AddVersion
<1>4. ASSUME NEW v \in Versions, RecordVersion(v) PROVE ReleaseInv'
  <2>1. Inv' /\ screening' = v /\ v # 0
    BY <1>2, <1>4 DEF RecordVersion, Versions, Jobs
  <2>2. TypeOK'
    BY <1>1, <1>4, <2>1 DEF RecordVersion, TypeOK, Inv, Versions, Jobs, Decisions, Screened
  <2>3. CompletedIsAttested' /\ PolicyHolds'
    BY <1>4, <2>1 DEF RecordVersion, CompletedIsAttested, PolicyHolds, Of, Cleared, jobVars
  <2>4. QED BY <2>1, <2>2, <2>3
<1>5. CASE RejectQuarantine
  <2>1. TypeOK'
    BY <1>1, <1>2, <1>5 DEF RejectQuarantine, TypeOK, Inv, Decisions
  <2>2. CompletedIsAttested' /\ PolicyHolds'
    BY <1>5 DEF RejectQuarantine, CompletedIsAttested, PolicyHolds, Of, Cleared, jobVars
  <2>3. QED BY <1>2, <1>5, <2>1, <2>2 DEF RejectQuarantine
<1>6. ASSUME NEW m \in Attestations, AcceptSigned(m) PROVE ReleaseInv'
  <2>1. /\ accepted' \in Seq(Attestations) /\ \A v : Of(v) \subseteq Of(v)'
        /\ Of(m.version)' # {}
    BY <1>6, RecordedGrows DEF AcceptSigned, TypeOK
  <2>2. m.version \in Versions /\ policy' = [kind |-> "attest", version |-> m.version]
    BY <1>6, AttestationAssumption DEF AcceptSigned
  <2>3. TypeOK'
    BY <1>2, <1>6, <2>1, <2>2 DEF AcceptSigned, TypeOK, Inv, Operations
  <2>4. CompletedIsAttested' /\ PolicyHolds'
    BY <1>6, <2>1, <2>2 DEF AcceptSigned, CompletedIsAttested, PolicyHolds, jobVars
  <2>5. QED BY <1>2, <1>6, <2>3, <2>4 DEF AcceptSigned
<1>7. CASE CompleteJob
  <2>1. policy.version \in Jobs /\ Of(policy.version) # {}
    BY <1>1, <1>7 DEF CompleteJob, PolicyHolds, Operations, Idle, Versions
  <2>2. Complete(policy.version) /\ NoneEnded(jobs', {policy.version})
    BY <1>7, <2>1, CompleteNoneEnded DEF CompleteJob
  <2>3. JobsNext
    BY <2>1, <2>2 DEF JobsNext
  <2>4. QED BY <1>7, <2>1, <2>2, <2>3, JobsStepKept DEF CompleteJob
<1>8. ASSUME NEW v \in Versions, CheckQueue(v) PROVE ReleaseInv'
  <2>1. policy' = [kind |-> "queue", version |-> v]
    BY <1>8 DEF CheckQueue
  <2>2. TypeOK'
    BY <1>2, <1>8, <2>1 DEF CheckQueue, TypeOK, Inv, Operations
  <2>3. CompletedIsAttested' /\ PolicyHolds'
    BY <1>8, <2>1 DEF CheckQueue, CompletedIsAttested, PolicyHolds, Of, jobVars
  <2>4. QED BY <1>2, <1>8, <2>2, <2>3 DEF CheckQueue
<1>9. CASE EnqueueJob
  <2>1. policy.version \in Jobs
    BY <1>1, <1>9 DEF EnqueueJob, Operations, Idle, Versions
  <2>2. QueueJob(policy.version) /\ NoneEnded(jobs', {})
    BY <1>9, <2>1, QueueNoneEnded DEF EnqueueJob
  <2>3. JobsNext
    BY <2>1, <2>2 DEF JobsNext
  <2>4. QED BY <1>9, <2>2, <2>3, JobsStepKept DEF EnqueueJob
<1>10. CASE CheckRelease
  <2>1. /\ custody \in Versions /\ screening # 0 /\ (Required => Cleared(custody))
        /\ policy' = [kind |-> "release", version |-> custody]
    BY <1>1, <1>10, ReleasableCleared DEF CheckRelease, Versions, Jobs
  <2>2. TypeOK'
    BY <1>2, <1>10, <2>1 DEF CheckRelease, TypeOK, Inv, Operations
  <2>3. CompletedIsAttested' /\ PolicyHolds'
    BY <1>10, <2>1 DEF CheckRelease, CompletedIsAttested, PolicyHolds, Of, Cleared, jobVars
  <2>4. QED BY <1>2, <1>10, <2>2, <2>3 DEF CheckRelease
<1>11. CASE ReleaseQuarantine
  <2>1. policy.version \in Versions /\ screening \in Versions
    BY <1>1, <1>11 DEF ReleaseQuarantine, Operations, Idle, PolicyHolds, Versions, Jobs
  <2>2. policy' = Idle /\ Idle.kind = "idle" /\ Idle \in Operations
    BY <1>11 DEF ReleaseQuarantine, Idle, Operations
  <2>3. TypeOK'
    BY <1>1, <1>2, <1>11, <2>1, <2>2 DEF ReleaseQuarantine, TypeOK, Inv, Decisions
  <2>4. CompletedIsAttested' /\ PolicyHolds'
    BY <1>11, <2>2 DEF ReleaseQuarantine, CompletedIsAttested, PolicyHolds, Of, jobVars
  <2>5. QED BY <1>2, <1>11, <2>1, <2>3, <2>4 DEF ReleaseQuarantine, Versions, Jobs
<1>12. CASE PolicyStopped
  <2>1. Inv'
    BY <1>12, JobsAssumption DEF PolicyStopped, Inv, JobsTypeOK, GoodFiles, GoodRecord
  <2>2. policy' = Idle /\ Idle.kind = "idle" /\ Idle \in Operations
    BY <1>12 DEF PolicyStopped, Idle, Operations
  <2>3. TypeOK'
    BY <1>12, <2>1, <2>2 DEF PolicyStopped, TypeOK, Inv
  <2>4. CompletedIsAttested' /\ PolicyHolds'
    BY <1>12, <2>2 DEF PolicyStopped, CompletedIsAttested, PolicyHolds, Of
  <2>5. QED BY <1>12, <2>1, <2>3, <2>4 DEF PolicyStopped
<1>13. CASE /\ DeliveryNext
            /\ UNCHANGED <<custody, screened, screening, accepted, policy, released>>
  <2>1. JobsNext /\ NoneEnded(jobs', {})
    BY <1>13, DeliveryNoneEnded DEF JobsNext
  <2>2. QED BY <1>13, <2>1, JobsStepKept
<1>14. CASE UNCHANGED vars
  <2>1. TypeOK'
    BY <1>2, <1>14 DEF vars, TypeOK, Inv
  <2>2. CompletedIsAttested' /\ PolicyHolds'
    BY <1>14 DEF vars, jobVars, CompletedIsAttested, PolicyHolds, Of, Cleared
  <2>3. QED BY <1>2, <1>14, <2>1, <2>2 DEF vars
<1>15. QED
  BY <1>3, <1>4, <1>5, <1>6, <1>7, <1>8, <1>9, <1>10, <1>11, <1>12, <1>13, <1>14
  DEF Next, Callback, JobGovernance

\* Around the outbox: a job is completed on an attestation that is stored, and
\* what was checked for a release still holds when it happens.
THEOREM ReleaseInvariant == Spec => []ReleaseInv
<1>1. Init => ReleaseInv
  <2> SUFFICES ASSUME Init PROVE ReleaseInv
    OBVIOUS
  <2>1. Inv
    BY InitInv DEF Init
  <2>2. TypeOK
    BY <2>1, JobsAssumption DEF Init, TypeOK, Inv, Operations, Idle, Decisions
  <2>3. CompletedIsAttested
    BY DEF Init, JobsInit, CompletedIsAttested, Versions
  <2>4. QED BY <2>1, <2>2, <2>3 DEF ReleaseInv, PolicyHolds, Init, Idle
<1>2. QED BY <1>1, ReleaseInvKept, PTL DEF Spec

\* recordExternalScanAttestation: a job that is completed has an attestation,
\* wherever a process stopped.
THEOREM CompletionsAttested == Spec => []CompletedIsAttested
<1>1. ReleaseInv => CompletedIsAttested
  BY DEF ReleaseInv
<1>2. QED BY <1>1, ReleaseInvariant, PTL

\* docs/external-scanner-attestations.md:121: a verdict of a later scan that is
\* not clean blocks the release of the version that was checked.
THEOREM VerdictsHeeded == Spec => ReleaseHeedsVerdicts
<1>1. ReleaseInv /\ [Next]_vars =>
        [\A v \in Versions :
           released' # released /\ v = policy.version /\ Required =>
             \E m \in Range(accepted) :
               /\ m.version = v /\ m.verdict = "clean"
               /\ \A n \in Range(accepted) :
                    n.version = v /\ n.verdict # "clean" => n.scannedAt <= m.scannedAt]_vars
  <2> SUFFICES ASSUME ReleaseInv, [Next]_vars, NEW v \in Versions,
                      released' # released, v = policy.version, Required
               PROVE  Cleared(v)
    BY DEF Cleared
  <2>1. ReleaseQuarantine
    BY DEF Next, vars, AddVersion, RejectQuarantine, RecordVersion, Callback, JobGovernance,
       CompleteJob, AcceptSigned, EnqueueJob, CheckQueue, CheckRelease, PolicyStopped
  <2>2. QED BY <2>1 DEF ReleaseQuarantine, ReleaseInv, PolicyHolds
<1>2. QED BY <1>1, ReleaseInvariant, PTL DEF Spec, ReleaseHeedsVerdicts
=============================================================================
