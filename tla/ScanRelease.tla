----------------------------- MODULE ScanRelease -----------------------------
(***************************************************************************)
(* Release of quarantined evidence on the word of an external scanner:     *)
(* the versions of one item (evidenceRegistry.js), their screening         *)
(* (evidenceScreeningRegistry.js), the signed attestations                 *)
(* (externalScanAttestationRegistry.js), the jobs of ScanJobs, one for     *)
(* each version, and externalScanEvidenceRegistry.js, which holds a policy *)
(* mutex around what spans them.                                           *)
(*                                                                         *)
(* Each store has a mutex of its own, so a step is what happens to one     *)
(* store.  Adding a version does not take the policy mutex.                *)
(***************************************************************************)
EXTENDS ScanJobs, Sequences, SequencesExt

CONSTANTS
  Attestations,  \* what the scanner signs: [id, version, verdict, scannedAt]
  Required,      \* requiredForRelease, in mode enforce
  MaxRecords     \* maxRecords

Versions == Jobs

ASSUME AttestationAssumption ==
  /\ \A m \in Attestations : m.version \in Versions /\ m.scannedAt \in Nat
  /\ Required \in BOOLEAN /\ MaxRecords \in Nat

VARIABLES
  custody,    \* currentVersion of the item
  screened,   \* what the screening index has of each version
  screening,  \* currentVersion of the screening record, 0 without one
  accepted,   \* the attestations, in the order of their sequence numbers
  policy,     \* the operation that holds the policy mutex
  released    \* history: the versions released and what was checked for each

vars == <<jobVars, custody, screened, screening, accepted, policy, released>>

Decisions == {"none", "clean", "quarantine", "released", "rejected"}
\* What an upload is screened as: everything that is not clean is quarantined.
Screened == {"clean", "quarantine"}
Idle == [kind |-> "idle", version |-> 0]
Operations == [kind : {"attest", "queue", "release"}, version : Versions] \cup {Idle}

Init ==
  /\ JobsInit
  /\ custody = 0 /\ screening = 0
  /\ screened = [v \in Versions |-> "none"]
  /\ accepted = << >>
  /\ policy = Idle
  /\ released = {}

-----------------------------------------------------------------------------
\* ingest and addVersion, first the custody registry.
AddVersion ==
  /\ custody < MaxJob
  /\ custody' = custody + 1
  /\ UNCHANGED <<jobVars, screened, screening, accepted, policy, released>>

\* Then recordVersion.  The process may die before, and two of them may come
\* here in either order.
RecordVersion(v) ==
  /\ v <= custody /\ screened[v] = "none"
  /\ \E decision \in Screened : screened' = [screened EXCEPT ![v] = decision]
  /\ screening' = v
  /\ UNCHANGED <<jobVars, custody, accepted, policy, released>>

RejectQuarantine ==
  /\ screening # 0 /\ screened[screening] = "quarantine"
  /\ screened' = [screened EXCEPT ![screening] = "rejected"]
  /\ UNCHANGED <<jobVars, custody, screening, accepted, policy, released>>

-----------------------------------------------------------------------------
\* record: an identifier is accepted once.
Recorded(m) ==
  IF m \in Range(accepted) THEN accepted ELSE Append(accepted, m)

\* Mutant: the job is completed before the attestation is stored.
AcceptSigned_JobFirst(m) ==
  /\ policy = Idle /\ screened[m.version] # "none"
  /\ UNCHANGED <<jobVars, custody, screened, screening, released>>
  /\ policy' = [kind |-> "attest", version |-> m.version] /\ UNCHANGED accepted

\* recordExternalScanAttestation, until the attestation is stored; it comes
\* late, again or never.
AcceptSigned(m) ==
  /\ policy = Idle
  /\ screened[m.version] # "none"
  /\ m \in Range(accepted) \/ Len(accepted) < MaxRecords
  /\ accepted' = Recorded(m)
  /\ policy' = [kind |-> "attest", version |-> m.version]
  /\ UNCHANGED <<jobVars, custody, screened, screening, released>>

CompleteJob ==
  /\ policy.kind = "attest"
  /\ Complete(policy.version)
  /\ policy' = Idle
  /\ UNCHANGED <<custody, screened, screening, accepted, released>>

\* queueExternalScanJob: a version that is quarantined, then the job.
CheckQueue(v) ==
  /\ policy = Idle
  /\ v <= custody /\ screened[v] = "quarantine"
  /\ policy' = [kind |-> "queue", version |-> v]
  /\ UNCHANGED <<jobVars, custody, screened, screening, accepted, released>>

EnqueueJob ==
  /\ policy.kind = "queue"
  /\ QueueJob(policy.version)
  /\ policy' = Idle
  /\ UNCHANGED <<custody, screened, screening, accepted, released>>

\* compareAttestationRecency: by the time of the scan, then by sequence.
MoreRecent(i, k) ==
  \/ accepted[i].scannedAt > accepted[k].scannedAt
  \/ accepted[i].scannedAt = accepted[k].scannedAt /\ i >= k

Of(v) == {i \in DOMAIN accepted : accepted[i].version = v}

\* Mutant: the one that arrived last.
Latest_Arrived(v) == accepted[CHOOSE i \in Of(v) : \A k \in Of(v) : i >= k]

Latest(v) == accepted[CHOOSE i \in Of(v) : \A k \in Of(v) : MoreRecent(i, k)]

\* The verdict and requireCleanForRelease. A scan that became older than
\* maxAttestationAgeMinutes blocks too: then CheckRelease is not taken.
MayRelease(v) ==
  IF Of(v) = {} THEN ~Required ELSE Latest(v).verdict = "clean"

\* releaseQuarantine: what is checked is the version that is current now.
CheckRelease ==
  /\ policy = Idle
  /\ custody > 0 /\ screened[custody] # "none"
  /\ MayRelease(custody)
  /\ policy' = [kind |-> "release", version |-> custody]
  /\ UNCHANGED <<jobVars, custody, screened, screening, accepted, released>>

\* Then the screening registry releases the version current to it.
ReleaseQuarantine ==
  /\ policy.kind = "release"
  /\ IF screened[screening] = "quarantine"
     THEN /\ screened' = [screened EXCEPT ![screening] = "released"]
          /\ released' = released \cup {[version |-> screening, checked |-> policy.version]}
     ELSE UNCHANGED <<screened, released>>
  /\ policy' = Idle
  /\ UNCHANGED <<jobVars, custody, screening, accepted>>

\* The process dies inside; the policy mutex is free when its lease is over.
PolicyStopped ==
  /\ policy # Idle
  /\ stops < MaxStops
  /\ policy' = Idle
  /\ stops' = stops + 1
  /\ UNCHANGED <<jobs, held, queues, custody, screened, screening, accepted, released>>

\* The requests of the scanner's callback and of the owners of the evidence.
Callback == CompleteJob \/ \E m \in Attestations : AcceptSigned(m)

JobGovernance == EnqueueJob \/ \E v \in Versions : CheckQueue(v)

Next ==
  \/ AddVersion \/ RejectQuarantine
  \/ \E v \in Versions : RecordVersion(v)
  \/ Callback \/ JobGovernance \/ CheckRelease \/ ReleaseQuarantine \/ PolicyStopped
  \/ /\ DeliveryNext
     /\ UNCHANGED <<custody, screened, screening, accepted, policy, released>>

Spec == Init /\ [][Next]_vars

-----------------------------------------------------------------------------
\* The stores hold what their readers expect.
TypeOK ==
  /\ JobsTypeOK
  /\ custody \in 0..MaxJob /\ screening \in 0..custody
  /\ screened \in [Versions -> Decisions]
  /\ accepted \in Seq(Attestations)
  /\ policy \in Operations
  /\ released \subseteq [version : Versions, checked : Versions]

\* recordExternalScanAttestation: a job is completed by an attestation that
\* is stored, wherever its process stopped and however often it was sent.
CompletedIsAttested ==
  \A v \in Versions : jobs[v] # Absent /\ jobs[v].state = "completed" => Of(v) # {}

\* docs/external-scanner-attestations.md:121, a non-clean verdict always blocks
\* release: at a release no verdict on the version that was checked is of a
\* later scan than a clean one, in whatever order they arrived.
ReleaseHeedsVerdicts ==
  [][\A v \in Versions :
       released' # released /\ v = policy.version /\ Required =>
         \E m \in Range(accepted) :
           /\ m.version = v /\ m.verdict = "clean"
           /\ \A n \in Range(accepted) :
                n.version = v /\ n.verdict # "clean" => n.scannedAt <= m.scannedAt]_vars

\* docs/external-scanner-attestations.md:119: "the attestation must target the
\* current immutable evidence version" that is released.
ReleasedIsWhatWasChecked == \A r \in released : r.version = r.checked
=============================================================================
