--------------------------- MODULE TimeAttestation ---------------------------
(***************************************************************************)
(* Independent time attestations of one preserved item of evidence, and    *)
(* what they mean for its disposition.  Three layers look at the same      *)
(* records: evidenceTimeAttestationStore.js counts providers whose         *)
(* signatures verify, evidenceTimeAuthorityPolicyStore.js those whose keys *)
(* the present configuration trusts, and                                   *)
(* evidenceTimeAttestationGovernanceRegistry.js those that no event of the *)
(* append-only journal excludes.  Disposition passes their gates from the  *)
(* outside in, and none of them holds a lock while the next one looks.     *)
(* The file mutexes of store and journal are taken to exclude, so that     *)
(* load, append and save of a record are one step.                         *)
(*                                                                         *)
(* The keys of the authorities are read when the process starts.  Digests, *)
(* signatures and encryption are left out: an attestation has an identity, *)
(* and a signature verifies when its key is configured.                    *)
(***************************************************************************)
EXTENDS Integers, FiniteSets, Sequences, SequencesExt

CONSTANTS
  Archives,          \* the archives of the versions of the item
  Attestations,      \* what authorities sign
  Events,            \* what the governance journal may record
  Configurations,    \* the sets of authority keys that a process may start with
  MinimumProviders,  \* minimumProviders
  Skew,              \* clockSkewSeconds
  MaxDelay,          \* maximumDelayMinutes
  MaxRecords,        \* maxRecords of the store
  MaxEvents,         \* maxEvents of the journal
  ArchiveLimit,      \* maximumAttestationsPerArchive
  ListLimit,         \* the largest limit of a listing
  MaxTime,           \* bound on the clock
  NoTime             \* not archived yet

Times == 0..MaxTime

ASSUME AttestationAssumption ==
  /\ \A a \in Attestations : a.archive \in Archives /\ a.time \in Times
  /\ \A e \in Events : e.effectiveAt \in Times /\ e.retroactive \in BOOLEAN
  /\ MinimumProviders \in Nat \ {0} /\ Skew \in Nat /\ MaxDelay \in Nat \ {0}
  /\ MaxRecords \in Nat /\ MaxEvents \in Nat /\ MaxTime \in Nat
  /\ ArchiveLimit \in Nat \ {0} /\ ListLimit \in Nat /\ ArchiveLimit <= ListLimit
  /\ NoTime \notin Times

VARIABLES
  archived,  \* archivedAt of the receipt of each archive
  records,   \* the records of the store, in the order of their sequence
  journal,   \* the events of the governance journal
  keys,      \* the configured authority keys
  disposal,  \* the disposition under way, and what its first gate looked at
  now        \* the clock

vars == <<archived, records, journal, keys, disposal, now>>

NoDisposal == [phase |-> "idle", at |-> 0, journal |-> {}]

Init ==
  /\ archived = [a \in Archives |-> NoTime]
  /\ records = <<>> /\ journal = {}
  /\ keys \in Configurations
  /\ disposal = NoDisposal /\ now = 0

-----------------------------------------------------------------------------
(* The store: records, and the quorum of those that verify.                *)

Recorded == ToSet(records)

\* assertTimestamp, on acceptance and at every verification.
Timely(r) ==
  /\ r.time >= archived[r.archive] - Skew
  /\ r.time <= now + Skew
  /\ r.time - archived[r.archive] <= MaxDelay

\* authorityFor.
KeyOf(r) == {k \in keys : k.provider = r.provider /\ k.key = r.key}

\* verifyStoredRecord, which throws when it does not hold.
Verifies(r) == Timely(r) /\ KeyOf(r) # {}

Providers(rs) == {r.provider : r \in rs}

Quorum(rs) == Cardinality(Providers(rs)) >= MinimumProviders

\* verifyArchivesWithIndex groups the whole index by archive.
RecordsOf(a) == {r \in Recorded : r.archive = a}

ArchiveVerifies(a) == archived[a] # NoTime /\ \A r \in RecordsOf(a) : Verifies(r)

CryptographicQuorum(a) == ArchiveVerifies(a) /\ Quorum(RecordsOf(a))

\* list: the newest of an archive.
Listed(a, limit) ==
  LET at == {i \in DOMAIN records : records[i].archive = a}
  IN {records[i] : i \in {i \in at : Cardinality({j \in at : j >= i}) <= limit}}

\* Mutant: the issuance delay is only looked at when records are verified.
Store_Undelayed(r) ==
  /\ archived[r.archive] # NoTime
  /\ r.time >= archived[r.archive] - Skew /\ r.time <= now + Skew
  /\ r \notin Recorded
  /\ \A s \in Recorded : s.provider = r.provider /\ s.key = r.key => s.nonce # r.nonce
  /\ Len(records) < MaxRecords
  /\ records' = Append(records, r)

\* record of the store: the challenge and the times, then, in the mutex, the
\* duplicate, the nonce and the capacity.
Store(r) ==
  /\ archived[r.archive] # NoTime /\ Timely(r)
  /\ r \notin Recorded
  /\ \A s \in Recorded : s.provider = r.provider /\ s.key = r.key => s.nonce # r.nonce
  /\ Len(records) < MaxRecords
  /\ records' = Append(records, r)

-----------------------------------------------------------------------------
(* The policy: keys are good for a time and for some policies.             *)

\* evaluatePolicy.
Trusted(r) == \E k \in KeyOf(r) : k.from <= r.time /\ r.time <= k.until /\ r.policy \in k.policies

\* authenticateSubmission, against the keys of the policy.
Authenticated(r) == \E k \in keys : k.provider = r.provider /\ k.key = r.key

\* verifyArchives of the policy: a listing that is too short is an error.
PolicyEvaluable(a) ==
  ArchiveVerifies(a) /\ Cardinality(RecordsOf(a)) = Cardinality(Listed(a, ArchiveLimit))

PolicyQuorum(a) ==
  PolicyEvaluable(a) /\ Quorum({r \in Listed(a, ArchiveLimit) : Trusted(r)})

-----------------------------------------------------------------------------
(* Governance: what the journal excludes.                                  *)

\* eventApplies.
Applies(e, r) ==
  \/ e.type \in {"attestation_revoked", "attestation_superseded"} /\ e.target = r.id
  \/ /\ e.type = "provider_revoked" /\ e.provider = r.provider
     /\ e.retroactive \/ r.time >= e.effectiveAt
  \/ /\ e.type = "key_revoked" /\ e.provider = r.provider /\ e.key = r.key
     /\ e.retroactive \/ r.time >= e.effectiveAt

\* evaluate, now.
Acceptable(r) == \A e \in journal : e.effectiveAt <= now => ~Applies(e, r)

\* Mutant: the listing is the one of the store, which knows no policy.
EffectiveRecords_Undecorated(a) == {r \in Listed(a, ListLimit) : Acceptable(r)}

\* effectiveArchiveVerification: of the decorated listing, what is acceptable.
EffectiveRecords(a) == {r \in Listed(a, ListLimit) : Trusted(r) /\ Acceptable(r)}

OperationalQuorum(a) == PolicyEvaluable(a) /\ Quorum(EffectiveRecords(a))

\* validateGovernanceTarget: what it names is there, and verifies.
Named(e) ==
  CASE e.type = "attestation_revoked"    -> {e.target}
    [] e.type = "attestation_superseded" -> {e.target, e.replacement}
    [] OTHER                             -> {}

TargetsExist(e) ==
  Named(e) # {} =>
    /\ PolicyEvaluable(e.archive)
    /\ Named(e) \subseteq {r.id : r \in Listed(e.archive, ListLimit)}

-----------------------------------------------------------------------------
(* What happens.                                                           *)

\* An archive of a version is written, with its receipt.
Preserve(a) ==
  /\ archived[a] = NoTime
  /\ archived' = [archived EXCEPT ![a] = now]
  /\ UNCHANGED <<records, journal, keys, disposal, now>>

\* The callback of an authority: the policy, then the store.
SubmitAttestation(r) ==
  /\ Authenticated(r) /\ Trusted(r) /\ Store(r)
  /\ UNCHANGED <<archived, journal, keys, disposal, now>>

\* Mutant: an event replaces what was recorded about the same thing.
Journalled_Replacing(e) ==
  {d \in journal : <<d.target, d.provider, d.key>> # <<e.target, e.provider, e.key>>} \cup {e}

\* record of the journal.
Journalled(e) == journal \cup {e}

\* A decision of the tenant's governance: load, append and save under the
\* mutex of the journal, which has no fencing token and is taken to exclude.
RecordGovernanceEvent(e) ==
  /\ TargetsExist(e)
  /\ e \notin journal /\ Cardinality(journal) < MaxEvents
  /\ journal' = Journalled(e)
  /\ UNCHANGED <<archived, records, keys, disposal, now>>

\* currentOperationalPosture of the item, every version of it.
CurrentOperationalPosture == \A a \in Archives : archived[a] # NoTime /\ OperationalQuorum(a)

\* Mutant: any version will do.
OperationalGate_Any ==
  /\ disposal.phase = "idle"
  /\ \E a \in Archives : archived[a] # NoTime /\ OperationalQuorum(a)
  /\ disposal' = [phase |-> "acceptable", at |-> now, journal |-> journal]
  /\ UNCHANGED <<archived, records, journal, keys, now>>

\* dispose of the governance registry.
OperationalGate ==
  /\ disposal.phase = "idle"
  /\ CurrentOperationalPosture
  /\ disposal' = [phase |-> "acceptable", at |-> now, journal |-> journal]
  /\ UNCHANGED <<archived, records, journal, keys, now>>

\* dispose of the attestation registry, over the store with its policy.
QuorumGate ==
  /\ disposal.phase = "acceptable"
  /\ \A a \in Archives : archived[a] # NoTime /\ PolicyQuorum(a)
  /\ disposal' = [disposal EXCEPT !.phase = "quorate"]
  /\ UNCHANGED <<archived, records, journal, keys, now>>

\* The gates further in are those of EvidenceCustody.
Dispose ==
  /\ disposal.phase = "quorate"
  /\ disposal' = [disposal EXCEPT !.phase = "disposed"]
  /\ UNCHANGED <<archived, records, journal, keys, now>>

\* A gate further in refuses, or the request is lost.
AbandonDisposal ==
  /\ disposal.phase \in {"acceptable", "quorate"}
  /\ disposal' = NoDisposal
  /\ UNCHANGED <<archived, records, journal, keys, now>>

\* The process starts again, with other keys.
Restart ==
  /\ keys' \in Configurations \ {keys}
  /\ disposal' = IF disposal.phase = "disposed" THEN disposal ELSE NoDisposal
  /\ UNCHANGED <<archived, records, journal, now>>

Tick ==
  /\ now < MaxTime /\ now' = now + 1
  /\ UNCHANGED <<archived, records, journal, keys, disposal>>

\* What the callback route lets in.
HandleCallback == \E r \in Attestations : SubmitAttestation(r)

\* What the governance routes change; the others read.
HandleGovernance == \E e \in Events : RecordGovernanceEvent(e)

DisposeThroughGates == OperationalGate \/ QuorumGate \/ Dispose \/ AbandonDisposal

Next ==
  \/ \E a \in Archives : Preserve(a)
  \/ HandleCallback \/ HandleGovernance \/ DisposeThroughGates
  \/ Restart \/ Tick

Spec == Init /\ [][Next]_vars

-----------------------------------------------------------------------------
\* Store, journal and gates hold what their readers expect.
TypeOK ==
  /\ archived \in [Archives -> Times \cup {NoTime}]
  /\ records \in Seq(Attestations) /\ Len(records) <= MaxRecords
  /\ journal \subseteq Events
  /\ keys \in Configurations
  /\ disposal \in [phase : {"idle", "acceptable", "quorate", "disposed"}, at : Times,
                   journal : SUBSET Events]
  /\ now \in Times

\* evidenceTimeAttestationStore.js, record: what was accepted never makes its
\* archive fail verification later, as long as its keys are configured.
AcceptedStaysValid ==
  \A a \in Archives :
    (archived[a] # NoTime /\ \A r \in RecordsOf(a) : KeyOf(r) # {}) => ArchiveVerifies(a)

\* docs/evidence-time-authority-policy.md:58-63: each layer only takes away
\* from the one below it, in whatever order keys, records and events changed.
LayersNest ==
  \A a \in Archives :
    /\ OperationalQuorum(a) => PolicyQuorum(a)
    /\ PolicyQuorum(a) => CryptographicQuorum(a)

\* docs/evidence-time-attestation-governance.md:8: what an event in effect
\* excludes is excluded for good.
ExclusionIsFinal ==
  [][\A r \in Recorded : ~Acceptable(r) => r \in ToSet(records') /\ ~Acceptable(r)']_vars

\* docs/evidence-time-attestation-governance.md:83-91: a disposition that
\* passed its gates had, for every version, enough providers that stood
\* behind an attestation which no event recorded before the gate excluded.
StandsBehind(p, a) ==
  \E r \in Recorded :
    /\ r.provider = p /\ r.archive = a
    /\ r.time - archived[a] \in (-Skew)..MaxDelay
    /\ \A e \in disposal.journal : e.effectiveAt > disposal.at \/ ~Applies(e, r)

DisposalHeedsJournal ==
  disposal.phase # "idle" =>
    \A a \in Archives :
      Cardinality({p \in Providers(Recorded) : StandsBehind(p, a)}) >= MinimumProviders
=============================================================================
