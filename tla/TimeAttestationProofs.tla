------------------------- MODULE TimeAttestationProofs -------------------------
(* Proofs about TimeAttestation, for every choice of its constants.           *)
EXTENDS TimeAttestation, FiniteSetTheorems, TLAPS

-----------------------------------------------------------------------------
(* Finite sets.                                                              *)

\* A set that is indexed by a finite set is finite.
LEMMA IndexedFinite ==
  ASSUME NEW S, IsFiniteSet(S), NEW f, DOMAIN f = S
  PROVE  IsFiniteSet({f[x] : x \in S})
<1> DEFINE T == {f[x] : x \in S}
           g == [x \in S |-> f[x]]
<1>1. g \in Surjection(S, T)
  BY DEF Surjection
<1>2. QED BY <1>1, FS_Surjection DEF ExistsSurjection

LEMMA RecordedFinite == TypeOK => IsFiniteSet(Recorded)
<1> SUFFICES ASSUME TypeOK PROVE IsFiniteSet(Recorded)
  OBVIOUS
<1>1. Len(records) \in Nat /\ DOMAIN records = 1..Len(records)
  BY DEF TypeOK
<1>2. IsFiniteSet(DOMAIN records)
  BY <1>1, FS_Interval
<1>3. IsFiniteSet({records[i] : i \in DOMAIN records})
  BY <1>2, IndexedFinite
<1>4. QED BY <1>3 DEF Recorded, ToSet

\* The providers of finitely many records are finitely many.
LEMMA ProvidersFinite ==
  ASSUME NEW rs, IsFiniteSet(rs)
  PROVE  IsFiniteSet(Providers(rs))
<1> DEFINE f == [r \in rs |-> r.provider]
<1>1. IsFiniteSet({f[r] : r \in rs})
  BY IndexedFinite
<1>2. {f[r] : r \in rs} = Providers(rs)
  BY DEF Providers
<1>3. QED BY <1>1, <1>2

\* More records have no fewer providers.
LEMMA QuorumGrows ==
  ASSUME NEW rs, IsFiniteSet(rs), NEW qs \in SUBSET rs, Quorum(qs)
  PROVE  Quorum(rs)
<1>1. Providers(qs) \in SUBSET Providers(rs)
  BY DEF Providers
<1>2. IsFiniteSet(Providers(rs))
  BY ProvidersFinite
<1>3. /\ Cardinality(Providers(qs)) \in Nat /\ Cardinality(Providers(rs)) \in Nat
      /\ Cardinality(Providers(qs)) <= Cardinality(Providers(rs))
  BY <1>1, <1>2, FS_Subset, FS_CardinalityType
<1>4. MinimumProviders \in Nat
  BY AttestationAssumption
<1>5. QED BY <1>3, <1>4 DEF Quorum

\* list returns records of its archive.
LEMMA ListedRecorded ==
  ASSUME NEW a, NEW limit
  PROVE  Listed(a, limit) \in SUBSET RecordsOf(a)
BY DEF Listed, RecordsOf, Recorded, ToSet

-----------------------------------------------------------------------------
(* The inductive invariant.                                                 *)

\* What was accepted was timely, and will be: the clock only goes on.
AcceptedInTime ==
  \A r \in Recorded : archived[r.archive] # NoTime /\ Timely(r)

\* What a disposition saw archived stays archived when it was.
Gated == disposal.phase # "idle" => \A a \in Archives : archived[a] # NoTime

Inv == TypeOK /\ AcceptedInTime /\ Gated /\ DisposalHeedsJournal

LEMMA InitInv == Init => Inv
<1> SUFFICES ASSUME Init PROVE Inv
  OBVIOUS
<1>1. TypeOK
  BY AttestationAssumption DEF Init, TypeOK, Times, NoDisposal
<1>2. AcceptedInTime
  BY DEF Init, AcceptedInTime, Recorded, ToSet
<1>3. Gated /\ DisposalHeedsJournal
  BY DEF Init, Gated, DisposalHeedsJournal, NoDisposal
<1>4. QED BY <1>1, <1>2, <1>3 DEF Inv

LEMMA TypesKept == TypeOK /\ [Next]_vars => TypeOK'
<1> SUFFICES ASSUME TypeOK, [Next]_vars PROVE TypeOK'
  OBVIOUS
<1>1. ASSUME NEW a \in Archives, Preserve(a) PROVE TypeOK'
  BY <1>1 DEF Preserve, TypeOK
<1>2. ASSUME NEW r \in Attestations, SubmitAttestation(r) PROVE TypeOK'
  <2>1. /\ Len(records) < MaxRecords /\ records' = Append(records, r)
        /\ UNCHANGED <<archived, journal, keys, disposal, now>>
    BY <1>2 DEF SubmitAttestation, Store
  <2>2. records' \in Seq(Attestations) /\ Len(records') = Len(records) + 1
    BY <2>1 DEF TypeOK
  <2>3. Len(records') <= MaxRecords
    BY <2>1, <2>2, AttestationAssumption DEF TypeOK
  <2>4. QED BY <2>1, <2>2, <2>3 DEF TypeOK
<1>3. ASSUME NEW e \in Events, RecordGovernanceEvent(e) PROVE TypeOK'
  BY <1>3 DEF RecordGovernanceEvent, Journalled, TypeOK
<1>4. CASE OperationalGate
  <2>1. disposal' \in [phase : {"idle", "acceptable", "quorate", "disposed"}, at : Times,
                       journal : SUBSET Events]
    BY <1>4 DEF OperationalGate, TypeOK
  <2>2. QED BY <1>4, <2>1 DEF OperationalGate, TypeOK
<1>5. CASE QuorumGate
  BY <1>5 DEF QuorumGate, TypeOK
<1>6. CASE Dispose
  BY <1>6 DEF Dispose, TypeOK
<1>7. NoDisposal \in [phase : {"idle", "acceptable", "quorate", "disposed"}, at : Times,
                      journal : SUBSET Events]
  BY AttestationAssumption DEF NoDisposal, Times
<1>8. CASE AbandonDisposal
  BY <1>7, <1>8 DEF AbandonDisposal, TypeOK
<1>9. CASE Restart
  BY <1>7, <1>9 DEF Restart, TypeOK
<1>10. CASE Tick
  BY <1>10, AttestationAssumption DEF Tick, TypeOK, Times
<1>11. CASE UNCHANGED vars
  BY <1>11 DEF vars, TypeOK
<1>12. QED
  BY <1>1, <1>2, <1>3, <1>4, <1>5, <1>6, <1>8, <1>9, <1>10, <1>11
     DEF Next, HandleCallback, HandleGovernance, DisposeThroughGates

\* What no step takes back: records, times of archiving, events, the clock.
LEMMA OnlyMore ==
  TypeOK /\ [Next]_vars =>
    /\ Recorded \subseteq Recorded'
    /\ \A a \in Archives : archived[a] # NoTime => archived'[a] = archived[a]
    /\ journal \subseteq journal'
    /\ now' \in Times /\ now <= now'
<1> SUFFICES ASSUME TypeOK, [Next]_vars
             PROVE  /\ Recorded \subseteq Recorded'
                    /\ \A a \in Archives : archived[a] # NoTime => archived'[a] = archived[a]
                    /\ journal \subseteq journal'
                    /\ now' \in Times /\ now <= now'
  OBVIOUS
<1>1. now' \in Times /\ now <= now'
  <2>1. now' = now \/ now' = now + 1
    BY DEF Next, HandleCallback, HandleGovernance, DisposeThroughGates, Preserve,
       SubmitAttestation, RecordGovernanceEvent, OperationalGate, QuorumGate, Dispose,
       AbandonDisposal, Restart, Tick, vars
  <2>2. now \in Nat
    BY DEF TypeOK, Times
  <2>3. QED BY <2>1, <2>2, TypesKept DEF TypeOK
<1>2. Recorded \subseteq Recorded'
  <2>1. ASSUME NEW r, records' = Append(records, r) PROVE Recorded \subseteq Recorded'
    <3>1. records \in Seq(Attestations)
      BY DEF TypeOK
    <3>2. DOMAIN records = 1..Len(records) /\ DOMAIN records' = 1..(Len(records) + 1)
      BY <2>1, <3>1
    <3>3. \A i \in DOMAIN records : i \in DOMAIN records' /\ records'[i] = records[i]
      BY <2>1, <3>1, <3>2
    <3>4. QED BY <3>3 DEF Recorded, ToSet
  <2>2. records' = records \/ \E r \in Attestations : records' = Append(records, r)
    BY DEF Next, HandleCallback, HandleGovernance, DisposeThroughGates, Preserve,
       SubmitAttestation, Store, RecordGovernanceEvent, OperationalGate, QuorumGate,
       Dispose, AbandonDisposal, Restart, Tick, vars
  <2>3. QED BY <2>1, <2>2 DEF Recorded
<1>3. \A a \in Archives : archived[a] # NoTime => archived'[a] = archived[a]
  <2>1. archived' = archived \/ \E a \in Archives : Preserve(a)
    BY DEF Next, HandleCallback, HandleGovernance, DisposeThroughGates, SubmitAttestation,
       RecordGovernanceEvent, OperationalGate, QuorumGate, Dispose, AbandonDisposal,
       Restart, Tick, vars
  <2>2. QED BY <2>1 DEF Preserve, TypeOK
<1>4. journal \subseteq journal'
  BY DEF Next, HandleCallback, HandleGovernance, DisposeThroughGates, Preserve,
     SubmitAttestation, RecordGovernanceEvent, Journalled, OperationalGate, QuorumGate,
     Dispose, AbandonDisposal, Restart, Tick, vars
<1>5. QED BY <1>1, <1>2, <1>3, <1>4

LEMMA AcceptedKept == Inv /\ [Next]_vars => AcceptedInTime'
<1> SUFFICES ASSUME Inv, [Next]_vars, NEW r \in Recorded'
             PROVE  archived'[r.archive] # NoTime /\ Timely(r)'
  BY DEF AcceptedInTime
<1>1. TypeOK /\ AcceptedInTime
  BY DEF Inv
<1>2. archived' = archived \/ \E a \in Archives : Preserve(a)
  BY DEF Next, HandleCallback, HandleGovernance, DisposeThroughGates, SubmitAttestation,
     RecordGovernanceEvent, OperationalGate, QuorumGate, Dispose, AbandonDisposal,
     Restart, Tick, vars
<1>3. r \in Attestations /\ r.archive \in Archives /\ r.time \in Nat
  <2>1. records' \in Seq(Attestations)
    BY <1>1, TypesKept DEF TypeOK
  <2>2. r \in Attestations
    BY <2>1 DEF Recorded, ToSet
  <2>3. QED BY <2>2, AttestationAssumption DEF Times
<1>4. archived[r.archive] # NoTime /\ Timely(r)
  <2>1. CASE r \in Recorded
    BY <1>1, <2>1 DEF AcceptedInTime
  <2>2. CASE r \notin Recorded
    <3>1. PICK s \in Attestations : Store(s)
      BY <2>2 DEF Next, HandleCallback, HandleGovernance, DisposeThroughGates, Preserve,
         SubmitAttestation, RecordGovernanceEvent, OperationalGate, QuorumGate, Dispose,
         AbandonDisposal, Restart, Tick, vars, Recorded
    <3>2. r = s
      <4>1. records \in Seq(Attestations) /\ records' = Append(records, s)
        BY <1>1, <3>1 DEF TypeOK, Store
      <4>2. PICK i \in DOMAIN records' : r = records'[i]
        BY DEF Recorded, ToSet
      <4>3. CASE i \in DOMAIN records
        BY <2>2, <4>1, <4>2, <4>3 DEF Recorded, ToSet
      <4>4. CASE i \notin DOMAIN records
        <5>1. i = Len(records) + 1
          BY <4>1, <4>4
        <5>2. QED BY <4>1, <4>2, <5>1
      <4>5. QED BY <4>3, <4>4
    <3>3. QED BY <3>1, <3>2 DEF Store
  <2>3. QED BY <2>1, <2>2
<1>5. archived'[r.archive] = archived[r.archive] /\ now <= now' /\ now' \in Nat
  BY <1>1, <1>3, <1>4, OnlyMore DEF Times
<1>6. archived[r.archive] \in Nat /\ now \in Nat
  BY <1>1, <1>3, <1>4 DEF TypeOK, Times
<1>7. Skew \in Nat /\ MaxDelay \in Nat
  BY AttestationAssumption
<1>8. QED BY <1>3, <1>4, <1>5, <1>6, <1>7 DEF Timely

-----------------------------------------------------------------------------
(* The layers and the gates.                                                *)

\* verifyArchives of the policy: what the listing was too short for is an
\* error, so that what goes on has all the records of the archive.
LEMMA EvaluableListed ==
  ASSUME TypeOK, NEW a, PolicyEvaluable(a)
  PROVE  Listed(a, ArchiveLimit) = RecordsOf(a) /\ IsFiniteSet(RecordsOf(a))
<1>1. RecordsOf(a) \in SUBSET Recorded
  BY DEF RecordsOf
<1>2. IsFiniteSet(RecordsOf(a))
  BY <1>1, RecordedFinite, FS_Subset
<1>3. Listed(a, ArchiveLimit) \in SUBSET RecordsOf(a)
  BY ListedRecorded
<1>4. QED BY <1>2, <1>3, FS_Subset DEF PolicyEvaluable

LEMMA LayersInclude == TypeOK => LayersNest
<1> SUFFICES ASSUME TypeOK, NEW a \in Archives
             PROVE  /\ OperationalQuorum(a) => PolicyQuorum(a)
                    /\ PolicyQuorum(a) => CryptographicQuorum(a)
  BY DEF LayersNest
<1>1. ASSUME OperationalQuorum(a) PROVE PolicyQuorum(a)
  <2> DEFINE trusted == {r \in Listed(a, ArchiveLimit) : Trusted(r)}
  <2>1. PolicyEvaluable(a) /\ Quorum(EffectiveRecords(a))
    BY <1>1 DEF OperationalQuorum
  <2>2. Listed(a, ArchiveLimit) = RecordsOf(a) /\ IsFiniteSet(RecordsOf(a))
    BY <2>1, EvaluableListed
  <2>3. Listed(a, ListLimit) \in SUBSET RecordsOf(a)
    BY ListedRecorded
  <2>4. EffectiveRecords(a) \in SUBSET trusted
    BY <2>2, <2>3 DEF EffectiveRecords
  <2>5. trusted \in SUBSET RecordsOf(a)
    BY <2>2
  <2> HIDE DEF trusted
  <2>6. IsFiniteSet(trusted)
    BY <2>2, <2>5, FS_Subset
  <2>7. Quorum(trusted)
    BY <2>1, <2>4, <2>6, QuorumGrows
  <2>8. QED BY <2>1, <2>7 DEF PolicyQuorum, trusted
<1>2. ASSUME PolicyQuorum(a) PROVE CryptographicQuorum(a)
  <2> DEFINE trusted == {r \in Listed(a, ArchiveLimit) : Trusted(r)}
  <2>1. PolicyEvaluable(a) /\ Quorum(trusted)
    BY <1>2 DEF PolicyQuorum
  <2>2. Listed(a, ArchiveLimit) = RecordsOf(a) /\ IsFiniteSet(RecordsOf(a))
    BY <2>1, EvaluableListed
  <2>3. trusted \in SUBSET RecordsOf(a)
    BY <2>2
  <2> HIDE DEF trusted
  <2>4. Quorum(RecordsOf(a))
    BY <2>1, <2>2, <2>3, QuorumGrows
  <2>5. QED BY <2>1, <2>4 DEF CryptographicQuorum, PolicyEvaluable
<1>3. QED BY <1>1, <1>2

\* Who stands behind a version, according to a gate that was passed.
Backers(a) == {p \in Providers(Recorded) : StandsBehind(p, a)}

\* dispose of the governance registry: the gate is passed by backers enough.
LEMMA GateCounts ==
  ASSUME Inv, OperationalGate, TypeOK', NEW a \in Archives
  PROVE  Cardinality(Backers(a)') >= MinimumProviders
<1>1. /\ TypeOK /\ AcceptedInTime
      /\ archived[a] # NoTime /\ OperationalQuorum(a)
      /\ disposal' = [phase |-> "acceptable", at |-> now, journal |-> journal]
      /\ UNCHANGED <<archived, records, journal>>
  BY DEF Inv, OperationalGate, CurrentOperationalPosture
<1>2. Quorum(EffectiveRecords(a))
  BY <1>1 DEF OperationalQuorum
<1>3. ASSUME NEW r \in EffectiveRecords(a)
      PROVE  r.provider \in Backers(a)'
  <2>1. r \in Listed(a, ListLimit) /\ Acceptable(r)
    BY DEF EffectiveRecords
  <2>2. r \in Recorded /\ r.archive = a
    BY <2>1, ListedRecorded DEF RecordsOf
  <2>3. Timely(r)
    BY <1>1, <2>2 DEF AcceptedInTime
  <2>4. r \in Attestations
    BY <1>1, <2>2 DEF TypeOK, Recorded, ToSet
  <2>5. r.time \in Nat /\ archived[a] \in Nat /\ Skew \in Nat /\ MaxDelay \in Nat
    BY <1>1, <2>4, AttestationAssumption DEF TypeOK, Times
  <2>6. r.time - archived[a] \in (-Skew)..MaxDelay
    BY <2>2, <2>3, <2>5 DEF Timely
  <2>7. \A e \in disposal'.journal : e.effectiveAt > disposal'.at \/ ~Applies(e, r)
    <3>1. \A e \in journal : e.effectiveAt <= now => ~Applies(e, r)
      BY <2>1 DEF Acceptable
    <3>2. now \in Nat /\ \A e \in journal : e.effectiveAt \in Nat
      BY <1>1, AttestationAssumption DEF TypeOK, Times
    <3>3. QED BY <1>1, <3>1, <3>2
  <2>8. r \in Recorded' /\ r.provider \in Providers(Recorded)'
    BY <1>1, <2>2 DEF Recorded, Providers
  <2>9. StandsBehind(r.provider, a)'
    BY <1>1, <2>2, <2>6, <2>7, <2>8 DEF StandsBehind
  <2>10. QED BY <2>8, <2>9 DEF Backers
<1>4. Providers(EffectiveRecords(a)) \in SUBSET (Backers(a)')
  BY <1>3 DEF Providers
<1>5. IsFiniteSet(Backers(a)')
  <2>1. IsFiniteSet(Recorded)
    BY <1>1, RecordedFinite
  <2>2. IsFiniteSet(Providers(Recorded))
    BY <2>1, ProvidersFinite
  <2>3. Backers(a)' \in SUBSET Providers(Recorded)
    BY <1>1 DEF Backers, Recorded, Providers
  <2>4. QED BY <2>2, <2>3, FS_Subset
<1>6. /\ Cardinality(Providers(EffectiveRecords(a))) \in Nat
      /\ Cardinality(Backers(a)') \in Nat
      /\ Cardinality(Providers(EffectiveRecords(a))) <= Cardinality(Backers(a)')
  BY <1>4, <1>5, FS_Subset, FS_CardinalityType
<1>7. QED BY <1>2, <1>6, AttestationAssumption DEF Quorum

\* As records are only added, what backed a disposition goes on to.
LEMMA BackersKept ==
  ASSUME Inv, [Next]_vars, NEW a \in Archives, disposal.phase # "idle",
         disposal'.at = disposal.at, disposal'.journal = disposal.journal
  PROVE  Cardinality(Backers(a)') >= MinimumProviders
<1>1. TypeOK /\ TypeOK' /\ Gated
  BY TypesKept DEF Inv
<1>2. Recorded \subseteq Recorded' /\ archived'[a] = archived[a]
  BY <1>1, OnlyMore DEF Gated
<1>3. Backers(a) \in SUBSET (Backers(a)')
  BY <1>2 DEF Backers, Providers, StandsBehind
<1>4. IsFiniteSet(Backers(a)')
  <2>1. IsFiniteSet(Recorded)'
    BY <1>1, RecordedFinite, PTL
  <2>2. IsFiniteSet(Providers(Recorded'))
    BY <2>1, ProvidersFinite
  <2>3. Backers(a)' \in SUBSET Providers(Recorded')
    BY DEF Backers, Providers
  <2>4. QED BY <2>2, <2>3, FS_Subset
<1>5. /\ Cardinality(Backers(a)) \in Nat /\ Cardinality(Backers(a)') \in Nat
      /\ Cardinality(Backers(a)) <= Cardinality(Backers(a)')
  BY <1>3, <1>4, FS_Subset, FS_CardinalityType
<1>6. Cardinality(Backers(a)) >= MinimumProviders
  BY DEF Inv, DisposalHeedsJournal, Backers
<1>7. QED BY <1>5, <1>6, AttestationAssumption

LEMMA DisposalKept == Inv /\ [Next]_vars => Gated' /\ DisposalHeedsJournal'
<1> SUFFICES ASSUME Inv, [Next]_vars PROVE Gated' /\ DisposalHeedsJournal'
  OBVIOUS
<1>1. TypeOK /\ TypeOK' /\ Gated
  BY TypesKept DEF Inv
<1>2. CASE disposal'.phase = "idle"
  BY <1>2 DEF Gated, DisposalHeedsJournal
<1>3. CASE OperationalGate
  <2>1. \A a \in Archives : archived'[a] # NoTime
    BY <1>3 DEF OperationalGate, CurrentOperationalPosture
  <2>2. \A a \in Archives : Cardinality(Backers(a)') >= MinimumProviders
    BY <1>1, <1>3, GateCounts
  <2>3. QED BY <2>1, <2>2 DEF Gated, DisposalHeedsJournal, Backers
<1>4. CASE /\ disposal.phase # "idle"
           /\ disposal'.at = disposal.at /\ disposal'.journal = disposal.journal
  <2>1. \A a \in Archives : archived'[a] # NoTime
    BY <1>1, <1>4, OnlyMore DEF Gated
  <2>2. \A a \in Archives : Cardinality(Backers(a)') >= MinimumProviders
    BY <1>4, BackersKept
  <2>3. QED BY <2>1, <2>2 DEF Gated, DisposalHeedsJournal, Backers
<1>5. CASE UNCHANGED disposal
  BY <1>2, <1>4, <1>5
<1>6. CASE QuorumGate \/ Dispose
  BY <1>1, <1>4, <1>6 DEF QuorumGate, Dispose, TypeOK
<1>7. CASE AbandonDisposal \/ Restart
  BY <1>2, <1>5, <1>7 DEF AbandonDisposal, Restart, NoDisposal
<1>8. QED
  BY <1>3, <1>5, <1>6, <1>7 DEF Next, HandleCallback, HandleGovernance,
     DisposeThroughGates, Preserve, SubmitAttestation, RecordGovernanceEvent, Tick, vars

-----------------------------------------------------------------------------
\* The inductive invariant.
THEOREM AttestationInvariant == Spec => []Inv
<1>1. Inv /\ [Next]_vars => Inv'
  BY TypesKept, AcceptedKept, DisposalKept DEF Inv
<1>2. QED BY <1>1, InitInv, PTL DEF Spec

\* evidenceTimeAttestationStore.js, record: what was accepted never makes its
\* archive fail verification later, as long as its keys are configured.
THEOREM AcceptanceLasts == Spec => []AcceptedStaysValid
<1>1. Inv => AcceptedStaysValid
  BY DEF Inv, AcceptedInTime, AcceptedStaysValid, ArchiveVerifies, RecordsOf, Verifies
<1>2. QED BY <1>1, AttestationInvariant, PTL

\* docs/evidence-time-authority-policy.md:58-63: store, policy and governance
\* each count providers that the layer below counts as well.
THEOREM LayersTakeAway == Spec => []LayersNest
<1>1. Inv => LayersNest
  BY LayersInclude DEF Inv
<1>2. QED BY <1>1, AttestationInvariant, PTL

\* docs/evidence-time-attestation-governance.md:83-91: a disposition that
\* passed its gates heeded every event recorded before them.
THEOREM DispositionsHeedJournal == Spec => []DisposalHeedsJournal
<1>1. Inv => DisposalHeedsJournal
  BY DEF Inv
<1>2. QED BY <1>1, AttestationInvariant, PTL

\* docs/evidence-time-attestation-governance.md:8: no later event, attestation
\* or restart brings back what an event in effect excludes.
THEOREM ExclusionsLast == Spec => ExclusionIsFinal
<1>1. Inv /\ [Next]_vars =>
        [\A r \in Recorded : ~Acceptable(r) => r \in ToSet(records') /\ ~Acceptable(r)']_vars
  <2> SUFFICES ASSUME Inv, [Next]_vars, NEW r \in Recorded, ~Acceptable(r)
               PROVE  r \in ToSet(records') /\ ~Acceptable(r)'
    OBVIOUS
  <2>1. PICK e \in journal : e.effectiveAt <= now /\ Applies(e, r)
    BY DEF Acceptable
  <2>2. TypeOK /\ e \in journal' /\ now <= now' /\ now' \in Nat
    BY OnlyMore DEF Inv, Times
  <2>3. now \in Nat /\ e.effectiveAt \in Nat
    BY <2>2, AttestationAssumption DEF TypeOK, Times
  <2>4. e.effectiveAt <= now'
    BY <2>1, <2>2, <2>3
  <2>5. ~Acceptable(r)'
    BY <2>1, <2>2, <2>4 DEF Acceptable
  <2>6. r \in ToSet(records')
    BY <2>2, OnlyMore DEF Recorded
  <2>7. QED BY <2>5, <2>6
<1>2. QED BY <1>1, AttestationInvariant, PTL DEF Spec, ExclusionIsFinal
=============================================================================
