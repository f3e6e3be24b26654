------------------------ MODULE AssuranceExportsProofs ------------------------
(* Proofs about AssuranceExports, for every choice of its constants.         *)
EXTENDS AssuranceExports, FiniteSetTheorems, TLAPS

Approval == [state : States, approvers : Seq(Actors), late : BOOLEAN]

Bundle == [state : BundleStates, seal : 0..MaxSeals, token : 0..MaxClaims,
           late : BOOLEAN, lapsed : BOOLEAN]

-----------------------------------------------------------------------------
(* The inductive invariant.                                                 *)

\* Nobody is among the approvers of a record twice, its requester never, and
\* an approved one has enough of them.
GoodApproval(r, p) ==
  /\ p \in Approval
  /\ IsFiniteSet(ToSet(p.approvers)) /\ Cardinality(ToSet(p.approvers)) = Len(p.approvers)
  /\ Requester[r] \notin ToSet(p.approvers)
  /\ p.state = "approved" => Len(p.approvers) >= Quorum

\* A bundle was sealed and granted by enough others, and a delivered one was
\* received.
GoodBundle(b, x, by, received) ==
  /\ x \in Bundle /\ by \in SUBSET Actors
  /\ x.state # "none" => x.seal > 0 /\ Cardinality(by \ {Requester[b[1]]}) >= Quorum
  /\ x.state = "delivered" => \E h \in received : h[1] = b /\ h[2] = x.seal

Inv ==
  /\ TypeOK
  /\ \A r \in Requests : GoodApproval(r, approvals[r])
  /\ \A b \in BundleIds : GoodBundle(b, bundles[b], granted[b], held)

LEMMA NoneGood ==
  /\ \A r \in Requests : GoodApproval(r, NoApproval)
  /\ \A received : \A b \in BundleIds, by \in SUBSET Actors : GoodBundle(b, NoBundle, by, received)
<1>1. NoApproval \in Approval /\ ToSet(NoApproval.approvers) = {}
  BY DEF NoApproval, Approval, States, ToSet
<1>2. IsFiniteSet({}) /\ Cardinality({}) = 0
  BY FS_EmptySet
<1>3. Len(NoApproval.approvers) = 0 /\ NoApproval.state = "none"
  BY DEF NoApproval
<1>4. NoBundle \in Bundle /\ NoBundle.state = "none"
  BY ExportAssumption DEF NoBundle, Bundle, BundleStates
<1>5. QED BY <1>1, <1>2, <1>3, <1>4 DEF GoodApproval, GoodBundle

-----------------------------------------------------------------------------
(* What the helpers do to a good record.                                    *)

\* expireLocked.
LEMMA UnexpiredGood ==
  ASSUME Inv
  PROVE  /\ Unexpired \in [Requests -> Approval]
         /\ \A r \in Requests :
              /\ GoodApproval(r, Unexpired[r])
              /\ Unexpired[r].approvers = approvals[r].approvers
<1>1. ASSUME NEW r \in Requests
      PROVE  /\ GoodApproval(r, Unexpired[r])
             /\ Unexpired[r].approvers = approvals[r].approvers
  <2> DEFINE x == [approvals[r] EXCEPT !.state = "expired"]
  <2>1. GoodApproval(r, approvals[r]) /\ approvals[r] \in Approval
    BY DEF Inv, GoodApproval
  <2>2. x \in Approval /\ x.state = "expired" /\ x.approvers = approvals[r].approvers
    BY <2>1 DEF Approval, States
  <2>3. GoodApproval(r, x)
    BY <2>1, <2>2 DEF GoodApproval
  <2>4. Unexpired[r] = x \/ Unexpired[r] = approvals[r]
    BY DEF Unexpired
  <2>5. QED BY <2>1, <2>2, <2>3, <2>4
<1>2. Unexpired \in [Requests -> Approval]
  BY <1>1 DEF Unexpired, GoodApproval
<1>3. QED BY <1>1, <1>2

\* pruneLocked: each record is as it was or gone.
LEMMA PrunedRecords ==
  ASSUME NEW records, NEW done, NEW retention, NEW nothing,
         NEW p \in Pruned(records, done, retention, nothing)
  PROVE  /\ p = [x \in DOMAIN records |-> p[x]]
         /\ \A x \in DOMAIN records : p[x] = records[x] \/ p[x] = nothing
BY DEF Pruned

\* maintenanceLocked.
LEMMA MaintainedGood ==
  ASSUME Inv, NEW to
  PROVE  /\ Maintained(to) \in [BundleIds -> Bundle]
         /\ \A b \in BundleIds :
              /\ GoodBundle(b, Maintained(to)[b], granted[b], held)
              /\ Maintained(to)[b].seal = bundles[b].seal
              /\ Maintained(to)[b].state = "none" <=> bundles[b].state = "none"
<1>1. ASSUME NEW b \in BundleIds
      PROVE  /\ GoodBundle(b, Maintained(to)[b], granted[b], held)
             /\ Maintained(to)[b].seal = bundles[b].seal
             /\ Maintained(to)[b].state = "none" <=> bundles[b].state = "none"
  <2> DEFINE x == [bundles[b] EXCEPT !.state = "expired", !.token = 0]
             y == [bundles[b] EXCEPT !.state = "pending", !.token = 0, !.lapsed = FALSE]
  <2>1. GoodBundle(b, bundles[b], granted[b], held) /\ bundles[b] \in Bundle
    BY DEF Inv, GoodBundle
  <2>2. /\ x \in Bundle /\ x.state = "expired" /\ x.seal = bundles[b].seal
        /\ y \in Bundle /\ y.state = "pending" /\ y.seal = bundles[b].seal
    <3>1. {"expired", "pending"} \subseteq BundleStates /\ 0 \in 0..MaxClaims
      BY ExportAssumption DEF BundleStates
    <3>2. x \in Bundle
      BY <2>1, <3>1 DEF Bundle
    <3>3. y \in Bundle
      BY <2>1, <3>1 DEF Bundle
    <3>4. x.state = "expired" /\ x.seal = bundles[b].seal
      BY <2>1 DEF Bundle
    <3>5. y.state = "pending" /\ y.seal = bundles[b].seal
      BY <2>1 DEF Bundle
    <3>6. QED BY <3>2, <3>3, <3>4, <3>5
  <2>3. \/ Maintained(to)[b] = bundles[b]
        \/ bundles[b].state # "none" /\ (Maintained(to)[b] = x \/ Maintained(to)[b] = y)
    BY DEF Maintained
  <2> HIDE DEF x, y
  <2>4. QED BY <2>1, <2>2, <2>3 DEF GoodBundle
<1>2. Maintained(to) \in [BundleIds -> Bundle]
  BY <1>1 DEF Maintained, GoodBundle
<1>3. QED BY <1>1, <1>2

-----------------------------------------------------------------------------
(* Approvals.                                                               *)

ApprovalsGood == \A r \in Requests : GoodApproval(r, approvals[r])

\* approve: an approver counts once.
LEMMA ApproversGood ==
  ASSUME NEW r \in Requests, GoodApproval(r, approvals[r]),
         NEW a \in Actors, a # Requester[r]
  PROVE  LET by == Approvers(r, a)
         IN  /\ by \in Seq(Actors) /\ IsFiniteSet(ToSet(by))
             /\ Cardinality(ToSet(by)) = Len(by) /\ Requester[r] \notin ToSet(by)
<1> DEFINE old == approvals[r].approvers
<1>1. /\ old \in Seq(Actors) /\ IsFiniteSet(ToSet(old))
      /\ Cardinality(ToSet(old)) = Len(old) /\ Requester[r] \notin ToSet(old)
  BY DEF GoodApproval, Approval
<1>2. CASE a \in ToSet(old)
  BY <1>1, <1>2 DEF Approvers
<1>3. CASE a \notin ToSet(old)
  <2> DEFINE new == Append(old, a)
  <2>1. new \in Seq(Actors) /\ Len(new) = Len(old) + 1 /\ Approvers(r, a) = new
    BY <1>1, <1>3 DEF Approvers
  <2>2. ToSet(new) = ToSet(old) \cup {a}
    <3>1. DOMAIN new = 1..(Len(old) + 1) /\ DOMAIN old = 1..Len(old) /\ Len(old) \in Nat
      BY <1>1
    <3>2. new[Len(old) + 1] = a /\ \A i \in DOMAIN old : new[i] = old[i]
      BY <1>1, <3>1
    <3>3. DOMAIN new = DOMAIN old \cup {Len(old) + 1}
      BY <3>1
    <3> HIDE DEF new, old
    <3>4. QED BY <3>2, <3>3 DEF ToSet
  <2>3. IsFiniteSet(ToSet(new)) /\ Cardinality(ToSet(new)) = Cardinality(ToSet(old)) + 1
    BY <1>1, <1>3, <2>2, FS_AddElement
  <2>4. QED BY <1>1, <2>1, <2>2, <2>3
<1>4. QED BY <1>2, <1>3

LEMMA ApproveGood ==
  ASSUME Inv, NEW r \in Requests, NEW a \in Actors, ApproveAssuranceExport(r, a)
  PROVE  ApprovalsGood'
<1> DEFINE by == Approvers(r, a)
           outcome == IF Len(by) >= Quorum THEN "approved" ELSE "pending"
           x == [Unexpired[r] EXCEPT !.approvers = by, !.state = outcome]
<1>1. GoodApproval(r, approvals[r]) /\ a # Requester[r] /\ Unexpired[r].state = "pending"
  BY DEF Inv, ApproveAssuranceExport, Actionable
<1>2. /\ by \in Seq(Actors) /\ IsFiniteSet(ToSet(by))
      /\ Cardinality(ToSet(by)) = Len(by) /\ Requester[r] \notin ToSet(by)
  BY <1>1, ApproversGood
<1>3. /\ Unexpired \in [Requests -> Approval]
      /\ \A q \in Requests : GoodApproval(q, Unexpired[q])
  BY UnexpiredGood
<1>4. approvals' = [Unexpired EXCEPT ![r] = x]
  BY <1>1, <1>3 DEF ApproveAssuranceExport
<1> HIDE DEF by
<1>5. x \in Approval
  <2>1. outcome \in States
    BY DEF States
  <2> HIDE DEF outcome
  <2>2. QED BY <1>2, <1>3, <2>1 DEF Approval
<1>6. x.approvers = by /\ x.state = outcome
  BY <1>3 DEF Approval
<1> HIDE DEF x
<1>7. GoodApproval(r, x)
  BY <1>2, <1>5, <1>6 DEF GoodApproval
<1>8. QED BY <1>3, <1>4, <1>7 DEF ApprovalsGood

\* Every other change of a record only changes its state, and not to approved.
LEMMA RecordGood ==
  ASSUME NEW r \in Requests, NEW p, GoodApproval(r, p), NEW state \in States \ {"approved"}
  PROVE  GoodApproval(r, [p EXCEPT !.state = state])
<1> DEFINE x == [p EXCEPT !.state = state]
<1>1. p \in Approval
  BY DEF GoodApproval
<1>2. x \in Approval /\ x.approvers = p.approvers /\ x.state = state
  BY <1>1 DEF Approval
<1> HIDE DEF x
<1>3. GoodApproval(r, x)
  BY <1>2 DEF GoodApproval
<1>4. QED BY <1>3 DEF x

LEMMA ApprovalsKept == Inv /\ [Next]_vars => ApprovalsGood'
<1> SUFFICES ASSUME Inv, [Next]_vars PROVE ApprovalsGood'
  OBVIOUS
<1>1. /\ Unexpired \in [Requests -> Approval]
      /\ \A q \in Requests : GoodApproval(q, Unexpired[q])
  BY UnexpiredGood
<1>2. /\ approvals \in [Requests -> Approval]
      /\ \A q \in Requests : GoodApproval(q, approvals[q])
  BY DEF Inv, TypeOK, Approval
<1>3. {"pending", "rejected", "cancelled", "consumed"} \subseteq States \ {"approved"}
  BY DEF States
<1>4. CASE approvals' = approvals \/ approvals' = Unexpired
  BY <1>1, <1>2, <1>4 DEF ApprovalsGood
<1>5. ASSUME NEW r \in Requests, RequestAssuranceExport(r) PROVE ApprovalsGood'
  <2> DEFINE new == [Unexpired EXCEPT ![r].state = "pending"]
  <2>1. \A q \in Requests : GoodApproval(q, new[q])
    <3>1. GoodApproval(r, [Unexpired[r] EXCEPT !.state = "pending"])
      BY <1>1, <1>3, RecordGood
    <3>2. QED BY <1>1, <3>1
  <2>2. DOMAIN new = Requests
    BY <1>1
  <2> HIDE DEF new
  <2>3. CASE approvals' \in PrunedApprovals(new)
    <3>1. \A q \in Requests : approvals'[q] = new[q] \/ approvals'[q] = NoApproval
      BY <2>2, <2>3, PrunedRecords DEF PrunedApprovals
    <3>2. QED BY <2>1, <3>1, NoneGood DEF ApprovalsGood
  <2>4. QED BY <1>4, <1>5, <2>3 DEF RequestAssuranceExport, new
<1>6. ASSUME NEW r \in Requests, RefuseAssuranceExport(r) PROVE ApprovalsGood'
  <2>1. PICK outcome \in {"rejected", "cancelled"} :
          approvals' = [Unexpired EXCEPT ![r].state = outcome]
    BY <1>6 DEF RefuseAssuranceExport
  <2>2. GoodApproval(r, [Unexpired[r] EXCEPT !.state = outcome])
    BY <1>1, <1>3, RecordGood
  <2>3. QED BY <1>1, <2>1, <2>2 DEF ApprovalsGood
<1>7. ASSUME NEW r \in Requests, Consume(r) PROVE ApprovalsGood'
  <2>1. GoodApproval(r, [approvals[r] EXCEPT !.state = "consumed"])
    BY <1>2, <1>3, RecordGood
  <2>2. QED BY <1>2, <1>7, <2>1 DEF Consume, ApprovalsGood
<1>8. ASSUME NEW r \in Requests, RequestIsLate(r) PROVE ApprovalsGood'
  <2> DEFINE x == [approvals[r] EXCEPT !.late = TRUE]
  <2>1. x \in Approval /\ x.approvers = approvals[r].approvers /\ x.state = approvals[r].state
    BY <1>2 DEF Approval
  <2>2. approvals' = [approvals EXCEPT ![r] = x]
    BY <1>8 DEF RequestIsLate
  <2> HIDE DEF x
  <2>3. GoodApproval(r, x)
    BY <1>2, <2>1 DEF GoodApproval
  <2>4. QED BY <1>2, <2>2, <2>3 DEF ApprovalsGood
<1>9. QED
  BY <1>4, <1>5, <1>6, <1>7, <1>8, ApproveGood DEF Next, ApprovalRequest, RecipientRequest,
     GovernanceRequest, FinishMaterialisation, TimePasses, SectionsChange, Materialise,
     Claim, Acknowledge, Look, FailToConsume, BundleIsLate, vars

-----------------------------------------------------------------------------
(* Bundles.                                                                 *)

BundlesGood == \A b \in BundleIds : GoodBundle(b, bundles[b], granted[b], held)

\* What was received stays received.
LEMMA ReceivedMore ==
  ASSUME NEW b, NEW x, NEW by, NEW received, NEW more, received \subseteq more,
         GoodBundle(b, x, by, received)
  PROVE  GoodBundle(b, x, by, more)
BY DEF GoodBundle

\* What was pruned is none, the rest as good as before.
LEMMA PrunedGood ==
  ASSUME NEW records, DOMAIN records = BundleIds, NEW to, NEW by, NEW received,
         \A b \in BundleIds : GoodBundle(b, records[b], by[b], received),
         NEW p \in PrunedBundles(records, to)
  PROVE  \A b \in BundleIds : GoodBundle(b, p[b], by[b], received)
<1>1. \A b \in BundleIds : p[b] = records[b] \/ p[b] = NoBundle
  BY PrunedRecords DEF PrunedBundles
<1>2. \A b \in BundleIds : by[b] \in SUBSET Actors
  BY DEF GoodBundle
<1>3. QED BY <1>1, <1>2, NoneGood

LEMMA MaterialiseGood ==
  ASSUME Inv, NEW r \in Requests, Materialise(r)
  PROVE  BundlesGood'
<1> DEFINE id == <<r, moment>>
           to == Recipient[id[1]]
           new == [NoBundle EXCEPT !.state = "pending", !.seal = seals + 1]
           by == ToSet(approvals[r].approvers)
<1>1. /\ Maintained(to) \in [BundleIds -> Bundle]
      /\ \A b \in BundleIds : GoodBundle(b, Maintained(to)[b], granted[b], held)
  BY MaintainedGood
<1>2. id \in BundleIds /\ id[1] = r /\ held' = held /\ granted \in [BundleIds -> SUBSET Actors]
  BY DEF Inv, TypeOK, BundleIds, Materialise
<1>3. Cardinality(by \ {Requester[r]}) >= Quorum /\ by \in SUBSET Actors
  <2>1. /\ GoodApproval(r, approvals[r]) /\ GoodApproval(r, Unexpired[r])
        /\ Unexpired[r].approvers = approvals[r].approvers /\ Unexpired[r].state = "approved"
    BY UnexpiredGood DEF Inv, Materialise
  <2>2. /\ Requester[r] \notin by /\ Cardinality(by) = Len(approvals[r].approvers)
        /\ Len(approvals[r].approvers) >= Quorum /\ approvals[r].approvers \in Seq(Actors)
    BY <2>1 DEF GoodApproval, Approval
  <2>3. by \ {Requester[r]} = by
    BY <2>2
  <2>4. by \in SUBSET Actors
    BY <2>2 DEF ToSet
  <2> HIDE DEF by
  <2>5. QED BY <2>2, <2>3, <2>4
<1>4. Queue(id)
  BY DEF Materialise
<1> HIDE DEF by
<1>5. CASE bundles' = Maintained(to) /\ granted' = granted
  BY <1>1, <1>2, <1>5 DEF BundlesGood
<1>6. CASE /\ seals < MaxSeals /\ granted' = [granted EXCEPT ![id] = by]
           /\ \/ bundles' = [Maintained(to) EXCEPT ![id] = new]
              \/ bundles' \in PrunedBundles([Maintained(to) EXCEPT ![id] = new], to)
  <2> DEFINE all == [Maintained(to) EXCEPT ![id] = new]
  <2>1. new \in Bundle /\ new.state = "pending" /\ new.seal > 0
    <3>1. seals + 1 \in 0..MaxSeals /\ seals + 1 > 0
      BY <1>6, ExportAssumption DEF Inv, TypeOK
    <3>2. 0 \in 0..MaxClaims /\ "pending" \in BundleStates
      BY ExportAssumption DEF BundleStates
    <3>3. NoBundle \in Bundle
      BY ExportAssumption DEF NoBundle, Bundle, BundleStates
    <3>4. new \in Bundle
      BY <3>1, <3>2, <3>3 DEF Bundle
    <3>5. new.state = "pending" /\ new.seal = seals + 1
      BY <3>3 DEF Bundle
    <3>6. QED BY <3>1, <3>4, <3>5
  <2>2. GoodBundle(id, new, by, held)
    BY <1>2, <1>3, <2>1 DEF GoodBundle
  <2> HIDE DEF new
  <2>3. DOMAIN all = BundleIds
    BY <1>1
  <2>4. \A b \in BundleIds : GoodBundle(b, all[b], granted'[b], held)
    BY <1>1, <1>2, <1>6, <2>2
  <2> HIDE DEF all
  <2>5. CASE bundles' = all
    BY <1>2, <2>4, <2>5 DEF BundlesGood
  <2>6. CASE bundles' \in PrunedBundles(all, to)
    BY <1>2, <2>3, <2>4, <2>6, PrunedGood DEF BundlesGood
  <2>7. QED BY <1>6, <2>5, <2>6 DEF all
<1>7. QED
  BY <1>2, <1>4, <1>5, <1>6 DEF Queue, by

LEMMA ClaimGood ==
  ASSUME Inv, NEW to, Claim(to)
  PROVE  BundlesGood'
<1>1. /\ Maintained(to) \in [BundleIds -> Bundle]
      /\ \A b \in BundleIds : GoodBundle(b, Maintained(to)[b], granted[b], held)
  BY MaintainedGood
<1>2. PICK id \in BundleIds :
        /\ Maintained(to)[id].state = "pending" /\ claims < MaxClaims
        /\ bundles' = [Maintained(to) EXCEPT ![id].state = "claimed", ![id].token = claims + 1]
        /\ held \subseteq held' /\ granted' = granted
  BY DEF Claim
<1> DEFINE x == [Maintained(to)[id] EXCEPT !.state = "claimed", !.token = claims + 1]
<1>3. bundles' = [Maintained(to) EXCEPT ![id] = x]
  BY <1>1, <1>2
<1>4. x \in Bundle /\ x.state = "claimed" /\ x.seal = Maintained(to)[id].seal
  <2>1. claims + 1 \in 0..MaxClaims /\ "claimed" \in BundleStates
    BY <1>2, ExportAssumption DEF Inv, TypeOK, BundleStates
  <2>2. x \in Bundle
    BY <1>1, <2>1 DEF Bundle
  <2>3. x.state = "claimed" /\ x.seal = Maintained(to)[id].seal
    BY <1>1 DEF Bundle
  <2>4. QED BY <2>2, <2>3
<1> HIDE DEF x
<1>5. GoodBundle(id, x, granted[id], held)
  BY <1>1, <1>2, <1>4 DEF GoodBundle
<1>6. \A b \in BundleIds : GoodBundle(b, bundles'[b], granted[b], held)
  BY <1>1, <1>3, <1>5
<1>7. QED BY <1>2, <1>6, ReceivedMore DEF BundlesGood

LEMMA AcknowledgeGood ==
  ASSUME Inv, NEW h \in held, Acknowledge(h)
  PROVE  BundlesGood'
<1> DEFINE id == h[1]
           to == Recipient[id[1]]
           x == [Maintained(to)[id] EXCEPT !.state = "delivered", !.token = 0]
           all == [Maintained(to) EXCEPT ![id] = x]
<1>1. /\ Maintained(to) \in [BundleIds -> Bundle]
      /\ \A b \in BundleIds : GoodBundle(b, Maintained(to)[b], granted[b], held)
  BY MaintainedGood
<1>2. /\ Maintained(to)[id].state = "claimed" /\ Maintained(to)[id].seal = h[2]
      /\ bundles' \in PrunedBundles([Maintained(to) EXCEPT ![id].state = "delivered",
                                                            ![id].token = 0], to)
      /\ UNCHANGED <<held, granted>>
  BY DEF Acknowledge, ProofHolds
<1>3. id \in BundleIds
  BY DEF Inv, TypeOK
<1>4. bundles' \in PrunedBundles(all, to)
  BY <1>1, <1>2, <1>3
<1>5. x \in Bundle /\ x.state = "delivered" /\ x.seal = h[2]
  <2>1. 0 \in 0..MaxClaims /\ "delivered" \in BundleStates
    BY ExportAssumption DEF BundleStates
  <2>2. x \in Bundle
    BY <1>1, <1>3, <2>1 DEF Bundle
  <2>3. QED BY <1>1, <1>2, <1>3, <2>2 DEF Bundle
<1> HIDE DEF x
<1>6. GoodBundle(id, x, granted[id], held)
  BY <1>1, <1>2, <1>3, <1>5 DEF GoodBundle
<1>7. DOMAIN all = BundleIds /\ \A b \in BundleIds : GoodBundle(b, all[b], granted[b], held)
  BY <1>1, <1>3, <1>6
<1> HIDE DEF all
<1>8. QED BY <1>2, <1>4, <1>7, PrunedGood DEF BundlesGood

LEMMA BundlesKept == Inv /\ [Next]_vars => BundlesGood'
<1> SUFFICES ASSUME Inv, [Next]_vars PROVE BundlesGood'
  OBVIOUS
<1>1. CASE UNCHANGED <<bundles, granted, held>>
  BY <1>1 DEF Inv, BundlesGood
<1>2. ASSUME NEW to, Look(to) PROVE BundlesGood'
  BY <1>2, MaintainedGood DEF Look, BundlesGood
<1>3. ASSUME NEW id \in BundleIds, BundleIsLate(id) PROVE BundlesGood'
  <2> DEFINE x == [bundles[id] EXCEPT !.late = TRUE]
             y == [bundles[id] EXCEPT !.lapsed = TRUE]
  <2>1. \A b \in BundleIds : GoodBundle(b, bundles[b], granted[b], held)
    BY DEF Inv
  <2>2. bundles \in [BundleIds -> Bundle]
    BY DEF Inv, TypeOK, Bundle
  <2>3. x \in Bundle /\ x.state = bundles[id].state /\ x.seal = bundles[id].seal
    BY <2>2 DEF Bundle
  <2>4. y \in Bundle /\ y.state = bundles[id].state /\ y.seal = bundles[id].seal
    BY <2>2 DEF Bundle
  <2>5. /\ bundles' = [bundles EXCEPT ![id] = x] \/ bundles' = [bundles EXCEPT ![id] = y]
        /\ UNCHANGED <<granted, held>>
    BY <1>3 DEF BundleIsLate
  <2> HIDE DEF x, y
  <2>6. GoodBundle(id, x, granted[id], held) /\ GoodBundle(id, y, granted[id], held)
    BY <2>1, <2>3, <2>4 DEF GoodBundle
  <2>7. QED BY <2>1, <2>2, <2>5, <2>6 DEF BundlesGood
<1>4. QED
  BY <1>1, <1>2, <1>3, MaterialiseGood, ClaimGood, AcknowledgeGood DEF Next,
     ApprovalRequest, RecipientRequest, GovernanceRequest, FinishMaterialisation, TimePasses,
     SectionsChange, RequestAssuranceExport, RefuseAssuranceExport, ApproveAssuranceExport,
     Consume, FailToConsume, RequestIsLate, Exporting, vars

-----------------------------------------------------------------------------
(* Types.                                                                   *)

LEMMA InitInv == Init => Inv
<1> SUFFICES ASSUME Init PROVE Inv
  OBVIOUS
<1>1. /\ \A r \in Requests : GoodApproval(r, approvals[r])
      /\ \A b \in BundleIds : GoodBundle(b, bundles[b], granted[b], held)
  BY NoneGood DEF Init
<1>2. /\ approvals \in [Requests -> Approval] /\ bundles \in [BundleIds -> Bundle]
      /\ granted \in [BundleIds -> SUBSET Actors]
  BY <1>1 DEF Init, GoodApproval, GoodBundle
<1>3. QED BY <1>1, <1>2, ExportAssumption DEF Init, Inv, TypeOK, Approval, Bundle

\* Functions stay functions; what their values are is in the lemmas above.
LEMMA DomainsKept ==
  Inv /\ [Next]_vars =>
    /\ approvals' = [r \in Requests |-> approvals'[r]]
    /\ bundles' = [b \in BundleIds |-> bundles'[b]]
    /\ granted' = [b \in BundleIds |-> granted'[b]]
<1> SUFFICES ASSUME Inv, [Next]_vars
             PROVE  /\ approvals' = [r \in Requests |-> approvals'[r]]
                    /\ bundles' = [b \in BundleIds |-> bundles'[b]]
                    /\ granted' = [b \in BundleIds |-> granted'[b]]
  OBVIOUS
<1>1. /\ approvals \in [Requests -> Approval] /\ Unexpired \in [Requests -> Approval]
      /\ bundles \in [BundleIds -> Bundle] /\ granted \in [BundleIds -> SUBSET Actors]
      /\ \A to : Maintained(to) \in [BundleIds -> Bundle]
  BY UnexpiredGood, MaintainedGood DEF Inv, TypeOK, Approval, Bundle
<1>2. approvals' = [r \in Requests |-> approvals'[r]]
  <2>1. ASSUME NEW r \in Requests, RequestAssuranceExport(r)
        PROVE  approvals' = [q \in Requests |-> approvals'[q]]
    <3> DEFINE new == [Unexpired EXCEPT ![r].state = "pending"]
    <3>1. DOMAIN new = Requests
      BY <1>1
    <3>2. approvals' = Unexpired \/ approvals' \in PrunedApprovals(new)
      BY <2>1 DEF RequestAssuranceExport
    <3> HIDE DEF new
    <3>3. approvals' \in PrunedApprovals(new) =>
            approvals' = [q \in DOMAIN new |-> approvals'[q]]
      BY PrunedRecords DEF PrunedApprovals
    <3>4. QED BY <1>1, <3>1, <3>2, <3>3
  <2>2. QED
    BY <1>1, <2>1 DEF Next, ApprovalRequest, RecipientRequest, GovernanceRequest,
       FinishMaterialisation, TimePasses, SectionsChange, RefuseAssuranceExport,
       ApproveAssuranceExport, Materialise, Claim, Acknowledge, Look, Consume,
       FailToConsume, RequestIsLate, BundleIsLate, Exporting, vars
<1>3. ASSUME NEW to, NEW x,
             bundles' \in PrunedBundles(x, to), DOMAIN x = BundleIds
      PROVE  bundles' = [b \in BundleIds |-> bundles'[b]]
  <2>1. bundles' = [b \in DOMAIN x |-> bundles'[b]]
    BY <1>3, PrunedRecords DEF PrunedBundles
  <2>2. QED BY <1>3, <2>1
<1>4. ASSUME NEW r \in Requests, Materialise(r)
      PROVE  /\ bundles' = [b \in BundleIds |-> bundles'[b]]
             /\ granted' = [b \in BundleIds |-> granted'[b]]
  <2> DEFINE id == <<r, moment>>
             to == Recipient[id[1]]
             new == [NoBundle EXCEPT !.state = "pending", !.seal = seals + 1]
             all == [Maintained(to) EXCEPT ![id] = new]
  <2>1. Queue(id) /\ id \in BundleIds
    BY <1>4 DEF Materialise, Inv, TypeOK, BundleIds
  <2>2. DOMAIN all = BundleIds
    BY <1>1
  <2>3. bundles' = Maintained(to) \/ bundles' = all \/ bundles' \in PrunedBundles(all, to)
    BY <2>1 DEF Queue
  <2>4. granted' = granted \/ granted' = [granted EXCEPT ![id] = ToSet(approvals[r].approvers)]
    BY <2>1 DEF Queue
  <2>5. granted' = [b \in BundleIds |-> granted'[b]]
    BY <1>1, <2>4
  <2>6. bundles' = all => bundles' = [b \in BundleIds |-> bundles'[b]]
    BY <1>1
  <2> HIDE DEF all
  <2>7. QED BY <1>1, <1>3, <2>1, <2>2, <2>3, <2>5, <2>6
<1>5. ASSUME NEW h \in held, Acknowledge(h)
      PROVE  bundles' = [b \in BundleIds |-> bundles'[b]]
  <2> DEFINE to == Recipient[h[1][1]]
             all == [Maintained(to) EXCEPT ![h[1]].state = "delivered", ![h[1]].token = 0]
  <2>1. bundles' \in PrunedBundles(all, to) /\ h[1] \in BundleIds
    BY <1>5 DEF Acknowledge, Inv, TypeOK
  <2>2. DOMAIN all = BundleIds
    BY <1>1
  <2> HIDE DEF all
  <2>3. QED BY <1>3, <2>1, <2>2
<1>6. ASSUME NEW to, Claim(to) \/ Look(to)
      PROVE  bundles' = [b \in BundleIds |-> bundles'[b]]
  BY <1>1, <1>6 DEF Claim, Look
<1>7. ASSUME NEW id \in BundleIds, BundleIsLate(id)
      PROVE  bundles' = [b \in BundleIds |-> bundles'[b]]
  BY <1>1, <1>7 DEF BundleIsLate
<1>8. bundles' = [b \in BundleIds |-> bundles'[b]]
  BY <1>1, <1>4, <1>5, <1>6, <1>7 DEF Next, ApprovalRequest, RecipientRequest,
     GovernanceRequest, FinishMaterialisation, TimePasses, SectionsChange,
     RequestAssuranceExport, RefuseAssuranceExport, ApproveAssuranceExport, Consume,
     FailToConsume, RequestIsLate, Exporting, vars
<1>9. granted' = [b \in BundleIds |-> granted'[b]]
  BY <1>1, <1>4 DEF Next, ApprovalRequest, RecipientRequest, GovernanceRequest,
     FinishMaterialisation, TimePasses, SectionsChange, RequestAssuranceExport,
     RefuseAssuranceExport, ApproveAssuranceExport, Claim, Acknowledge, Look, Consume,
     FailToConsume, RequestIsLate, BundleIsLate, Exporting, vars
<1>10. QED BY <1>2, <1>8, <1>9

LEMMA CountersKept ==
  Inv /\ [Next]_vars =>
    /\ moment' \in 0..MaxMoments /\ holder' \in SUBSET Requests
    /\ seals' \in 0..MaxSeals /\ claims' \in 0..MaxClaims
    /\ held' \subseteq BundleIds \X (1..MaxSeals) \X (1..MaxClaims)
<1> SUFFICES ASSUME Inv, [Next]_vars
             PROVE  /\ moment' \in 0..MaxMoments /\ holder' \in SUBSET Requests
                    /\ seals' \in 0..MaxSeals /\ claims' \in 0..MaxClaims
                    /\ held' \subseteq BundleIds \X (1..MaxSeals) \X (1..MaxClaims)
  OBVIOUS
<1>1. /\ moment \in 0..MaxMoments /\ holder \in SUBSET Requests
      /\ seals \in 0..MaxSeals /\ claims \in 0..MaxClaims
      /\ held \subseteq BundleIds \X (1..MaxSeals) \X (1..MaxClaims)
  BY DEF Inv, TypeOK
<1>2. ASSUME NEW r \in Requests, Materialise(r)
      PROVE  seals' \in 0..MaxSeals /\ holder' \in SUBSET Requests
  BY <1>1, <1>2, ExportAssumption DEF Materialise, Queue
<1>3. ASSUME NEW to, Claim(to)
      PROVE  /\ claims' \in 0..MaxClaims
             /\ held' \subseteq BundleIds \X (1..MaxSeals) \X (1..MaxClaims)
  <2>1. PICK id \in BundleIds :
          /\ Maintained(to)[id].state = "pending" /\ claims < MaxClaims /\ claims' = claims + 1
          /\ held' = held \cup {<<id, bundles[id].seal, claims + 1>>} \/ held' = held
    BY <1>3 DEF Claim
  <2>2. bundles[id] \in Bundle /\ bundles[id].seal > 0
    BY <2>1, MaintainedGood DEF Inv, GoodBundle
  <2>3. bundles[id].seal \in 1..MaxSeals /\ claims + 1 \in 1..MaxClaims
    BY <1>1, <2>1, <2>2, ExportAssumption DEF Bundle
  <2>4. claims' \in 0..MaxClaims
    BY <2>1, <2>3
  <2>5. QED BY <1>1, <2>1, <2>3, <2>4
<1>4. CASE SectionsChange
  BY <1>1, <1>4, ExportAssumption DEF SectionsChange
<1>5. QED
  BY <1>1, <1>2, <1>3, <1>4 DEF Next, ApprovalRequest, RecipientRequest, GovernanceRequest,
     FinishMaterialisation, TimePasses, SectionsChange, RequestAssuranceExport,
     RefuseAssuranceExport, ApproveAssuranceExport, Materialise, Claim, Acknowledge, Look,
     Consume, FailToConsume, RequestIsLate, BundleIsLate, Exporting, vars

LEMMA InvKept == Inv /\ [Next]_vars => Inv'
<1> SUFFICES ASSUME Inv, [Next]_vars PROVE Inv'
  OBVIOUS
<1>1. /\ \A r \in Requests : GoodApproval(r, approvals'[r])
      /\ \A b \in BundleIds : GoodBundle(b, bundles'[b], granted'[b], held')
  BY ApprovalsKept, BundlesKept DEF ApprovalsGood, BundlesGood
<1>2. /\ approvals' \in [Requests -> Approval] /\ bundles' \in [BundleIds -> Bundle]
      /\ granted' \in [BundleIds -> SUBSET Actors]
  BY <1>1, DomainsKept DEF GoodApproval, GoodBundle
<1>3. TypeOK'
  BY <1>2, CountersKept DEF TypeOK, Approval, Bundle
<1>4. QED BY <1>1, <1>3 DEF Inv

-----------------------------------------------------------------------------
\* The inductive invariant.
THEOREM ExportInvariant == Spec => []Inv
BY InitInv, InvKept, PTL DEF Spec

\* docs/assurance-export-approvals.md:7: two approvers other than the requester
\* stood behind every bundle, whatever was pruned, asked again or sealed again.
THEOREM BundlesAreApproved == Spec => []ExportsAreApproved
<1>1. Inv => ExportsAreApproved
  BY DEF Inv, GoodBundle, ExportsAreApproved
<1>2. QED BY <1>1, ExportInvariant, PTL

\* acknowledgeSigned: no late or repeated acknowledgement makes a package
\* delivered that its recipient never received.
THEOREM DeliveriesWereReceived == Spec => []DeliveredWasReceived
<1>1. Inv => DeliveredWasReceived
  BY DEF Inv, GoodBundle, DeliveredWasReceived
<1>2. QED BY <1>1, ExportInvariant, PTL
=============================================================================
