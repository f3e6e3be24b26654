--------------------------- MODULE AssuranceExports ---------------------------
(***************************************************************************)
(* Export of evidence to an external recipient: a request that others      *)
(* approve (evidenceAssuranceExportApprovalStore.js), its materialisation  *)
(* as a sealed bundle (evidenceAssuranceBundleRegistry.js), and the pull   *)
(* of the bundle by the recipient (evidenceAssuranceBundleStore.js).       *)
(*                                                                         *)
(* Approvals and bundles are two stores with two locks.  Materialisation   *)
(* holds the lock of the approvals while it queues the bundle and then     *)
(* consumes the approval; between the two, recipients go on, and the       *)
(* process may die or the second write fail.  A record is late from some   *)
(* moment on: no duration is fixed.  Records are pruned in any order, the  *)
(* code takes the oldest.  Signatures, nonces and sizes are left out.      *)
(***************************************************************************)
EXTENDS Integers, FiniteSets, Sequences, SequencesExt

CONSTANTS
  Requests,     \* what may be asked for: version, recipient, purpose, requester
  Actors,       \* who asks and approves
  Requester,    \* Requester[r]
  Recipient,    \* Recipient[r]
  Quorum,       \* requiredApprovals
  ApprovalRetention,
  BundleRetention,
  MaxMoments,   \* bound on the changes of what a bundle holds
  MaxSeals,     \* bound on packages ever sealed
  MaxClaims     \* bound on claims ever made

ASSUME ExportAssumption ==
  /\ Requester \in [Requests -> Actors] /\ DOMAIN Recipient = Requests
  /\ Quorum \in Nat \ {0} /\ ApprovalRetention \in Nat /\ BundleRetention \in Nat
  /\ MaxMoments \in Nat /\ MaxSeals \in Nat /\ MaxClaims \in Nat

Recipients == {Recipient[r] : r \in Requests}

\* bundleIdFor: the request, and what the sections of the bundle were then.
\* They hold the head of the tenant's custody chain and the time at which
\* governance was evaluated, so the same request gives another bundle later.
BundleIds == Requests \X (0..MaxMoments)

VARIABLES
  approvals,  \* the approval records: [Requests -> record]
  bundles,    \* the bundle records: [BundleIds -> record]
  moment,     \* what the sections of a bundle hold now
  holder,     \* the request whose materialisation holds the approvals' lock
  held,       \* external: what recipients received: bundle, seal and token
  seals,      \* how many packages were sealed
  claims,     \* how many claims were made
  granted     \* history: who approved when the bundle was queued

vars == <<approvals, bundles, moment, holder, held, seals, claims, granted>>

States == {"none", "pending", "approved", "rejected", "cancelled", "expired", "consumed"}
BundleStates == {"none", "pending", "claimed", "delivered", "expired"}
Refused == {"rejected", "cancelled", "expired"}

NoApproval == [state |-> "none", approvers |-> <<>>, late |-> FALSE]
NoBundle == [state |-> "none", seal |-> 0, token |-> 0, late |-> FALSE, lapsed |-> FALSE]

Init ==
  /\ approvals = [r \in Requests |-> NoApproval]
  /\ bundles = [b \in BundleIds |-> NoBundle]
  /\ moment = 0 /\ holder = {} /\ held = {} /\ seals = 0 /\ claims = 0
  /\ granted = [b \in BundleIds |-> {}]

-----------------------------------------------------------------------------
(* What every operation does first, and what it prunes.                    *)

\* expireLocked: only what is still pending expires.
Unexpired ==
  [r \in Requests |->
     IF approvals[r].state = "pending" /\ approvals[r].late
     THEN [approvals[r] EXCEPT !.state = "expired"] ELSE approvals[r]]

\* maintenanceLocked: a lapsed claim is pending again, a late bundle expires.
Maintained(to) ==
  [b \in BundleIds |->
     IF Recipient[b[1]] # to \/ bundles[b].state \notin {"pending", "claimed"} THEN bundles[b]
     ELSE IF bundles[b].late THEN [bundles[b] EXCEPT !.state = "expired", !.token = 0]
     ELSE IF bundles[b].lapsed
          THEN [bundles[b] EXCEPT !.state = "pending", !.token = 0, !.lapsed = FALSE]
     ELSE bundles[b]]

\* pruneLocked: what is left of the records when the ended ones are too many.
Pruned(records, done, retention, nothing) ==
  {[x \in DOMAIN records |-> IF x \in gone THEN nothing ELSE records[x]] :
     gone \in {s \in SUBSET done :
                 Cardinality(s) = IF Cardinality(done) > retention
                                  THEN Cardinality(done) - retention ELSE 0}}

PrunedApprovals(records) ==
  Pruned(records, {r \in Requests : records[r].state \in Refused \cup {"consumed"}},
         ApprovalRetention, NoApproval)

PrunedBundles(records, to) ==
  Pruned(records, {b \in BundleIds : /\ Recipient[b[1]] = to
                                     /\ records[b].state \in {"delivered", "expired"}},
         BundleRetention, NoBundle)

Exporting == <<bundles, moment, held, seals, claims, granted>>

-----------------------------------------------------------------------------
(* Approvals: every operation takes the lock of the store.                 *)

\* requestAssuranceExport and request: what is there already stays.
RequestAssuranceExport(r) ==
  /\ holder = {}
  /\ IF approvals[r].state # "none"
     THEN approvals' = Unexpired
     ELSE approvals' \in PrunedApprovals([Unexpired EXCEPT ![r].state = "pending"])
  /\ UNCHANGED <<Exporting, holder>>

\* Mutant: an approver counts as often as it approves.
Approvers_Again(r, a) == Append(approvals[r].approvers, a)

Approvers(r, a) ==
  IF a \in ToSet(approvals[r].approvers) THEN approvals[r].approvers
  ELSE Append(approvals[r].approvers, a)

\* mutate and assertPending: what is late is expired before the operation.
Actionable(r) == holder = {} /\ Unexpired[r].state = "pending"

ApproveAssuranceExport(r, a) ==
  /\ Actionable(r) /\ a # Requester[r]
  /\ approvals' = [Unexpired EXCEPT
       ![r].approvers = Approvers(r, a),
       ![r].state = IF Len(Approvers(r, a)) >= Quorum THEN "approved" ELSE @]
  /\ UNCHANGED <<Exporting, holder>>

\* Anyone may reject; only the requester cancels.
RefuseAssuranceExport(r) ==
  /\ Actionable(r)
  /\ \E outcome \in {"rejected", "cancelled"} :
       approvals' = [Unexpired EXCEPT ![r].state = outcome]
  /\ UNCHANGED <<Exporting, holder>>

-----------------------------------------------------------------------------
(* Materialisation.                                                        *)

\* queue: a bundle that is there stays, one that expired is sealed again.
Queue(b) ==
  LET to == Recipient[b[1]]
      known == Maintained(to)
      new == [NoBundle EXCEPT !.state = "pending", !.seal = seals + 1]
  IN IF known[b].state \notin {"none", "expired"}
     THEN bundles' = known /\ UNCHANGED <<seals, granted>>
     ELSE /\ seals < MaxSeals /\ seals' = seals + 1
          /\ granted' = [granted EXCEPT ![b] = ToSet(approvals[b[1]].approvers)]
          /\ IF known[b].state = "expired"
             THEN bundles' = [known EXCEPT ![b] = new]
             ELSE bundles' \in PrunedBundles([known EXCEPT ![b] = new], to)

\* createAssuranceBundle of an approved request, up to the queued bundle.
Materialise(r) ==
  /\ holder = {} /\ Unexpired[r].state = "approved"
  /\ approvals' = Unexpired /\ holder' = {r}
  /\ Queue(<<r, moment>>)
  /\ UNCHANGED <<moment, held, claims>>

\* executeApproved: the record is written last.
Consume(r) ==
  /\ r \in holder /\ holder' = {}
  /\ approvals' = [approvals EXCEPT ![r].state = "consumed"]
  /\ UNCHANGED Exporting

\* The process dies or the write fails: the approval is as it was.
FailToConsume ==
  /\ holder # {} /\ holder' = {}
  /\ UNCHANGED <<approvals, Exporting>>

-----------------------------------------------------------------------------
(* The recipient.                                                          *)

\* claimSigned: file by file, and the answer may be lost, or one write fails.
Claim(to) ==
  /\ \E b \in BundleIds :
       /\ Maintained(to)[b].state = "pending" /\ Recipient[b[1]] = to
       /\ claims < MaxClaims /\ claims' = claims + 1
       /\ bundles' = [Maintained(to) EXCEPT ![b].state = "claimed", ![b].token = claims + 1]
       /\ \/ held' = held \cup {<<b, bundles[b].seal, claims + 1>>}
          \/ UNCHANGED held
  /\ UNCHANGED <<approvals, moment, holder, seals, granted>>

\* Mutant: an active claim is enough.
ProofHolds_Active(record, seal, token) == TRUE

ProofHolds(record, seal, token) == record.seal = seal /\ record.token = token

\* acknowledgeSigned, with whatever token the recipient still has.
Acknowledge(h) ==
  LET b == h[1]
      to == Recipient[b[1]]
      record == Maintained(to)[b]
  IN /\ record.state = "claimed" /\ ProofHolds(record, h[2], h[3])
     /\ bundles' \in PrunedBundles([Maintained(to) EXCEPT ![b].state = "delivered",
                                                          ![b].token = 0], to)
     /\ UNCHANGED <<approvals, moment, holder, held, seals, claims, granted>>

\* list, tenantStatus, and calls that fail after their maintenance.
Look(to) ==
  /\ bundles' = Maintained(to)
  /\ UNCHANGED <<approvals, moment, holder, held, seals, claims, granted>>

-----------------------------------------------------------------------------
(* Time, and the rest of the evidence.                                     *)

RequestIsLate(r) ==
  /\ approvals[r].state # "none" /\ ~approvals[r].late
  /\ approvals' = [approvals EXCEPT ![r].late = TRUE]
  /\ UNCHANGED <<Exporting, holder>>

BundleIsLate(b) ==
  /\ bundles[b].state \in {"pending", "claimed"}
  /\ \/ ~bundles[b].late /\ bundles' = [bundles EXCEPT ![b].late = TRUE]
     \/ /\ bundles[b].state = "claimed" /\ ~bundles[b].lapsed
        /\ bundles' = [bundles EXCEPT ![b].lapsed = TRUE]
  /\ UNCHANGED <<approvals, moment, holder, held, seals, claims, granted>>

SectionsChange ==
  /\ moment < MaxMoments /\ moment' = moment + 1
  /\ UNCHANGED <<approvals, bundles, holder, held, seals, claims, granted>>

-----------------------------------------------------------------------------
\* The routes of requesters, approvers and those who materialise.
ApprovalRequest ==
  \E r \in Requests :
    \/ RequestAssuranceExport(r) \/ RefuseAssuranceExport(r) \/ Materialise(r)
    \/ \E a \in Actors : ApproveAssuranceExport(r, a)

\* The signed routes of recipients.
RecipientRequest ==
  \/ \E to \in Recipients : Claim(to)
  \/ \E h \in held : Acknowledge(h)

\* The other routes of bundles only look.
GovernanceRequest == \E to \in Recipients : Look(to)

\* executeApproved ends.
FinishMaterialisation == (\E r \in Requests : Consume(r)) \/ FailToConsume

TimePasses ==
  \/ \E r \in Requests : RequestIsLate(r)
  \/ \E b \in BundleIds : BundleIsLate(b)

Next ==
  \/ ApprovalRequest \/ RecipientRequest \/ GovernanceRequest
  \/ FinishMaterialisation \/ TimePasses \/ SectionsChange

Spec == Init /\ [][Next]_vars

-----------------------------------------------------------------------------
TypeOK ==
  /\ approvals \in [Requests -> [state : States, approvers : Seq(Actors), late : BOOLEAN]]
  /\ bundles \in [BundleIds -> [state : BundleStates, seal : 0..MaxSeals,
                                token : 0..MaxClaims, late : BOOLEAN, lapsed : BOOLEAN]]
  /\ moment \in 0..MaxMoments /\ holder \in SUBSET Requests
  /\ seals \in 0..MaxSeals /\ claims \in 0..MaxClaims
  /\ held \subseteq BundleIds \X (1..MaxSeals) \X (1..MaxClaims)
  /\ granted \in [BundleIds -> SUBSET Actors]

\* docs/assurance-export-approvals.md:7, "two distinct approvers in addition
\* to the requester": they stood behind every bundle, in the life of the
\* request from which it came, although requests are pruned and made again.
ExportsAreApproved ==
  \A b \in BundleIds : bundles[b].state # "none" =>
    Cardinality(granted[b] \ {Requester[b[1]]}) >= Quorum

\* acknowledgeSigned: what counts as delivered is a package the recipient
\* received, not an older or newer one of the same bundle.
DeliveredWasReceived ==
  \A b \in BundleIds : bundles[b].state = "delivered" =>
    \E h \in held : h[1] = b /\ h[2] = bundles[b].seal

\* docs/assurance-export-approvals.md:9, "An approved request can be
\* materialised exactly once."  It holds of one life of a request.
MaterialisedOnce ==
  \A r \in Requests : Cardinality({b \in BundleIds : b[1] = r /\ granted[b] # {}}) <= 1
=============================================================================
