--------------------------- MODULE EvidenceCustody ---------------------------
(***************************************************************************)
(* One item of evidence from ingestion to disposition: the custody index   *)
(* and the content files (evidenceRegistry.js), the write-once objects and *)
(* receipts (evidencePreservationStore.js), the gate that                  *)
(* evidencePreservationRegistry.js puts in front of disposition, and the   *)
(* guard that evidenceServer.js holds while a finding that refers to the   *)
(* item is created.                                                        *)
(*                                                                         *)
(* Several processes share the directory.  The guard and the changes of    *)
(* the index take the same mutex; what is read before it is taken may be   *)
(* out of date.  It has no fencing token: who is suspended for longer than *)
(* leaseMs is evicted, and saves the index that it loaded all the same,    *)
(* because withLock looks at its ownership only before and after.  Such an *)
(* operation is in "late", an evicted disposition in "disposal".  Bytes,   *)
(* digests and the event chain are left out: a content is there or not.    *)
(***************************************************************************)
EXTENDS Integers, FiniteSets

CONSTANTS
  MaxVersion,  \* bound on the versions of the item
  MaxTime,     \* bound on the clock
  MaxFaults,   \* bound on crashes and failing calls
  Required     \* requiredForDisposition

ASSUME CustodyAssumption ==
  /\ MaxVersion \in Nat \ {0} /\ MaxTime \in Nat /\ MaxFaults \in Nat /\ Required \in BOOLEAN

Versions == 1..MaxVersion
Times == 0..MaxTime

\* archiveIdFor: an archive is of one version, for one date.
Archives == Versions \X Times

VARIABLES
  index,      \* the item in the index file
  contents,   \* the versions whose content file is there
  doubted,    \* history: an index was in place though its saving threw
  late,       \* what evicted holders of the mutex may still write
  overtaken,  \* history: one of them wrote over what it had not seen
  objects,    \* the preservation objects
  receipts,   \* the preservation receipts
  archiving,  \* the preservation under way, and what it has read
  finding,    \* the finding that refers to the item
  mutex,      \* what holds the mutex of the tenant's evidence
  disposal,   \* the disposition under way, and what its gate has seen
  now,        \* the clock
  faults      \* how many calls failed or processes died

custodyVars == <<index, contents, doubted>>
lateVars == <<late, overtaken>>
archiveVars == <<objects, receipts, archiving>>
vars == <<custodyVars, lateVars, archiveVars, finding, mutex, disposal, now, faults>>

NoItem == [versions |-> 0, until |-> 0, hold |-> FALSE, status |-> "none", purging |-> FALSE]
NoArchiving == [phase |-> "idle", archive |-> <<1, 0>>]

\* versions and until are what the gate has seen, item is what was loaded.
NoDisposal == [phase |-> "idle", versions |-> 0, until |-> 0, item |-> NoItem, evicted |-> FALSE]

Init ==
  /\ index = NoItem /\ contents = {} /\ doubted = FALSE /\ late = {} /\ overtaken = FALSE
  /\ objects = {} /\ receipts = {} /\ archiving = NoArchiving
  /\ finding = "none" /\ mutex = "free" /\ disposal = NoDisposal
  /\ now = 0 /\ faults = 0

Fault == faults < MaxFaults /\ faults' = faults + 1

Active == index.status = "active"

Stored == 1..index.versions

\* decryptContent: the content of a version that the index knows.
Readable(v) == v \in Stored /\ v \in contents

\* verify: every version of the item if it is active.
Intact == Active => \A v \in Stored : Readable(v)

-----------------------------------------------------------------------------
(* Custody.                                                                *)

\* Mutant: the index is saved first.
Store_IndexFirst(next) ==
  \/ contents' = contents \cup {next.versions} /\ index' = next /\ UNCHANGED <<doubted, faults>>
  \/ contents' = contents /\ index' = next /\ UNCHANGED doubted /\ Fault

\* The content is written, then the index with it.  The handler of a failing
\* save removes the content, although saveIndex also throws when only the
\* syncing after its rename fails.  A process that dies leaves the content.
Store(next) ==
  \/ /\ contents' = contents \cup {next.versions} /\ index' = next
     /\ UNCHANGED <<doubted, faults>>
  \/ /\ contents' = contents \cup {next.versions} /\ index' = index
     /\ UNCHANGED doubted /\ Fault
  \/ /\ contents' = contents \ {next.versions} /\ index' = index
     /\ UNCHANGED doubted /\ Fault
  \/ /\ contents' = contents \ {next.versions} /\ index' = next
     /\ doubted' = TRUE /\ Fault

\* Whether someone who was evicted may not act without doing harm: the index
\* is another one than it expects, or somebody else has the mutex.
Intrudes(expected) == index # expected \/ mutex # "free"

\* The content that a late operation adds.
Adds(r) == r.next.versions > r.loaded.versions

\* Two uploads for one version, because one of them is late.
Meets(v, others) == \E r \in others : Adds(r) /\ r.next.versions = v

\* What is loaded is not saved in time.  It may also be loaded after the mutex
\* was lost.
Suspend(next) ==
  /\ late' = late \cup {[loaded |-> index, next |-> next, due |-> next.versions > index.versions]}
  /\ Fault
  /\ UNCHANGED <<custodyVars, overtaken, archiveVars, finding, mutex, disposal, now>>

\* ingest: the identifier is new, so what fails leaves nothing known, and one
\* that is late does nothing to the item that it would not do in time.
Ingest(until) ==
  /\ index.status = "none" /\ mutex = "free" /\ ~overtaken
  /\ until > now
  /\ Store([NoItem EXCEPT !.versions = 1, !.until = until, !.status = "active"])
  /\ index' # index
  /\ UNCHANGED <<lateVars, archiveVars, finding, mutex, disposal, now>>

NewVersion(until) == [index EXCEPT !.versions = @ + 1, !.until = until]

\* addVersion, without a date or with a new one.
AddVersion(until) ==
  /\ Active /\ index.versions < MaxVersion
  /\ until = index.until \/ until > now
  /\ index.hold => until >= index.until
  /\ \/ /\ mutex = "free" /\ Store(NewVersion(until))
        /\ overtaken' = (overtaken \/ Meets(index.versions + 1, late))
        /\ UNCHANGED <<late, archiveVars, finding, mutex, disposal, now>>
     \/ Suspend(NewVersion(until))

\* mutate: load, change, save.  A save that throws has done nothing, or all.
Mutate(next) ==
  \/ /\ mutex = "free" /\ index' = next
     /\ UNCHANGED <<contents, doubted, lateVars, archiveVars, finding, mutex, disposal, now, faults>>
  \/ Suspend(next)

PlaceLegalHold == Active /\ ~index.hold /\ Mutate([index EXCEPT !.hold = TRUE])

ReleaseLegalHold == Active /\ index.hold /\ Mutate([index EXCEPT !.hold = FALSE])

\* A change of another item of the tenant saves this one as it was loaded.
ChangeOther == Suspend(index)

-----------------------------------------------------------------------------
(* What evicted holders of the mutex still do.                             *)

\* The content first, if it is due.
LateContent(r) ==
  /\ r.due
  /\ contents' = contents \cup {r.next.versions}
  /\ late' = (late \ {r}) \cup {[r EXCEPT !.due = FALSE]}
  /\ overtaken' = (overtaken \/ Intrudes(r.loaded) \/ Meets(r.next.versions, late \ {r}))
  /\ UNCHANGED <<index, doubted, archiveVars, finding, mutex, disposal, now, faults>>

\* Then the index: saved, or thrown, after which the handler of an upload
\* removes its content.
LateSave(r) ==
  /\ ~r.due
  /\ \/ index' = r.next /\ UNCHANGED <<contents, doubted, faults>>
     \/ /\ contents' = IF Adds(r) THEN contents \ {r.next.versions} ELSE contents
        /\ \/ index' = r.next /\ doubted' = (doubted \/ Adds(r))
           \/ UNCHANGED <<index, doubted>>
        /\ Fault
  /\ late' = late \ {r}
  /\ overtaken' = (overtaken \/ Intrudes(r.loaded) \/ (Adds(r) /\ Meets(r.next.versions, late \ {r})))
  /\ UNCHANGED <<archiveVars, finding, mutex, disposal, now>>

\* It never gets to it.
LateStops(r) ==
  /\ late' = late \ {r}
  /\ UNCHANGED <<custodyVars, overtaken, archiveVars, finding, mutex, disposal, now, faults>>

-----------------------------------------------------------------------------
(* Preservation.                                                           *)

\* preserveEvidence: the item and its content, read without the mutex.
ReadForPreservation(v) ==
  /\ archiving.phase = "idle"
  /\ Active /\ Readable(v)
  /\ archiving' = [phase |-> "read", archive |-> <<v, index.until>>]
  /\ UNCHANGED <<custodyVars, lateVars, objects, receipts, finding, mutex, disposal, now, faults>>

\* preserve: the object first, unless it is there.
WriteObject ==
  /\ archiving.phase = "read"
  /\ objects' = objects \cup {archiving.archive}
  /\ archiving' = [archiving EXCEPT !.phase = "object"]
  /\ UNCHANGED <<custodyVars, lateVars, receipts, finding, mutex, disposal, now, faults>>

\* Then its receipt, also when it was missing from an earlier attempt.
WriteReceipt ==
  /\ archiving.phase = "object"
  /\ receipts' = receipts \cup {archiving.archive}
  /\ archiving' = NoArchiving
  /\ UNCHANGED <<custodyVars, lateVars, objects, finding, mutex, disposal, now, faults>>

ArchivingStops ==
  /\ archiving.phase # "idle" /\ Fault
  /\ archiving' = NoArchiving
  /\ UNCHANGED <<custodyVars, lateVars, objects, receipts, finding, mutex, disposal, now>>

\* verifiedForVersion, which fails when there is an object without a receipt.
Verified(v, until) == <<v, until>> \in objects /\ <<v, until>> \in receipts

-----------------------------------------------------------------------------
(* References.                                                             *)

\* validateFindingEvidence: the guard, then assertUsableReferences.
GuardReference ==
  /\ finding = "none" /\ mutex = "free"
  /\ Active /\ Readable(index.versions)
  /\ mutex' = "finding" /\ finding' = "validated"
  /\ UNCHANGED <<custodyVars, lateVars, archiveVars, disposal, now, faults>>

\* The buffered request is forwarded: it commits the finding, or refuses it.
CommitFinding ==
  /\ finding = "validated" /\ finding' = "created"
  /\ UNCHANGED <<custodyVars, lateVars, archiveVars, mutex, disposal, now, faults>>

RefuseFinding ==
  /\ finding = "validated" /\ finding' = "none"
  /\ UNCHANGED <<custodyVars, lateVars, archiveVars, mutex, disposal, now, faults>>

\* The response is finished; or the connection is closed, which may be while
\* the forwarded request still waits to be authenticated.
ReleaseGuard ==
  /\ mutex = "finding" /\ mutex' = "free"
  /\ UNCHANGED <<custodyVars, lateVars, archiveVars, finding, disposal, now, faults>>

\* What holds the mutex takes longer than leaseMs, or its lock is taken for a
\* stale one.  It goes on.
MutexLapses ==
  /\ mutex # "free" /\ Fault
  /\ mutex' = "free"
  /\ disposal' = [disposal EXCEPT !.evicted = @ \/ mutex = "disposal"]
  /\ UNCHANGED <<custodyVars, lateVars, archiveVars, finding, now>>

-----------------------------------------------------------------------------
(* Disposition, from the outside in.                                       *)

\* findingReferences, in the handler.
LookForReferences ==
  /\ disposal.phase = "idle" /\ Active
  /\ finding # "created"
  /\ disposal' = [disposal EXCEPT !.phase = "unreferenced"]
  /\ UNCHANGED <<custodyVars, lateVars, archiveVars, finding, mutex, now, faults>>

\* Mutant: an object is enough.
PassGate_ObjectOnly ==
  /\ disposal.phase = "unreferenced" /\ Active
  /\ Required => \A v \in Stored : <<v, index.until>> \in objects
  /\ disposal' = [disposal EXCEPT !.phase = "gated", !.versions = index.versions,
                                  !.until = index.until]
  /\ UNCHANGED <<custodyVars, lateVars, archiveVars, finding, mutex, now, faults>>

\* dispose of the preservation registry: every version it reads of the item.
PassGate ==
  /\ disposal.phase = "unreferenced" /\ Active
  /\ Required => \A v \in Stored : Verified(v, index.until)
  /\ disposal' = [disposal EXCEPT !.phase = "gated", !.versions = index.versions,
                                  !.until = index.until]
  /\ UNCHANGED <<custodyVars, lateVars, archiveVars, finding, mutex, now, faults>>

\* Mutant: without a look at the hold.
LoadForDisposal_HoldUnseen ==
  /\ disposal.phase = "gated" /\ mutex = "free"
  /\ Active /\ index.until <= now
  /\ mutex' = "disposal" /\ disposal' = [disposal EXCEPT !.phase = "checked", !.item = index]
  /\ UNCHANGED <<custodyVars, lateVars, archiveVars, finding, now, faults>>

\* Mutant: without the mutex of the guard.
LoadForDisposal_Unguarded ==
  /\ disposal.phase = "gated"
  /\ Active /\ ~index.hold /\ index.until <= now
  /\ disposal' = [disposal EXCEPT !.phase = "checked", !.item = index]
  /\ UNCHANGED <<custodyVars, lateVars, archiveVars, finding, mutex, now, faults>>

\* dispose of the custody registry, under the mutex, or already evicted.
LoadForDisposal ==
  /\ disposal.phase = "gated"
  /\ Active /\ ~index.hold /\ index.until <= now
  /\ \E evicted \in BOOLEAN :
       /\ IF evicted THEN Fault /\ UNCHANGED mutex
                     ELSE mutex = "free" /\ mutex' = "disposal" /\ UNCHANGED faults
       /\ disposal' = [disposal EXCEPT !.phase = "checked", !.item = index, !.evicted = evicted]
  /\ UNCHANGED <<custodyVars, lateVars, archiveVars, finding, now>>

\* The item that it has in memory, with purgePending.
Tombstone(pending) == [disposal.item EXCEPT !.status = "disposed", !.purging = pending]

\* What an evicted disposition does to the history.
DisposalMeets(expected) == overtaken' = (overtaken \/ (disposal.evicted /\ Intrudes(expected)))

\* Its mutex is released if it is still its own.
ReleaseDisposal ==
  disposal' = NoDisposal /\ mutex' = IF disposal.evicted THEN mutex ELSE "free"

\* The tombstone is saved.
CommitDisposal ==
  /\ disposal.phase = "checked"
  /\ index' = Tombstone(TRUE) /\ DisposalMeets(disposal.item)
  /\ disposal' = [disposal EXCEPT !.phase = "purging"]
  /\ UNCHANGED <<contents, doubted, late, archiveVars, finding, mutex, now, faults>>

Purged == 1..disposal.item.versions

\* The removals: some of them may fail, which ends the purge.
RemoveContents ==
  /\ disposal.phase = "purging"
  /\ DisposalMeets(Tombstone(TRUE))
  /\ \/ contents' = contents \ Purged /\ disposal' = [disposal EXCEPT !.phase = "purged"]
        /\ UNCHANGED <<mutex, faults>>
     \/ \E left \in SUBSET (contents \cap Purged) \ {{}} :
          contents' = (contents \ Purged) \cup left /\ ReleaseDisposal /\ Fault
  /\ UNCHANGED <<index, doubted, late, archiveVars, finding, now>>

\* The index is saved a second time as it is in memory.
RecordPurge ==
  /\ disposal.phase = "purged"
  /\ index' = Tombstone(FALSE) /\ DisposalMeets(Tombstone(TRUE))
  /\ ReleaseDisposal
  /\ UNCHANGED <<contents, doubted, late, archiveVars, finding, now, faults>>

\* It dies, a save throws, or its request is refused.  The purge of a
\* disposition that stopped is never resumed.
DisposalStops ==
  /\ disposal.phase # "idle"
  /\ IF disposal.phase \in {"checked", "purging", "purged"}
     THEN ReleaseDisposal /\ Fault
     ELSE disposal' = NoDisposal /\ UNCHANGED <<mutex, faults>>
  /\ UNCHANGED <<custodyVars, lateVars, archiveVars, finding, now>>

Tick ==
  /\ now < MaxTime /\ now' = now + 1
  /\ UNCHANGED <<custodyVars, lateVars, archiveVars, finding, mutex, disposal, faults>>

\* The requests for evidence, for its preservation, and for findings.
CustodyRequest ==
  \/ \E until \in Times : Ingest(until) \/ AddVersion(until)
  \/ PlaceLegalHold \/ ReleaseLegalHold \/ ChangeOther \/ LookForReferences

PreservationRequest == \E v \in Versions : ReadForPreservation(v)

FindingRequest == GuardReference \/ CommitFinding \/ RefuseFinding \/ ReleaseGuard

Next ==
  \/ CustodyRequest \/ PreservationRequest \/ FindingRequest
  \/ WriteObject \/ WriteReceipt \/ ArchivingStops
  \/ \E r \in late : LateContent(r) \/ LateSave(r) \/ LateStops(r)
  \/ PassGate \/ LoadForDisposal \/ CommitDisposal \/ RemoveContents \/ RecordPurge \/ DisposalStops
  \/ MutexLapses \/ Tick

Spec == Init /\ [][Next]_vars

-----------------------------------------------------------------------------
Items ==
  [versions : 0..MaxVersion, until : Times, hold : BOOLEAN,
   status : {"none", "active", "disposed"}, purging : BOOLEAN]

\* Index, archive and guard hold what their readers expect.
TypeOK ==
  /\ index \in Items
  /\ contents \subseteq Versions /\ doubted \in BOOLEAN
  /\ late \subseteq [loaded : Items, next : Items, due : BOOLEAN] /\ overtaken \in BOOLEAN
  /\ objects \subseteq Archives /\ receipts \subseteq Archives
  /\ archiving \in [phase : {"idle", "read", "object"}, archive : Archives]
  /\ finding \in {"none", "validated", "created"}
  /\ mutex \in {"free", "finding", "disposal"}
  /\ disposal \in [phase : {"idle", "unreferenced", "gated", "checked", "purging", "purged"},
                   versions : 0..MaxVersion, until : Times, item : Items, evicted : BOOLEAN]
  /\ now \in Times /\ faults \in 0..MaxFaults

\* ingest, addVersion, dispose: whatever stopped or failed before, each version
\* of an active item can be read, and a purge that is recorded left none; unless
\* an index was saved by a call that threw, or somebody evicted intruded.
IndexMatchesContents ==
  /\ ~doubted /\ ~overtaken => Intact
  /\ index.status = "disposed" /\ ~index.purging /\ ~overtaken => Stored \cap contents = {}

\* docs/evidence-chain-of-custody.md:84, "An active hold prevents retention
\* shortening and disposition", and :90, the retention date has elapsed: also
\* of a disposition under way when the hold was placed or the date was moved,
\* as long as nobody who was evicted intruded.
ProtectedIsKept ==
  [][Active /\ (index.hold \/ index.until > now) /\ ~overtaken' =>
       /\ index'.status = "active" /\ Stored \cap contents \subseteq contents'
       /\ index.hold => index'.until >= index.until]_vars

\* evidencePreservationRegistry.js, dispose: what the gate saw of a disposed
\* item is preserved with its receipt, for the date it then had.
GatedIsPreserved ==
  Required /\ disposal.phase \in {"gated", "checked", "purging", "purged"} =>
    \A v \in 1..disposal.versions : Verified(v, disposal.until)

\* docs/evidence-preservation.md:109: a receipt speaks of an object that is
\* there, wherever the process stopped.
ReceiptsHaveObjects == receipts \subseteq objects

\* docs/evidence-chain-of-custody.md:47: disposition "cannot pass between
\* reference validation and durable finding creation", if the guard is still
\* there at the creation, and nobody who was evicted intruded.
GuardCoversFinding ==
  [][finding = "validated" /\ finding' = "created" /\ mutex = "finding" /\ ~overtaken => Active]_vars

\* docs/evidence-preservation.md:96: disposition fails "unless every immutable
\* version has a verified receipt".
DisposedIsPreserved ==
  Required /\ index.status = "disposed" =>
    \A v \in Stored : \E until \in Times : Verified(v, until)

\* docs/evidence-chain-of-custody.md:84, without a condition.
HoldAlwaysProtects == [][index.hold => index'.status # "disposed"]_vars

\* docs/evidence-chain-of-custody.md:47, without a condition.
CreatedOnActive == [][finding = "validated" /\ finding' = "created" => Active]_vars

\* docs/evidence-chain-of-custody.md:92: "no audit finding references the
\* evidence" that is disposed.
ReferencedIsKept == [][Active /\ finding = "created" => index'.status = "active"]_vars
=============================================================================
