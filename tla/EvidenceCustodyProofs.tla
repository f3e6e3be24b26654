------------------------- MODULE EvidenceCustodyProofs -------------------------
(***************************************************************************)
(* What EvidenceCustody promises, for any number of versions, dates and    *)
(* failures.  The strengthening says what a disposition under way, a late  *)
(* operation, a hold and a guard imply about the index; every part of it   *)
(* is there because a later step relies on it without looking again.       *)
(***************************************************************************)
EXTENDS EvidenceCustody, TLAPS

\* What an operation may make of the item that it loaded.
Sound(loaded, next) ==
  /\ next.status = loaded.status /\ next.purging = loaded.purging
  /\ next.versions \in {loaded.versions, loaded.versions + 1}
  /\ loaded.status # "active" => next = loaded
  /\ loaded.hold => next.until >= loaded.until

HeldItem(item) == item.hold => item.status = "active"

\* Only what is active is held, also in what somebody has loaded.
HeldIsActive ==
  /\ HeldItem(index)
  /\ \A r \in late : HeldItem(r.loaded) /\ HeldItem(r.next)

\* Late operations started from the item as it was once, which was not there
\* if it is not there now.
LateIsSound ==
  /\ \A r \in late : Sound(r.loaded, r.next) /\ (r.due => Adds(r))
  /\ ~overtaken /\ index.status = "none" => \A r \in late : r.loaded.status = "none"

\* The content that a late upload has written is there while it can be used.
LateContentIsThere ==
  ~overtaken =>
    \A r \in late :
      Adds(r) /\ ~r.due /\ Active /\ index.versions < r.next.versions => r.next.versions \in contents

Holding == disposal.phase \in {"checked", "purging", "purged"}

\* A disposition that has loaded the item: it has the mutex or is evicted, the
\* item may be disposed, and unless somebody intruded it is as it loaded it, or
\* as it saved it, and when the removals are done no content is left.
DisposalIsSound ==
  /\ Holding =>
       /\ ~disposal.evicted => mutex = "disposal"
       /\ disposal.item.status = "active" /\ ~disposal.item.hold /\ disposal.item.until <= now
  /\ ~overtaken =>
       /\ disposal.phase = "checked" /\ ~disposal.evicted => index = disposal.item
       /\ disposal.phase \in {"purging", "purged"} => index = Tombstone(TRUE)
       /\ disposal.phase = "purged" => Purged \cap contents = {}

\* While a guard that is not lost protects a validated finding, what the
\* finding refers to is active.
GuardedIsActive == finding = "validated" /\ mutex = "finding" /\ ~overtaken => Active

\* What a preservation has written the object of.
ReceiptIsDue ==
  /\ receipts \subseteq objects
  /\ archiving.phase = "object" => archiving.archive \in objects

Inv ==
  /\ TypeOK /\ IndexMatchesContents /\ HeldIsActive /\ LateIsSound /\ LateContentIsThere
  /\ DisposalIsSound /\ GuardedIsActive /\ ReceiptIsDue /\ GatedIsPreserved

LEMMA InitInv == Init => Inv
<1> SUFFICES ASSUME Init PROVE Inv
  OBVIOUS
<1> USE CustodyAssumption
<1>1. 0 \in Times /\ <<1, 0>> \in Archives /\ 0 \in 0..MaxVersion /\ 0 \in 0..MaxFaults
  BY DEF Times, Archives, Versions
<1>2. NoItem \in Items
  BY <1>1 DEF NoItem, Items
<1>3. TypeOK
  BY <1>1, <1>2 DEF Init, TypeOK, NoArchiving, NoDisposal
<1>4. ~Active /\ index.status = "none" /\ ~index.hold /\ late = {}
  BY DEF Init, Active, NoItem
<1>5. disposal.phase = "idle" /\ archiving.phase = "idle" /\ receipts = {} /\ finding = "none"
  BY DEF Init, NoDisposal, NoArchiving
<1>6. IndexMatchesContents /\ HeldIsActive /\ LateIsSound /\ LateContentIsThere
  BY <1>4 DEF IndexMatchesContents, Intact, HeldIsActive, HeldItem, LateIsSound, LateContentIsThere
<1>7. DisposalIsSound /\ GuardedIsActive /\ ReceiptIsDue /\ GatedIsPreserved
  BY <1>5 DEF DisposalIsSound, Holding, GuardedIsActive, ReceiptIsDue, GatedIsPreserved
<1>8. QED BY <1>3, <1>6, <1>7 DEF Inv

-----------------------------------------------------------------------------
(* The steps, by what they do to the item.                                 *)

\* An upload, and another change, in time.
Uploaded(next) ==
  /\ Active /\ mutex = "free" /\ next.versions = index.versions + 1 /\ Store(next)
  /\ overtaken' = (overtaken \/ Meets(next.versions, late))
  /\ UNCHANGED <<late, archiveVars, finding, mutex, disposal, now>>

Changed(next) ==
  /\ Active /\ mutex = "free" /\ next.versions = index.versions /\ index' = next
  /\ UNCHANGED <<contents, doubted, lateVars, archiveVars, finding, mutex, disposal, now, faults>>

\* What leaves the item and the late operations alone.
Aside ==
  \/ PreservationRequest \/ FindingRequest \/ LookForReferences
  \/ WriteObject \/ WriteReceipt \/ ArchivingStops
  \/ PassGate \/ LoadForDisposal \/ DisposalStops \/ MutexLapses \/ Tick \/ UNCHANGED vars

LEMMA AsideKeeps == Aside => UNCHANGED <<custodyVars, lateVars>>
BY DEF Aside, PreservationRequest, FindingRequest, ReadForPreservation, WriteObject, WriteReceipt,
   ArchivingStops, GuardReference, CommitFinding, RefuseFinding, ReleaseGuard, MutexLapses,
   LookForReferences, PassGate, LoadForDisposal, DisposalStops, Tick, vars

LEMMA Steps ==
  ASSUME TypeOK, HeldIsActive, [Next]_vars
  PROVE  \/ \E until \in Times : Ingest(until)
         \/ \E next \in Items : /\ Sound(index, next) /\ HeldItem(next)
                                /\ Uploaded(next) \/ Changed(next) \/ Suspend(next)
         \/ \E r \in late : LateContent(r) \/ LateSave(r) \/ LateStops(r)
         \/ CommitDisposal \/ RemoveContents \/ RecordPurge
         \/ Aside
<1> USE CustodyAssumption
<1>0. index \in Items /\ HeldItem(index) /\ index.until \in Nat /\ index.versions \in Nat
  BY DEF TypeOK, HeldIsActive, Items, Times
<1>1. ASSUME NEW until \in Times, AddVersion(until)
      PROVE  /\ NewVersion(until) \in Items /\ Sound(index, NewVersion(until))
             /\ HeldItem(NewVersion(until))
             /\ Uploaded(NewVersion(until)) \/ Suspend(NewVersion(until))
  <2>1. /\ index.status = "active" /\ index.versions < MaxVersion
        /\ index.hold => until >= index.until
    BY <1>1 DEF AddVersion, Active
  <2>2. /\ NewVersion(until).versions = index.versions + 1 /\ NewVersion(until).until = until
        /\ NewVersion(until).status = "active" /\ NewVersion(until).purging = index.purging
    BY <1>0, <2>1 DEF NewVersion, Items
  <2>3. NewVersion(until) \in Items
    <3>1. index.versions + 1 \in 0..MaxVersion
      BY <1>0, <2>1
    <3>2. QED BY <1>0, <3>1 DEF NewVersion, Items
  <2>4. Sound(index, NewVersion(until)) /\ HeldItem(NewVersion(until))
    BY <2>1, <2>2 DEF Sound, HeldItem
  <2>5. Uploaded(NewVersion(until)) \/ Suspend(NewVersion(until))
    BY <1>1, <2>2 DEF AddVersion, Uploaded
  <2>6. QED BY <2>3, <2>4, <2>5
<1>2. ASSUME NEW held \in BOOLEAN, Active, Mutate([index EXCEPT !.hold = held])
      PROVE  \E next \in Items : /\ Sound(index, next) /\ HeldItem(next)
                                 /\ Changed(next) \/ Suspend(next)
  <2> DEFINE next == [index EXCEPT !.hold = held]
  <2>1. next \in Items
    BY <1>0 DEF Items
  <2>2. /\ next.versions = index.versions /\ next.until = index.until
        /\ next.status = "active" /\ next.purging = index.purging
    BY <1>0, <1>2 DEF Active, Items
  <2>3. Changed(next) \/ Suspend(next)
    BY <1>2, <2>2 DEF Mutate, Changed
  <2> HIDE DEF next
  <2>4. Sound(index, next) /\ HeldItem(next)
    BY <1>0, <1>2, <2>2 DEF Sound, HeldItem, Active
  <2>5. QED BY <2>1, <2>3, <2>4
<1>3. PlaceLegalHold => Active /\ Mutate([index EXCEPT !.hold = TRUE])
  BY DEF PlaceLegalHold
<1>4. ReleaseLegalHold => Active /\ Mutate([index EXCEPT !.hold = FALSE])
  BY DEF ReleaseLegalHold
<1>5. PlaceLegalHold \/ ReleaseLegalHold =>
        \E next \in Items : /\ Sound(index, next) /\ HeldItem(next)
                            /\ Changed(next) \/ Suspend(next)
  BY <1>2, <1>3, <1>4
<1>6. ChangeOther => Suspend(index) /\ Sound(index, index)
  BY <1>0 DEF ChangeOther, Sound
<1>7. QED
  BY <1>0, <1>1, <1>5, <1>6 DEF Next, CustodyRequest, Aside

-----------------------------------------------------------------------------
(* Types.                                                                  *)

LEMMA FaultTypes == ASSUME TypeOK, Fault PROVE faults' \in 0..MaxFaults
BY CustodyAssumption DEF TypeOK, Fault

\* What Store leaves of the types.
LEMMA StoreTypes ==
  ASSUME TypeOK, NEW next, Store(next), next.versions \in Versions
  PROVE  /\ index' \in {index, next}
         /\ contents' \subseteq Versions /\ doubted' \in BOOLEAN /\ faults' \in 0..MaxFaults
<1>1. contents \subseteq Versions /\ doubted \in BOOLEAN /\ faults \in 0..MaxFaults
  BY DEF TypeOK
<1>2. Fault => faults' \in 0..MaxFaults
  BY FaultTypes
<1>3. index' \in {index, next} /\ contents' \subseteq Versions
  BY <1>1 DEF Store
<1>4. doubted' \in BOOLEAN /\ faults' \in 0..MaxFaults
  BY <1>1, <1>2 DEF Store
<1>5. QED BY <1>3, <1>4

LateOps == [loaded : Items, next : Items, due : BOOLEAN]

DisposalTypes ==
  [phase : {"idle", "unreferenced", "gated", "checked", "purging", "purged"},
   versions : 0..MaxVersion, until : Times, item : Items, evicted : BOOLEAN]

\* What a disposition leaves of the types.
LEMMA DisposalKeepsTypes ==
  ASSUME TypeOK
  PROVE  /\ NoDisposal \in DisposalTypes /\ disposal \in DisposalTypes
         /\ \A pending \in BOOLEAN : Tombstone(pending) \in Items
         /\ ReleaseDisposal => /\ disposal' \in DisposalTypes
                               /\ mutex' \in {"free", "finding", "disposal"}
<1>1. NoItem \in Items /\ 0 \in Times /\ 0 \in 0..MaxVersion
  BY CustodyAssumption DEF NoItem, Items, Times
<1>2. disposal \in DisposalTypes
  BY DEF TypeOK, DisposalTypes
<1>3. NoDisposal \in DisposalTypes
  BY <1>1 DEF NoDisposal, DisposalTypes
<1>4. \A pending \in BOOLEAN : Tombstone(pending) \in Items
  BY <1>2 DEF Tombstone, Items, DisposalTypes
<1>5. QED BY <1>2, <1>3, <1>4 DEF ReleaseDisposal, TypeOK

LEMMA AsideTypes == ASSUME TypeOK, Aside PROVE TypeOK'
<1> USE CustodyAssumption
<1>1. /\ index' \in Items /\ contents' \subseteq Versions /\ doubted' \in BOOLEAN
      /\ late' \subseteq LateOps /\ overtaken' \in BOOLEAN
  BY AsideKeeps DEF TypeOK, custodyVars, lateVars, LateOps
<1>2. /\ objects' \subseteq Archives /\ receipts' \subseteq Archives
      /\ archiving' \in [phase : {"idle", "read", "object"}, archive : Archives]
  <2>1. CASE PreservationRequest
    BY <2>1 DEF TypeOK, PreservationRequest, ReadForPreservation, custodyVars, Archives, Items
  <2>2. CASE WriteObject \/ WriteReceipt
    BY <2>2 DEF TypeOK, WriteObject, WriteReceipt, custodyVars, NoArchiving, Archives, Versions, Times
  <2>3. CASE ArchivingStops
    BY <2>3 DEF TypeOK, ArchivingStops, custodyVars, NoArchiving, Archives, Versions, Times
  <2>4. CASE UNCHANGED archiveVars
    BY <2>4 DEF TypeOK, archiveVars
  <2>5. QED
    BY <2>1, <2>2, <2>3, <2>4 DEF Aside, FindingRequest, GuardReference, CommitFinding,
       RefuseFinding, ReleaseGuard, MutexLapses, LookForReferences, PassGate, LoadForDisposal,
       DisposalStops, Tick, vars
<1>3. faults' \in 0..MaxFaults
  BY FaultTypes DEF TypeOK, Aside, PreservationRequest, FindingRequest, ReadForPreservation,
     WriteObject, WriteReceipt, ArchivingStops, GuardReference, CommitFinding, RefuseFinding,
     ReleaseGuard, MutexLapses, LookForReferences, PassGate, LoadForDisposal, DisposalStops, Tick, vars
<1>4. now' \in Times
  <2>1. now \in Times /\ (Tick => now' \in Times)
    BY DEF TypeOK, Tick, Times
  <2>2. QED
    BY <2>1 DEF Aside, PreservationRequest, FindingRequest, ReadForPreservation, WriteObject,
       WriteReceipt, ArchivingStops, GuardReference, CommitFinding, RefuseFinding, ReleaseGuard,
       MutexLapses, LookForReferences, PassGate, LoadForDisposal, DisposalStops, vars
<1>5. /\ finding' \in {"none", "validated", "created"}
      /\ mutex' \in {"free", "finding", "disposal"} /\ disposal' \in DisposalTypes
  <2>0. /\ finding \in {"none", "validated", "created"} /\ mutex \in {"free", "finding", "disposal"}
        /\ disposal \in DisposalTypes /\ index \in Items
    BY DEF TypeOK, DisposalTypes
  <2>1. CASE FindingRequest \/ MutexLapses
    BY <2>0, <2>1 DEF FindingRequest, GuardReference, CommitFinding, RefuseFinding,
       ReleaseGuard, MutexLapses, DisposalTypes
  <2>2. CASE LookForReferences \/ PassGate
    BY <2>0, <2>2 DEF LookForReferences, PassGate, DisposalTypes, Items
  <2>3. CASE LoadForDisposal
    BY <2>0, <2>3 DEF LoadForDisposal, DisposalTypes
  <2>4. CASE DisposalStops
    BY <2>0, <2>4, DisposalKeepsTypes DEF DisposalStops
  <2>5. CASE UNCHANGED <<finding, mutex, disposal>>
    BY <2>0, <2>5
  <2>6. QED
    BY <2>1, <2>2, <2>3, <2>4, <2>5 DEF Aside, PreservationRequest, ReadForPreservation,
       WriteObject, WriteReceipt, ArchivingStops, Tick, vars
<1>6. QED
  BY <1>1, <1>2, <1>3, <1>4, <1>5 DEF TypeOK, LateOps, DisposalTypes

LEMMA TypesKept == ASSUME Inv, [Next]_vars PROVE TypeOK'
<1> USE CustodyAssumption
<1>0. /\ TypeOK /\ index \in Items /\ contents \subseteq Versions /\ late \subseteq LateOps
      /\ overtaken \in BOOLEAN /\ doubted \in BOOLEAN
      /\ \A r \in late : Sound(r.loaded, r.next) /\ (r.due => Adds(r))
  BY DEF Inv, TypeOK, LateOps, LateIsSound
<1>1. ASSUME NEW until \in Times, Ingest(until) PROVE TypeOK'
  <2> DEFINE next == [NoItem EXCEPT !.versions = 1, !.until = until, !.status = "active"]
  <2>1. next \in Items /\ next.versions \in Versions
    <3>1. NoItem \in Items
      BY DEF NoItem, Items, Times
    <3>2. 1 \in 0..MaxVersion /\ 1 \in Versions
      BY DEF Versions
    <3>3. QED BY <3>1, <3>2 DEF Items
  <2>2. Store(next) /\ UNCHANGED <<lateVars, archiveVars, finding, mutex, disposal, now>>
    BY <1>1 DEF Ingest
  <2> HIDE DEF next
  <2>3. QED BY <1>0, <2>1, <2>2, StoreTypes DEF TypeOK, archiveVars, lateVars
<1>2. ASSUME NEW next \in Items, Uploaded(next) PROVE TypeOK'
  <2>1. next.versions \in Versions
    <3>1. next.versions \in 0..MaxVersion /\ index.versions \in Nat
      BY <1>0 DEF Items
    <3>2. QED BY <1>2, <3>1 DEF Uploaded, Versions
  <2>2. overtaken' \in BOOLEAN
    BY <1>0, <1>2 DEF Uploaded
  <2>3. QED BY <1>0, <1>2, <2>1, <2>2, StoreTypes DEF TypeOK, Uploaded, archiveVars
<1>3. ASSUME NEW next \in Items, Changed(next) PROVE TypeOK'
  BY <1>0, <1>3 DEF TypeOK, Changed, lateVars, archiveVars
<1>4. ASSUME NEW next \in Items, Suspend(next) PROVE TypeOK'
  <2>1. [loaded |-> index, next |-> next, due |-> next.versions > index.versions] \in LateOps
    BY <1>0 DEF LateOps
  <2>2. late' \subseteq LateOps /\ faults' \in 0..MaxFaults
    BY <1>0, <1>4, <2>1, FaultTypes DEF Suspend
  <2>3. QED BY <1>0, <1>4, <2>2 DEF TypeOK, Suspend, custodyVars, archiveVars, LateOps
<1>5. ASSUME NEW r \in late, LateContent(r) \/ LateSave(r) \/ LateStops(r) PROVE TypeOK'
  <2>1. r \in LateOps /\ r.next \in Items
    BY <1>0 DEF LateOps
  <2>2. r.due => r.next.versions \in Versions
    <3>1. /\ r.next.versions \in 0..MaxVersion /\ r.loaded.versions \in Nat
          /\ r.due => r.next.versions > r.loaded.versions
      BY <1>0, <2>1 DEF LateOps, Items, Adds
    <3>2. QED BY <3>1 DEF Versions
  <2>3. [r EXCEPT !.due = FALSE] \in LateOps
    BY <2>1 DEF LateOps
  <2>4. /\ contents' \subseteq Versions /\ late' \subseteq LateOps /\ index' \in Items
    BY <1>0, <1>5, <2>1, <2>2, <2>3 DEF LateContent, LateSave, LateStops, custodyVars
  <2>5. doubted' \in BOOLEAN /\ overtaken' \in BOOLEAN
    BY <1>0, <1>5 DEF LateContent, LateSave, LateStops, custodyVars
  <2>6. faults' \in 0..MaxFaults
    BY <1>0, <1>5, FaultTypes DEF LateContent, LateSave, LateStops, TypeOK
  <2>7. UNCHANGED <<archiveVars, finding, mutex, disposal, now>>
    BY <1>5 DEF LateContent, LateSave, LateStops
  <2>8. QED BY <1>0, <2>4, <2>5, <2>6, <2>7 DEF TypeOK, LateOps, archiveVars
<1>6. CASE CommitDisposal \/ RemoveContents \/ RecordPurge
  <2>1. index' \in Items /\ contents' \subseteq Versions
    BY <1>0, <1>6, DisposalKeepsTypes DEF CommitDisposal, RemoveContents, RecordPurge
  <2>2. disposal' \in DisposalTypes /\ mutex' \in {"free", "finding", "disposal"}
    <3>1. disposal \in DisposalTypes /\ mutex \in {"free", "finding", "disposal"}
      BY <1>0 DEF TypeOK, DisposalTypes
    <3>2. CASE UNCHANGED mutex /\ \E phase \in {"purging", "purged"} :
                 disposal' = [disposal EXCEPT !.phase = phase]
      BY <3>1, <3>2 DEF DisposalTypes
    <3>3. CASE ReleaseDisposal
      BY <1>0, <3>3, DisposalKeepsTypes
    <3>4. QED BY <1>6, <3>2, <3>3 DEF CommitDisposal, RemoveContents, RecordPurge
  <2>3. faults' \in 0..MaxFaults
    BY <1>0, <1>6, FaultTypes DEF TypeOK, CommitDisposal, RemoveContents, RecordPurge
  <2>4. overtaken' \in BOOLEAN
    BY <1>0, <1>6 DEF CommitDisposal, RemoveContents, RecordPurge, DisposalMeets
  <2>5. UNCHANGED <<doubted, late, archiveVars, finding, now>>
    BY <1>6 DEF CommitDisposal, RemoveContents, RecordPurge
  <2>6. QED
    BY <1>0, <2>1, <2>2, <2>3, <2>4, <2>5 DEF TypeOK, LateOps, DisposalTypes, archiveVars
<1>7. HeldIsActive
  BY DEF Inv
<1>8. QED
  BY <1>0, <1>1, <1>2, <1>3, <1>4, <1>5, <1>6, <1>7, AsideTypes, Steps

-----------------------------------------------------------------------------
(* Late operations.                                                        *)

\* The item as it is ingested.
LEMMA Ingested ==
  ASSUME NEW until \in Times, Ingest(until)
  PROVE  /\ index.status = "none" /\ ~overtaken /\ ~overtaken' /\ mutex = "free"
         /\ index'.status = "active" /\ ~index'.hold /\ index'.versions = 1
         /\ 1 \in contents' \/ doubted'
         /\ UNCHANGED <<late, archiveVars, finding, mutex, disposal, now>>
<1> DEFINE next == [NoItem EXCEPT !.versions = 1, !.until = until, !.status = "active"]
<1>1. next.status = "active" /\ ~next.hold /\ next.versions = 1
  BY DEF NoItem
<1>2. Store(next) /\ index' # index
  BY DEF Ingest
<1> HIDE DEF next
<1>3. index' = next /\ (1 \in contents' \/ doubted')
  BY <1>1, <1>2 DEF Store
<1>4. QED BY <1>1, <1>3 DEF Ingest, lateVars

\* Nobody who has intruded is forgotten.
LEMMA OvertakenGrows == ASSUME Inv, [Next]_vars, ~overtaken' PROVE ~overtaken
<1>1. TypeOK /\ HeldIsActive
  BY DEF Inv
<1>2. QED
  BY <1>1, Steps, AsideKeeps, Ingested DEF Uploaded, Changed, Suspend, LateContent, LateSave,
     LateStops, CommitDisposal, RemoveContents, RecordPurge, DisposalMeets, lateVars

\* A disposition that intrudes nowhere finds the item as it left it, and loaded
\* it when it could be disposed.
LEMMA DisposalFinds ==
  ASSUME Inv, ~overtaken'
  PROVE  /\ CommitDisposal => /\ index = disposal.item /\ index.status = "active" /\ ~index.hold
                              /\ index.until <= now /\ mutex # "finding"
         /\ RemoveContents \/ RecordPurge => /\ index = Tombstone(TRUE) /\ index.status = "disposed"
                                             /\ mutex # "finding" /\ index.versions = disposal.item.versions
<1>0. DisposalIsSound /\ disposal.item \in Items
  BY DEF Inv, TypeOK
<1>1. Tombstone(TRUE).status = "disposed" /\ Tombstone(TRUE).versions = disposal.item.versions
  BY <1>0 DEF Tombstone, Items
<1>2. ASSUME CommitDisposal
      PROVE  /\ index = disposal.item /\ mutex # "finding"
  <2>1. disposal.phase = "checked" /\ ~overtaken /\ (disposal.evicted => ~Intrudes(disposal.item))
    BY <1>2 DEF CommitDisposal, DisposalMeets
  <2>2. QED BY <1>0, <2>1 DEF DisposalIsSound, Holding, Intrudes
<1>3. CommitDisposal => Holding
  BY DEF CommitDisposal, Holding
<1>4. ASSUME RemoveContents \/ RecordPurge PROVE index = Tombstone(TRUE) /\ mutex # "finding"
  <2>1. /\ disposal.phase \in {"purging", "purged"} /\ ~overtaken
        /\ disposal.evicted => ~Intrudes(Tombstone(TRUE))
    BY <1>4 DEF RemoveContents, RecordPurge, DisposalMeets
  <2>2. QED BY <1>0, <2>1 DEF DisposalIsSound, Holding, Intrudes
<1>5. QED BY <1>0, <1>1, <1>2, <1>3, <1>4 DEF DisposalIsSound

\* What is in the index, and in late operations, after a step.
LEMMA LateKept == ASSUME Inv, [Next]_vars PROVE HeldIsActive' /\ LateIsSound'
<1>0. /\ TypeOK /\ HeldIsActive /\ LateIsSound /\ DisposalIsSound /\ index \in Items
      /\ late \subseteq LateOps /\ disposal.item \in Items
  BY DEF Inv, TypeOK, LateOps
<1>1. ASSUME NEW until \in Times, Ingest(until) PROVE HeldIsActive' /\ LateIsSound'
  BY <1>0, <1>1, Ingested DEF HeldIsActive, HeldItem, LateIsSound, Adds
<1>2. ASSUME NEW next \in Items, Sound(index, next), HeldItem(next), Uploaded(next) \/ Changed(next)
      PROVE  HeldIsActive' /\ LateIsSound'
  <2>1. index' \in {index, next} /\ late' = late /\ (overtaken => overtaken')
    <3>1. Uploaded(next) => index' \in {index, next} /\ late' = late /\ (overtaken => overtaken')
      BY DEF Uploaded, Store
    <3>2. Changed(next) => index' = next /\ late' = late /\ overtaken' = overtaken
      BY DEF Changed, lateVars
    <3>3. QED BY <1>2, <3>1, <3>2
  <2>2. index.status = "active" /\ next.status = "active"
    BY <1>2 DEF Sound, Uploaded, Changed, Active
  <2>3. QED BY <1>0, <1>2, <2>1, <2>2 DEF HeldIsActive, LateIsSound, Adds
<1>3. ASSUME NEW next \in Items, Sound(index, next), HeldItem(next), Suspend(next)
      PROVE  HeldIsActive' /\ LateIsSound'
  <2> DEFINE r == [loaded |-> index, next |-> next, due |-> next.versions > index.versions]
  <2>1. late' = late \cup {r} /\ UNCHANGED <<index, overtaken>>
    BY <1>3 DEF Suspend, custodyVars
  <2>2. r.loaded = index /\ r.next = next /\ r.due = (next.versions > index.versions)
    OBVIOUS
  <2> HIDE DEF r
  <2>3. HeldIsActive'
    BY <1>0, <1>3, <2>1, <2>2 DEF HeldIsActive, HeldItem
  <2>4. LateIsSound'
    BY <1>0, <1>3, <2>1, <2>2 DEF LateIsSound, Adds
  <2>5. QED BY <2>3, <2>4
<1>4. ASSUME NEW r \in late, LateContent(r) PROVE HeldIsActive' /\ LateIsSound'
  <2> DEFINE s == [r EXCEPT !.due = FALSE]
  <2>1. s.loaded = r.loaded /\ s.next = r.next /\ ~s.due
    BY <1>0 DEF LateOps
  <2>2. late' = (late \ {r}) \cup {s} /\ index' = index /\ (overtaken => overtaken')
    BY <1>4 DEF LateContent
  <2> HIDE DEF s
  <2>3. HeldIsActive'
    BY <1>0, <2>1, <2>2 DEF HeldIsActive, HeldItem
  <2>4. LateIsSound'
    BY <1>0, <2>1, <2>2 DEF LateIsSound, Adds
  <2>5. QED BY <2>3, <2>4
<1>5. ASSUME NEW r \in late, LateSave(r) PROVE HeldIsActive' /\ LateIsSound'
  <2>1. index' \in {index, r.next} /\ late' \subseteq late
    BY <1>5 DEF LateSave
  <2>2. HeldIsActive'
    BY <1>0, <2>1 DEF HeldIsActive, HeldItem
  <2>3. ~overtaken' => ~overtaken /\ index = r.loaded
    BY <1>5 DEF LateSave, Intrudes
  <2>4. r.next.status = r.loaded.status
    BY <1>0 DEF LateIsSound, Sound
  <2>5. ~overtaken' /\ index'.status = "none" => \A s \in late' : s.loaded.status = "none"
    BY <1>0, <2>1, <2>3, <2>4 DEF LateIsSound
  <2>6. QED BY <1>0, <2>1, <2>2, <2>5 DEF LateIsSound, Adds
<1>6. ASSUME NEW r \in late, LateStops(r) PROVE HeldIsActive' /\ LateIsSound'
  <2>1. late' \subseteq late /\ UNCHANGED <<index, overtaken>>
    BY <1>6 DEF LateStops, custodyVars
  <2>2. QED BY <1>0, <2>1 DEF HeldIsActive, HeldItem, LateIsSound, Adds
<1>7. CASE CommitDisposal \/ RecordPurge
  <2>1. \A pending \in BOOLEAN : /\ Tombstone(pending).status = "disposed"
                                 /\ Tombstone(pending).hold = disposal.item.hold
    BY <1>0 DEF Tombstone, Items
  <2>2. ~disposal.item.hold
    BY <1>0, <1>7 DEF CommitDisposal, RecordPurge, DisposalIsSound, Holding
  <2>3. index'.status = "disposed" /\ ~index'.hold /\ late' = late
    BY <1>7, <2>1, <2>2 DEF CommitDisposal, RecordPurge
  <2>4. QED BY <1>0, <2>3 DEF HeldIsActive, HeldItem, LateIsSound, Adds
<1>8. CASE RemoveContents
  <2>1. UNCHANGED <<index, late>> /\ (overtaken => overtaken')
    BY <1>8 DEF RemoveContents, DisposalMeets
  <2>2. QED BY <1>0, <2>1 DEF HeldIsActive, HeldItem, LateIsSound, Adds
<1>9. CASE Aside
  <2>1. UNCHANGED <<index, late, overtaken>>
    BY <1>9, AsideKeeps DEF custodyVars, lateVars
  <2>2. QED BY <1>0, <2>1 DEF HeldIsActive, HeldItem, LateIsSound, Adds
<1>10. QED
  BY <1>0, <1>1, <1>2, <1>3, <1>4, <1>5, <1>6, <1>7, <1>8, <1>9, Steps

-----------------------------------------------------------------------------
(* Contents.                                                               *)

\* A late save that does not intrude: it goes on from the index as it is, and
\* the content of its upload is there.
LEMMA LateSaveFinds ==
  ASSUME Inv, NEW r \in late, LateSave(r), ~overtaken'
  PROVE  /\ index = r.loaded /\ Sound(index, r.next) /\ mutex = "free"
         /\ Adds(r) => /\ Active /\ r.next.versions = index.versions + 1
                       /\ r.next.versions \in contents /\ ~Meets(r.next.versions, late \ {r})
<1>0. LateIsSound /\ LateContentIsThere /\ late \subseteq LateOps
  BY DEF Inv, TypeOK, LateOps
<1>1. index = r.loaded /\ mutex = "free" /\ ~overtaken /\ ~r.due
      /\ (Adds(r) => ~Meets(r.next.versions, late \ {r}))
  BY DEF LateSave, Intrudes
<1>2. Sound(index, r.next)
  BY <1>0, <1>1 DEF LateIsSound
<1>3. r.next.versions \in Nat /\ r.loaded.versions \in Nat
  BY <1>0 DEF LateOps, Items
<1>4. ASSUME Adds(r) PROVE Active /\ r.next.versions = index.versions + 1
  BY <1>1, <1>2, <1>3, <1>4 DEF Sound, Adds, Active
<1>5. Adds(r) => r.next.versions \in contents
  BY <1>0, <1>1, <1>3, <1>4 DEF LateContentIsThere, Adds
<1>6. QED BY <1>1, <1>2, <1>4, <1>5

\* Nobody takes away what belongs to an active item, unless it is disposed.
LEMMA ItemKept ==
  ASSUME Inv, [Next]_vars, Active, ~overtaken', ~CommitDisposal
  PROVE  /\ index'.status = "active" /\ index'.versions >= index.versions
         /\ index.hold => index'.until >= index.until
         /\ Stored \cap contents \subseteq contents'
<1>0. /\ TypeOK /\ HeldIsActive /\ index \in Items /\ index.versions \in Nat /\ index.until \in Nat
      /\ index.status = "active"
  BY DEF Inv, TypeOK, Items, Times, Active
<1>1. ASSUME NEW next, Sound(index, next)
      PROVE  /\ next.status = "active" /\ next.versions >= index.versions
             /\ index.hold => next.until >= index.until
  BY <1>0, <1>1 DEF Sound
<1>2. index' = index \/ Sound(index, index') =>
        /\ index'.status = "active" /\ index'.versions >= index.versions
        /\ index.hold => index'.until >= index.until
  BY <1>0, <1>1
<1>3. contents \subseteq contents' \/ contents \ {index.versions + 1} \subseteq contents' =>
        Stored \cap contents \subseteq contents'
  BY <1>0 DEF Stored
<1>4. ASSUME NEW until \in Times, Ingest(until) PROVE FALSE
  BY <1>0, <1>4 DEF Ingest
<1>5. ASSUME NEW next \in Items, Sound(index, next), Uploaded(next) \/ Changed(next) \/ Suspend(next)
      PROVE  (index' = index \/ Sound(index, index'))
             /\ (contents \subseteq contents' \/ contents \ {index.versions + 1} \subseteq contents')
  BY <1>5 DEF Uploaded, Changed, Suspend, Store, custodyVars
<1>6. ASSUME NEW r \in late, LateSave(r)
      PROVE  (index' = index \/ Sound(index, index'))
             /\ (contents \subseteq contents' \/ contents \ {index.versions + 1} \subseteq contents')
  BY <1>6, LateSaveFinds DEF LateSave
<1>7. ASSUME NEW r \in late, LateContent(r) \/ LateStops(r)
      PROVE  index' = index /\ contents \subseteq contents'
  BY <1>7 DEF LateContent, LateStops, custodyVars
<1>8. CASE RemoveContents \/ RecordPurge
  BY <1>0, <1>8, DisposalFinds
<1>9. Aside => index' = index /\ contents \subseteq contents'
  BY AsideKeeps DEF custodyVars
<1>10. QED
  BY <1>0, <1>2, <1>3, <1>4, <1>5, <1>6, <1>7, <1>8, <1>9, Steps

LEMMA ContentsKept == ASSUME Inv, [Next]_vars PROVE IndexMatchesContents'
<1> SUFFICES ASSUME ~overtaken' PROVE IndexMatchesContents'
  BY DEF IndexMatchesContents
<1>0. /\ TypeOK /\ HeldIsActive /\ index \in Items /\ index.versions \in Nat /\ ~overtaken
      /\ IndexMatchesContents /\ DisposalIsSound /\ doubted \in BOOLEAN
  BY OvertakenGrows DEF Inv, TypeOK, Items
<1>1. ASSUME NEW until \in Times, Ingest(until) PROVE IndexMatchesContents'
  <2>1. Stored' = {1} /\ (1 \in contents' \/ doubted') /\ index'.status = "active"
    BY <1>1, Ingested DEF Stored
  <2>2. QED BY <2>1 DEF IndexMatchesContents, Intact, Readable, Active
\* A new version, in time or late.
<1>2. ASSUME NEW next, Active, next.status = "active", next.versions = index.versions + 1,
             index' \in {index, next},
             index' = next => next.versions \in contents' \/ doubted',
             contents \ {next.versions} \subseteq contents',
             doubted => doubted'
      PROVE  IndexMatchesContents'
  <2>1. index'.status = "active"
    BY <1>2 DEF Active
  <2>2. ASSUME ~doubted' PROVE Stored' \subseteq contents'
    <3>1. Stored \subseteq contents
      BY <1>0, <1>2, <2>2 DEF IndexMatchesContents, Intact, Readable
    <3>2. next.versions \notin Stored
      BY <1>0, <1>2 DEF Stored
    <3>3. Stored \subseteq contents'
      BY <1>2, <3>1, <3>2
    <3>4. /\ index' = index => Stored' = Stored
          /\ index' = next => Stored' \subseteq Stored \cup {next.versions}
      BY <1>0, <1>2 DEF Stored
    <3>5. QED BY <1>2, <2>2, <3>3, <3>4
  <2>3. QED BY <2>1, <2>2 DEF IndexMatchesContents, Intact, Readable, Active
\* The same versions of an item, and no content less.
<1>3. ASSUME index'.status = index.status, index'.purging = index.purging,
             index'.versions = index.versions, contents \subseteq contents', doubted' = doubted,
             Active \/ contents' = contents
      PROVE  IndexMatchesContents'
  <2>1. Stored' = Stored /\ (Active' <=> Active)
    BY <1>3 DEF Stored, Active
  <2>2. QED BY <1>0, <1>3, <2>1 DEF IndexMatchesContents, Intact, Readable, Active
<1>4. ASSUME NEW next \in Items, Sound(index, next), Uploaded(next) PROVE IndexMatchesContents'
  <2>1. Store(next) /\ Active /\ next.status = "active" /\ next.versions = index.versions + 1
    BY <1>4 DEF Uploaded, Sound, Active
  <2>2. next # index
    BY <1>0, <2>1
  <2>3. /\ index' \in {index, next} /\ (index' = next => next.versions \in contents' \/ doubted')
        /\ contents \ {next.versions} \subseteq contents' /\ (doubted => doubted')
    BY <1>0, <2>1, <2>2 DEF Store
  <2>4. QED BY <1>2, <2>1, <2>3
<1>5. ASSUME NEW next \in Items, Sound(index, next), Changed(next) PROVE IndexMatchesContents'
  BY <1>3, <1>5 DEF Changed, Sound
<1>6. ASSUME NEW next \in Items, Suspend(next) PROVE IndexMatchesContents'
  BY <1>3, <1>6 DEF Suspend, custodyVars
<1>7. ASSUME NEW r \in late, LateContent(r) PROVE IndexMatchesContents'
  <2>1. Adds(r) /\ Sound(r.loaded, r.next) /\ index = r.loaded /\ r \in LateOps
    BY <1>7 DEF LateContent, Inv, TypeOK, LateIsSound, LateOps, Intrudes
  <2>2. Active
    BY <2>1 DEF Sound, Adds, Active, LateOps, Items
  <2>3. QED BY <1>3, <1>7, <2>2 DEF LateContent
<1>8. ASSUME NEW r \in late, LateSave(r) PROVE IndexMatchesContents'
  <2>1. /\ Sound(index, r.next)
        /\ Adds(r) => /\ Active /\ r.next.versions = index.versions + 1
                      /\ r.next.versions \in contents
    BY <1>8, LateSaveFinds
  <2>2. CASE Adds(r)
    <3>1. r.next.status = "active" /\ index' \in {index, r.next} /\ r.next # index
      BY <1>0, <1>8, <2>1, <2>2 DEF Sound, Active, LateSave
    <3>2. /\ index' = r.next => r.next.versions \in contents' \/ doubted'
          /\ contents \ {r.next.versions} \subseteq contents' /\ (doubted => doubted')
      <4>1. \/ contents' = contents /\ doubted' = doubted
            \/ contents' = contents \ {r.next.versions} /\ doubted' = TRUE
            \/ contents' = contents \ {r.next.versions} /\ doubted' = doubted /\ index' = index
        BY <1>8, <2>2 DEF LateSave
      <4>2. QED BY <1>0, <2>1, <2>2, <3>1, <4>1
    <3>3. QED BY <1>2, <2>1, <2>2, <3>1, <3>2
  <2>3. CASE ~Adds(r)
    <3>1. /\ index' \in {index, r.next} /\ contents' = contents /\ doubted' = doubted
      BY <1>0, <1>8, <2>3 DEF LateSave
    <3>2. r.next.versions = index.versions
      <4>1. index = r.loaded
        BY <1>8, LateSaveFinds
      <4>2. QED BY <1>0, <2>1, <2>3, <4>1 DEF Sound, Adds
    <3>3. QED BY <1>3, <2>1, <3>1, <3>2 DEF Sound
  <2>4. QED BY <2>2, <2>3
<1>9. ASSUME NEW r \in late, LateStops(r) PROVE IndexMatchesContents'
  BY <1>3, <1>9 DEF LateStops, custodyVars
<1>10. CASE CommitDisposal \/ RemoveContents
  <2>1. Tombstone(TRUE).status = "disposed" /\ Tombstone(TRUE).purging
    BY <1>0 DEF Tombstone, TypeOK, Items
  <2>2. index' = Tombstone(TRUE)
    BY <1>10, DisposalFinds DEF CommitDisposal, RemoveContents
  <2>3. QED BY <2>1, <2>2 DEF IndexMatchesContents, Intact, Active
<1>11. CASE RecordPurge
  <2>1. Tombstone(FALSE).status = "disposed" /\ Tombstone(FALSE).versions = disposal.item.versions
    BY <1>0 DEF Tombstone, TypeOK, Items
  <2>2. index' = Tombstone(FALSE) /\ contents' = contents /\ Purged \cap contents = {}
    BY <1>0, <1>11 DEF RecordPurge, DisposalIsSound
  <2>3. QED BY <2>1, <2>2 DEF IndexMatchesContents, Intact, Active, Stored, Purged
<1>12. CASE Aside
  BY <1>3, <1>12, AsideKeeps DEF custodyVars
<1>13. QED
  BY <1>0, <1>1, <1>4, <1>5, <1>6, <1>7, <1>8, <1>9, <1>10, <1>11, <1>12, Steps

\* What a late upload has written stays until somebody intrudes.
LEMMA LateContentKept == ASSUME Inv, [Next]_vars PROVE LateContentIsThere'
<1> SUFFICES ASSUME ~overtaken', NEW s \in late', Adds(s), ~s.due, index'.status = "active",
                    index'.versions < s.next.versions
             PROVE  s.next.versions \in contents'
  BY DEF LateContentIsThere, Active, Adds
<1>0. /\ TypeOK /\ HeldIsActive /\ index \in Items /\ index.versions \in Nat /\ ~overtaken
      /\ LateIsSound /\ LateContentIsThere /\ late \subseteq LateOps
  BY OvertakenGrows DEF Inv, TypeOK, Items, LateOps
<1>1. ASSUME s \in late, Active, index.versions < s.next.versions
      PROVE  s.next.versions \in contents
  BY <1>0, <1>1 DEF LateContentIsThere
<1>2. LateIsSound' /\ s.loaded.status = "active"
  <2>1. LateIsSound'
    BY LateKept
  <2>2. s \in LateOps
    BY TypesKept DEF TypeOK, LateOps
  <2>3. QED BY <2>1, <2>2 DEF LateIsSound, Sound, Adds, LateOps, Items
<1>3. ASSUME NEW until \in Times, Ingest(until) PROVE FALSE
  <2>1. s \in late /\ index.status = "none"
    BY <1>3, Ingested
  <2>2. QED BY <1>0, <1>2, <2>1 DEF LateIsSound
<1>4. ASSUME NEW next \in Items, Sound(index, next), Uploaded(next)
      PROVE  s.next.versions \in contents'
  <2>1. s \in late /\ ~Meets(next.versions, late) /\ next.versions = index.versions + 1 /\ Active
    BY <1>4 DEF Uploaded
  <2>2. s.next.versions # next.versions
    BY <2>1 DEF Meets, Adds
  <2>3. index' \in {index, next} /\ contents \ {next.versions} \subseteq contents'
    BY <1>4 DEF Uploaded, Store
  <2>4. index.versions < s.next.versions
    <3>1. s.next.versions \in Nat
      BY <1>0, <2>1 DEF LateOps, Items
    <3>2. QED BY <1>0, <2>1, <2>3, <3>1
  <2>5. QED BY <1>1, <2>1, <2>2, <2>3, <2>4
<1>5. ASSUME NEW next \in Items, Sound(index, next), Changed(next)
      PROVE  s.next.versions \in contents'
  BY <1>1, <1>5 DEF Changed, lateVars
<1>6. ASSUME NEW next \in Items, Suspend(next) PROVE s.next.versions \in contents'
  <2> DEFINE r == [loaded |-> index, next |-> next, due |-> next.versions > index.versions]
  <2>1. r.due => r.next.versions > r.loaded.versions
    OBVIOUS
  <2>2. r.next.versions > r.loaded.versions => r.due
    OBVIOUS
  <2>3. late' = late \cup {r} /\ UNCHANGED custodyVars
    BY <1>6 DEF Suspend
  <2> HIDE DEF r
  <2>4. s \in late
    BY <2>2, <2>3 DEF Adds
  <2>5. QED BY <1>1, <2>3, <2>4 DEF custodyVars, Active
<1>7. ASSUME NEW r \in late, LateContent(r) PROVE s.next.versions \in contents'
  <2> DEFINE t == [r EXCEPT !.due = FALSE]
  <2>1. t.next = r.next
    BY <1>0 DEF LateOps
  <2>2. late' = (late \ {r}) \cup {t} /\ contents' = contents \cup {r.next.versions} /\ index' = index
    BY <1>7 DEF LateContent
  <2> HIDE DEF t
  <2>3. QED BY <1>1, <2>1, <2>2 DEF Active
<1>8. ASSUME NEW r \in late, LateSave(r) PROVE s.next.versions \in contents'
  <2>1. /\ s \in late \ {r} /\ index' \in {index, r.next}
        /\ contents' \in {contents, IF Adds(r) THEN contents \ {r.next.versions} ELSE contents}
    BY <1>8 DEF LateSave
  <2>2. /\ Sound(index, r.next)
        /\ Adds(r) => ~Meets(r.next.versions, late \ {r})
    BY <1>8, LateSaveFinds
  <2>3. Adds(r) => s.next.versions # r.next.versions
    BY <2>1, <2>2 DEF Meets, Adds
  <2>4. Active /\ index.versions < s.next.versions
    <3>1. s.next.versions \in Nat /\ r.next.versions \in Nat
      BY <1>0, <2>1 DEF LateOps, Items
    <3>2. QED BY <1>0, <2>1, <2>2, <3>1 DEF Sound, Active
  <2>5. s.next.versions \in contents
    BY <1>1, <2>1, <2>4
  <2>6. QED BY <2>1, <2>3, <2>5
<1>9. ASSUME NEW r \in late, LateStops(r) PROVE s.next.versions \in contents'
  BY <1>1, <1>9 DEF LateStops, custodyVars, Active
<1>10. CASE CommitDisposal \/ RecordPurge
  <2>1. \A pending \in BOOLEAN : Tombstone(pending).status = "disposed"
    BY <1>0 DEF Tombstone, TypeOK, Items
  <2>2. QED BY <1>10, <2>1 DEF CommitDisposal, RecordPurge
<1>11. CASE RemoveContents
  BY <1>11, DisposalFinds DEF RemoveContents
<1>12. CASE Aside
  BY <1>1, <1>12, AsideKeeps DEF custodyVars, lateVars, Active
<1>13. QED
  BY <1>0, <1>3, <1>4, <1>5, <1>6, <1>7, <1>8, <1>9, <1>10, <1>11, <1>12, Steps

-----------------------------------------------------------------------------
(* Dispositions, guards and receipts.                                      *)

LEMMA DisposalKept == ASSUME Inv, [Next]_vars PROVE DisposalIsSound'
<1>0. /\ TypeOK /\ HeldIsActive /\ DisposalIsSound /\ disposal \in DisposalTypes
      /\ now \in Nat /\ (overtaken => overtaken')
      /\ disposal.item \in Items /\ LateIsSound /\ late \subseteq LateOps
  BY OvertakenGrows DEF Inv, TypeOK, DisposalTypes, Times, LateOps
\* The item is loaded, or what has loaded it goes on.
<1>1. CASE LoadForDisposal
  <2>1. /\ disposal' = [disposal EXCEPT !.phase = "checked", !.item = index,
                                        !.evicted = disposal'.evicted]
        /\ UNCHANGED <<index, now>> /\ index.status = "active" /\ ~index.hold /\ index.until <= now
        /\ ~disposal'.evicted => mutex' = "disposal"
    BY <1>0, <1>1 DEF LoadForDisposal, Active, custodyVars, DisposalTypes
  <2>2. disposal'.phase = "checked" /\ disposal'.item = index
    BY <1>0, <2>1 DEF DisposalTypes
  <2>3. QED BY <2>1, <2>2 DEF DisposalIsSound
<1>2. CASE CommitDisposal
  <2>1. /\ disposal'.phase = "purging" /\ disposal'.item = disposal.item
        /\ disposal'.evicted = disposal.evicted /\ Holding
        /\ UNCHANGED <<mutex, now>> /\ index' = Tombstone(TRUE)
    BY <1>0, <1>2 DEF CommitDisposal, DisposalTypes, Holding
  <2>2. Tombstone(TRUE)' = Tombstone(TRUE)
    BY <2>1 DEF Tombstone
  <2>3. QED BY <1>0, <2>1, <2>2 DEF DisposalIsSound
<1>3. CASE ReleaseDisposal
  BY <1>3 DEF ReleaseDisposal, NoDisposal, DisposalIsSound, Holding
<1>4. CASE RemoveContents /\ ~ReleaseDisposal
  <2>1. /\ disposal'.phase = "purged" /\ disposal'.item = disposal.item
        /\ disposal'.evicted = disposal.evicted /\ Holding
        /\ contents' = contents \ Purged
        /\ UNCHANGED <<mutex, now, index>>
    BY <1>0, <1>4 DEF RemoveContents, DisposalTypes, Holding
  <2>2. Tombstone(TRUE)' = Tombstone(TRUE) /\ Purged' = Purged
    BY <2>1 DEF Tombstone, Purged
  <2>3. ~overtaken' => index = Tombstone(TRUE)
    BY <1>4, DisposalFinds
  <2>4. QED BY <1>0, <2>1, <2>2, <2>3 DEF DisposalIsSound, Holding
<1>5. CASE /\ disposal'.phase \notin {"checked", "purging", "purged"}
  BY <1>5 DEF DisposalIsSound, Holding
\* It has lost its mutex, or it stays, and so does what it relies on.
<1>6. CASE /\ disposal'.phase = disposal.phase /\ disposal'.item = disposal.item
           /\ disposal.evicted => disposal'.evicted
           /\ ~disposal'.evicted /\ mutex = "disposal" => mutex' = "disposal"
           /\ now' >= now /\ now' \in Nat
           /\ ~overtaken' => /\ ~overtaken
                             /\ index' = index \/ (mutex = "free" /\ index.status # "disposed")
                             /\ contents' \subseteq contents \/ index.status # "disposed"
  <2>1. Tombstone(TRUE)' = Tombstone(TRUE) /\ Purged' = Purged
    BY <1>6 DEF Tombstone, Purged
  <2>2. Tombstone(TRUE).status = "disposed"
    BY <1>0 DEF Tombstone, Items
  <2>3. disposal.item.until \in Nat /\ disposal.evicted \in BOOLEAN
    BY <1>0 DEF DisposalTypes, Items, Times
  <2>4. Holding' => /\ ~disposal'.evicted => mutex' = "disposal"
                    /\ disposal'.item.status = "active" /\ ~disposal'.item.hold
                    /\ disposal'.item.until <= now'
    BY <1>0, <1>6, <2>3 DEF DisposalIsSound, Holding
  <2>5. ~overtaken' /\ disposal'.phase = "checked" /\ ~disposal'.evicted => index' = disposal'.item
    BY <1>0, <1>6 DEF DisposalIsSound, Holding
  <2>6. ~overtaken' /\ disposal'.phase \in {"purging", "purged"} => index' = Tombstone(TRUE)'
    BY <1>0, <1>6, <2>1, <2>2 DEF DisposalIsSound
  <2>7. ~overtaken' /\ disposal'.phase = "purged" => (Purged \cap contents = {})'
    BY <1>0, <1>6, <2>1, <2>2 DEF DisposalIsSound
  <2>8. QED BY <2>4, <2>5, <2>6, <2>7 DEF DisposalIsSound
<1>7. CASE /\ UNCHANGED <<disposal, mutex, now>>
           /\ ~overtaken' => /\ ~overtaken
                             /\ index' = index \/ (mutex = "free" /\ index.status # "disposed")
                             /\ contents' \subseteq contents \/ index.status # "disposed"
  BY <1>0, <1>6, <1>7
<1>8. ASSUME NEW next \in Items,
             Uploaded(next) \/ Changed(next) \/ Suspend(next) \/ (\E until \in Times : Ingest(until))
      PROVE  DisposalIsSound'
  <2>1. CASE Uploaded(next) \/ Changed(next)
    BY <1>0, <1>7, <2>1 DEF Uploaded, Changed, Active
  <2>2. CASE \E until \in Times : Ingest(until)
    BY <1>0, <1>7, <2>2, Ingested
  <2>3. CASE Suspend(next)
    BY <1>0, <1>7, <2>3 DEF Suspend, custodyVars
  <2>4. QED BY <1>8, <2>1, <2>2, <2>3
<1>9. ASSUME NEW r \in late, LateContent(r) \/ LateStops(r) PROVE DisposalIsSound'
  <2>1. r \in LateOps
    BY <1>0
  <2>2. LateContent(r) /\ ~overtaken' => index.status # "disposed"
    BY <1>0, <2>1 DEF LateContent, Intrudes, LateIsSound, Sound, Adds, LateOps, Items
  <2>3. index' = index /\ UNCHANGED <<disposal, mutex, now>>
        /\ (LateStops(r) => contents' = contents)
    BY <1>9 DEF LateContent, LateStops, custodyVars
  <2>4. QED BY <1>0, <1>7, <1>9, <2>2, <2>3
<1>10. ASSUME NEW r \in late, LateSave(r) PROVE DisposalIsSound'
  <2>1. UNCHANGED <<disposal, mutex, now>> /\ contents' \subseteq contents /\ index' \in {index, r.next}
    BY <1>10 DEF LateSave
  <2>2. ~overtaken' => Sound(index, r.next) /\ mutex = "free"
    BY <1>10, LateSaveFinds
  <2>3. ~overtaken' => index' = index \/ (mutex = "free" /\ index.status # "disposed")
    BY <2>1, <2>2 DEF Sound
  <2>4. QED BY <1>0, <1>7, <2>1, <2>3
<1>11. CASE MutexLapses
  <2>1. UNCHANGED <<index, contents, overtaken, now>>
    BY <1>11 DEF MutexLapses, custodyVars, lateVars
  <2>2. /\ disposal'.phase = disposal.phase /\ disposal'.item = disposal.item
        /\ disposal.evicted \/ mutex = "disposal" => disposal'.evicted
    BY <1>0, <1>11 DEF MutexLapses, DisposalTypes
  <2>3. QED BY <1>0, <1>6, <2>1, <2>2
<1>12. CASE LookForReferences \/ PassGate
  BY <1>0, <1>5, <1>12 DEF LookForReferences, PassGate, DisposalTypes
<1>13. CASE DisposalStops
  <2>1. CASE disposal' = NoDisposal
    BY <1>5, <2>1 DEF NoDisposal
  <2>2. QED BY <1>3, <1>13, <2>1 DEF DisposalStops
<1>14. CASE FindingRequest
  <2>1. UNCHANGED <<disposal, index, contents, overtaken, now>>
        /\ (mutex = "disposal" => mutex' = "disposal")
    BY <1>14 DEF FindingRequest, GuardReference, CommitFinding, RefuseFinding, ReleaseGuard,
       custodyVars, lateVars
  <2>2. QED BY <1>0, <1>6, <2>1
<1>15. CASE Tick
  <2>1. UNCHANGED <<disposal, mutex, index, contents, overtaken>> /\ now' = now + 1
    BY <1>15 DEF Tick, custodyVars, lateVars
  <2>2. QED BY <1>0, <1>6, <2>1
<1>16. CASE PreservationRequest \/ WriteObject \/ WriteReceipt \/ ArchivingStops \/ UNCHANGED vars
  <2>1. UNCHANGED <<disposal, mutex, index, contents, overtaken, now>>
    BY <1>16 DEF PreservationRequest, ReadForPreservation, WriteObject, WriteReceipt,
       ArchivingStops, vars, custodyVars, lateVars
  <2>2. QED BY <1>0, <1>7, <2>1
<1>17. RecordPurge => ReleaseDisposal
  BY DEF RecordPurge
<1>18. QED
  BY <1>0, <1>1, <1>2, <1>3, <1>4, <1>8, <1>9, <1>10, <1>11, <1>12, <1>13, <1>14, <1>15, <1>16,
     <1>17, Steps DEF Aside

LEMMA GuardKept == ASSUME Inv, [Next]_vars PROVE GuardedIsActive'
<1> SUFFICES ASSUME finding' = "validated", mutex' = "finding", ~overtaken' PROVE Active'
  BY DEF GuardedIsActive
<1>0. TypeOK /\ HeldIsActive /\ GuardedIsActive /\ ~overtaken
  BY OvertakenGrows DEF Inv
<1>1. finding = "validated" /\ mutex = "finding" => Active
  BY <1>0 DEF GuardedIsActive
<1>2. ASSUME NEW until \in Times, Ingest(until) PROVE FALSE
  BY <1>2, Ingested
<1>3. ASSUME NEW next \in Items, Uploaded(next) \/ Changed(next) PROVE FALSE
  BY <1>3 DEF Uploaded, Changed
<1>4. ASSUME NEW next \in Items, Suspend(next) PROVE Active'
  BY <1>1, <1>4 DEF Suspend, custodyVars, Active
<1>5. ASSUME NEW r \in late, LateContent(r) \/ LateSave(r) \/ LateStops(r) PROVE Active'
  BY <1>1, <1>5 DEF LateContent, LateSave, LateStops, Intrudes, custodyVars, Active
<1>6. CASE CommitDisposal \/ RemoveContents \/ RecordPurge
  <2>1. mutex # "finding"
    BY <1>6, DisposalFinds
  <2>2. QED
    BY <1>6, <2>1 DEF CommitDisposal, RemoveContents, RecordPurge, ReleaseDisposal
<1>7. CASE FindingRequest
  BY <1>1, <1>7 DEF FindingRequest, GuardReference, CommitFinding, RefuseFinding, ReleaseGuard,
     custodyVars, Active
<1>8. CASE DisposalStops \/ LoadForDisposal \/ MutexLapses
  BY <1>1, <1>8 DEF DisposalStops, ReleaseDisposal, LoadForDisposal, MutexLapses, custodyVars, Active
<1>9. CASE UNCHANGED <<finding, mutex, index>>
  BY <1>1, <1>9 DEF Active
<1>10. Aside => FindingRequest \/ DisposalStops \/ LoadForDisposal \/ MutexLapses
                \/ UNCHANGED <<finding, mutex, index>>
  BY DEF Aside, PreservationRequest, ReadForPreservation, LookForReferences, WriteObject,
     WriteReceipt, ArchivingStops, PassGate, Tick, vars, custodyVars
<1>11. QED
  BY <1>0, <1>2, <1>3, <1>4, <1>5, <1>6, <1>7, <1>8, <1>9, <1>10, Steps

\* What the receipts and the gates rely on, as a step leaves it.
LEMMA ArchiveSteps ==
  ASSUME Inv, [Next]_vars
  PROVE  Aside \/ UNCHANGED archiveVars
<1>1. TypeOK /\ HeldIsActive
  BY DEF Inv
<1>2. QED
  BY <1>1, Steps DEF Ingest, Uploaded, Changed, Suspend, LateContent, LateSave, LateStops,
     CommitDisposal, RemoveContents, RecordPurge

LEMMA ReceiptsKept == ASSUME Inv, [Next]_vars PROVE ReceiptIsDue' /\ GatedIsPreserved'
<1>0. ReceiptIsDue /\ GatedIsPreserved /\ TypeOK /\ HeldIsActive
  BY DEF Inv
<1>1. ASSUME WriteObject PROVE ReceiptIsDue'
  <2>1. /\ objects' = objects \cup {archiving.archive} /\ receipts' = receipts
        /\ archiving'.archive = archiving.archive
    BY <1>0, <1>1 DEF WriteObject, TypeOK
  <2>2. QED BY <1>0, <2>1 DEF ReceiptIsDue
<1>2. WriteReceipt => ReceiptIsDue'
  BY <1>0 DEF WriteReceipt, ReceiptIsDue, NoArchiving
<1>3. /\ UNCHANGED <<objects, receipts>>
      /\ UNCHANGED archiving \/ archiving'.phase # "object"
      => ReceiptIsDue'
  BY <1>0 DEF ReceiptIsDue
<1>4. ArchivingStops \/ PreservationRequest => ReceiptIsDue'
  BY <1>3 DEF ArchivingStops, PreservationRequest, ReadForPreservation, NoArchiving
<1>5. UNCHANGED archiveVars => ReceiptIsDue'
  BY <1>3 DEF archiveVars
<1>6. Aside => \/ WriteObject \/ WriteReceipt \/ ArchivingStops \/ PreservationRequest
               \/ UNCHANGED archiveVars
  BY DEF Aside, FindingRequest, GuardReference, CommitFinding, RefuseFinding, ReleaseGuard,
     MutexLapses, LookForReferences, PassGate, LoadForDisposal, DisposalStops, Tick, vars
<1>7. objects \subseteq objects' /\ receipts \subseteq receipts'
  BY <1>6, ArchiveSteps DEF WriteObject, WriteReceipt, ArchivingStops, PreservationRequest,
     ReadForPreservation, archiveVars
<1>8. ReceiptIsDue'
  BY <1>1, <1>2, <1>4, <1>5, <1>6, ArchiveSteps
<1>9. CASE PassGate
  <2>1. /\ disposal'.versions = index.versions /\ disposal'.until = index.until
        /\ Required => \A v \in 1..index.versions : Verified(v, index.until)
    BY <1>0, <1>9 DEF PassGate, Stored, TypeOK
  <2>2. QED BY <1>7, <1>8, <2>1 DEF GatedIsPreserved, Verified
<1>10. CASE disposal'.phase \notin {"gated", "checked", "purging", "purged"}
  BY <1>8, <1>10 DEF GatedIsPreserved
<1>11. CASE /\ disposal.phase \in {"gated", "checked", "purging", "purged"}
            /\ disposal'.versions = disposal.versions /\ disposal'.until = disposal.until
  BY <1>0, <1>7, <1>8, <1>11 DEF GatedIsPreserved, Verified
<1>12. CASE /\ disposal'.phase = disposal.phase
            /\ disposal'.versions = disposal.versions /\ disposal'.until = disposal.until
  BY <1>10, <1>11, <1>12
<1>13. CASE disposal' = NoDisposal
  BY <1>10, <1>13 DEF NoDisposal
<1>14. CASE LookForReferences
  BY <1>0, <1>10, <1>14 DEF LookForReferences, TypeOK
<1>15. CASE LoadForDisposal \/ CommitDisposal \/ RemoveContents \/ RecordPurge \/ DisposalStops
  <2>1. \/ disposal' = NoDisposal
        \/ /\ disposal.phase \in {"gated", "checked", "purging", "purged"}
           /\ disposal'.versions = disposal.versions /\ disposal'.until = disposal.until
    BY <1>0, <1>15 DEF LoadForDisposal, CommitDisposal, RemoveContents, RecordPurge,
       DisposalStops, ReleaseDisposal, TypeOK
  <2>2. QED BY <1>11, <1>13, <2>1
<1>16. CASE MutexLapses
  BY <1>0, <1>12, <1>16 DEF MutexLapses, TypeOK
<1>17. CASE UNCHANGED disposal
  BY <1>12, <1>17
<1>18. Aside => \/ PassGate \/ LookForReferences \/ LoadForDisposal \/ DisposalStops \/ MutexLapses
                \/ UNCHANGED disposal
  BY DEF Aside, PreservationRequest, ReadForPreservation, FindingRequest, GuardReference,
     CommitFinding, RefuseFinding, ReleaseGuard, WriteObject, WriteReceipt, ArchivingStops, Tick, vars
<1>19. \/ Aside \/ CommitDisposal \/ RemoveContents \/ RecordPurge \/ UNCHANGED disposal
  BY <1>0, Steps DEF Ingest, Uploaded, Changed, Suspend, LateContent, LateSave, LateStops
<1>20. QED
  BY <1>9, <1>14, <1>15, <1>16, <1>17, <1>18, <1>19

LEMMA InvKept == Inv /\ [Next]_vars => Inv'
BY TypesKept, ContentsKept, LateKept, LateContentKept, DisposalKept, GuardKept, ReceiptsKept DEF Inv

-----------------------------------------------------------------------------
\* The inductive invariant.
THEOREM CustodyInvariant == Spec => []Inv
BY InitInv, InvKept, PTL DEF Spec

\* ingest, addVersion, dispose: the index and the contents agree, whatever
\* stopped or failed, as long as no index was saved by a call that threw and
\* nobody who was evicted intruded.
THEOREM ContentsFollowIndex == Spec => []IndexMatchesContents
<1>1. Inv => IndexMatchesContents
  BY DEF Inv
<1>2. QED BY <1>1, CustodyInvariant, PTL

\* evidencePreservationRegistry.js, dispose: the versions that the gate saw
\* are preserved with their receipts.
THEOREM GateNeedsReceipts == Spec => []GatedIsPreserved
<1>1. Inv => GatedIsPreserved
  BY DEF Inv
<1>2. QED BY <1>1, CustodyInvariant, PTL

\* docs/evidence-preservation.md:109: a receipt speaks of an object that is
\* there, wherever a preservation stopped.
THEOREM ReceiptsSpeakOfObjects == Spec => []ReceiptsHaveObjects
<1>1. Inv => ReceiptsHaveObjects
  BY DEF Inv, ReceiptIsDue, ReceiptsHaveObjects
<1>2. QED BY <1>1, CustodyInvariant, PTL

\* docs/evidence-chain-of-custody.md:84 and :90: while an item is held, or its
\* date has not come, it stays active and its contents stay, and the date of a
\* held one does not come closer; until somebody who was evicted intrudes.
THEOREM ProtectionHonoured == Spec => ProtectedIsKept
<1>1. Inv /\ [Next]_vars =>
        [Active /\ (index.hold \/ index.until > now) /\ ~overtaken' =>
           /\ index'.status = "active" /\ Stored \cap contents \subseteq contents'
           /\ index.hold => index'.until >= index.until]_vars
  <2> SUFFICES ASSUME Inv, [Next]_vars, Active, index.hold \/ index.until > now, ~overtaken'
               PROVE  /\ index'.status = "active" /\ Stored \cap contents \subseteq contents'
                      /\ index.hold => index'.until >= index.until
    OBVIOUS
  <2>1. index.until \in Nat /\ now \in Nat
    BY DEF Inv, TypeOK, Items, Times
  <2>2. ~CommitDisposal
    BY <2>1, DisposalFinds
  <2>3. QED BY <2>2, ItemKept
<1>2. QED BY <1>1, CustodyInvariant, PTL DEF Spec, ProtectedIsKept

\* docs/evidence-chain-of-custody.md:47: no disposition comes between the
\* validation of a reference and the finding, as long as the guard is there and
\* nobody who was evicted intrudes.
THEOREM GuardsHold == Spec => GuardCoversFinding
<1>1. Inv /\ [Next]_vars =>
        [finding = "validated" /\ finding' = "created" /\ mutex = "finding" /\ ~overtaken
           => Active]_vars
  BY DEF Inv, GuardedIsActive
<1>2. QED BY <1>1, CustodyInvariant, PTL DEF Spec, GuardCoversFinding
=============================================================================
