--------------------------- MODULE SecurityArchive ---------------------------
(***************************************************************************)
(* src/security/securityEventArchive.js over securityArchiveFilesystem.js: *)
(* events are appended to day segments as a hash chain; a head file names  *)
(* the last one, and segments past the retention are pruned with a signed  *)
(* anchor and a journal.  Every operation holds the file mutex from        *)
(* beginning to end, so one runs at a time; it may stop, by a crash or an  *)
(* exception, between any two changes to the directory, and the next one   *)
(* recovers.  What an evicted holder of the mutex may still do is the      *)
(* subject of FileLease and PrivilegedAccess.                              *)
(*                                                                         *)
(* Envelopes are records; the hash of one is its event, which no other     *)
(* envelope holds.  A file of a segment exists when it has an envelope,    *)
(* and its last line is the one with the highest sequence.  Signatures,    *)
(* encryption and tampering are left out.                                  *)
(***************************************************************************)
EXTENDS Integers, Sequences, FiniteSets

CONSTANTS RetentionDays,  \* retentionDays
          MaxSegment,     \* envelopes that fill a segment (maxSegmentBytes)
          Skew,           \* days the clock of a process may be behind
          MaxDay,         \* bound: the last day
          MaxEvents       \* bound: events offered to append

ASSUME ArchiveAssumption ==
  /\ RetentionDays \in Nat \ {0} /\ MaxSegment \in Nat \ {0}
  /\ Skew \in Nat /\ MaxDay \in Nat \ {0} /\ MaxEvents \in Nat

Genesis   == 0   \* the hash before the first envelope
NoSegment == <<0, 0>>
NoFile    == [none |-> TRUE]

VARIABLES stored,   \* the envelopes of all segment files, .pruning or not
          aside,    \* the segments renamed to .pruning
          anchor,   \* anchor.json
          head,     \* head.json
          plan,     \* prune-plan.json
          day,      \* the day by the clock that is right
          made,     \* the events offered so far; the latest is the number
          op,       \* the operation that holds the mutex and its clock
          at,       \* how far that operation is
          outcome   \* how the latest operation ended

disk == <<stored, aside, anchor, head, plan>>
vars == <<stored, aside, anchor, head, plan, day, made, op, at, outcome>>

\* Segments are named by day and ordinal, and names sort by both.
Before(m, n) == m[1] < n[1] \/ (m[1] = n[1] /\ m[2] < n[2])
Latest(names) == CHOOSE n \in names : \A m \in names : m = n \/ Before(m, n)
LastOf(envelopes) ==
  CHOOSE e \in envelopes : \A f \in envelopes : f.sequence <= e.sequence

Named(names) == {e \in stored : e.segment \in names}
SegmentNames == {e.segment : e \in stored} \ aside
Readable     == {e \in stored : e.segment \notin aside}

HeadOf(e) == [sequence |-> e.sequence, hash |-> e.event, segment |-> e.segment]
AnchorOf(e) == [sequence |-> e.sequence, hash |-> e.event]

ReadHead ==
  IF head # NoFile THEN head
  ELSE [sequence |-> anchor.sequence, hash |-> anchor.hash, segment |-> NoSegment]

\* The readable envelopes are numbered without a gap from the anchor on, and
\* each carries the hash of the one before it.
Linked ==
  /\ \A e, f \in Readable : e.sequence = f.sequence => e = f
  /\ \A e \in Readable :
       \/ e.sequence = anchor.sequence + 1 /\ e.previous = anchor.hash
       \/ \E f \in Readable : e.sequence = f.sequence + 1 /\ e.previous = f.event

Verifies ==
  /\ Linked
  /\ ReadHead.sequence >= anchor.sequence
  /\ LET last == IF Readable = {} THEN anchor ELSE AnchorOf(LastOf(Readable))
     IN ReadHead.sequence = last.sequence /\ ReadHead.hash = last.hash

(***************************************************************************)
(* recoverHeadLocked: the head that is right for the segments.             *)
(***************************************************************************)
LastLine == LastOf(Named({ReadHead.segment}))

HeadIsLatest == /\ ReadHead.segment \in SegmentNames
                /\ ReadHead.segment = Latest(SegmentNames)

IsCurrent == /\ HeadIsLatest
             /\ AnchorOf(LastLine) = [sequence |-> ReadHead.sequence, hash |-> ReadHead.hash]

IsOneBehind == /\ HeadIsLatest
               /\ LastLine.sequence = ReadHead.sequence + 1
               /\ LastLine.previous = ReadHead.hash

Recoverable ==
  /\ ReadHead.sequence >= anchor.sequence
  /\ IF Readable = {}
     THEN ReadHead.sequence = anchor.sequence /\ ReadHead.hash = anchor.hash
     ELSE \/ IsCurrent
          \/ IsOneBehind
          \/ LET last == LastOf(Readable)
             IN /\ Linked
                /\ last.sequence >= ReadHead.sequence
                /\ last.sequence = ReadHead.sequence => last.event = ReadHead.hash

RecoveredHead ==
  IF Readable = {} \/ IsCurrent THEN ReadHead
  ELSE IF IsOneBehind THEN HeadOf(LastLine)
  ELSE HeadOf(LastOf(Readable))

(***************************************************************************)
(* selectSegment: the segment of the head while it is of the day and has   *)
(* room, or else the next ordinal of the day.                              *)
(***************************************************************************)
SelectSegment(current) ==
  LET here     == ReadHead.segment
      ordinals == {n[2] : n \in {m \in SegmentNames : m[1] = current}}
      highest  == IF ordinals = {} THEN 0
                  ELSE CHOOSE k \in ordinals : \A j \in ordinals : j <= k
  IN IF here[1] = current /\ Cardinality(Named({here})) < MaxSegment
     THEN here ELSE <<current, highest + 1>>

\* Mutant: the last day of the retention is pruned as well.
Deletable_Early ==
  {n \in SegmentNames : n # head.segment /\ n[1] <= op.current - RetentionDays}

Deletable == {n \in SegmentNames : n # head.segment /\ n[1] < op.current - RetentionDays}

\* Mutant: a journal counts as committed once it was written.
Committed_Always == plan.anchor.sequence >= anchor.sequence

Committed == anchor = plan.anchor

(***************************************************************************)
(* Operations, in the order in which they change the directory.            *)
(***************************************************************************)
Idle == [does |-> "nothing", current |-> 0]

Init ==
  /\ stored = {} /\ aside = {}
  /\ anchor = [sequence |-> 0, hash |-> Genesis]
  /\ head = NoFile /\ plan = NoFile
  /\ day = 1 /\ made = 0
  /\ op = Idle /\ at = "idle" /\ outcome = "none"

End(result) == at' = "idle" /\ op' = Idle /\ outcome' = result

GoTo(step) == at' = step /\ UNCHANGED <<op, outcome>>

\* append, or verify with what list and health change as well.
Begin(does, current) ==
  /\ at = "idle"
  /\ does = "append" => made < MaxEvents
  /\ made' = IF does = "append" THEN made + 1 ELSE made
  /\ op' = [does |-> does, current |-> current]
  /\ at' = "recover"
  /\ UNCHANGED <<disk, day, outcome>>

\* recoverPruneLocked, a segment of the journal at a time.
RecoverSegment(name) ==
  /\ at = "recover" /\ plan # NoFile
  /\ name \in plan.segments
  /\ name \in aside \/ (Committed /\ name \in SegmentNames)
  /\ stored' = IF Committed THEN stored \ Named({name}) ELSE stored
  /\ aside' = aside \ {name}
  /\ UNCHANGED <<anchor, head, plan, day, made, op, at, outcome>>

RecoverPlan ==
  /\ at = "recover" /\ plan # NoFile
  /\ plan.segments \cap aside = {}
  /\ Committed => plan.segments \cap SegmentNames = {}
  /\ plan' = NoFile
  /\ UNCHANGED <<stored, aside, anchor, head, day, made, op, at, outcome>>

\* readAnchor, readHead and recoverHeadLocked.
RecoverHead ==
  /\ at = "recover" /\ plan = NoFile
  /\ UNCHANGED <<stored, aside, anchor, plan, day, made>>
  /\ \/ /\ Recoverable
        /\ head' = IF RecoveredHead = ReadHead THEN head ELSE RecoveredHead
        /\ GoTo(IF op.does = "append" THEN "append" ELSE "verify")
     \/ /\ ~Recoverable
        /\ UNCHANGED head
        /\ End("invalid")

\* verifyLocked after its recoveries.
Verify ==
  /\ at = "verify"
  /\ End(IF Verifies THEN "ok" ELSE "invalid")
  /\ UNCHANGED <<disk, day, made>>

AppendSegment ==
  /\ at = "append"
  /\ stored' = stored \cup
       {[sequence |-> ReadHead.sequence + 1, previous |-> ReadHead.hash,
         event |-> made, segment |-> SelectSegment(op.current)]}
  /\ GoTo("head")
  /\ UNCHANGED <<aside, anchor, head, plan, day, made>>

\* The head names the envelope that was just appended.
WriteHead ==
  /\ at = "head"
  /\ \E e \in stored : e.event = made /\ head' = HeadOf(e)
  /\ GoTo("prune")
  /\ UNCHANGED <<stored, aside, anchor, plan, day, made>>

\* pruneLocked up to its journal.
Prune ==
  /\ at = "prune"
  /\ UNCHANGED <<stored, aside, anchor, head, day, made>>
  /\ \/ Deletable = {} /\ End("ok") /\ UNCHANGED plan
     \/ Deletable # {} /\ ~Verifies /\ End("invalid") /\ UNCHANGED plan
     \/ /\ Deletable # {} /\ Verifies
        /\ plan' = [anchor   |-> AnchorOf(LastOf(Named({Latest(Deletable)}))),
                    segments |-> Deletable]
        /\ GoTo("set_aside")

SetAside(name) ==
  /\ at = "set_aside"
  /\ name \in plan.segments \cap SegmentNames
  /\ aside' = aside \cup {name}
  /\ UNCHANGED <<stored, anchor, head, plan, day, made, op, at, outcome>>

WriteAnchor ==
  /\ at = "set_aside" /\ plan.segments \cap SegmentNames = {}
  /\ anchor' = plan.anchor
  /\ GoTo("discard")
  /\ UNCHANGED <<stored, aside, head, plan, day, made>>

Discard(name) ==
  /\ at = "discard" /\ name \in plan.segments \cap aside
  /\ stored' = stored \ Named({name})
  /\ aside' = aside \ {name}
  /\ UNCHANGED <<anchor, head, plan, day, made, op, at, outcome>>

RemovePlan ==
  /\ at = "discard" /\ plan.segments \cap aside = {}
  /\ plan' = NoFile
  /\ End("ok")
  /\ UNCHANGED <<stored, aside, anchor, head, day, made>>

\* The process dies, or a file operation throws and the mutex is released.
Stop ==
  /\ at # "idle"
  /\ End("stopped")
  /\ UNCHANGED <<disk, day, made>>

NextDay ==
  /\ day < MaxDay
  /\ day' = day + 1
  /\ UNCHANGED <<disk, made, op, at, outcome>>

Next ==
  \/ \E does \in {"append", "verify"}, current \in (day - Skew)..day :
       current > 0 /\ Begin(does, current)
  \/ \E name \in {e.segment : e \in stored} :
       RecoverSegment(name) \/ SetAside(name) \/ Discard(name)
  \/ RecoverPlan \/ RecoverHead \/ Verify
  \/ AppendSegment \/ WriteHead
  \/ Prune \/ WriteAnchor \/ RemovePlan
  \/ Stop \/ NextDay

Spec == Init /\ [][Next]_vars

(***************************************************************************)
(* Properties.                                                             *)
(***************************************************************************)
Names     == (1..MaxDay) \X (1..MaxEvents)
Sequences == 0..MaxEvents
Hashes    == 0..MaxEvents

\* Every file holds what its readers expect, and the mutex has one operation.
TypeOK ==
  /\ stored \subseteq [sequence : Sequences \ {0}, previous : Hashes,
                       event : Hashes \ {Genesis}, segment : Names]
  /\ aside \subseteq {e.segment : e \in stored}
  /\ anchor \in [sequence : Sequences, hash : Hashes]
  /\ head \in [sequence : Sequences, hash : Hashes, segment : Names] \cup {NoFile}
  /\ \/ plan = NoFile
     \/ plan \in [anchor : [sequence : Sequences, hash : Hashes], segments : SUBSET Names]
  /\ day \in 1..MaxDay /\ made \in 0..MaxEvents
  /\ op \in [does : {"append", "verify"}, current : 1..MaxDay] \cup {Idle}
  /\ at \in {"idle", "recover", "append", "head", "prune", "set_aside", "discard", "verify"}
  /\ outcome \in {"none", "ok", "invalid", "stopped"}

\* No operation ever finds the archive broken: whatever an append or a
\* pruning was stopped in, the next operation recovers a chain that verifies
\* (recoverPruneLocked and recoverHeadLocked).
AlwaysRecovers == outcome # "invalid"

\* A segment that is set aside is named by the journal, which is what puts it
\* back or takes it away; the segment of the head is never one of them.
AsideIsJournalled ==
  /\ aside # {} => plan # NoFile /\ aside \subseteq plan.segments
  /\ plan # NoFile => head # NoFile /\ head.segment \notin plan.segments

\* The head is at most one envelope behind the segments and never ahead of
\* them, so that no number is given to two events.
HeadFollows ==
  \A e \in stored : /\ e.sequence <= ReadHead.sequence + 1
                    /\ e.sequence = ReadHead.sequence => e.event = ReadHead.hash

\* The directory implements the log that callers are promised: the envelopes
\* past the anchor, wherever their files are, in order of their numbers.
Retained == {e \in stored : e.sequence > anchor.sequence}
Kept(i)  == CHOOSE e \in Retained : e.sequence = anchor.sequence + i
Log      == [i \in 1..Cardinality(Retained) |->
               [event |-> Kept(i).event, day |-> Kept(i).segment[1]]]
Promised == INSTANCE ArchiveLog WITH
  Events  <- Hashes \ {Genesis},
  dropped <- anchor.sequence,
  log     <- Log
ImplementsLog == Promised!Spec

=============================================================================
