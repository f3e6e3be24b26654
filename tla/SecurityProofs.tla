---------------------------- MODULE SecurityProofs ----------------------------
(***************************************************************************)
(* Theorems about SecurityArchive and, in the last part, AlertOutbox.      *)
(*                                                                         *)
(* When the processes share a clock, every operation of the archive        *)
(* recovers a chain that verifies from whatever an earlier one was stopped *)
(* in, and its directory implements the log of ArchiveLog.  Within its     *)
(* retention the outbox loses no alert and takes no receipt back.          *)
(***************************************************************************)
EXTENDS SecurityArchive, AlertOutbox, FiniteSetTheorems, SequenceTheorems,
        WellFoundedInduction, TLAPS

-----------------------------------------------------------------------------
(* The inductive invariant.                                                 *)

Days     == Nat \ {0}
Segments == Days \X (Nat \ {0})
Envelope == [sequence : Nat \ {0}, previous : Nat, event : Nat \ {0}, segment : Segments]
Heads    == [sequence : Nat, hash : Nat, segment : Segments]
Anchors  == [sequence : Nat, hash : Nat]
Plans    == [anchor : Anchors, segments : SUBSET Names]

Steps == {"idle", "recover", "append", "head", "prune", "set_aside", "discard", "verify"}

Shape ==
  /\ stored \subseteq Envelope
  /\ aside \subseteq {e.segment : e \in stored}
  /\ anchor \in Anchors
  /\ head \in Heads \cup {NoFile}
  /\ plan \in Plans \cup {NoFile}
  /\ day \in 1..MaxDay
  /\ made \in 0..MaxEvents
  /\ op \in [does : {"append", "verify"}, current : 1..MaxDay] \cup {Idle}
  /\ at \in Steps
  /\ outcome \in {"none", "ok", "stopped"}

\* The envelopes are a chain without a gap that begins at the anchor, and
\* the segments lie along it in the order of their names.
ChainOK ==
  /\ \A e, f \in stored : e.sequence = f.sequence => e = f
  /\ \A e, f \in stored : e.event = f.event => e = f
  /\ \A e, f \in stored : f.sequence = e.sequence + 1 => f.previous = e.event
  /\ \A e \in stored : e.sequence = anchor.sequence + 1 => e.previous = anchor.hash
  /\ \A e \in stored : \A i \in (anchor.sequence + 1)..e.sequence :
       \E f \in stored : f.sequence = i
  /\ \A e, f \in stored : e.sequence < f.sequence =>
       e.segment = f.segment \/ Before(e.segment, f.segment)

\* The head names an envelope that is kept, at most one from the end.
HeadOK ==
  /\ head # NoFile => \E e \in stored : HeadOf(e) = head /\ e.sequence > anchor.sequence
  /\ head = NoFile => anchor.sequence = 0
  /\ \A e \in stored : e.sequence <= ReadHead.sequence + 1

\* The journal names a beginning of the chain that is old enough; what is
\* before the anchor is being taken away under a committed one.
PlanOK ==
  /\ plan = NoFile => aside = {} /\ \A e \in stored : e.sequence > anchor.sequence
  /\ plan # NoFile =>
       /\ head # NoFile
       /\ head.segment \notin plan.segments
       /\ aside \subseteq plan.segments
       /\ \A e \in stored : e.segment \in plan.segments <=> e.sequence <= plan.anchor.sequence
       /\ \/ Committed
          \/ /\ \E e \in stored : AnchorOf(e) = plan.anchor
             /\ \A e \in stored : e.sequence > anchor.sequence
       /\ \A e \in stored : e.segment \in plan.segments => e.segment[1] + RetentionDays < day

\* What each step of an operation may count on.
StepOK ==
  /\ at \in {"append", "head", "prune", "verify"} => plan = NoFile
  /\ at = "set_aside" => plan # NoFile /\ ~Committed
  /\ at = "discard" => plan # NoFile /\ Committed /\ plan.segments \cap SegmentNames = {}
  /\ at \in {"append", "verify", "prune"} => \A e \in stored : e.sequence <= ReadHead.sequence
  /\ at = "head" => \E e \in stored : e.event = made /\ e.sequence = ReadHead.sequence + 1
  /\ at = "append" => op.does = "append"
  /\ at \in {"recover", "append"} /\ op.does = "append" =>
       made > 0 /\ \A e \in stored : e.event < made

\* Segments are of days the clock of the operation has reached.
ClockOK ==
  /\ \A e \in stored : e.segment[1] <= day
  /\ op.current <= day
  /\ at # "idle" => op.current > 0 /\ \A e \in stored : e.segment[1] <= op.current

\* Numbers and ordinals do not outrun the events that were offered.
CountsOK ==
  /\ \A e \in stored : e.event <= made /\ e.sequence <= e.event /\ e.previous <= made
  /\ \A e \in stored : e.segment[2] <= e.sequence
  /\ anchor.sequence <= anchor.hash /\ anchor.hash <= made

ArchiveInv == Shape /\ ChainOK /\ HeadOK /\ PlanOK /\ StepOK /\ ClockOK /\ CountsOK

-----------------------------------------------------------------------------
(* Nothing outruns the bounds.                                              *)

LEMMA NamesBounded ==
  ASSUME ArchiveInv
  PROVE  \A e \in stored : /\ e.segment \in Names
                           /\ e.sequence \in 1..MaxEvents /\ e.event \in 1..MaxEvents
                           /\ e.previous \in 0..MaxEvents
<1> SUFFICES ASSUME NEW e \in stored
             PROVE  /\ e.segment \in Names
                    /\ e.sequence \in 1..MaxEvents /\ e.event \in 1..MaxEvents
                    /\ e.previous \in 0..MaxEvents
  OBVIOUS
<1>1. /\ e.sequence \in Nat \ {0} /\ e.previous \in Nat /\ e.event \in Nat \ {0}
      /\ e.segment \in Segments
      /\ e.segment[1] \in Nat \ {0} /\ e.segment[2] \in Nat \ {0}
      /\ e.segment = <<e.segment[1], e.segment[2]>>
      /\ made \in 0..MaxEvents /\ day \in 1..MaxDay
  BY DEF ArchiveInv, Shape, Envelope, Segments, Days
<1>2. /\ e.event <= made /\ e.sequence <= e.event /\ e.previous <= made
      /\ e.segment[2] <= e.sequence /\ e.segment[1] <= day
  BY DEF ArchiveInv, ClockOK, CountsOK
<1>3. MaxEvents \in Nat /\ MaxDay \in Nat
  BY ArchiveAssumption
<1>4. /\ e.sequence \in 1..MaxEvents /\ e.event \in 1..MaxEvents /\ e.previous \in 0..MaxEvents
      /\ e.segment[2] \in 1..MaxEvents /\ e.segment[1] \in 1..MaxDay
  BY <1>1, <1>2, <1>3
<1>5. e.segment \in Names
  BY <1>1, <1>4 DEF Names
<1>6. QED BY <1>4, <1>5

-----------------------------------------------------------------------------
(* Greatest numbers.                                                        *)

LEMMA LeastNatural ==
  ASSUME NEW T \in SUBSET Nat, T # {}
  PROVE  \E n \in T : \A m \in T : n <= m
<1>1. PICK n \in T : \A m \in T : ~(<<m, n>> \in OpToRel(<, Nat))
  BY NatLessThanWellFounded, WFMin, Zenon
<1>2. \A m \in T : ~(m < n)
  BY <1>1 DEF OpToRel
<1>3. QED BY <1>2

\* Some envelope of a set of them is the last, for the head is a bound.
LEMMA SomeLast ==
  ASSUME ArchiveInv, NEW S \in SUBSET stored, S # {}
  PROVE  \E e \in S : \A f \in S : f.sequence <= e.sequence
<1> DEFINE bound == ReadHead.sequence + 1
           T == {bound - e.sequence : e \in S}
<1>1. bound \in Nat
  BY DEF ArchiveInv, Shape, ReadHead, Heads, Anchors
<1>2. \A e \in S : e.sequence \in Nat /\ e.sequence <= bound
  BY DEF ArchiveInv, Shape, HeadOK, Envelope
<1> HIDE DEF bound
<1>3. T \in SUBSET Nat /\ T # {}
  BY <1>1, <1>2
<1>4. PICK n \in T : \A m \in T : n <= m
  BY <1>3, LeastNatural
<1>5. PICK e \in S : n = bound - e.sequence
  BY <1>4
<1>6. ASSUME NEW f \in S PROVE f.sequence <= e.sequence
  <2>1. bound - f.sequence \in T
    OBVIOUS
  <2>2. bound - e.sequence <= bound - f.sequence
    BY <1>4, <1>5, <2>1
  <2>3. QED BY <1>1, <1>2, <2>2
<1>7. QED BY <1>6

\* The envelope that LastOf selects is the last one.
LEMMA LastOfIs ==
  ASSUME ArchiveInv, NEW S \in SUBSET stored, NEW e \in S,
         \A f \in S : f.sequence <= e.sequence
  PROVE  LastOf(S) = e
<1>1. \A f \in S : f.sequence \in Nat
  BY DEF ArchiveInv, Shape, Envelope
<1>2. ASSUME NEW f \in S, \A g \in S : g.sequence <= f.sequence PROVE f = e
  <2>1. f.sequence = e.sequence
    BY <1>1, <1>2
  <2>2. QED BY <2>1 DEF ArchiveInv, ChainOK
<1>3. QED BY <1>2 DEF LastOf

LEMMA BeforeAsymmetric ==
  ASSUME NEW m \in Segments, NEW n \in Segments, Before(m, n)
  PROVE  m # n /\ ~Before(n, m)
BY DEF Segments, Days, Before

\* The latest of the segments is the one of the last envelope.
LEMMA LatestIs ==
  ASSUME ArchiveInv, NEW S \in SUBSET stored, NEW e \in S,
         \A f \in S : f.sequence <= e.sequence,
         NEW names, names = {f.segment : f \in S}
  PROVE  Latest(names) = e.segment
<1>1. names \subseteq Segments /\ e.segment \in names
  BY DEF ArchiveInv, Shape, Envelope
<1>2. ASSUME NEW m \in names PROVE m = e.segment \/ Before(m, e.segment)
  <2>1. PICK f \in S : f.segment = m
    OBVIOUS
  <2>2. f.sequence \in Nat /\ e.sequence \in Nat /\ f.sequence <= e.sequence
    BY DEF ArchiveInv, Shape, Envelope
  <2>3. CASE f.sequence = e.sequence
    BY <2>1, <2>3 DEF ArchiveInv, ChainOK
  <2>4. CASE f.sequence < e.sequence
    BY <2>1, <2>4 DEF ArchiveInv, ChainOK
  <2>5. QED BY <2>2, <2>3, <2>4
<1>3. ASSUME NEW n \in names, \A m \in names : m = n \/ Before(m, n) PROVE n = e.segment
  BY <1>1, <1>2, <1>3, BeforeAsymmetric
<1>4. QED BY <1>1, <1>2, <1>3 DEF Latest

-----------------------------------------------------------------------------
(* What recovery finds.                                                     *)

LEMMA ReadHeadType ==
  ASSUME ArchiveInv
  PROVE  /\ ReadHead.sequence \in Nat /\ ReadHead.hash \in Nat
         /\ head # NoFile => ReadHead = head /\ head \in Heads
         /\ head = NoFile => /\ ReadHead.sequence = 0 /\ anchor.sequence = 0
                             /\ ReadHead.hash = anchor.hash
                             /\ ReadHead.segment = NoSegment
BY DEF ArchiveInv, Shape, HeadOK, ReadHead, Heads, Anchors

\* A head file never looks like a missing one.
LEMMA HeadOfType ==
  ASSUME ArchiveInv, NEW e \in stored
  PROVE  HeadOf(e) \in Heads /\ HeadOf(e) # NoFile
<1>1. HeadOf(e) \in Heads
  BY DEF ArchiveInv, Shape, Envelope, HeadOf, Heads
<1>2. DOMAIN HeadOf(e) = {"sequence", "hash", "segment"} /\ DOMAIN NoFile = {"none"}
  BY DEF HeadOf, NoFile
<1>3. QED BY <1>1, <1>2

\* The last envelope is the one the head names or the one after it.
LEMMA LastAndHead ==
  ASSUME ArchiveInv, NEW e \in stored, \A f \in stored : f.sequence <= e.sequence
  PROVE  /\ e.sequence \in {ReadHead.sequence, ReadHead.sequence + 1}
         /\ e.sequence = ReadHead.sequence => head = HeadOf(e) /\ head # NoFile
         /\ e.sequence = ReadHead.sequence + 1 => e.previous = ReadHead.hash
<1>1. \A f \in stored : f.sequence \in Nat \ {0} /\ f.event \in Nat
  BY DEF ArchiveInv, Shape, Envelope
<1>2. e.sequence <= ReadHead.sequence + 1
  BY DEF ArchiveInv, HeadOK
<1>3. CASE head = NoFile
  <2>1. ReadHead.sequence = 0 /\ anchor.sequence = 0 /\ ReadHead.hash = anchor.hash
    BY <1>3, ReadHeadType
  <2>2. e.sequence = 1
    BY <1>1, <1>2, <2>1
  <2>3. e.previous = anchor.hash
    BY <2>1, <2>2 DEF ArchiveInv, ChainOK
  <2>4. QED BY <2>1, <2>2, <2>3
<1>4. CASE head # NoFile
  <2>1. PICK h \in stored : HeadOf(h) = head
    BY <1>4 DEF ArchiveInv, HeadOK
  <2>2. ReadHead.sequence = h.sequence /\ ReadHead.hash = h.event
    BY <1>4, <2>1 DEF ReadHead, HeadOf
  <2>3. e.sequence = h.sequence \/ e.sequence = h.sequence + 1
    BY <1>1, <1>2, <2>2
  <2>4. e.sequence = h.sequence => e = h
    BY DEF ArchiveInv, ChainOK
  <2>5. e.sequence = h.sequence + 1 => e.previous = h.event
    BY DEF ArchiveInv, ChainOK
  <2>6. QED BY <1>1, <1>4, <2>1, <2>2, <2>3, <2>4, <2>5
<1>5. QED BY <1>3, <1>4

\* Without a journal everything stored is readable and linked.
LEMMA WithoutPlan ==
  ASSUME ArchiveInv, plan = NoFile
  PROVE  /\ Readable = stored /\ SegmentNames = {e.segment : e \in stored}
         /\ Linked
<1>1. aside = {} /\ \A e \in stored : e.sequence > anchor.sequence
  BY DEF ArchiveInv, PlanOK
<1>2. Readable = stored /\ SegmentNames = {e.segment : e \in stored}
  BY <1>1 DEF Readable, SegmentNames
<1>3. ASSUME NEW e \in stored
      PROVE  \/ e.sequence = anchor.sequence + 1 /\ e.previous = anchor.hash
             \/ \E f \in stored : e.sequence = f.sequence + 1 /\ e.previous = f.event
  <2>1. e.sequence \in Nat /\ anchor.sequence \in Nat /\ e.sequence > anchor.sequence
    BY <1>1 DEF ArchiveInv, Shape, Envelope, Anchors
  <2>2. CASE e.sequence = anchor.sequence + 1
    BY <2>2 DEF ArchiveInv, ChainOK
  <2>3. CASE e.sequence # anchor.sequence + 1
    <3>1. e.sequence - 1 \in (anchor.sequence + 1)..e.sequence
      BY <2>1, <2>3
    <3>2. PICK f \in stored : f.sequence = e.sequence - 1
      BY <3>1 DEF ArchiveInv, ChainOK
    <3>3. e.sequence = f.sequence + 1
      BY <2>1, <3>2
    <3>4. e.previous = f.event
      BY <3>3 DEF ArchiveInv, ChainOK
    <3>5. QED BY <3>3, <3>4
  <2>4. QED BY <2>2, <2>3
<1>4. \A e, f \in stored : e.sequence = f.sequence => e = f
  BY DEF ArchiveInv, ChainOK
<1>5. QED BY <1>2, <1>3, <1>4 DEF Linked

\* recoverHeadLocked accepts what it finds and makes the head name the last
\* envelope.
LEMMA RecoveryFindsLast ==
  ASSUME ArchiveInv, plan = NoFile
  PROVE  /\ Recoverable
         /\ stored = {} => RecoveredHead = ReadHead /\ head = NoFile
         /\ \A e \in stored : (\A f \in stored : f.sequence <= e.sequence)
              => RecoveredHead = HeadOf(e)
<1>1. /\ Readable = stored /\ SegmentNames = {e.segment : e \in stored} /\ Linked
  BY WithoutPlan
<1>2. ReadHead.sequence \in Nat /\ anchor.sequence \in Nat /\ ReadHead.sequence >= anchor.sequence
  <2>1. CASE head = NoFile
    BY <2>1, ReadHeadType
  <2>2. CASE head # NoFile
    BY <2>2, ReadHeadType DEF ArchiveInv, HeadOK, HeadOf, Shape, Envelope, Anchors
  <2>3. QED BY <2>1, <2>2
<1>3. CASE stored = {}
  <2>1. head = NoFile
    BY <1>3 DEF ArchiveInv, HeadOK
  <2>2. ReadHead.sequence = anchor.sequence /\ ReadHead.hash = anchor.hash
    BY <2>1, ReadHeadType
  <2>3. QED BY <1>1, <1>2, <1>3, <2>1, <2>2 DEF Recoverable, RecoveredHead
<1>4. ASSUME NEW e \in stored, \A f \in stored : f.sequence <= e.sequence
      PROVE  Recoverable /\ RecoveredHead = HeadOf(e)
  <2>1. /\ e.sequence \in {ReadHead.sequence, ReadHead.sequence + 1}
        /\ e.sequence = ReadHead.sequence => head = HeadOf(e) /\ head # NoFile
        /\ e.sequence = ReadHead.sequence + 1 => e.previous = ReadHead.hash
    BY <1>4, LastAndHead
  <2>2. LastOf(Readable) = e
    BY <1>1, <1>4, LastOfIs
  <2>3. e.sequence = ReadHead.sequence => e.event = ReadHead.hash
    BY <2>1 DEF ReadHead, HeadOf
  <2>4. Recoverable
    <3>1. e.sequence >= ReadHead.sequence
      BY <1>2, <2>1
    <3>2. QED BY <1>1, <1>2, <1>4, <2>2, <2>3, <3>1 DEF Recoverable
  <2>5. ASSUME HeadIsLatest PROVE LastLine = e /\ ReadHead.segment = e.segment
    <3>1. Latest(SegmentNames) = e.segment
      BY <1>1, <1>4, LatestIs
    <3>2. ReadHead.segment = e.segment
      BY <2>5, <3>1 DEF HeadIsLatest
    <3>3. /\ Named({ReadHead.segment}) \in SUBSET stored
          /\ e \in Named({ReadHead.segment})
          /\ \A f \in Named({ReadHead.segment}) : f.sequence <= e.sequence
      BY <1>4, <3>2 DEF Named
    <3>4. LastOf(Named({ReadHead.segment})) = e
      BY <3>3, LastOfIs
    <3>5. QED BY <3>2, <3>4 DEF LastLine
  <2>6. CASE IsCurrent
    <3>1. HeadIsLatest /\ AnchorOf(LastLine) = [sequence |-> ReadHead.sequence, hash |-> ReadHead.hash]
      BY <2>6 DEF IsCurrent
    <3>2. LastLine = e
      BY <2>5, <3>1
    <3>3. e.sequence = ReadHead.sequence
      BY <3>1, <3>2 DEF AnchorOf
    <3>4. ReadHead = HeadOf(e)
      BY <2>1, <3>3 DEF ReadHead
    <3>5. QED BY <2>4, <2>6, <3>4 DEF RecoveredHead
  <2>7. CASE ~IsCurrent /\ IsOneBehind
    BY <1>1, <1>4, <2>4, <2>5, <2>7 DEF RecoveredHead, IsOneBehind
  <2>8. CASE ~IsCurrent /\ ~IsOneBehind
    BY <1>1, <1>4, <2>2, <2>4, <2>8 DEF RecoveredHead
  <2>9. QED BY <2>6, <2>7, <2>8
<1>5. QED
  <2>1. CASE stored # {}
    <3>1. PICK e \in stored : \A f \in stored : f.sequence <= e.sequence
      BY <2>1, SomeLast
    <3>2. QED BY <1>4, <2>1, <3>1
  <2>2. QED BY <1>3, <2>1

\* verifyLocked accepts the archive once the head names the last envelope.
LEMMA RecoveredVerifies ==
  ASSUME ArchiveInv, plan = NoFile, \A e \in stored : e.sequence <= ReadHead.sequence
  PROVE  Verifies
<1>1. Readable = stored /\ Linked
  BY WithoutPlan
<1>2. ReadHead.sequence >= anchor.sequence
  BY RecoveryFindsLast DEF Recoverable
<1>3. CASE stored = {}
  BY <1>1, <1>2, <1>3, RecoveryFindsLast, ReadHeadType DEF Verifies
<1>4. CASE stored # {}
  <2>1. PICK e \in stored : \A f \in stored : f.sequence <= e.sequence
    BY <1>4, SomeLast
  <2>2. e.sequence = ReadHead.sequence
    <3>1. e.sequence \in Nat /\ e.sequence <= ReadHead.sequence /\ ReadHead.sequence \in Nat
      BY ReadHeadType DEF ArchiveInv, Shape, Envelope
    <3>2. QED BY <2>1, <3>1, LastAndHead
  <2>3. e.event = ReadHead.hash
    BY <2>1, <2>2, LastAndHead DEF ReadHead, HeadOf
  <2>4. LastOf(Readable) = e
    BY <1>1, <2>1, LastOfIs
  <2>5. QED BY <1>1, <1>2, <1>4, <2>2, <2>3, <2>4 DEF Verifies, AnchorOf
<1>5. QED BY <1>3, <1>4

-----------------------------------------------------------------------------
(* Every step keeps the invariant.                                          *)

\* What a step leaves alone keeps what is said of it.
LEMMA SameDisk ==
  ASSUME ArchiveInv, UNCHANGED disk
  PROVE  /\ ChainOK' /\ HeadOK'
         /\ ReadHead' = ReadHead /\ SegmentNames' = SegmentNames /\ (Committed' <=> Committed)
         /\ \A d \in Nat : day' = d /\ day <= d => PlanOK'
<1>1. UNCHANGED <<stored, aside, anchor, head, plan>>
  BY DEF disk
<1>2. ReadHead' = ReadHead /\ SegmentNames' = SegmentNames /\ (Committed' <=> Committed)
  BY <1>1 DEF ReadHead, SegmentNames, Committed
<1>3. ChainOK' /\ HeadOK'
  BY <1>1, <1>2 DEF ArchiveInv, ChainOK, HeadOK
<1>4. ASSUME NEW d \in Nat, day' = d, day <= d PROVE PlanOK'
  <2>1. /\ day \in Nat /\ RetentionDays \in Nat
        /\ \A e \in stored : e.segment[1] \in Nat
    BY ArchiveAssumption DEF ArchiveInv, Shape, Envelope, Segments, Days
  <2>2. \A e \in stored : e.segment[1] + RetentionDays < day => e.segment[1] + RetentionDays < d
    BY <1>4, <2>1
  <2>3. QED BY <1>1, <1>2, <1>4, <2>2 DEF ArchiveInv, PlanOK
<1>5. QED BY <1>2, <1>3, <1>4

\* An operation is over, with a result or without one.
LEMMA EndStep ==
  ASSUME ArchiveInv, UNCHANGED <<disk, day, made>>,
         End("ok") \/ End("stopped")
  PROVE  ArchiveInv'
<1>1. /\ UNCHANGED <<stored, aside, anchor, head, plan, day, made>>
      /\ at' = "idle" /\ op' = Idle /\ outcome' \in {"ok", "stopped"}
  BY DEF disk, End
<1>2. Shape'
  BY <1>1 DEF ArchiveInv, Shape, Steps
<1>3. day \in Nat /\ UNCHANGED disk
  BY <1>1 DEF ArchiveInv, Shape, disk
<1>4. ChainOK' /\ HeadOK' /\ PlanOK'
  BY <1>1, <1>3, SameDisk
<1>5. StepOK'
  BY <1>1 DEF StepOK
<1>6. ClockOK'
  BY <1>1, <1>3 DEF ArchiveInv, ClockOK, Idle
<1>7. CountsOK'
  BY <1>1 DEF ArchiveInv, CountsOK
<1>8. QED BY <1>2, <1>4, <1>5, <1>6, <1>7 DEF ArchiveInv

\* The next operation comes with the clock all share.
LEMMA BeginStep ==
  ASSUME Skew = 0, ArchiveInv, NEW does \in {"append", "verify"},
         NEW current \in (day - Skew)..day, current > 0, Begin(does, current)
  PROVE  ArchiveInv'
<1>1. /\ UNCHANGED <<stored, aside, anchor, head, plan, day, outcome>>
      /\ op' = [does |-> does, current |-> day] /\ at' = "recover"
      /\ made' \in {made, made + 1}
      /\ does = "append" => made < MaxEvents /\ made' = made + 1
  <2>1. current = day
    BY DEF ArchiveInv, Shape
  <2>2. QED BY <2>1 DEF Begin, disk
<1>2. made \in Nat /\ day \in Nat /\ UNCHANGED disk
  BY <1>1 DEF ArchiveInv, Shape, disk
<1>3. Shape'
  <2>1. made' \in 0..MaxEvents
    BY <1>1, <1>2, ArchiveAssumption DEF Begin, ArchiveInv, Shape
  <2>2. QED BY <1>1, <2>1 DEF ArchiveInv, Shape, Steps
<1>4. ChainOK' /\ HeadOK' /\ PlanOK'
  BY <1>1, <1>2, SameDisk
<1>5. StepOK'
  <2>1. ASSUME does = "append", NEW e \in stored PROVE e.event < made'
    BY <1>1, <1>2, <2>1 DEF ArchiveInv, CountsOK, Shape, Envelope
  <2>2. does = "append" => made' > 0
    BY <1>1, <1>2
  <2>3. QED BY <1>1, <2>1, <2>2 DEF StepOK
<1>6. ClockOK'
  BY <1>1 DEF ArchiveInv, ClockOK, Shape
<1>7. CountsOK'
  <2>1. \A n \in Nat : n <= made => n <= made'
    BY <1>1, <1>2
  <2>2. QED BY <1>1, <2>1 DEF ArchiveInv, CountsOK, Shape, Envelope, Anchors
<1>8. QED BY <1>3, <1>4, <1>5, <1>6, <1>7 DEF ArchiveInv

LEMMA NextDayStep ==
  ASSUME ArchiveInv, NextDay
  PROVE  ArchiveInv'
<1>1. /\ UNCHANGED <<stored, aside, anchor, head, plan, made, op, at, outcome>>
      /\ day' = day + 1 /\ day < MaxDay
  BY DEF NextDay, disk
<1>2. day \in Nat /\ UNCHANGED disk
  BY <1>1 DEF ArchiveInv, Shape, disk
<1>3. Shape'
  BY <1>1, ArchiveAssumption DEF ArchiveInv, Shape
<1>4. ReadHead' = ReadHead /\ SegmentNames' = SegmentNames /\ (Committed' <=> Committed)
  BY <1>2, SameDisk
<1>5. ChainOK' /\ HeadOK' /\ PlanOK'
  BY <1>1, <1>2, SameDisk
<1>6. StepOK'
  BY <1>1, <1>4 DEF ArchiveInv, StepOK
<1>7. ClockOK'
  <2>1. op.current \in Nat /\ \A e \in stored : e.segment[1] \in Nat
    BY DEF ArchiveInv, Shape, Envelope, Segments, Days, Idle
  <2>2. QED BY <1>1, <1>2, <2>1 DEF ArchiveInv, ClockOK
<1>8. CountsOK'
  BY <1>1 DEF ArchiveInv, CountsOK
<1>9. QED BY <1>3, <1>5, <1>6, <1>7, <1>8 DEF ArchiveInv

\* Putting a segment back or aside changes no envelope.
LEMMA AsideStep ==
  ASSUME ArchiveInv, plan # NoFile,
         aside' \subseteq {e.segment : e \in stored}, aside' \subseteq plan.segments,
         at \in {"recover", "set_aside"},
         UNCHANGED <<stored, anchor, head, plan, day, made, op, at, outcome>>
  PROVE  ArchiveInv'
<1>1. ReadHead' = ReadHead /\ (Committed' <=> Committed)
  BY DEF ReadHead, Committed
<1>2. Shape'
  BY DEF ArchiveInv, Shape
<1>3. ChainOK' /\ HeadOK'
  BY <1>1 DEF ArchiveInv, ChainOK, HeadOK
<1>4. PlanOK'
  BY <1>1 DEF ArchiveInv, PlanOK
<1>5. StepOK'
  BY <1>1 DEF ArchiveInv, StepOK
<1>6. ClockOK' /\ CountsOK'
  BY DEF ArchiveInv, ClockOK, CountsOK
<1>7. QED BY <1>2, <1>3, <1>4, <1>5, <1>6 DEF ArchiveInv

\* A segment of a committed journal is taken away.
LEMMA TakeAwayStep ==
  ASSUME ArchiveInv, plan # NoFile, Committed, NEW name \in plan.segments,
         stored' = stored \ Named({name}), aside' = aside \ {name},
         at \in {"recover", "discard"},
         UNCHANGED <<anchor, head, plan, day, made, op, at, outcome>>
  PROVE  /\ ArchiveInv'
         /\ Retained' = Retained
<1>1. ReadHead' = ReadHead /\ Committed'
  BY DEF ReadHead, Committed
<1>2. \A e \in stored : e \in stored' <=> e.segment # name
  BY DEF Named
<1>3. stored' \subseteq stored
  OBVIOUS
<1>4. ASSUME NEW e \in stored, e.sequence > anchor.sequence PROVE e \in stored'
  <2>1. e.segment = name => e.sequence <= anchor.sequence
    BY DEF ArchiveInv, PlanOK, Committed
  <2>2. e.sequence \in Nat /\ anchor.sequence \in Nat
    BY DEF ArchiveInv, Shape, Envelope, Anchors
  <2>3. e.segment # name
    BY <1>4, <2>1, <2>2
  <2>4. QED BY <1>2, <2>3
<1>5. Retained' = Retained
  BY <1>3, <1>4 DEF Retained
<1>6. Shape'
  <2>1. aside' \subseteq {e.segment : e \in stored'}
    BY <1>2 DEF ArchiveInv, Shape
  <2>2. QED BY <1>3, <2>1 DEF ArchiveInv, Shape
<1>7. ChainOK'
  <2>1. ASSUME NEW e \in stored', NEW i \in (anchor.sequence + 1)..e.sequence
        PROVE  \E f \in stored' : f.sequence = i
    <3>1. PICK f \in stored : f.sequence = i
      BY <1>3 DEF ArchiveInv, ChainOK
    <3>2. i \in Nat /\ i > anchor.sequence
      BY <3>1 DEF ArchiveInv, Shape, Envelope, Anchors
    <3>3. QED BY <1>4, <3>1, <3>2
  <2>2. QED BY <1>3, <2>1 DEF ArchiveInv, ChainOK
<1>8. HeadOK'
  BY <1>1, <1>3, <1>4 DEF ArchiveInv, HeadOK
<1>9. PlanOK'
  BY <1>1, <1>3 DEF ArchiveInv, PlanOK
<1>10. StepOK'
  <2>1. plan.segments \cap SegmentNames = {} => plan.segments \cap SegmentNames' = {}
    <3>1. \A n \in SegmentNames' : n # name => n \in SegmentNames
      BY <1>3 DEF SegmentNames
    <3>2. name \notin SegmentNames'
      BY <1>2 DEF SegmentNames
    <3>3. QED BY <3>1, <3>2
  <2>2. QED BY <1>1, <1>3, <2>1 DEF ArchiveInv, StepOK
<1>11. ClockOK' /\ CountsOK'
  BY <1>3 DEF ArchiveInv, ClockOK, CountsOK
<1>12. QED BY <1>5, <1>6, <1>7, <1>8, <1>9, <1>10, <1>11 DEF ArchiveInv

\* A finished or refused journal is removed.
LEMMA DropPlanStep ==
  ASSUME ArchiveInv, plan # NoFile, aside = {},
         Committed => plan.segments \cap SegmentNames = {},
         plan' = NoFile,
         UNCHANGED <<stored, aside, anchor, head, day, made>>,
         \/ at = "recover" /\ UNCHANGED <<op, at, outcome>>
         \/ End("ok")
  PROVE  ArchiveInv'
<1>1. ReadHead' = ReadHead
  BY DEF ReadHead
<1>2. Shape'
  BY DEF ArchiveInv, Shape, End, Steps
<1>3. ChainOK' /\ HeadOK'
  BY <1>1 DEF ArchiveInv, ChainOK, HeadOK
<1>4. PlanOK'
  <2>1. ASSUME NEW e \in stored PROVE e.sequence > anchor.sequence
    <3>1. e.sequence \in Nat /\ anchor.sequence \in Nat
      BY DEF ArchiveInv, Shape, Envelope, Anchors
    <3>2. CASE ~Committed
      BY <3>2 DEF ArchiveInv, PlanOK
    <3>3. CASE Committed
      <4>1. e.segment \notin plan.segments
        BY <3>3 DEF SegmentNames
      <4>2. ~(e.sequence <= anchor.sequence)
        BY <3>3, <4>1 DEF ArchiveInv, PlanOK, Committed
      <4>3. QED BY <3>1, <4>2
    <3>4. QED BY <3>2, <3>3
  <2>2. QED BY <2>1 DEF PlanOK
<1>5. StepOK'
  BY DEF ArchiveInv, StepOK, End, Idle
<1>6. ClockOK'
  BY DEF ArchiveInv, ClockOK, Shape, End, Idle
<1>7. CountsOK'
  BY DEF ArchiveInv, CountsOK
<1>8. QED BY <1>2, <1>3, <1>4, <1>5, <1>6, <1>7 DEF ArchiveInv

\* The head is made to name the last envelope.
LEMMA RecoverHeadStep ==
  ASSUME ArchiveInv, RecoverHead
  PROVE  ArchiveInv'
<1>1. /\ at = "recover" /\ plan = NoFile
      /\ UNCHANGED <<stored, aside, anchor, plan, day, made>>
  BY DEF RecoverHead
<1>2. /\ head' = IF RecoveredHead = ReadHead THEN head ELSE RecoveredHead
      /\ at' = IF op.does = "append" THEN "append" ELSE "verify"
      /\ UNCHANGED <<op, outcome>>
  BY <1>1, RecoveryFindsLast DEF RecoverHead, GoTo
<1>3. \A e \in stored : e.sequence \in Nat \ {0} /\ e.sequence > anchor.sequence
  BY <1>1 DEF ArchiveInv, Shape, Envelope, PlanOK
<1>4. /\ head' = NoFile => head = NoFile
      /\ head' \in Heads \cup {NoFile}
      /\ head' # NoFile => \E e \in stored : HeadOf(e) = head'
      /\ \A e \in stored : e.sequence <= ReadHead'.sequence
  <2>1. CASE stored = {}
    <3>1. head' = head /\ head = NoFile
      BY <1>2, <2>1, RecoveryFindsLast, <1>1
    <3>2. QED BY <2>1, <3>1
  <2>2. CASE stored # {}
    <3>1. PICK e \in stored : \A f \in stored : f.sequence <= e.sequence
      BY <2>2, SomeLast
    <3>2. RecoveredHead = HeadOf(e) /\ HeadOf(e) \in Heads /\ HeadOf(e) # NoFile
      BY <1>1, <3>1, RecoveryFindsLast, HeadOfType
    <3>3. head' = HeadOf(e)
      <4>1. CASE ReadHead = HeadOf(e)
        <5>1. ReadHead.sequence = e.sequence
          BY <4>1 DEF HeadOf
        <5>2. QED BY <1>2, <3>1, <3>2, <4>1, <5>1, LastAndHead
      <4>2. CASE ReadHead # HeadOf(e)
        BY <1>2, <3>2, <4>2
      <4>3. QED BY <4>1, <4>2
    <3>4. ReadHead'.sequence = e.sequence
      BY <3>2, <3>3 DEF ReadHead, HeadOf
    <3>5. QED BY <3>1, <3>2, <3>3, <3>4
  <2>3. QED BY <2>1, <2>2
<1>5. Shape'
  BY <1>1, <1>2, <1>4 DEF ArchiveInv, Shape, Steps
<1>6. ChainOK'
  BY <1>1 DEF ArchiveInv, ChainOK
<1>7. HeadOK'
  <2>1. head' # NoFile => \E e \in stored' : HeadOf(e) = head' /\ e.sequence > anchor'.sequence
    BY <1>1, <1>3, <1>4
  <2>2. ReadHead'.sequence \in Nat
    BY <1>5 DEF Shape, ReadHead, Heads, Anchors
  <2>3. \A e \in stored' : e.sequence <= ReadHead'.sequence + 1
    BY <1>1, <1>3, <1>4, <2>2
  <2>4. head' = NoFile => anchor'.sequence = 0
    BY <1>1, <1>4 DEF ArchiveInv, HeadOK
  <2>5. QED BY <2>1, <2>3, <2>4 DEF HeadOK
<1>8. PlanOK'
  BY <1>1 DEF ArchiveInv, PlanOK
<1>9. StepOK'
  BY <1>1, <1>2, <1>4 DEF ArchiveInv, StepOK
<1>10. ClockOK'
  BY <1>1, <1>2 DEF ArchiveInv, ClockOK
<1>11. CountsOK'
  BY <1>1 DEF ArchiveInv, CountsOK
<1>12. QED BY <1>5, <1>6, <1>7, <1>8, <1>9, <1>10, <1>11 DEF ArchiveInv

LEMMA WriteHeadStep ==
  ASSUME ArchiveInv, WriteHead
  PROVE  ArchiveInv'
<1>1. /\ at = "head" /\ at' = "prune" /\ plan = NoFile
      /\ UNCHANGED <<stored, aside, anchor, plan, day, made, op, outcome>>
  BY DEF WriteHead, GoTo, ArchiveInv, StepOK
<1>2. PICK e \in stored : e.event = made /\ head' = HeadOf(e)
  BY DEF WriteHead
<1>3. e.sequence = ReadHead.sequence + 1
  BY <1>1, <1>2 DEF ArchiveInv, StepOK, ChainOK
<1>4. head' \in Heads /\ head' # NoFile /\ ReadHead'.sequence = e.sequence
  BY <1>2, HeadOfType DEF ReadHead, HeadOf
<1>5. \A f \in stored : f.sequence \in Nat /\ f.sequence > anchor.sequence
                        /\ f.sequence <= e.sequence
  BY <1>1, <1>3 DEF ArchiveInv, Shape, Envelope, PlanOK, HeadOK
<1>6. Shape'
  BY <1>1, <1>4 DEF ArchiveInv, Shape, Steps
<1>7. ChainOK'
  BY <1>1 DEF ArchiveInv, ChainOK
<1>8. HeadOK'
  <2>1. \A f \in stored' : f.sequence <= ReadHead'.sequence + 1
    BY <1>1, <1>4, <1>5
  <2>2. \E f \in stored' : HeadOf(f) = head' /\ f.sequence > anchor'.sequence
    BY <1>1, <1>2, <1>5
  <2>3. QED BY <1>4, <2>1, <2>2 DEF HeadOK
<1>9. PlanOK'
  BY <1>1 DEF ArchiveInv, PlanOK
<1>10. StepOK'
  BY <1>1, <1>4, <1>5 DEF ArchiveInv, StepOK
<1>11. ClockOK' /\ CountsOK'
  BY <1>1 DEF ArchiveInv, ClockOK, CountsOK
<1>12. QED BY <1>6, <1>7, <1>8, <1>9, <1>10, <1>11 DEF ArchiveInv

\* selectSegment: no envelope lies behind the segment of the next one.
LEMMA SelectedSegment ==
  ASSUME ArchiveInv, at = "append", NEW s, s = SelectSegment(op.current)
  PROVE  /\ s \in Segments /\ s[1] = op.current /\ s[2] <= ReadHead.sequence + 1
         /\ \A f \in stored : f.segment = s \/ Before(f.segment, s)
<1> DEFINE here     == ReadHead.segment
           ordinals == {n[2] : n \in {m \in SegmentNames : m[1] = op.current}}
           highest  == IF ordinals = {} THEN 0
                       ELSE CHOOSE k \in ordinals : \A j \in ordinals : j <= k
           today    == {f \in stored : f.segment[1] = op.current}
<1>1. /\ plan = NoFile /\ op.current \in Nat \ {0}
      /\ ReadHead.sequence \in Nat
      /\ \A e \in stored : e.sequence <= ReadHead.sequence /\ e.segment[1] <= op.current
  BY ReadHeadType DEF ArchiveInv, StepOK, ClockOK, Shape, Idle
<1>2. SegmentNames = {e.segment : e \in stored}
  BY <1>1, WithoutPlan
<1>3. \A e \in stored : /\ e.sequence \in Nat /\ e.segment \in Segments
                        /\ e.segment[1] \in Nat \ {0} /\ e.segment[2] \in Nat \ {0}
                        /\ e.segment[2] <= e.sequence
                        /\ e.segment = <<e.segment[1], e.segment[2]>>
  BY DEF ArchiveInv, Shape, Envelope, Segments, Days, CountsOK
<1>4. s = IF here[1] = op.current /\ Cardinality(Named({here})) < MaxSegment
          THEN here ELSE <<op.current, highest + 1>>
  BY DEF SelectSegment
<1>5. CASE s = here /\ here[1] = op.current
  <2>1. head # NoFile
    BY <1>1, <1>5, ReadHeadType DEF NoSegment
  <2>2. PICK h \in stored : HeadOf(h) = head
    BY <2>1 DEF ArchiveInv, HeadOK
  <2>3. s = h.segment /\ h.sequence = ReadHead.sequence
    BY <1>5, <2>1, <2>2 DEF ReadHead, HeadOf
  <2>4. ASSUME NEW f \in stored PROVE f.segment = s \/ Before(f.segment, s)
    <3>1. f.sequence <= h.sequence
      BY <1>1, <2>3
    <3>2. CASE f.sequence = h.sequence
      BY <2>3, <3>2 DEF ArchiveInv, ChainOK
    <3>3. CASE f.sequence < h.sequence
      BY <2>3, <3>3 DEF ArchiveInv, ChainOK
    <3>4. QED BY <1>3, <3>1, <3>2, <3>3
  <2>5. s \in Segments /\ s[2] <= ReadHead.sequence + 1
    BY <1>1, <1>3, <2>3
  <2>6. QED BY <1>5, <2>4, <2>5
<1>6. CASE s = <<op.current, highest + 1>>
  <2>1. /\ highest \in Nat /\ highest <= ReadHead.sequence
        /\ \A f \in today : f.segment[2] <= highest
    <3>1. ordinals = {f.segment[2] : f \in today}
      BY <1>2
    <3>2. CASE today = {}
      <4>1. ordinals = {}
        BY <3>1, <3>2
      <4>2. QED BY <1>1, <3>2, <4>1
    <3>3. CASE today # {}
      <4>1. PICK e \in today : \A f \in today : f.sequence <= e.sequence
        <5>1. today \in SUBSET stored
          OBVIOUS
        <5> HIDE DEF today
        <5>2. QED BY <3>3, <5>1, SomeLast
      <4>2. ASSUME NEW f \in today PROVE f.segment[2] <= e.segment[2]
        <5>1. f.segment[1] = e.segment[1] /\ f.sequence <= e.sequence
          BY <4>1
        <5>2. CASE f.sequence = e.sequence
          <6>1. f = e
            BY <5>2 DEF ArchiveInv, ChainOK
          <6>2. QED BY <1>3, <6>1
        <5>3. CASE f.sequence < e.sequence
          <6>1. f.segment = e.segment \/ Before(f.segment, e.segment)
            BY <5>3 DEF ArchiveInv, ChainOK
          <6>2. QED BY <1>3, <5>1, <6>1 DEF Before
        <5>4. QED BY <1>3, <5>1, <5>2, <5>3
      <4>3. e.segment[2] \in ordinals /\ \A j \in ordinals : j \in Nat /\ j <= e.segment[2]
        BY <1>3, <3>1, <4>2
      <4>4. highest \in ordinals /\ \A j \in ordinals : j <= highest
        <5> HIDE DEF ordinals
        <5>1. QED BY <4>3
      <4>5. highest = e.segment[2]
        <5> HIDE DEF ordinals, highest
        <5>1. highest <= e.segment[2] /\ e.segment[2] <= highest /\ highest \in Nat
          BY <4>3, <4>4
        <5>2. QED BY <1>3, <5>1
      <4>6. e \in stored /\ e.sequence <= ReadHead.sequence
        BY <1>1
      <4> HIDE DEF highest
      <4>7. QED BY <1>1, <1>3, <4>2, <4>5, <4>6
    <3>4. QED BY <3>2, <3>3
  <2>2. s \in Segments /\ s[1] = op.current /\ s[2] = highest + 1
    <3> HIDE DEF highest
    <3>1. QED BY <1>1, <1>6, <2>1 DEF Segments, Days
  <2>3. ASSUME NEW f \in stored PROVE Before(f.segment, s)
    <3> HIDE DEF highest
    <3>1. CASE f.segment[1] < op.current
      BY <2>2, <3>1 DEF Before
    <3>2. CASE f.segment[1] = op.current
      <4>1. f.segment[2] <= highest
        BY <2>1, <3>2
      <4>2. QED BY <1>3, <2>1, <2>2, <3>2, <4>1 DEF Before
    <3>3. QED BY <1>1, <1>3, <3>1, <3>2
  <2> HIDE DEF highest
  <2>4. QED BY <1>1, <2>1, <2>2, <2>3
<1>7. QED BY <1>4, <1>5, <1>6

\* The next envelope goes on from the last one.
LEMMA NextEnvelope ==
  ASSUME ArchiveInv, at = "append"
  PROVE  /\ ReadHead.sequence \in Nat /\ ReadHead.hash \in Nat
         /\ ReadHead.sequence < made /\ ReadHead.hash <= made
         /\ stored = {} => ReadHead.sequence = anchor.sequence /\ ReadHead.hash = anchor.hash
         /\ stored # {} => \E h \in stored : /\ HeadOf(h) = ReadHead
                                             /\ \A f \in stored : f.sequence <= h.sequence
<1>1. /\ plan = NoFile /\ made \in Nat \ {0} /\ op.does = "append"
      /\ \A e \in stored : e.sequence <= ReadHead.sequence /\ e.event < made
  BY DEF ArchiveInv, StepOK, Shape
<1>2. ReadHead.sequence \in Nat /\ ReadHead.hash \in Nat
  BY ReadHeadType
<1>3. CASE stored = {}
  <2>1. head = NoFile
    BY <1>1, <1>3, RecoveryFindsLast
  <2>2. /\ ReadHead.sequence = 0 /\ anchor.sequence = 0 /\ ReadHead.hash = anchor.hash
    BY <2>1, ReadHeadType
  <2>3. anchor.hash <= made
    BY DEF ArchiveInv, CountsOK
  <2>4. QED BY <1>1, <1>2, <1>3, <2>2, <2>3
<1>4. CASE stored # {}
  <2>1. PICK h \in stored : \A f \in stored : f.sequence <= h.sequence
    BY <1>4, SomeLast
  <2>2. h.sequence \in Nat /\ h.event \in Nat /\ h.sequence <= h.event
    BY DEF ArchiveInv, Shape, Envelope, CountsOK
  <2>3. h.sequence = ReadHead.sequence
    BY <1>1, <1>2, <2>1, <2>2, LastAndHead
  <2>4. HeadOf(h) = ReadHead
    BY <2>1, <2>3, LastAndHead DEF ReadHead
  <2>5. ReadHead.hash = h.event
    BY <2>4 DEF HeadOf
  <2>6. QED BY <1>1, <1>2, <1>4, <2>1, <2>2, <2>3, <2>4, <2>5
<1>5. QED BY <1>3, <1>4

LEMMA AppendStep ==
  ASSUME ArchiveInv, AppendSegment
  PROVE  ArchiveInv'
<1> DEFINE new == [sequence |-> ReadHead.sequence + 1, previous |-> ReadHead.hash,
                   event |-> made, segment |-> SelectSegment(op.current)]
<1>1. /\ at = "append" /\ at' = "head" /\ stored' = stored \cup {new}
      /\ UNCHANGED <<aside, anchor, head, plan, day, made, op, outcome>>
  BY DEF AppendSegment, GoTo
<1>2. /\ plan = NoFile /\ op.does = "append" /\ made \in Nat \ {0} /\ made \in 0..MaxEvents
      /\ \A e \in stored : e.sequence <= ReadHead.sequence /\ e.event < made
      /\ \A e \in stored : e.sequence \in Nat /\ e.event \in Nat /\ e.sequence > anchor.sequence
      /\ anchor.sequence \in Nat /\ op.current \in Nat \ {0}
  BY <1>1 DEF ArchiveInv, StepOK, Shape, Envelope, Anchors, PlanOK, ClockOK, Idle
<1>3. /\ ReadHead.sequence \in Nat /\ ReadHead.hash \in Nat
      /\ ReadHead.sequence < made /\ ReadHead.hash <= made
      /\ stored = {} => ReadHead.sequence = anchor.sequence /\ ReadHead.hash = anchor.hash
      /\ stored # {} => \E h \in stored : /\ HeadOf(h) = ReadHead
                                          /\ \A f \in stored : f.sequence <= h.sequence
  BY <1>1, NextEnvelope
<1>4. /\ new.segment \in Segments /\ new.segment[1] = op.current
      /\ new.segment[2] <= ReadHead.sequence + 1
      /\ \A f \in stored : f.segment = new.segment \/ Before(f.segment, new.segment)
  BY <1>1, SelectedSegment
<1>5. /\ new \in Envelope /\ new.sequence = ReadHead.sequence + 1
      /\ new.previous = ReadHead.hash /\ new.event = made
  BY <1>2, <1>3, <1>4 DEF Envelope
<1>6. ReadHead' = ReadHead
  BY <1>1 DEF ReadHead
<1>7. ReadHead.sequence >= anchor.sequence
  BY <1>2, RecoveryFindsLast DEF Recoverable
<1> HIDE DEF new
<1>8. Shape'
  <2>1. stored' \subseteq Envelope
    BY <1>1, <1>5 DEF ArchiveInv, Shape
  <2>2. aside' \subseteq {e.segment : e \in stored'}
    BY <1>1 DEF ArchiveInv, Shape
  <2>3. QED BY <1>1, <2>1, <2>2 DEF ArchiveInv, Shape, Steps
<1>9. ChainOK'
  <2>1. \A e, f \in stored' : e.sequence = f.sequence => e = f
    BY <1>1, <1>2, <1>3, <1>5 DEF ArchiveInv, ChainOK
  <2>2. \A e, f \in stored' : e.event = f.event => e = f
    BY <1>1, <1>2, <1>5 DEF ArchiveInv, ChainOK
  <2>3. ASSUME NEW e \in stored', NEW f \in stored', f.sequence = e.sequence + 1
        PROVE  f.previous = e.event
    <3>1. CASE f \in stored /\ e \in stored
      BY <2>3, <3>1 DEF ArchiveInv, ChainOK
    <3>2. CASE f \in stored /\ e = new
      BY <1>2, <1>3, <1>5, <2>3, <3>2
    <3>3. CASE f = new /\ e = new
      BY <1>3, <1>5, <2>3, <3>3
    <3>4. CASE f = new /\ e \in stored
      <4>1. e.sequence = ReadHead.sequence
        BY <1>2, <1>3, <1>5, <2>3, <3>4
      <4>2. PICK h \in stored : HeadOf(h) = ReadHead
        BY <1>3, <3>4
      <4>3. h.sequence = e.sequence /\ h.event = ReadHead.hash
        BY <4>1, <4>2 DEF HeadOf
      <4>4. h = e
        BY <3>4, <4>3 DEF ArchiveInv, ChainOK
      <4>5. QED BY <1>5, <3>4, <4>3, <4>4
    <3>5. QED BY <1>1, <3>1, <3>2, <3>3, <3>4
  <2>4. ASSUME NEW e \in stored', e.sequence = anchor'.sequence + 1
        PROVE  e.previous = anchor'.hash
    <3>1. CASE e \in stored
      BY <1>1, <2>4, <3>1 DEF ArchiveInv, ChainOK
    <3>2. CASE e = new
      <4>1. ReadHead.sequence = anchor.sequence
        BY <1>1, <1>2, <1>3, <1>5, <2>4, <3>2
      <4>2. stored = {}
        BY <1>2, <4>1
      <4>3. QED BY <1>1, <1>3, <1>5, <3>2, <4>2
    <3>3. QED BY <1>1, <3>1, <3>2
  <2>5. ASSUME NEW e \in stored', NEW i \in (anchor'.sequence + 1)..e.sequence
        PROVE  \E f \in stored' : f.sequence = i
    <3>1. CASE e \in stored
      BY <1>1, <2>5, <3>1 DEF ArchiveInv, ChainOK
    <3>2. CASE e = new /\ i = new.sequence
      BY <2>5, <3>2
    <3>3. CASE e = new /\ i # new.sequence
      <4>1. i <= ReadHead.sequence /\ i >= anchor.sequence + 1 /\ i \in Nat
        BY <1>1, <1>2, <1>3, <1>5, <2>5, <3>3
      <4>2. stored # {}
        BY <1>2, <1>3, <4>1
      <4>3. PICK h \in stored : HeadOf(h) = ReadHead
        BY <1>3, <4>2
      <4>4. h.sequence = ReadHead.sequence
        BY <4>3 DEF HeadOf
      <4>5. i \in (anchor.sequence + 1)..h.sequence
        BY <1>2, <1>3, <4>1, <4>4
      <4>6. QED BY <1>1, <4>5 DEF ArchiveInv, ChainOK
    <3>4. QED BY <1>1, <3>1, <3>2, <3>3
  <2>6. ASSUME NEW e \in stored', NEW f \in stored', e.sequence < f.sequence
        PROVE  e.segment = f.segment \/ Before(e.segment, f.segment)
    <3>1. CASE e \in stored /\ f \in stored
      BY <2>6, <3>1 DEF ArchiveInv, ChainOK
    <3>2. CASE e \in stored /\ f = new
      BY <1>4, <3>2
    <3>3. CASE e = new
      BY <1>1, <1>2, <1>3, <1>5, <2>6, <3>3
    <3>4. QED BY <1>1, <3>1, <3>2, <3>3
  <2>7. QED BY <2>1, <2>2, <2>3, <2>4, <2>5, <2>6 DEF ChainOK
<1>10. HeadOK'
  <2>1. \A e \in stored' : e.sequence <= ReadHead'.sequence + 1
    BY <1>1, <1>2, <1>3, <1>5, <1>6
  <2>2. QED BY <1>1, <2>1 DEF ArchiveInv, HeadOK
<1>11. PlanOK'
  <2>1. new.sequence > anchor.sequence
    BY <1>2, <1>3, <1>5, <1>7
  <2>2. QED BY <1>1, <1>2, <2>1 DEF ArchiveInv, PlanOK
<1>12. StepOK'
  <2>1. new \in stored' /\ new.event = made' /\ new.sequence = ReadHead'.sequence + 1
    BY <1>1, <1>5, <1>6
  <2>2. QED BY <1>1, <1>2, <2>1 DEF StepOK
<1>13. ClockOK'
  BY <1>1, <1>2, <1>4 DEF ArchiveInv, ClockOK
<1>14. CountsOK'
  <2>1. /\ new.event <= made /\ new.sequence <= new.event /\ new.previous <= made
        /\ new.segment[2] <= new.sequence
    BY <1>2, <1>3, <1>4, <1>5
  <2>2. QED BY <1>1, <2>1 DEF ArchiveInv, CountsOK
<1>15. QED BY <1>8, <1>9, <1>10, <1>11, <1>12, <1>13, <1>14 DEF ArchiveInv

\* What may be deleted is a beginning of the chain, and the journal's anchor
\* is the last envelope of it.
LEMMA DeletableIs ==
  ASSUME ArchiveInv, at = "prune", Deletable # {}
  PROVE  /\ head # NoFile /\ head.segment \notin Deletable
         /\ \E l \in stored :
              /\ LastOf(Named({Latest(Deletable)})) = l
              /\ \A e \in stored : e.segment \in Deletable <=> e.sequence <= l.sequence
         /\ \A e \in stored : e.segment \in Deletable => e.segment[1] + RetentionDays < op.current
<1> DEFINE S == {e \in stored : e.segment \in Deletable}
<1>1. /\ plan = NoFile
      /\ \A e \in stored : /\ e.sequence <= ReadHead.sequence /\ e.sequence \in Nat
                           /\ e.segment \in Segments /\ e.segment[1] \in Nat
      /\ RetentionDays \in Nat /\ op.current \in Nat
      /\ ReadHead.sequence \in Nat
  BY ArchiveAssumption, ReadHeadType
     DEF ArchiveInv, StepOK, Shape, Envelope, Segments, Days, Idle
<1>2. SegmentNames = {e.segment : e \in stored}
  BY <1>1, WithoutPlan
<1>3. Deletable = {e.segment : e \in S} /\ S # {} /\ S \in SUBSET stored
  BY <1>2 DEF Deletable
<1>4. PICK h \in stored : \A f \in stored : f.sequence <= h.sequence
  <2>1. stored # {}
    BY <1>3
  <2>2. QED BY <2>1, SomeLast
<1>5. head = HeadOf(h) /\ head # NoFile /\ head.segment = h.segment
  <2>1. h.sequence = ReadHead.sequence
    BY <1>1, <1>4, LastAndHead
  <2>2. head = HeadOf(h) /\ head # NoFile
    BY <1>4, <2>1, LastAndHead
  <2>3. QED BY <2>2 DEF HeadOf
<1>6. PICK l \in S : \A f \in S : f.sequence <= l.sequence
  <2> HIDE DEF S
  <2>1. QED BY <1>3, SomeLast
<1>7. \A e \in stored : e.segment \in Deletable <=>
        e.segment # h.segment /\ e.segment[1] < op.current - RetentionDays
  BY <1>2, <1>5 DEF Deletable
<1>8. ASSUME NEW f \in stored, f.sequence <= l.sequence PROVE f \in S
  <2>1. f.segment = l.segment \/ Before(f.segment, l.segment)
    <3>1. CASE f.sequence = l.sequence
      BY <3>1 DEF ArchiveInv, ChainOK
    <3>2. CASE f.sequence < l.sequence
      BY <3>2 DEF ArchiveInv, ChainOK
    <3>3. QED BY <1>1, <1>8, <3>1, <3>2
  <2>2. l.segment # h.segment /\ l.segment[1] < op.current - RetentionDays
    BY <1>7
  <2>3. Before(l.segment, h.segment)
    <3>1. l.sequence < h.sequence
      BY <1>1, <1>4, <2>2 DEF ArchiveInv, ChainOK
    <3>2. QED BY <2>2, <3>1 DEF ArchiveInv, ChainOK
  <2>4. f.segment # h.segment
    BY <1>1, <2>1, <2>2, <2>3, BeforeAsymmetric
  <2>5. f.segment[1] < op.current - RetentionDays
    BY <1>1, <2>1, <2>2 DEF Before
  <2>6. QED BY <1>7, <2>4, <2>5
<1>9. Latest(Deletable) = l.segment
  <2> HIDE DEF S
  <2>1. QED BY <1>3, <1>6, LatestIs
<1>10. LastOf(Named({Latest(Deletable)})) = l
  <2>1. /\ Named({l.segment}) \in SUBSET stored /\ l \in Named({l.segment})
        /\ \A f \in Named({l.segment}) : f.sequence <= l.sequence
    BY <1>6 DEF Named
  <2>2. QED BY <1>9, <2>1, LastOfIs
<1>11. \A e \in stored : e.segment \in Deletable => e.segment[1] + RetentionDays < op.current
  BY <1>1, <1>7
<1>12. \A e \in stored : e.segment \in Deletable <=> e.sequence <= l.sequence
  BY <1>6, <1>8
<1>13. head.segment \notin Deletable
  BY DEF Deletable
<1>14. QED BY <1>5, <1>6, <1>10, <1>11, <1>12, <1>13

LEMMA PruneStep ==
  ASSUME ArchiveInv, Prune
  PROVE  ArchiveInv'
<1>1. /\ at = "prune" /\ UNCHANGED <<stored, aside, anchor, head, day, made>>
      /\ plan = NoFile /\ \A e \in stored : e.sequence <= ReadHead.sequence
  BY DEF Prune, ArchiveInv, StepOK
<1>2. Verifies
  BY <1>1, RecoveredVerifies
<1>3. CASE Deletable = {}
  BY <1>1, <1>2, <1>3, EndStep DEF Prune, disk
<1>4. CASE Deletable # {}
  <2>1. /\ plan' = [anchor   |-> AnchorOf(LastOf(Named({Latest(Deletable)}))),
                    segments |-> Deletable]
        /\ at' = "set_aside" /\ UNCHANGED <<op, outcome>>
    BY <1>2, <1>4 DEF Prune, GoTo
  <2>2. PICK l \in stored :
          /\ LastOf(Named({Latest(Deletable)})) = l
          /\ \A e \in stored : e.segment \in Deletable <=> e.sequence <= l.sequence
    BY <1>1, <1>4, DeletableIs
  <2>3. /\ plan'.anchor = AnchorOf(l) /\ plan'.segments = Deletable
        /\ plan' = [anchor |-> AnchorOf(l), segments |-> Deletable]
    BY <2>1, <2>2
  <2>4. /\ head # NoFile /\ head.segment \notin Deletable
        /\ \A e \in stored : e.segment \in Deletable => e.segment[1] + RetentionDays < op.current
    BY <1>1, <1>4, DeletableIs
  <2>5. aside = {} /\ \A e \in stored : e.sequence > anchor.sequence
    BY <1>1 DEF ArchiveInv, PlanOK
  <2>6. ReadHead' = ReadHead
    BY <1>1 DEF ReadHead
  <2>7. l.sequence \in Nat /\ anchor.sequence \in Nat
    BY DEF ArchiveInv, Shape, Envelope, Anchors
  <2>8. plan' \in Plans /\ plan' # NoFile
    <3>1. Deletable \subseteq Names
      BY NamesBounded DEF Deletable, SegmentNames
    <3>2. AnchorOf(l) \in Anchors
      BY DEF ArchiveInv, Shape, Envelope, AnchorOf, Anchors
    <3>3. DOMAIN plan' = {"anchor", "segments"} /\ DOMAIN NoFile = {"none"}
      BY <2>3 DEF NoFile
    <3>4. QED BY <2>3, <3>1, <3>2, <3>3 DEF Plans
  <2>9. ~Committed'
    <3>1. plan'.anchor.sequence > anchor.sequence
      BY <2>3, <2>5, <2>7 DEF AnchorOf
    <3>2. QED BY <1>1, <2>7, <3>1 DEF Committed
  <2>10. Shape'
    BY <1>1, <2>1, <2>8 DEF ArchiveInv, Shape, Steps
  <2>11. ChainOK' /\ HeadOK'
    BY <1>1, <2>6 DEF ArchiveInv, ChainOK, HeadOK
  <2>12. PlanOK'
    <3>1. \A e \in stored : e.segment \in Deletable => e.segment[1] + RetentionDays < day
      <4>1. op.current <= day /\ op.current \in Nat /\ day \in Nat /\ RetentionDays \in Nat
            /\ \A e \in stored : e.segment[1] \in Nat
        BY ArchiveAssumption DEF ArchiveInv, ClockOK, Shape, Envelope, Segments, Days, Idle
      <4>2. QED BY <2>4, <4>1
    <3>2. \A e \in stored : e.segment \in Deletable <=> e.sequence <= plan'.anchor.sequence
      BY <2>2, <2>3 DEF AnchorOf
    <3>3. QED BY <1>1, <2>3, <2>4, <2>5, <2>8, <2>9, <3>1, <3>2 DEF PlanOK
  <2>13. StepOK'
    BY <2>1, <2>8, <2>9 DEF StepOK
  <2>14. ClockOK' /\ CountsOK'
    BY <1>1, <2>1 DEF ArchiveInv, ClockOK, CountsOK
  <2>15. QED BY <2>10, <2>11, <2>12, <2>13, <2>14 DEF ArchiveInv
<1>5. QED BY <1>3, <1>4

\* The anchor moves to the end of what the journal names, and nothing after
\* it does.
LEMMA WriteAnchorStep ==
  ASSUME ArchiveInv, WriteAnchor
  PROVE  ArchiveInv'
<1>1. /\ at = "set_aside" /\ at' = "discard" /\ anchor' = plan.anchor
      /\ plan.segments \cap SegmentNames = {}
      /\ UNCHANGED <<stored, aside, head, plan, day, made, op, outcome>>
  BY DEF WriteAnchor, GoTo
<1>2. plan # NoFile /\ ~Committed
  BY <1>1 DEF ArchiveInv, StepOK
<1>3. /\ head # NoFile /\ head.segment \notin plan.segments
      /\ \A e \in stored : e.segment \in plan.segments <=> e.sequence <= plan.anchor.sequence
  BY <1>2 DEF ArchiveInv, PlanOK
<1>4. PICK l \in stored : AnchorOf(l) = plan.anchor
  BY <1>2 DEF ArchiveInv, PlanOK
<1>5. anchor'.sequence = l.sequence /\ anchor'.hash = l.event /\ anchor' \in Anchors
  BY <1>1, <1>2, <1>4 DEF AnchorOf, ArchiveInv, Shape, Plans
<1>6. /\ l.sequence \in Nat /\ anchor.sequence \in Nat /\ l.sequence > anchor.sequence
      /\ \A e \in stored : e.sequence \in Nat
  BY <1>2 DEF ArchiveInv, Shape, Envelope, Anchors, PlanOK
<1>7. ReadHead' = ReadHead /\ SegmentNames' = SegmentNames /\ Committed'
  BY <1>1, <1>3 DEF ReadHead, SegmentNames, Committed
<1>8. Shape'
  BY <1>1, <1>5 DEF ArchiveInv, Shape, Steps
<1>9. ChainOK'
  <2>1. \A e \in stored : e.sequence = anchor'.sequence + 1 => e.previous = anchor'.hash
    BY <1>5 DEF ArchiveInv, ChainOK
  <2>2. ASSUME NEW e \in stored, NEW i \in (anchor'.sequence + 1)..e.sequence
        PROVE  \E f \in stored : f.sequence = i
    <3>1. i \in (anchor.sequence + 1)..e.sequence
      BY <1>5, <1>6, <2>2
    <3>2. QED BY <3>1 DEF ArchiveInv, ChainOK
  <2>3. QED BY <1>1, <2>1, <2>2 DEF ArchiveInv, ChainOK
<1>10. HeadOK'
  <2>1. PICK h \in stored : HeadOf(h) = head
    BY <1>3 DEF ArchiveInv, HeadOK
  <2>2. h.segment \notin plan.segments
    BY <1>3, <2>1 DEF HeadOf
  <2>3. h.sequence > anchor'.sequence
    BY <1>1, <1>3, <1>5, <1>6, <2>2
  <2>4. QED BY <1>1, <1>3, <1>7, <2>1, <2>3 DEF ArchiveInv, HeadOK
<1>11. PlanOK'
  BY <1>1, <1>2, <1>7 DEF ArchiveInv, PlanOK
<1>12. StepOK'
  BY <1>1, <1>2, <1>7 DEF StepOK
<1>13. ClockOK'
  BY <1>1 DEF ArchiveInv, ClockOK
<1>14. CountsOK'
  BY <1>1, <1>5 DEF ArchiveInv, CountsOK
<1>15. QED BY <1>8, <1>9, <1>10, <1>11, <1>12, <1>13, <1>14 DEF ArchiveInv

-----------------------------------------------------------------------------
(* The log of the envelopes that are kept.                                  *)

\* The envelopes of S have the n numbers after a.
Numbered(S, a, n) ==
  /\ S \subseteq Envelope
  /\ \A e, f \in S : e.sequence = f.sequence => e = f
  /\ \A e \in S : e.sequence \in (a + 1)..(a + n)
  /\ \A i \in 1..n : \E e \in S : e.sequence = a + i

Pick(S, a, i) == CHOOSE e \in S : e.sequence = a + i

Entry(e) == [event |-> e.event, day |-> e.segment[1]]
Entries  == [event : Nat, day : Nat]

LogOf(S, a, n) == [i \in 1..n |-> Entry(Pick(S, a, i))]

\* A numbered set has as many envelopes as numbers.
LEMMA NumberedCardinality ==
  ASSUME NEW S, NEW a \in Nat, NEW n \in Nat, Numbered(S, a, n)
  PROVE  /\ Cardinality(S) = n
         /\ \A i \in 1..n : Pick(S, a, i) \in S /\ Pick(S, a, i).sequence = a + i
         /\ \A e \in S : e.sequence - a \in 1..n /\ Pick(S, a, e.sequence - a) = e
<1> DEFINE f == [i \in 1..n |-> Pick(S, a, i)]
<1>1. \A i \in 1..n : Pick(S, a, i) \in S /\ Pick(S, a, i).sequence = a + i
  BY DEF Numbered, Pick
<1>2. ASSUME NEW e \in S PROVE e.sequence - a \in 1..n /\ Pick(S, a, e.sequence - a) = e
  <2>1. e.sequence \in (a + 1)..(a + n)
    BY DEF Numbered
  <2>2. e.sequence - a \in 1..n /\ a + (e.sequence - a) = e.sequence
    BY <2>1
  <2>3. QED BY <1>1, <2>2 DEF Numbered
<1>3. f \in Bijection(1..n, S)
  <2>1. f \in [1..n -> S]
    BY <1>1
  <2>2. \A i, j \in 1..n : f[i] = f[j] => i = j
    <3>1. \A i, j \in 1..n : Pick(S, a, i) = Pick(S, a, j) => i = j
      BY <1>1
    <3>2. QED BY <3>1
  <2>3. \A e \in S : \E i \in 1..n : f[i] = e
    BY <1>2
  <2>4. QED BY <2>1, <2>2, <2>3 DEF Bijection, Injection, Surjection, IsInjective
<1>4. IsFiniteSet(1..n) /\ Cardinality(1..n) = n
  BY FS_Interval
<1>5. Cardinality(S) = n
  BY <1>3, <1>4, FS_Bijection DEF ExistsBijection
<1>6. QED BY <1>1, <1>2, <1>5

\* What the log says of each of its envelopes.
LEMMA LogOfProperties ==
  ASSUME NEW S, NEW a \in Nat, NEW n \in Nat, Numbered(S, a, n)
  PROVE  /\ LogOf(S, a, n) \in Seq(Entries) /\ Len(LogOf(S, a, n)) = n
         /\ \A i \in 1..n : LogOf(S, a, n)[i] = Entry(Pick(S, a, i))
<1>1. \A i \in 1..n : Pick(S, a, i) \in Envelope
  BY NumberedCardinality DEF Numbered
<1>2. \A i \in 1..n : Entry(Pick(S, a, i)) \in Entries
  BY <1>1 DEF Entry, Entries, Envelope, Segments, Days
<1>3. LogOf(S, a, n) \in [1..n -> Entries]
  BY <1>2 DEF LogOf
<1>4. LogOf(S, a, n) \in Seq(Entries)
  BY <1>3, IsASeq DEF LogOf
<1>5. DOMAIN LogOf(S, a, n) = 1..n
  BY DEF LogOf
<1>6. Len(LogOf(S, a, n)) = n
  BY <1>4, <1>5, LenProperties
<1>7. QED BY <1>4, <1>6 DEF LogOf

\* One more envelope is one more entry at the end.
LEMMA LogGrows ==
  ASSUME NEW S, NEW a \in Nat, NEW n \in Nat, Numbered(S, a, n),
         NEW e \in Envelope, e.sequence = a + n + 1
  PROVE  /\ Numbered(S \cup {e}, a, n + 1)
         /\ LogOf(S \cup {e}, a, n + 1) = Append(LogOf(S, a, n), Entry(e))
<1> DEFINE T == S \cup {e}
<1>1. Numbered(T, a, n + 1)
  <2>1. \A f \in S : f.sequence \in Nat /\ f.sequence <= a + n /\ f.sequence >= a + 1
    BY DEF Numbered
  <2>2. \A f, g \in T : f.sequence = g.sequence => f = g
    BY <2>1 DEF Numbered
  <2>3. \A f \in T : f.sequence \in (a + 1)..(a + (n + 1))
    BY <2>1
  <2>4. ASSUME NEW i \in 1..(n + 1) PROVE \E f \in T : f.sequence = a + i
    <3>1. CASE i \in 1..n
      BY <3>1 DEF Numbered
    <3>2. CASE i = n + 1
      BY <3>2
    <3>3. QED BY <3>1, <3>2
  <2>5. T \subseteq Envelope
    BY DEF Numbered
  <2> HIDE DEF T
  <2>6. QED BY <2>2, <2>3, <2>4, <2>5 DEF Numbered
<1>2. /\ LogOf(S, a, n) \in Seq(Entries) /\ Len(LogOf(S, a, n)) = n
      /\ \A i \in 1..n : LogOf(S, a, n)[i] = Entry(Pick(S, a, i))
  BY LogOfProperties
<1>3. /\ LogOf(T, a, n + 1) \in Seq(Entries) /\ Len(LogOf(T, a, n + 1)) = n + 1
      /\ \A i \in 1..(n + 1) : LogOf(T, a, n + 1)[i] = Entry(Pick(T, a, i))
  <2> HIDE DEF T
  <2>1. n + 1 \in Nat
    OBVIOUS
  <2>2. QED BY <1>1, <2>1, LogOfProperties
<1>4. /\ \A i \in 1..n : Pick(S, a, i) \in S /\ Pick(S, a, i).sequence = a + i
  BY NumberedCardinality
<1>5. \A f \in T : f.sequence - a \in 1..(n + 1) /\ Pick(T, a, f.sequence - a) = f
  <2> HIDE DEF T
  <2>1. n + 1 \in Nat
    OBVIOUS
  <2>2. QED BY <1>1, <2>1, NumberedCardinality
<1>6. ASSUME NEW i \in 1..n PROVE Pick(T, a, i) = Pick(S, a, i)
  <2>1. Pick(S, a, i) \in T /\ Pick(S, a, i).sequence - a = i
    BY <1>4
  <2> HIDE DEF T
  <2>2. QED BY <1>5, <2>1
<1>7. Pick(T, a, n + 1) = e
  <2>1. e \in T /\ e.sequence - a = n + 1
    OBVIOUS
  <2> HIDE DEF T
  <2>2. QED BY <1>5, <2>1
<1>8. Entry(e) \in Entries
  BY DEF Entry, Entries, Envelope, Segments, Days
<1>9. /\ Append(LogOf(S, a, n), Entry(e)) \in Seq(Entries)
      /\ Len(Append(LogOf(S, a, n), Entry(e))) = n + 1
      /\ \A i \in 1..n : Append(LogOf(S, a, n), Entry(e))[i] = Entry(Pick(S, a, i))
      /\ Append(LogOf(S, a, n), Entry(e))[n + 1] = Entry(e)
  BY <1>2, <1>8, AppendProperties
<1>10. ASSUME NEW i \in 1..(n + 1)
       PROVE  LogOf(T, a, n + 1)[i] = Append(LogOf(S, a, n), Entry(e))[i]
  <2> HIDE DEF T
  <2>1. CASE i \in 1..n
    BY <1>3, <1>6, <1>9, <2>1
  <2>2. CASE i = n + 1
    BY <1>3, <1>7, <1>9, <2>2
  <2>3. i \in 1..n \/ i = n + 1
    OBVIOUS
  <2>4. QED BY <2>1, <2>2, <2>3, Zenon
<1>11. LogOf(T, a, n + 1) = Append(LogOf(S, a, n), Entry(e))
  <2> HIDE DEF T
  <2>1. QED BY <1>3, <1>9, <1>10, SeqEqual
<1>12. QED BY <1>1, <1>11

\* Without its first d envelopes it is the log without its first d entries.
LEMMA LogShrinks ==
  ASSUME NEW S, NEW a \in Nat, NEW n \in Nat, Numbered(S, a, n),
         NEW d \in 1..n, NEW T, T = {e \in S : e.sequence > a + d}
  PROVE  /\ Numbered(T, a + d, n - d)
         /\ LogOf(T, a + d, n - d) = SubSeq(LogOf(S, a, n), d + 1, n)
<1>1. a + d \in Nat /\ n - d \in Nat /\ d \in Nat
  OBVIOUS
<1>2. Numbered(T, a + d, n - d)
  <2>1. \A e \in T : e.sequence \in (a + d + 1)..(a + d + (n - d))
    BY DEF Numbered
  <2>2. ASSUME NEW i \in 1..(n - d) PROVE \E e \in T : e.sequence = a + d + i
    <3>1. d + i \in 1..n
      BY <1>1
    <3>2. PICK e \in S : e.sequence = a + (d + i)
      BY <3>1 DEF Numbered
    <3>3. e.sequence = a + d + i /\ e.sequence > a + d
      BY <1>1, <3>2
    <3>4. QED BY <3>3
  <2>3. QED BY <2>1, <2>2 DEF Numbered
<1>3. /\ LogOf(S, a, n) \in Seq(Entries) /\ Len(LogOf(S, a, n)) = n
      /\ \A i \in 1..n : LogOf(S, a, n)[i] = Entry(Pick(S, a, i))
  BY LogOfProperties
<1>4. /\ LogOf(T, a + d, n - d) \in Seq(Entries) /\ Len(LogOf(T, a + d, n - d)) = n - d
      /\ \A i \in 1..(n - d) : LogOf(T, a + d, n - d)[i] = Entry(Pick(T, a + d, i))
  BY <1>1, <1>2, LogOfProperties
<1>5. ASSUME NEW i \in 1..(n - d) PROVE Pick(T, a + d, i) = Pick(S, a, d + i)
  <2>1. Pick(T, a + d, i) \in T /\ Pick(T, a + d, i).sequence = a + d + i
    BY <1>1, <1>2, NumberedCardinality
  <2>2. Pick(T, a + d, i) \in S /\ Pick(T, a + d, i).sequence - a = d + i
    BY <1>1, <2>1
  <2>3. \A e \in S : Pick(S, a, e.sequence - a) = e
    BY NumberedCardinality
  <2>4. QED BY <2>2, <2>3
<1>6. \A i \in (d + 1)..n : LogOf(S, a, n)[i] \in Entries
  <2>1. \A i \in 1..n : LogOf(S, a, n)[i] \in Entries
    BY <1>3, ElementOfSeq
  <2>2. QED BY <2>1
<1>7. /\ SubSeq(LogOf(S, a, n), d + 1, n) \in Seq(Entries)
      /\ Len(SubSeq(LogOf(S, a, n), d + 1, n)) = n - d
      /\ \A i \in 1..(n - d) : SubSeq(LogOf(S, a, n), d + 1, n)[i] = LogOf(S, a, n)[d + i]
  <2>1. d + 1 \in Int /\ n \in Int
    OBVIOUS
  <2>2. /\ SubSeq(LogOf(S, a, n), d + 1, n) \in Seq(Entries)
        /\ Len(SubSeq(LogOf(S, a, n), d + 1, n)) = IF d + 1 <= n THEN n - (d + 1) + 1 ELSE 0
        /\ \A i \in 1..(n - (d + 1) + 1) :
             SubSeq(LogOf(S, a, n), d + 1, n)[i] = LogOf(S, a, n)[(d + 1) + i - 1]
    BY <1>6, <2>1, SubSeqProperties
  <2>3. n - (d + 1) + 1 = n - d /\ (~(d + 1 <= n) => n - d = 0)
    BY <1>1
  <2>4. \A i \in 1..(n - d) : (d + 1) + i - 1 = d + i
    BY <1>1
  <2>5. QED BY <2>2, <2>3, <2>4
<1>8. ASSUME NEW i \in 1..(n - d)
      PROVE  LogOf(T, a + d, n - d)[i] = SubSeq(LogOf(S, a, n), d + 1, n)[i]
  <2>1. d + i \in 1..n
    BY <1>1
  <2>2. QED BY <1>3, <1>4, <1>5, <1>7, <2>1
<1>9. LogOf(T, a + d, n - d) = SubSeq(LogOf(S, a, n), d + 1, n)
  BY <1>4, <1>7, <1>8, SeqEqual
<1>10. QED BY <1>2, <1>9

\* What is past the anchor carries the numbers after it.
LEMMA RetainedNumbered ==
  ASSUME ArchiveInv
  PROVE  \E n \in Nat :
           /\ Numbered(Retained, anchor.sequence, n)
           /\ Retained # {} => \E l \in Retained :
                /\ l.sequence = anchor.sequence + n
                /\ \A e \in Retained : e.sequence <= l.sequence
           /\ Retained = {} => n = 0
<1>1. /\ Retained \in SUBSET stored /\ Retained \subseteq Envelope /\ anchor.sequence \in Nat
      /\ \A e \in Retained : e.sequence \in Nat /\ e.sequence > anchor.sequence
  BY DEF Retained, ArchiveInv, Shape, Envelope, Anchors
<1>2. CASE Retained = {}
  <2>1. Numbered(Retained, anchor.sequence, 0)
    BY <1>1, <1>2 DEF Numbered
  <2>2. QED BY <1>2, <2>1
<1>3. CASE Retained # {}
  <2>1. PICK l \in Retained : \A e \in Retained : e.sequence <= l.sequence
    BY <1>1, <1>3, SomeLast
  <2> DEFINE n == l.sequence - anchor.sequence
  <2>2. n \in Nat /\ anchor.sequence + n = l.sequence
    BY <1>1
  <2> HIDE DEF n
  <2>3. ASSUME NEW i \in 1..n PROVE \E e \in Retained : e.sequence = anchor.sequence + i
    <3>1. anchor.sequence + i \in (anchor.sequence + 1)..l.sequence
      BY <1>1, <2>2
    <3>2. PICK e \in stored : e.sequence = anchor.sequence + i
      BY <1>1, <3>1 DEF ArchiveInv, ChainOK
    <3>3. anchor.sequence + i > anchor.sequence
      BY <1>1, <2>2
    <3>4. QED BY <3>2, <3>3 DEF Retained
  <2>4. \A e \in Retained : e.sequence \in (anchor.sequence + 1)..(anchor.sequence + n)
    BY <1>1, <2>1, <2>2
  <2>5. \A e, f \in Retained : e.sequence = f.sequence => e = f
    BY <1>1 DEF ArchiveInv, ChainOK
  <2>6. Numbered(Retained, anchor.sequence, n)
    BY <1>1, <2>3, <2>4, <2>5 DEF Numbered
  <2>7. QED BY <1>3, <2>1, <2>2, <2>6
<1>4. QED BY <1>2, <1>3

LEMMA SameLog ==
  ASSUME Retained' = Retained, UNCHANGED anchor
  PROVE  Log' = Log
<1>1. \A i : Kept(i)' = Kept(i)
  BY DEF Kept
<1>2. QED BY <1>1 DEF Log

\* An append that reaches its segment is one put in the log.
LEMMA AppendPuts ==
  ASSUME ArchiveInv, AppendSegment
  PROVE  \E event \in Hashes \ {Genesis}, on \in 1..day : Promised!Put(event, on)
<1> DEFINE new == [sequence |-> ReadHead.sequence + 1, previous |-> ReadHead.hash,
                   event |-> made, segment |-> SelectSegment(op.current)]
           a == anchor.sequence
<1>1. /\ at = "append" /\ stored' = stored \cup {new}
      /\ UNCHANGED <<anchor, day, made>>
  BY DEF AppendSegment
<1>2. /\ plan = NoFile /\ op.does = "append" /\ made \in 1..MaxEvents
      /\ \A e \in stored : e.event < made /\ e.sequence > a
      /\ a \in Nat /\ op.current \in 1..day /\ day \in Nat
      /\ \A e \in stored : e.segment[1] <= op.current
  BY <1>1 DEF ArchiveInv, StepOK, Shape, Anchors, PlanOK, ClockOK, Idle
<1>3. /\ ReadHead.sequence \in Nat /\ ReadHead.hash \in Nat
      /\ stored = {} => ReadHead.sequence = a
      /\ stored # {} => \E h \in stored : /\ HeadOf(h) = ReadHead
                                          /\ \A f \in stored : f.sequence <= h.sequence
  BY <1>1, NextEnvelope
<1>4. new.segment \in Segments /\ new.segment[1] = op.current
  BY <1>1, SelectedSegment
<1>5. /\ new \in Envelope /\ new.sequence = ReadHead.sequence + 1 /\ new.event = made
  BY <1>2, <1>3, <1>4 DEF Envelope
<1> HIDE DEF new
<1>6. Retained = stored
  BY <1>2 DEF Retained
<1>7. PICK n \in Nat :
        /\ Numbered(Retained, a, n)
        /\ Retained # {} => \E l \in Retained :
             l.sequence = a + n /\ \A e \in Retained : e.sequence <= l.sequence
        /\ Retained = {} => n = 0
  BY RetainedNumbered
<1>8. new.sequence = a + n + 1
  <2>1. CASE stored = {}
    BY <1>2, <1>3, <1>5, <1>6, <1>7, <2>1
  <2>2. CASE stored # {}
    <3>1. PICK h \in stored : HeadOf(h) = ReadHead /\ \A f \in stored : f.sequence <= h.sequence
      BY <1>3, <2>2
    <3>2. PICK l \in stored : l.sequence = a + n /\ \A e \in stored : e.sequence <= l.sequence
      BY <1>6, <1>7, <2>2
    <3>3. h.sequence = ReadHead.sequence
      BY <3>1 DEF HeadOf
    <3>4. h.sequence <= l.sequence /\ l.sequence <= h.sequence
      BY <3>1, <3>2
    <3>5. h.sequence = a + n
      BY <1>2, <1>3, <3>2, <3>3, <3>4
    <3>6. QED BY <1>2, <1>5, <3>3, <3>5
  <2>3. QED BY <2>1, <2>2
<1>9. Retained' = Retained \cup {new}
  <2>1. new.sequence > a
    BY <1>2, <1>8
  <2>2. QED BY <1>1, <1>6, <2>1 DEF Retained
<1>10. /\ Numbered(Retained', a, n + 1)
       /\ LogOf(Retained', a, n + 1) = Append(LogOf(Retained, a, n), Entry(new))
  BY <1>2, <1>5, <1>7, <1>8, <1>9, LogGrows
<1>11. Log = LogOf(Retained, a, n)
  <2>1. Cardinality(Retained) = n
    BY <1>2, <1>7, NumberedCardinality
  <2>2. QED BY <2>1 DEF Log, Kept, LogOf, Pick, Entry
<1>12. Log' = LogOf(Retained', a, n + 1)
  <2>1. n + 1 \in Nat
    OBVIOUS
  <2>2. Cardinality(Retained') = n + 1
    BY <1>2, <1>10, <2>1, NumberedCardinality
  <2>3. QED BY <1>1, <2>2 DEF Log, Kept, LogOf, Pick, Entry
<1>13. Log' = Append(Log, [event |-> made, day |-> op.current])
  BY <1>4, <1>5, <1>10, <1>11, <1>12 DEF Entry
<1>14. ASSUME NEW i \in DOMAIN Log PROVE Log[i].event # made /\ Log[i].day <= op.current
  <2>1. i \in 1..n /\ Log[i] = Entry(Pick(Retained, a, i))
    BY <1>11 DEF LogOf
  <2>2. Pick(Retained, a, i) \in stored
    BY <1>2, <1>6, <1>7, <2>1, NumberedCardinality
  <2>3. Pick(Retained, a, i).event < made /\ Pick(Retained, a, i).segment[1] <= op.current
    BY <1>2, <2>2
  <2>4. Pick(Retained, a, i).event \in Nat
    BY <2>2 DEF ArchiveInv, Shape, Envelope
  <2>5. QED BY <1>2, <2>1, <2>3, <2>4 DEF Entry
<1>15. Promised!Put(made, op.current)
  BY <1>1, <1>13, <1>14 DEF Promised!Put
<1>16. made \in Hashes \ {Genesis}
  BY <1>2, ArchiveAssumption DEF Hashes, Genesis
<1>17. QED BY <1>2, <1>15, <1>16

\* Writing the anchor drops what the journal names from the log.
LEMMA AnchorDrops ==
  ASSUME ArchiveInv, WriteAnchor
  PROVE  \E n \in 1..Len(Log) : Promised!Drop(n)
<1> DEFINE a == anchor.sequence
<1>1. /\ at = "set_aside" /\ anchor' = plan.anchor
      /\ UNCHANGED <<stored, day>>
  BY DEF WriteAnchor
<1>2. plan # NoFile /\ ~Committed
  BY <1>1 DEF ArchiveInv, StepOK
<1>3. /\ \A e \in stored : e.segment \in plan.segments <=> e.sequence <= plan.anchor.sequence
      /\ \A e \in stored : e.segment \in plan.segments => e.segment[1] + RetentionDays < day
      /\ \A e \in stored : e.sequence > a
  BY <1>2 DEF ArchiveInv, PlanOK
<1>4. PICK l \in stored : AnchorOf(l) = plan.anchor
  BY <1>2 DEF ArchiveInv, PlanOK
<1>5. anchor'.sequence = l.sequence /\ plan.anchor.sequence = l.sequence
  BY <1>1, <1>4 DEF AnchorOf
<1>6. Retained = stored
  BY <1>3 DEF Retained
<1>7. PICK n \in Nat : Numbered(Retained, a, n)
  BY RetainedNumbered
<1>8. a \in Nat
  BY DEF ArchiveInv, Shape, Anchors
<1> DEFINE d == l.sequence - a
<1>9. d \in 1..n /\ a + d = l.sequence
  <2>1. d \in 1..n
    BY <1>6, <1>7, <1>8, NumberedCardinality
  <2>2. l.sequence \in Nat
    BY DEF ArchiveInv, Shape, Envelope
  <2>3. QED BY <1>8, <2>1, <2>2
<1> HIDE DEF d
<1>10. Retained' = {e \in Retained : e.sequence > a + d}
  BY <1>1, <1>5, <1>6, <1>9 DEF Retained
<1>11. /\ Numbered(Retained', a + d, n - d)
       /\ LogOf(Retained', a + d, n - d) = SubSeq(LogOf(Retained, a, n), d + 1, n)
  BY <1>7, <1>8, <1>9, <1>10, LogShrinks
<1>12. Log = LogOf(Retained, a, n)
  <2>1. Cardinality(Retained) = n
    BY <1>7, <1>8, NumberedCardinality
  <2>2. QED BY <2>1 DEF Log, Kept, LogOf, Pick, Entry
<1>13. Log' = LogOf(Retained', a + d, n - d)
  <2>1. n - d \in Nat /\ a + d \in Nat
    BY <1>8, <1>9
  <2>2. Cardinality(Retained') = n - d
    BY <1>11, <2>1, NumberedCardinality
  <2>3. anchor'.sequence = a + d
    BY <1>5, <1>9
  <2>4. QED BY <2>2, <2>3 DEF Log, Kept, LogOf, Pick, Entry
<1>14. Len(Log) = n
  BY <1>7, <1>8, <1>12, LogOfProperties
<1>15. ASSUME NEW i \in 1..d PROVE Log[i].day + RetentionDays < day
  <2>1. i \in 1..n /\ i <= d
    BY <1>9
  <2>2. Log[i] = Entry(Pick(Retained, a, i))
    BY <1>12, <2>1 DEF LogOf
  <2>3. Pick(Retained, a, i) \in stored /\ Pick(Retained, a, i).sequence = a + i
    BY <1>6, <1>7, <1>8, <2>1, NumberedCardinality
  <2>4. Pick(Retained, a, i).sequence <= plan.anchor.sequence
    BY <1>5, <1>8, <1>9, <2>1, <2>3
  <2>5. QED BY <1>3, <2>2, <2>3, <2>4 DEF Entry
<1>16. anchor'.sequence = a + d
  BY <1>5, <1>9
<1>17. Promised!Drop(d)
  BY <1>1, <1>11, <1>12, <1>13, <1>14, <1>15, <1>16 DEF Promised!Drop
<1>18. QED BY <1>9, <1>14, <1>17

-----------------------------------------------------------------------------
(* All steps together.                                                      *)

LEMMA ArchiveInit ==
  ASSUME Init
  PROVE  ArchiveInv /\ Promised!Init
<1>1. /\ stored = {} /\ aside = {} /\ anchor = [sequence |-> 0, hash |-> 0]
      /\ head = NoFile /\ plan = NoFile /\ day = 1 /\ made = 0
      /\ op = Idle /\ at = "idle" /\ outcome = "none"
  BY DEF Init, Genesis
<1>2. Shape
  BY <1>1, ArchiveAssumption DEF Shape, Anchors, Steps
<1>3. ChainOK /\ HeadOK /\ PlanOK
  BY <1>1 DEF ChainOK, HeadOK, PlanOK
<1>4. StepOK /\ ClockOK /\ CountsOK
  BY <1>1 DEF StepOK, ClockOK, CountsOK, Idle
<1>5. ArchiveInv
  BY <1>2, <1>3, <1>4 DEF ArchiveInv
<1>6. Log = << >>
  <2>1. Retained = {}
    BY <1>1 DEF Retained
  <2>2. Cardinality(Retained) = 0
    BY <2>1, FS_EmptySet
  <2>3. Log = [i \in 1..0 |-> [event |-> Kept(i).event, day |-> Kept(i).segment[1]]]
    BY <2>2 DEF Log
  <2>4. Log \in Seq(Entries) /\ DOMAIN Log = 1..0
    <3>1. \A i \in 1..0 : FALSE
      OBVIOUS
    <3>2. QED BY <2>3, <3>1
  <2>5. Len(Log) = 0
    BY <2>4, LenProperties
  <2>6. QED BY <2>4, <2>5, SeqEqual, EmptySeq
<1>7. QED BY <1>1, <1>5, <1>6 DEF Promised!Init

\* Each step keeps the invariant, and it is a step of the log or none.
LEMMA ArchiveNext ==
  ASSUME Skew = 0, ArchiveInv, [Next]_vars
  PROVE  ArchiveInv' /\ [Promised!Next]_Promised!vars
<1>1. \/ /\ UNCHANGED <<Log, anchor, day>>
      \/ Promised!Next
      => [Promised!Next]_Promised!vars
  BY DEF Promised!vars
<1>2. CASE UNCHANGED vars
  <2>1. UNCHANGED <<stored, aside, anchor, head, plan, day, made, op, at, outcome>>
    BY <1>2 DEF vars
  <2>2. ReadHead' = ReadHead /\ SegmentNames' = SegmentNames /\ (Committed' <=> Committed)
    BY <2>1 DEF ReadHead, SegmentNames, Committed
  <2>3. Shape' /\ ChainOK' /\ HeadOK' /\ PlanOK'
    BY <2>1, <2>2 DEF ArchiveInv, Shape, ChainOK, HeadOK, PlanOK
  <2>4. StepOK' /\ ClockOK' /\ CountsOK'
    BY <2>1, <2>2 DEF ArchiveInv, StepOK, ClockOK, CountsOK
  <2>5. Retained' = Retained
    BY <2>1 DEF Retained
  <2>6. Log' = Log
    BY <2>1, <2>5, SameLog
  <2>7. QED BY <1>1, <2>1, <2>3, <2>4, <2>6 DEF ArchiveInv
<1>3. ASSUME UNCHANGED <<stored, anchor, day>> PROVE UNCHANGED <<Log, anchor, day>>
  <2>1. Retained' = Retained
    BY <1>3 DEF Retained
  <2>2. QED BY <1>3, <2>1, SameLog
<1>4. CASE \E does \in {"append", "verify"}, current \in (day - Skew)..day :
             current > 0 /\ Begin(does, current)
  <2>1. UNCHANGED <<stored, anchor, day>>
    BY <1>4 DEF Begin, disk
  <2>2. ArchiveInv'
    BY <1>4, BeginStep
  <2>3. QED BY <1>1, <1>3, <2>1, <2>2
<1>5. ASSUME NEW name, RecoverSegment(name)
      PROVE  ArchiveInv' /\ [Promised!Next]_Promised!vars
  <2>1. /\ at = "recover" /\ plan # NoFile /\ name \in plan.segments
        /\ aside' = aside \ {name}
        /\ stored' = IF Committed THEN stored \ Named({name}) ELSE stored
        /\ UNCHANGED <<anchor, head, plan, day, made, op, at, outcome>>
    BY <1>5 DEF RecoverSegment
  <2>2. CASE Committed
    <3>1. ArchiveInv' /\ Retained' = Retained
      BY <2>1, <2>2, TakeAwayStep
    <3>2. QED BY <1>1, <2>1, <3>1, SameLog
  <2>3. CASE ~Committed
    <3>1. /\ aside' \subseteq {e.segment : e \in stored} /\ aside' \subseteq plan.segments
          /\ stored' = stored
      BY <2>1, <2>3 DEF ArchiveInv, Shape, PlanOK
    <3>2. ArchiveInv'
      BY <2>1, <3>1, AsideStep
    <3>3. QED BY <1>1, <1>3, <2>1, <3>1, <3>2
  <2>4. QED BY <2>2, <2>3
<1>6. ASSUME NEW name, SetAside(name)
      PROVE  ArchiveInv' /\ [Promised!Next]_Promised!vars
  <2>1. /\ at = "set_aside" /\ name \in plan.segments \cap SegmentNames
        /\ aside' = aside \cup {name}
        /\ UNCHANGED <<stored, anchor, head, plan, day, made, op, at, outcome>>
    BY <1>6 DEF SetAside
  <2>2. plan # NoFile
    BY <2>1 DEF ArchiveInv, StepOK
  <2>3. aside' \subseteq {e.segment : e \in stored} /\ aside' \subseteq plan.segments
    BY <2>1, <2>2 DEF ArchiveInv, Shape, PlanOK, SegmentNames
  <2>4. ArchiveInv'
    BY <2>1, <2>2, <2>3, AsideStep
  <2>5. QED BY <1>1, <1>3, <2>1, <2>4
<1>7. ASSUME NEW name, Discard(name)
      PROVE  ArchiveInv' /\ [Promised!Next]_Promised!vars
  <2>1. /\ at = "discard" /\ name \in plan.segments
        /\ aside' = aside \ {name} /\ stored' = stored \ Named({name})
        /\ UNCHANGED <<anchor, head, plan, day, made, op, at, outcome>>
    BY <1>7 DEF Discard
  <2>2. plan # NoFile /\ Committed
    BY <2>1 DEF ArchiveInv, StepOK
  <2>3. ArchiveInv' /\ Retained' = Retained
    BY <2>1, <2>2, TakeAwayStep
  <2>4. QED BY <1>1, <2>1, <2>3, SameLog
<1>8. CASE RecoverPlan
  <2>1. /\ at = "recover" /\ plan # NoFile /\ plan.segments \cap aside = {}
        /\ Committed => plan.segments \cap SegmentNames = {}
        /\ plan' = NoFile
        /\ UNCHANGED <<stored, aside, anchor, head, day, made, op, at, outcome>>
    BY <1>8 DEF RecoverPlan
  <2>2. aside = {}
    BY <2>1 DEF ArchiveInv, PlanOK
  <2>3. ArchiveInv'
    BY <2>1, <2>2, DropPlanStep
  <2>4. QED BY <1>1, <1>3, <2>1, <2>3
<1>9. CASE RemovePlan
  <2>1. /\ at = "discard" /\ plan.segments \cap aside = {} /\ plan' = NoFile /\ End("ok")
        /\ UNCHANGED <<stored, aside, anchor, head, day, made>>
    BY <1>9 DEF RemovePlan
  <2>2. /\ plan # NoFile /\ plan.segments \cap SegmentNames = {}
        /\ aside = {}
    BY <2>1 DEF ArchiveInv, StepOK, PlanOK
  <2>3. ArchiveInv'
    BY <2>1, <2>2, DropPlanStep
  <2>4. QED BY <1>1, <1>3, <2>1, <2>3
<1>10. CASE RecoverHead
  <2>1. UNCHANGED <<stored, anchor, day>>
    BY <1>10 DEF RecoverHead
  <2>2. QED BY <1>1, <1>3, <1>10, <2>1, RecoverHeadStep
<1>11. CASE Verify
  <2>1. UNCHANGED <<disk, day, made>> /\ at = "verify"
    BY <1>11 DEF Verify
  <2>2. Verifies
    BY <2>1, RecoveredVerifies DEF ArchiveInv, StepOK
  <2>3. ArchiveInv'
    BY <1>11, <2>1, <2>2, EndStep DEF Verify
  <2>4. UNCHANGED <<stored, anchor, day>>
    BY <2>1 DEF disk
  <2>5. QED BY <1>1, <1>3, <2>3, <2>4
<1>12. CASE AppendSegment
  BY <1>1, <1>12, AppendStep, AppendPuts DEF Promised!Next
<1>13. CASE WriteHead
  <2>1. UNCHANGED <<stored, anchor, day>>
    BY <1>13 DEF WriteHead
  <2>2. QED BY <1>1, <1>3, <1>13, <2>1, WriteHeadStep
<1>14. CASE Prune
  <2>1. UNCHANGED <<stored, anchor, day>>
    BY <1>14 DEF Prune
  <2>2. QED BY <1>1, <1>3, <1>14, <2>1, PruneStep
<1>15. CASE WriteAnchor
  BY <1>1, <1>15, WriteAnchorStep, AnchorDrops DEF Promised!Next
<1>16. CASE Stop
  <2>1. UNCHANGED <<disk, day, made>> /\ End("stopped")
    BY <1>16 DEF Stop
  <2>2. UNCHANGED <<stored, anchor, day>>
    BY <2>1 DEF disk
  <2>3. QED BY <1>1, <1>3, <2>1, <2>2, EndStep
<1>17. CASE NextDay
  <2>1. UNCHANGED <<stored, anchor>> /\ day' = day + 1
    BY <1>17 DEF NextDay, disk
  <2>2. Retained' = Retained
    BY <2>1 DEF Retained
  <2>3. Promised!NextDay
    BY <2>1, <2>2, SameLog DEF Promised!NextDay
  <2>4. QED BY <1>1, <1>17, <2>3, NextDayStep DEF Promised!Next
<1>18. QED BY <1>2, <1>4, <1>5, <1>6, <1>7, <1>8, <1>9, <1>10, <1>11, <1>12, <1>13,
              <1>14, <1>15, <1>16, <1>17 DEF Next

\* While every process reads the same clock, what any operation leaves or is
\* stopped in, at whichever of its file operations, is the chain, the head
\* and the journal of ArchiveInv.
THEOREM ArchiveInvariant ==
  ASSUME Skew = 0
  PROVE  Spec => []ArchiveInv
<1>1. Init => ArchiveInv
  BY ArchiveInit
<1>2. ArchiveInv /\ [Next]_vars => ArchiveInv'
  BY ArchiveNext
<1>3. QED BY <1>1, <1>2, PTL DEF Spec

\* Every file holds what its readers expect of it, within the bounds.
THEOREM TypeCorrect ==
  ASSUME Skew = 0
  PROVE  Spec => []TypeOK
<1>1. ASSUME ArchiveInv PROVE TypeOK
  <2>1. \A e \in stored : /\ e.segment \in Names
                          /\ e.sequence \in 1..MaxEvents /\ e.event \in 1..MaxEvents
                          /\ e.previous \in 0..MaxEvents
    BY <1>1, NamesBounded
  <2>2. stored \subseteq [sequence : Sequences \ {0}, previous : Hashes,
                         event : Hashes \ {Genesis}, segment : Names]
    BY <1>1, <2>1, ArchiveAssumption
       DEF ArchiveInv, Shape, Envelope, Sequences, Hashes, Genesis
  <2>3. anchor \in [sequence : Sequences, hash : Hashes]
    <3>1. /\ anchor \in Anchors /\ made \in 0..MaxEvents
          /\ anchor.sequence <= anchor.hash /\ anchor.hash <= made
      BY <1>1 DEF ArchiveInv, Shape, CountsOK
    <3>2. QED BY <3>1, ArchiveAssumption DEF Anchors, Sequences, Hashes
  <2>4. head \in [sequence : Sequences, hash : Hashes, segment : Names] \cup {NoFile}
    <3>1. ASSUME NEW e \in stored
          PROVE  HeadOf(e) \in [sequence : Sequences, hash : Hashes, segment : Names]
      BY <2>1, ArchiveAssumption DEF HeadOf, Sequences, Hashes
    <3>2. QED BY <1>1, <3>1 DEF ArchiveInv, HeadOK
  <2>5. \/ plan = NoFile
        \/ plan \in [anchor : [sequence : Sequences, hash : Hashes], segments : SUBSET Names]
    <3>1. CASE plan # NoFile
      <4>1. plan \in Plans
        BY <1>1, <3>1 DEF ArchiveInv, Shape
      <4>2. ASSUME NEW e \in stored PROVE AnchorOf(e) \in [sequence : Sequences, hash : Hashes]
        BY <2>1, ArchiveAssumption DEF AnchorOf, Sequences, Hashes
      <4>3. plan.anchor \in [sequence : Sequences, hash : Hashes]
        BY <1>1, <2>3, <3>1, <4>2 DEF ArchiveInv, PlanOK, Committed
      <4>4. QED BY <4>1, <4>3 DEF Plans
    <3>2. QED BY <3>1
  <2>6. QED BY <1>1, <2>2, <2>3, <2>4, <2>5 DEF ArchiveInv, Shape, Steps, TypeOK
<1>2. QED BY <1>1, ArchiveInvariant, PTL

\* Every operation recovers from what an earlier one was stopped in: none
\* finds the archive invalid (recoverPruneLocked, recoverHeadLocked).
THEOREM ArchiveRecovers ==
  ASSUME Skew = 0
  PROVE  Spec => []AlwaysRecovers
<1>1. ArchiveInv => AlwaysRecovers
  BY DEF ArchiveInv, Shape, AlwaysRecovers
<1>2. QED BY <1>1, ArchiveInvariant, PTL

\* The head is at most one envelope behind the segments and never ahead of
\* them, and what is set aside is named by the journal.
THEOREM HeadAndJournal ==
  ASSUME Skew = 0
  PROVE  Spec => [](HeadFollows /\ AsideIsJournalled)
<1>1. ASSUME ArchiveInv PROVE HeadFollows
  <2>1. ASSUME NEW e \in stored PROVE e.sequence <= ReadHead.sequence + 1
    BY <1>1 DEF ArchiveInv, HeadOK
  <2>2. ASSUME NEW e \in stored, e.sequence = ReadHead.sequence PROVE e.event = ReadHead.hash
    <3>1. head # NoFile
      <4>1. e.sequence \in Nat \ {0}
        BY <1>1 DEF ArchiveInv, Shape, Envelope
      <4>2. QED BY <1>1, <2>2, <4>1, ReadHeadType
    <3>2. PICK h \in stored : HeadOf(h) = head
      BY <1>1, <3>1 DEF ArchiveInv, HeadOK
    <3>3. h.sequence = ReadHead.sequence /\ h.event = ReadHead.hash
      BY <3>1, <3>2 DEF ReadHead, HeadOf
    <3>4. h = e
      BY <1>1, <2>2, <3>3 DEF ArchiveInv, ChainOK
    <3>5. QED BY <3>3, <3>4
  <2>3. QED BY <2>1, <2>2 DEF HeadFollows
<1>2. ArchiveInv => AsideIsJournalled
  BY DEF ArchiveInv, PlanOK, AsideIsJournalled
<1>3. QED BY <1>1, <1>2, ArchiveInvariant, PTL

\* The directory implements the log that callers are promised: events keep
\* their order and their numbers, a crash loses or repeats none, and only
\* days past the retention are given up (append, pruneLocked).
THEOREM ArchiveKeepsPromise ==
  ASSUME Skew = 0
  PROVE  Spec => ImplementsLog
<1>1. Init => Promised!Init
  BY ArchiveInit
<1>2. ArchiveInv /\ [Next]_vars => [Promised!Next]_Promised!vars
  BY ArchiveNext
<1>3. QED BY <1>1, <1>2, ArchiveInvariant, PTL DEF Spec, ImplementsLog, Promised!Spec

-----------------------------------------------------------------------------
(* The outbox of the alerts.                                                *)

\* Within the retention of both directories every alert there is may stay.
RetentionSuffices == DeliveredRetention >= MaxAlert /\ DeadRetention >= MaxAlert

\* A file of the alert in a directory other than that of the claims.
Elsewhere(f, a) ==
  f.pending[a] # Absent \/ f.dead[a] # Absent \/ a \in f.delivered

\* No alert is lost or made up between f and g, and no receipt is taken back.
Keeps(f, g) ==
  \A a \in Alerts : /\ a \in f.delivered => a \in g.delivered
                    /\ Unknown(f, a) <=> Unknown(g, a)

PendingFile == [attempts : Nat, due : BOOLEAN]
ClaimFile   == [attempts : Nat, token : Nat \ {0}, lapsed : BOOLEAN]

LEMMA KeepsTransitive ==
  ASSUME NEW f, NEW g, NEW h, Keeps(f, g), Keeps(g, h)
  PROVE  Keeps(f, h)
BY DEF Keeps

LEMMA FilesAre ==
  ASSUME NEW f \in Files
  PROVE  /\ f = [pending |-> f.pending, inflight |-> f.inflight,
                 dead |-> f.dead, delivered |-> f.delivered]
         /\ f.pending \in [Alerts -> PendingFile \cup {Absent}]
         /\ f.inflight \in [Alerts -> ClaimFile \cup {Absent}]
         /\ f.dead \in [Alerts -> Nat \cup {Absent}]
         /\ f.delivered \in SUBSET Alerts
BY DEF Files, PendingFile, ClaimFile

LEMMA AbsentIsNoFile ==
  Absent \notin PendingFile /\ Absent \notin ClaimFile /\ Absent \notin Nat
<1>1. Absent \notin Nat /\ Absent \notin [attempts : Nat, due : BOOLEAN]
      /\ Absent \notin [attempts : Nat, token : Nat, lapsed : BOOLEAN]
  BY OutboxAssumption
<1>2. QED BY <1>1 DEF PendingFile, ClaimFile

\* recoverStaleLocked loses no alert.
LEMMA RecoveredKeeps ==
  ASSUME NEW f \in Files
  PROVE  /\ Recovered(f) \in Files
         /\ Keeps(f, Recovered(f))
<1> DEFINE g == Recovered(f)
<1>1. /\ f = [pending |-> f.pending, inflight |-> f.inflight,
              dead |-> f.dead, delivered |-> f.delivered]
      /\ f.pending \in [Alerts -> PendingFile \cup {Absent}]
      /\ f.inflight \in [Alerts -> ClaimFile \cup {Absent}]
      /\ f.dead \in [Alerts -> Nat \cup {Absent}]
      /\ f.delivered \in SUBSET Alerts
  BY FilesAre
<1>0. DOMAIN f = {"pending", "inflight", "dead", "delivered"}
  BY <1>1, Zenon
<1>2. /\ DOMAIN g = {"pending", "inflight", "dead", "delivered"}
      /\ g.dead = f.dead /\ g.delivered = f.delivered
      /\ g.pending = [a \in Alerts |->
           IF Lapsed(f, a) THEN [attempts |-> f.inflight[a].attempts, due |-> TRUE]
           ELSE f.pending[a]]
      /\ g.inflight = [a \in Alerts |->
           IF Lapsed(f, a) \/ Superseded(f, a) THEN Absent ELSE f.inflight[a]]
  BY <1>0 DEF Recovered
<1> HIDE DEF g
<1>3. g.pending \in [Alerts -> PendingFile \cup {Absent}]
  <2>1. ASSUME NEW a \in Alerts, Lapsed(f, a)
        PROVE  [attempts |-> f.inflight[a].attempts, due |-> TRUE] \in PendingFile
    BY <1>1, <2>1 DEF Lapsed, PendingFile, ClaimFile
  <2>2. QED BY <1>1, <1>2, <2>1
<1>4. g.inflight \in [Alerts -> ClaimFile \cup {Absent}]
  BY <1>1, <1>2
<1>5. g \in Files
  <2>1. g = [f EXCEPT !.pending = g.pending, !.inflight = g.inflight]
    BY <1>2 DEF g, Recovered
  <2>2. f \in [pending : [Alerts -> PendingFile \cup {Absent}],
               inflight : [Alerts -> ClaimFile \cup {Absent}],
               dead : [Alerts -> Nat \cup {Absent}], delivered : SUBSET Alerts]
    BY DEF Files, PendingFile, ClaimFile
  <2>3. g \in [pending : [Alerts -> PendingFile \cup {Absent}],
               inflight : [Alerts -> ClaimFile \cup {Absent}],
               dead : [Alerts -> Nat \cup {Absent}], delivered : SUBSET Alerts]
    BY <1>3, <1>4, <2>1, <2>2
  <2>4. QED BY <2>3 DEF Files, PendingFile, ClaimFile
<1>6. ASSUME NEW a \in Alerts PROVE Unknown(f, a) <=> Unknown(g, a)
  <2>1. Lapsed(f, a) => g.pending[a] # Absent /\ f.inflight[a] # Absent
    <3>1. ASSUME Lapsed(f, a) PROVE g.pending[a] \in PendingFile
      BY <1>1, <1>2, <3>1 DEF Lapsed, PendingFile, ClaimFile
    <3>2. QED BY <3>1, AbsentIsNoFile DEF Lapsed
  <2>2. Superseded(f, a) => a \in f.delivered \/ f.dead[a] # Absent \/ f.pending[a] # Absent
    BY DEF Superseded
  <2>3. ~Lapsed(f, a) => g.pending[a] = f.pending[a]
    BY <1>2
  <2>4. ~Lapsed(f, a) /\ ~Superseded(f, a) => g.inflight[a] = f.inflight[a]
    BY <1>2
  <2>5. Lapsed(f, a) \/ Superseded(f, a) => g.inflight[a] = Absent
    BY <1>2
  <2>6. Superseded(f, a) => ~Lapsed(f, a)
    BY DEF Lapsed
  <2>7. g.dead[a] = f.dead[a] /\ (a \in g.delivered <=> a \in f.delivered)
    BY <1>2
  <2>8. QED BY <2>1, <2>2, <2>3, <2>4, <2>5, <2>6, <2>7 DEF Unknown
<1>7. QED BY <1>2, <1>5, <1>6 DEF Keeps, g

\* What one file that is written, or one claim that goes, makes of the rest.
LEMMA FileSteps ==
  ASSUME NEW f \in Files, NEW a \in Alerts
  PROVE  /\ \A p \in PendingFile :
              /\ [f EXCEPT !.pending[a] = p] \in Files
              /\ Elsewhere([f EXCEPT !.pending[a] = p], a)
              /\ ~Unknown(f, a) => Keeps(f, [f EXCEPT !.pending[a] = p])
         /\ \A n \in Nat :
              /\ [f EXCEPT !.dead[a] = n] \in Files
              /\ Elsewhere([f EXCEPT !.dead[a] = n], a)
              /\ ~Unknown(f, a) => Keeps(f, [f EXCEPT !.dead[a] = n])
         /\ /\ [f EXCEPT !.delivered = @ \cup {a}] \in Files
            /\ Elsewhere([f EXCEPT !.delivered = @ \cup {a}], a)
            /\ ~Unknown(f, a) => Keeps(f, [f EXCEPT !.delivered = @ \cup {a}])
         /\ /\ [f EXCEPT !.inflight[a] = Absent] \in Files
            /\ Elsewhere(f, a) => Keeps(f, [f EXCEPT !.inflight[a] = Absent])
<1>1. /\ f \in [pending : [Alerts -> PendingFile \cup {Absent}],
                inflight : [Alerts -> ClaimFile \cup {Absent}],
                dead : [Alerts -> Nat \cup {Absent}], delivered : SUBSET Alerts]
      /\ \A g : (g \in [pending : [Alerts -> PendingFile \cup {Absent}],
                inflight : [Alerts -> ClaimFile \cup {Absent}],
                dead : [Alerts -> Nat \cup {Absent}], delivered : SUBSET Alerts])
            => g \in Files
  BY DEF Files, PendingFile, ClaimFile
<1>2. ASSUME NEW p \in PendingFile
      PROVE  /\ [f EXCEPT !.pending[a] = p] \in Files
             /\ Elsewhere([f EXCEPT !.pending[a] = p], a)
             /\ ~Unknown(f, a) => Keeps(f, [f EXCEPT !.pending[a] = p])
  <2> DEFINE g == [f EXCEPT !.pending[a] = p]
  <2>1. /\ g.pending = [f.pending EXCEPT ![a] = p]
        /\ g.inflight = f.inflight /\ g.dead = f.dead /\ g.delivered = f.delivered
    BY <1>1
  <2>2. g \in Files
    BY <1>1
  <2>3. g.pending[a] # Absent /\ \A b \in Alerts : b # a => g.pending[b] = f.pending[b]
    BY <1>1, <2>1, AbsentIsNoFile
  <2>4. QED BY <2>1, <2>2, <2>3 DEF Elsewhere, Keeps, Unknown
<1>3. ASSUME NEW n \in Nat
      PROVE  /\ [f EXCEPT !.dead[a] = n] \in Files
             /\ Elsewhere([f EXCEPT !.dead[a] = n], a)
             /\ ~Unknown(f, a) => Keeps(f, [f EXCEPT !.dead[a] = n])
  <2> DEFINE g == [f EXCEPT !.dead[a] = n]
  <2>1. /\ g.dead = [f.dead EXCEPT ![a] = n]
        /\ g.inflight = f.inflight /\ g.pending = f.pending /\ g.delivered = f.delivered
    BY <1>1
  <2>2. g \in Files
    BY <1>1
  <2>3. g.dead[a] # Absent /\ \A b \in Alerts : b # a => g.dead[b] = f.dead[b]
    BY <1>1, <2>1, AbsentIsNoFile
  <2>4. QED BY <2>1, <2>2, <2>3 DEF Elsewhere, Keeps, Unknown
<1>4. /\ [f EXCEPT !.delivered = @ \cup {a}] \in Files
      /\ Elsewhere([f EXCEPT !.delivered = @ \cup {a}], a)
      /\ ~Unknown(f, a) => Keeps(f, [f EXCEPT !.delivered = @ \cup {a}])
  <2> DEFINE g == [f EXCEPT !.delivered = @ \cup {a}]
  <2>1. /\ g.delivered = f.delivered \cup {a}
        /\ g.inflight = f.inflight /\ g.pending = f.pending /\ g.dead = f.dead
    BY <1>1
  <2>2. g \in Files
    BY <1>1
  <2>3. QED BY <2>1, <2>2 DEF Elsewhere, Keeps, Unknown
<1>5. /\ [f EXCEPT !.inflight[a] = Absent] \in Files
      /\ Elsewhere(f, a) => Keeps(f, [f EXCEPT !.inflight[a] = Absent])
  <2> DEFINE g == [f EXCEPT !.inflight[a] = Absent]
  <2>1. /\ g.inflight = [f.inflight EXCEPT ![a] = Absent]
        /\ g.delivered = f.delivered /\ g.pending = f.pending /\ g.dead = f.dead
    BY <1>1
  <2>2. g \in Files
    BY <1>1
  <2>3. \A b \in Alerts : b # a => g.inflight[b] = f.inflight[b]
    BY <1>1, <2>1
  <2>4. QED BY <2>1, <2>2, <2>3 DEF Elsewhere, Keeps, Unknown
<1>6. QED BY <1>2, <1>3, <1>4, <1>5, Zenon

\* The destination of a claim is written before the claim goes.
LEMMA WrittenKeeps ==
  ASSUME NEW f \in Files, NEW c \in Claims,
         ~Unknown(f, c.alert), NEW to \in {"delivered", "pending", "dead"}
  PROVE  /\ Written(f, c, to) \in Files
         /\ Keeps(f, Written(f, c, to))
         /\ Elsewhere(Written(f, c, to), c.alert)
<1>1. /\ c.alert \in Alerts /\ c.attempts + 1 \in Nat
      /\ [attempts |-> c.attempts + 1, due |-> FALSE] \in PendingFile
  BY DEF Claims, PendingFile
<1>2. CASE to = "delivered"
  BY <1>1, <1>2, FileSteps DEF Written
<1>3. CASE to = "pending"
  BY <1>1, <1>3, FileSteps DEF Written
<1>4. CASE to = "dead"
  BY <1>1, <1>4, FileSteps DEF Written
<1>5. QED BY <1>2, <1>3, <1>4

LEMMA ReleasedKeeps ==
  ASSUME NEW f \in Files, NEW c \in Claims,
         Elsewhere(f, c.alert)
  PROVE  /\ Released(f, c) \in Files
         /\ Keeps(f, Released(f, c))
BY FileSteps DEF Released, Claims

\* Nothing is beyond a retention that suffices.
LEMMA NoExcess ==
  ASSUME NEW names \in SUBSET Alerts, NEW retain,
         retain \in Nat, retain >= MaxAlert
  PROVE  Excess(names, retain) = {}
<1> SUFFICES ASSUME NEW a \in Excess(names, retain)
             PROVE  FALSE
  OBVIOUS
<1>0. a \in names /\ Cardinality({b \in names : b > a}) >= retain
  BY Zenon DEF Excess
<1>1. MaxAlert \in Nat /\ a \in 1..MaxAlert
  BY <1>0, OutboxAssumption DEF Alerts
<1>2. {b \in names : b > a} \in SUBSET ((a + 1)..MaxAlert)
  <2>1. ASSUME NEW b \in names, b > a PROVE b \in (a + 1)..MaxAlert
    <3>1. b \in 1..MaxAlert
      BY DEF Alerts
    <3>2. QED BY <1>1, <2>1, <3>1
  <2>2. QED BY <2>1
<1>3. IsFiniteSet((a + 1)..MaxAlert) /\ Cardinality((a + 1)..MaxAlert) < MaxAlert
  <2>1. a + 1 \in Int /\ MaxAlert \in Int
    BY <1>1
  <2>2. /\ IsFiniteSet((a + 1)..MaxAlert)
        /\ Cardinality((a + 1)..MaxAlert) = IF a + 1 > MaxAlert THEN 0 ELSE MaxAlert - (a + 1) + 1
    BY <2>1, FS_Interval
  <2>3. (IF a + 1 > MaxAlert THEN 0 ELSE MaxAlert - (a + 1) + 1) < MaxAlert
    BY <1>1
  <2>4. QED BY <2>2, <2>3
<1>4. /\ Cardinality({b \in names : b > a}) <= Cardinality((a + 1)..MaxAlert)
      /\ IsFiniteSet({b \in names : b > a})
  BY <1>2, <1>3, FS_Subset
<1>5. Cardinality({b \in names : b > a}) \in Nat /\ Cardinality((a + 1)..MaxAlert) \in Nat
  BY <1>3, <1>4, FS_CardinalityType
<1>6. QED BY <1>0, <1>1, <1>3, <1>4, <1>5

LEMMA PrunedKeeps ==
  ASSUME NEW f \in Files,
         NEW to \in {"delivered", "pending", "dead"}
  PROVE  /\ Pruned(f, to) \in Files
         /\ RetentionSuffices => Keeps(f, Pruned(f, to))
<1>1. f \in [pending : [Alerts -> PendingFile \cup {Absent}],
             inflight : [Alerts -> ClaimFile \cup {Absent}],
             dead : [Alerts -> Nat \cup {Absent}], delivered : SUBSET Alerts]
  BY DEF Files, PendingFile, ClaimFile
<1>2. CASE to = "delivered"
  <2>1. Pruned(f, to) = [f EXCEPT !.delivered = @ \ Excess(@, DeliveredRetention)]
    BY <1>2 DEF Pruned
  <2>2. Pruned(f, to) \in Files
    BY <1>1, <2>1 DEF Files, PendingFile, ClaimFile
  <2>3. ASSUME RetentionSuffices PROVE Keeps(f, Pruned(f, to))
    <3>1. Excess(f.delivered, DeliveredRetention) = {}
      BY <1>1, <2>3, NoExcess, OutboxAssumption DEF RetentionSuffices
    <3>2. /\ Pruned(f, to).delivered = f.delivered
          /\ Pruned(f, to).pending = f.pending
          /\ Pruned(f, to).inflight = f.inflight
          /\ Pruned(f, to).dead = f.dead
      BY <1>1, <2>1, <3>1
    <3>3. QED BY <3>2 DEF Keeps, Unknown
  <2>4. QED BY <2>2, <2>3
<1>3. CASE to = "dead"
  <2>1. Pruned(f, to) =
          [f EXCEPT !.dead = [a \in Alerts |->
             IF a \in Excess(DeadNames(f), DeadRetention) THEN Absent ELSE @[a]]]
    BY <1>3 DEF Pruned
  <2>2. Pruned(f, to) \in Files
    BY <1>1, <2>1 DEF Files, PendingFile, ClaimFile
  <2>3. ASSUME RetentionSuffices PROVE Keeps(f, Pruned(f, to))
    <3>1. Excess(DeadNames(f), DeadRetention) = {}
      BY <1>1, <2>3, NoExcess, OutboxAssumption DEF RetentionSuffices, DeadNames
    <3>2. /\ Pruned(f, to).delivered = f.delivered
          /\ Pruned(f, to).pending = f.pending
          /\ Pruned(f, to).inflight = f.inflight
          /\ \A a \in Alerts : Pruned(f, to).dead[a] = f.dead[a]
      BY <1>1, <2>1, <3>1
    <3>3. QED BY <3>2 DEF Keeps, Unknown
  <2>4. QED BY <2>2, <2>3
<1>4. CASE to = "pending"
  BY <1>4 DEF Pruned, Keeps
<1>5. QED BY <1>2, <1>3, <1>4

LEMMA SettledKeeps ==
  ASSUME NEW f \in Files, NEW c \in Claims,
         ~Unknown(f, c.alert), NEW to \in {"delivered", "pending", "dead"}
  PROVE  /\ Settled(f, c, to) \in Files
         /\ RetentionSuffices => Keeps(f, Settled(f, c, to))
<1> DEFINE g == Written(f, c, to)
           h == Released(g, c)
<1>1. g \in Files /\ Keeps(f, g) /\ Elsewhere(g, c.alert)
  BY WrittenKeeps
<1>2. h \in Files /\ Keeps(g, h)
  BY <1>1, ReleasedKeeps
<1>3. Pruned(h, to) \in Files
      /\ (RetentionSuffices => Keeps(h, Pruned(h, to)))
  BY <1>2, PrunedKeeps
<1>4. Settled(f, c, to) = Pruned(h, to)
  BY DEF Settled
<1>5. QED BY <1>1, <1>2, <1>3, <1>4, KeepsTransitive

\* A token is found that no claim file and no worker has.
LEMMA FreshTokenType ==
  ASSUME OutboxTypeOK
  PROVE  FreshToken \in Nat \ {0}
<1> DEFINE U == TokensInUse
           held == [a \in {b \in Alerts : files.inflight[b] # Absent} |->
                      files.inflight[a].token]
<1>1. IsFiniteSet({files.inflight[a].token : a \in {b \in Alerts : files.inflight[b] # Absent}})
  <2>1. IsFiniteSet(Alerts)
    <3>1. MaxAlert \in Int /\ 1 \in Int
      BY OutboxAssumption
    <3>2. QED BY <3>1, FS_Interval DEF Alerts
  <2>2. IsFiniteSet({b \in Alerts : files.inflight[b] # Absent})
    BY <2>1, FS_Subset
  <2>3. held \in Surjection({b \in Alerts : files.inflight[b] # Absent},
                            {files.inflight[a].token : a \in {b \in Alerts : files.inflight[b] # Absent}})
    BY DEF Surjection
  <2>4. QED BY <2>2, <2>3, FS_Surjection
<1>2. ASSUME NEW w \in Workers PROVE IsFiniteSet({c.token : c \in Range(batch[w])})
  <2> DEFINE f == [i \in 1..Len(batch[w]) |-> batch[w][i].token]
  <2>1. Len(batch[w]) \in Nat /\ DOMAIN batch[w] = 1..Len(batch[w])
    BY LenProperties DEF OutboxTypeOK
  <2>2. Range(batch[w]) = {batch[w][i] : i \in 1..Len(batch[w])}
    BY <2>1 DEF Range
  <2>3. f \in Surjection(1..Len(batch[w]), {c.token : c \in Range(batch[w])})
    BY <2>2 DEF Surjection
  <2>4. IsFiniteSet(1..Len(batch[w]))
    <3>1. 1 \in Int /\ Len(batch[w]) \in Int
      BY <2>1
    <3>2. QED BY <3>1, FS_Interval
  <2>5. QED BY <2>3, <2>4, FS_Surjection
<1>3. IsFiniteSet({{c.token : c \in Range(batch[w])} : w \in Workers})
  <2> DEFINE f == [w \in Workers |-> {c.token : c \in Range(batch[w])}]
  <2>1. f \in Surjection(Workers, {{c.token : c \in Range(batch[w])} : w \in Workers})
    BY DEF Surjection
  <2>2. IsFiniteSet(Workers)
    BY OutboxAssumption
  <2>3. QED BY <2>1, <2>2, FS_Surjection
<1>4. IsFiniteSet(UNION {{c.token : c \in Range(batch[w])} : w \in Workers})
  BY <1>2, <1>3, FS_UNION
<1>5. IsFiniteSet(U)
  BY <1>1, <1>4, FS_Union DEF TokensInUse
<1> HIDE DEF U
<1>6. \E t \in 1..(Cardinality(U) + 1) : t \notin U
  <2>1. Cardinality(U) \in Nat
    BY <1>5, FS_CardinalityType
  <2>2. SUFFICES ASSUME 1..(Cardinality(U) + 1) \subseteq U PROVE FALSE
    OBVIOUS
  <2>3. Cardinality(1..(Cardinality(U) + 1)) <= Cardinality(U)
    BY <1>5, <2>2, FS_Subset
  <2>4. Cardinality(1..(Cardinality(U) + 1)) = Cardinality(U) + 1
    <3>1. 1 \in Int /\ Cardinality(U) + 1 \in Int /\ ~(1 > Cardinality(U) + 1)
          /\ (Cardinality(U) + 1) - 1 + 1 = Cardinality(U) + 1
      BY <2>1
    <3>2. QED BY <3>1, FS_Interval
  <2>5. QED BY <2>1, <2>3, <2>4
<1>7. FreshToken = CHOOSE t \in 1..(Cardinality(U) + 1) : t \notin U
  <2>1. Cardinality(U) = Cardinality(U)
    OBVIOUS
  <2>2. QED BY <2>1, Zenon DEF FreshToken, U
<1>8. FreshToken \in 1..(Cardinality(U) + 1)
  BY <1>6, <1>7
<1>9. QED
  <2>1. Cardinality(U) \in Nat
    BY <1>5, FS_CardinalityType
  <2>2. QED BY <1>8, <2>1

\* A claim takes the place of a file that is pending.
LEMMA ClaimedKeeps ==
  ASSUME OutboxTypeOK, NEW f \in Files,
         NEW names \in SUBSET Due(f)
  PROVE  /\ Claimed(f, names) \in Files
         /\ Keeps(f, Claimed(f, names))
<1> DEFINE g == Claimed(f, names)
           fresh == FreshToken
<1>1. /\ f \in [pending : [Alerts -> PendingFile \cup {Absent}],
                inflight : [Alerts -> ClaimFile \cup {Absent}],
                dead : [Alerts -> Nat \cup {Absent}], delivered : SUBSET Alerts]
      /\ fresh \in Nat \ {0}
  BY FreshTokenType DEF Files, PendingFile, ClaimFile
<1> HIDE DEF fresh
<1>2. ASSUME NEW a \in names
      PROVE  /\ a \in Alerts /\ f.pending[a] # Absent
             /\ [attempts |-> f.pending[a].attempts, token |-> fresh, lapsed |-> FALSE] \in ClaimFile
  BY <1>1 DEF Due, PendingFile, ClaimFile
<1>3. DOMAIN f = {"pending", "inflight", "dead", "delivered"}
  BY <1>1
<1>4. /\ g.dead = f.dead /\ g.delivered = f.delivered
      /\ g.pending = [a \in Alerts |-> IF a \in names THEN Absent ELSE f.pending[a]]
      /\ g.inflight = [a \in Alerts |->
           IF a \in names
           THEN [attempts |-> f.pending[a].attempts, token |-> fresh, lapsed |-> FALSE]
           ELSE f.inflight[a]]
      /\ g = [f EXCEPT !.pending = g.pending, !.inflight = g.inflight]
  BY <1>3 DEF Claimed, fresh
<1> HIDE DEF g
<1>5. g.pending \in [Alerts -> PendingFile \cup {Absent}]
  BY <1>1, <1>4
<1>6. g.inflight \in [Alerts -> ClaimFile \cup {Absent}]
  BY <1>1, <1>2, <1>4
<1>7. g \in Files
  <2>1. g \in [pending : [Alerts -> PendingFile \cup {Absent}],
               inflight : [Alerts -> ClaimFile \cup {Absent}],
               dead : [Alerts -> Nat \cup {Absent}], delivered : SUBSET Alerts]
    BY <1>1, <1>4, <1>5, <1>6
  <2>2. QED BY <2>1 DEF Files, PendingFile, ClaimFile
<1>8. ASSUME NEW a \in Alerts PROVE Unknown(f, a) <=> Unknown(g, a)
  <2>1. CASE a \in names
    <3>1. g.inflight[a] \in ClaimFile
      BY <1>2, <1>4, <2>1
    <3>2. g.inflight[a] # Absent /\ f.pending[a] # Absent
      BY <1>2, <2>1, <3>1, AbsentIsNoFile
    <3>3. QED BY <3>2 DEF Unknown
  <2>2. CASE a \notin names
    BY <1>4, <2>2 DEF Unknown
  <2>3. QED BY <2>1, <2>2
<1>9. QED BY <1>4, <1>7, <1>8 DEF Keeps, g

\* Recovery that stops loses no alert either.
LEMMA RecoveryStoppedKeeps ==
  ASSUME files \in Files, NEW a \in Alerts,
         RecoveryStopped(a)
  PROVE  files' \in Files /\ Keeps(files, files')
<1> DEFINE r == Recovered(files)
<1>1. r \in Files /\ Keeps(files, r)
  BY RecoveredKeeps
<1>2. /\ files \in [pending : [Alerts -> PendingFile \cup {Absent}],
                    inflight : [Alerts -> ClaimFile \cup {Absent}],
                    dead : [Alerts -> Nat \cup {Absent}], delivered : SUBSET Alerts]
      /\ r \in [pending : [Alerts -> PendingFile \cup {Absent}],
                inflight : [Alerts -> ClaimFile \cup {Absent}],
                dead : [Alerts -> Nat \cup {Absent}], delivered : SUBSET Alerts]
  BY <1>1 DEF Files, PendingFile, ClaimFile
<1>3. DOMAIN files = {"pending", "inflight", "dead", "delivered"}
  BY <1>2
<1>4. /\ r.dead = files.dead /\ r.delivered = files.delivered
      /\ \A b \in Alerts :
           /\ Lapsed(files, b) => files.inflight[b] # Absent
           /\ ~Lapsed(files, b) => r.pending[b] = files.pending[b]
  BY <1>3 DEF Recovered, Lapsed
<1>5. ASSUME NEW b \in Alerts, Lapsed(files, b) PROVE r.pending[b] # Absent
  <2>1. r.inflight[b] = Absent
    BY <1>3, <1>5 DEF Recovered
  <2>2. ~Unknown(files, b) /\ b \notin files.delivered /\ files.dead[b] = Absent
    BY <1>2, <1>5 DEF Lapsed, Superseded, Unknown
  <2>3. ~Unknown(r, b)
    BY <1>1, <2>2 DEF Keeps
  <2>4. QED BY <1>4, <2>1, <2>2, <2>3 DEF Unknown
<1>6. PICK removed \in {a - 1, a} :
        files' = [files EXCEPT
          !.pending  = [b \in Alerts |-> IF b <= a THEN r.pending[b] ELSE @[b]],
          !.inflight = [b \in Alerts |-> IF b <= removed THEN r.inflight[b] ELSE @[b]]]
  BY DEF RecoveryStopped
<1> HIDE DEF r
<1>7. /\ files'.pending = [b \in Alerts |-> IF b <= a THEN r.pending[b] ELSE files.pending[b]]
      /\ files'.inflight = [b \in Alerts |->
                              IF b <= removed THEN r.inflight[b] ELSE files.inflight[b]]
      /\ files'.dead = files.dead /\ files'.delivered = files.delivered
      /\ files' = [files EXCEPT !.pending = files'.pending, !.inflight = files'.inflight]
  BY <1>3, <1>6
<1>8. files' \in Files
  <2>1. files'.pending \in [Alerts -> PendingFile \cup {Absent}]
    BY <1>2, <1>7
  <2>2. files'.inflight \in [Alerts -> ClaimFile \cup {Absent}]
    BY <1>2, <1>7
  <2>3. files' \in [pending : [Alerts -> PendingFile \cup {Absent}],
                    inflight : [Alerts -> ClaimFile \cup {Absent}],
                    dead : [Alerts -> Nat \cup {Absent}], delivered : SUBSET Alerts]
    BY <1>2, <1>7, <2>1, <2>2
  <2>4. QED BY <2>3 DEF Files, PendingFile, ClaimFile
<1>9. ASSUME NEW b \in Alerts
      PROVE  Unknown(files, b) <=> Unknown(files', b)
  <2>0. a \in Int /\ b \in Int /\ removed \in Int
    BY DEF Alerts
  <2>1. CASE b <= removed
    <3>1. b <= a
      BY <2>0, <2>1
    <3>2. files'.pending[b] = r.pending[b] /\ files'.inflight[b] = r.inflight[b]
      BY <1>7, <2>1, <3>1
    <3>3. Unknown(files', b) <=> Unknown(r, b)
      BY <1>4, <1>7, <3>2 DEF Unknown
    <3>4. QED BY <1>1, <3>3 DEF Keeps
  <2>2. CASE ~(b <= removed)
    <3>1. files'.inflight[b] = files.inflight[b]
      BY <1>7, <2>2
    <3>2. CASE files'.pending[b] = files.pending[b]
      BY <1>7, <3>1, <3>2 DEF Unknown
    <3>3. CASE files'.pending[b] # files.pending[b]
      <4>1. Lapsed(files, b)
        BY <1>4, <1>7, <3>3
      <4>2. QED BY <1>4, <3>1, <4>1 DEF Unknown
    <3>4. QED BY <3>2, <3>3
  <2>3. QED BY <2>1, <2>2
<1>10. QED BY <1>7, <1>8, <1>9 DEF Keeps

-----------------------------------------------------------------------------
(* Every operation of the outbox and of a dispatcher.                       *)

\* What is claimed together is claimed as one batch.
LEMMA BatchType ==
  ASSUME OutboxTypeOK, NEW f \in Files,
         NEW q \in InOrder(Claimable(f))
  PROVE  [i \in DOMAIN q |-> [alert |-> q[i], attempts |-> f.pending[q[i]].attempts,
                              token |-> FreshToken]] \in Seq(Claims)
<1> DEFINE names == Claimable(f)
           n == Cardinality(names)
           fresh == FreshToken
<1>1. names \subseteq Alerts /\ \A a \in names : f.pending[a] \in PendingFile
  BY DEF Claimable, Due, Files, PendingFile
<1>2. n \in Nat
  <2>1. IsFiniteSet(Alerts)
    <3>1. MaxAlert \in Int /\ 1 \in Int
      BY OutboxAssumption
    <3>2. QED BY <3>1, FS_Interval DEF Alerts
  <2>2. IsFiniteSet(names)
    BY <1>1, <2>1, FS_Subset
  <2>3. QED BY <2>2, FS_CardinalityType
<1> HIDE DEF names
<1>3. q \in [1..n -> names]
  <2>1. q \in [1..Cardinality(names) -> names]
    BY Zenon DEF InOrder, names
  <2>2. QED BY <2>1
<1>4. fresh \in Nat \ {0}
  BY FreshTokenType
<1> HIDE DEF n, fresh
<1>5. \A i \in 1..n :
        [alert |-> q[i], attempts |-> f.pending[q[i]].attempts, token |-> fresh] \in Claims
  BY <1>1, <1>3, <1>4 DEF Claims, PendingFile
<1>6. [i \in 1..n |-> [alert |-> q[i], attempts |-> f.pending[q[i]].attempts, token |-> fresh]]
        \in Seq(Claims)
  BY <1>2, <1>5, IsASeq
<1>7. DOMAIN q = 1..n
  BY <1>3
<1>8. QED BY <1>6, <1>7 DEF fresh

\* The steps that only settle, retry or drop what is claimed, put what is
\* waiting in another directory, or pass time.
LEMMA OutboxStep ==
  ASSUME OutboxTypeOK, [OutboxNext]_outboxVars
  PROVE  /\ OutboxTypeOK'
         /\ RetentionSuffices =>
              \/ Keeps(files, files')
              \/ \E a \in Alerts : Enqueue(a)
<1> USE DEF OutboxTypeOK
<1>1. CASE UNCHANGED outboxVars
  BY <1>1 DEF outboxVars, Keeps
<1>2. ASSUME NEW a \in Alerts, Enqueue(a) PROVE OutboxTypeOK'
  <2> DEFINE f == Recovered(files)
  <2>1. f \in Files
    BY RecoveredKeeps
  <2>2. [attempts |-> 0, due |-> TRUE] \in PendingFile
    BY DEF PendingFile
  <2>3. files' \in {f, [f EXCEPT !.pending[a] = [attempts |-> 0, due |-> TRUE]]}
        /\ UNCHANGED <<batch, stops>>
    BY <1>2 DEF Enqueue
  <2>4. [f EXCEPT !.pending[a] = [attempts |-> 0, due |-> TRUE]] \in Files
    BY <2>1, <2>2, FileSteps
  <2>5. QED BY <2>1, <2>3, <2>4
<1>3. ASSUME NEW a \in Alerts, Requeue(a) \/ RequeueStopped(a)
      PROVE  OutboxTypeOK' /\ Keeps(files, files')
  <2> DEFINE g == Requeued(files, a)
  <2>1. files.dead[a] # Absent /\ files.dead[a] \in Nat
    BY <1>3 DEF Requeue, RequeueStopped, MayRequeue, Files
  <2>2. ~Unknown(files, a) /\ [attempts |-> files.dead[a], due |-> TRUE] \in PendingFile
    BY <2>1 DEF Unknown, PendingFile
  <2>3. g \in Files /\ Keeps(files, g)
    BY <2>2, FileSteps DEF Requeued
  <2>4. g.pending[a] # Absent
    <3>1. g.pending[a] = [attempts |-> files.dead[a], due |-> TRUE]
      BY DEF Requeued, Files
    <3>2. QED BY <2>2, <3>1, AbsentIsNoFile
  <2>5. CASE RequeueStopped(a)
    <3>1. files' = g /\ batch' = batch /\ stops' \in 0..MaxStops
      BY <2>5, OutboxAssumption DEF RequeueStopped
    <3>2. QED BY <2>3, <3>1
  <2>6. CASE Requeue(a)
    <3>1. files' = [g EXCEPT !.dead[a] = Absent] /\ UNCHANGED <<batch, stops>>
      BY <2>6 DEF Requeue
    <3> HIDE DEF g
    <3>2. files' \in Files
      BY <2>3, <3>1 DEF Files
    <3>3. /\ files'.pending = g.pending /\ files'.inflight = g.inflight
          /\ files'.delivered = g.delivered
          /\ \A b \in Alerts : b # a => files'.dead[b] = g.dead[b]
      BY <2>3, <3>1 DEF Files
    <3>4. Keeps(g, files')
      BY <2>4, <3>3 DEF Keeps, Unknown
    <3>5. QED BY <2>3, <3>1, <3>2, <3>4, KeepsTransitive
  <2>7. QED BY <1>3, <2>5, <2>6
<1>4. ASSUME NEW a \in Alerts, RecoveryStopped(a)
      PROVE  OutboxTypeOK' /\ Keeps(files, files')
  <2>1. batch' = batch /\ stops' \in 0..MaxStops
    BY <1>4, OutboxAssumption DEF RecoveryStopped
  <2>2. QED BY <1>4, <2>1, RecoveryStoppedKeeps
<1>5. ASSUME NEW a \in Alerts, BecomeDue(a)
      PROVE  OutboxTypeOK' /\ Keeps(files, files')
  <2>1. /\ files.pending[a] # Absent /\ files' = [files EXCEPT !.pending[a].due = TRUE]
        /\ UNCHANGED <<batch, stops>>
    BY <1>5 DEF BecomeDue
  <2>2. files.pending[a] \in PendingFile
    BY <2>1 DEF Files, PendingFile
  <2>3. [files.pending[a] EXCEPT !.due = TRUE] \in PendingFile
    BY <2>2 DEF PendingFile
  <2>4. files' = [files EXCEPT !.pending[a] = [files.pending[a] EXCEPT !.due = TRUE]]
    BY <2>1
  <2>5. ~Unknown(files, a)
    BY <2>1 DEF Unknown
  <2> DEFINE p == [files.pending[a] EXCEPT !.due = TRUE]
  <2>6. p \in PendingFile /\ files' = [files EXCEPT !.pending[a] = p]
    BY <2>3, <2>4
  <2> HIDE DEF p
  <2>7. files' \in Files /\ Keeps(files, files')
    BY <2>5, <2>6, FileSteps
  <2>8. QED BY <2>1, <2>7
<1>6. ASSUME NEW a \in Alerts, LapseOrphan(a) \/ LapseHeld(a)
      PROVE  OutboxTypeOK' /\ Keeps(files, files')
  <2>1. /\ files.inflight[a] # Absent /\ files' = [files EXCEPT !.inflight[a].lapsed = TRUE]
        /\ batch' = batch /\ stops' \in 0..MaxStops
    BY <1>6, OutboxAssumption DEF LapseOrphan, LapseHeld, Lapse
  <2>2. files.inflight[a] \in ClaimFile
    BY <2>1 DEF Files, ClaimFile
  <2>3. [files.inflight[a] EXCEPT !.lapsed = TRUE] \in ClaimFile
    BY <2>2 DEF ClaimFile
  <2>4. files' = [files EXCEPT !.inflight[a] = [files.inflight[a] EXCEPT !.lapsed = TRUE]]
    BY <2>1
  <2>5. files' \in Files
    BY <2>3, <2>4 DEF Files, ClaimFile
  <2>6. /\ files'.pending = files.pending /\ files'.dead = files.dead
        /\ files'.delivered = files.delivered
        /\ files'.inflight = [files.inflight EXCEPT ![a] = [files.inflight[a] EXCEPT !.lapsed = TRUE]]
    BY <2>4 DEF Files
  <2>7. files'.inflight[a] # Absent
        /\ \A b \in Alerts : b # a => files'.inflight[b] = files.inflight[b]
    BY <2>3, <2>6, AbsentIsNoFile DEF Files
  <2>8. QED BY <2>1, <2>5, <2>6, <2>7 DEF Keeps, Unknown
<1>7. ASSUME NEW w \in Workers, ClaimDue(w) \/ ClaimStopped(w)
      PROVE  OutboxTypeOK' /\ Keeps(files, files')
  <2> DEFINE f == Recovered(files)
  <2>1. f \in Files /\ Keeps(files, f)
    BY RecoveredKeeps
  <2>2. ASSUME NEW names \in SUBSET Claimable(f)
        PROVE  Claimed(f, names) \in Files /\ Keeps(files, Claimed(f, names))
    <3>1. names \in SUBSET Due(f)
      BY DEF Claimable
    <3>2. Claimed(f, names) \in Files /\ Keeps(f, Claimed(f, names))
      BY <2>1, <3>1, ClaimedKeeps
    <3>3. QED BY <2>1, <3>2, KeepsTransitive
  <2>3. CASE ClaimDue(w)
    <3>1. files' = Claimed(f, Claimable(f)) /\ stops' = stops
      BY <2>3 DEF ClaimDue
    <3>2. PICK q \in InOrder(Claimable(f)) :
            batch' = [batch EXCEPT ![w] = [i \in DOMAIN q |->
              [alert |-> q[i], attempts |-> f.pending[q[i]].attempts, token |-> FreshToken]]]
      BY <2>3 DEF ClaimDue
    <3>3. [i \in DOMAIN q |-> [alert |-> q[i], attempts |-> f.pending[q[i]].attempts,
                               token |-> FreshToken]] \in Seq(Claims)
      BY <2>1, BatchType
    <3>4. batch' \in [Workers -> Seq(Claims)]
      BY <3>2, <3>3
    <3>5. QED BY <2>2, <3>1, <3>4
  <2>4. CASE ClaimStopped(w)
    <3>1. batch' = batch /\ stops' \in 0..MaxStops
      BY <2>4, OutboxAssumption DEF ClaimStopped
    <3>2. PICK last \in Claimable(f) :
            files' = Claimed(f, {a \in Claimable(f) : a <= last})
      BY <2>4 DEF ClaimStopped
    <3>3. QED BY <2>2, <3>1, <3>2
  <2>5. QED BY <1>7, <2>3, <2>4
<1>8. ASSUME NEW w \in Workers, NEW claims \in Seq(Claims), Proceed(w, claims)
      PROVE  batch' \in [Workers -> Seq(Claims)]
  BY <1>8 DEF Proceed
<1>9. << >> \in Seq(Claims)
  BY EmptySeq
<1>10. ASSUME NEW w \in Workers, batch[w] # << >>
       PROVE  Head(batch[w]) \in Claims /\ Tail(batch[w]) \in Seq(Claims)
  BY <1>10, HeadTailProperties
<1>11. ASSUME NEW c \in Claims, Owned(c)
       PROVE  ~Unknown(files, c.alert) /\ c.alert \in Alerts
  BY <1>11 DEF Owned, Unknown, Claims
<1>12. \A c : /\ Outcomes(c) \subseteq {"delivered", "pending", "dead"}
              /\ AfterFailure(c, TRUE) \in {"delivered", "pending", "dead"}
  BY DEF Outcomes, AfterFailure
<1>13. ASSUME NEW w \in Workers, Settle(w)
       PROVE  OutboxTypeOK' /\ (RetentionSuffices => Keeps(files, files'))
  <2> DEFINE c == Head(batch[w])
  <2>1. c \in Claims /\ Tail(batch[w]) \in Seq(Claims) /\ Owned(c)
    BY <1>10, <1>13 DEF Settle
  <2>2. PICK to \in Outcomes(c) : files' = Settled(files, c, to)
    BY <1>13 DEF Settle
  <2>3. batch' \in [Workers -> Seq(Claims)] /\ stops' = stops
    BY <1>8, <1>13, <2>1 DEF Settle
  <2> HIDE DEF c
  <2>4. to \in {"delivered", "pending", "dead"} /\ ~Unknown(files, c.alert)
    BY <1>11, <1>12, <2>1
  <2>5. QED BY <2>1, <2>2, <2>3, <2>4, SettledKeeps
<1>14. ASSUME NEW w \in Workers, LoseClaim(w)
       PROVE  OutboxTypeOK' /\ Keeps(files, files')
  BY <1>8, <1>9, <1>14 DEF LoseClaim, Keeps
<1>15. ASSUME NEW w \in Workers, SettleTwice(w)
       PROVE  OutboxTypeOK' /\ (RetentionSuffices => Keeps(files, files'))
  <2> DEFINE c == Head(batch[w])
  <2>1. c \in Claims /\ Tail(batch[w]) \in Seq(Claims) /\ Owned(c)
    BY <1>10, <1>15 DEF SettleTwice
  <2>2. PICK to \in Outcomes(c) :
          files' = Settled(Written(files, c, to), c, AfterFailure(c, TRUE))
    BY <1>15 DEF SettleTwice
  <2>3. batch' \in [Workers -> Seq(Claims)]
    BY <1>8, <1>15, <2>1 DEF SettleTwice
  <2>4. stops' \in 0..MaxStops
    BY <1>15, OutboxAssumption DEF SettleTwice
  <2> HIDE DEF c
  <2>5. to \in {"delivered", "pending", "dead"} /\ ~Unknown(files, c.alert)
        /\ c.alert \in Alerts
    BY <1>11, <1>12, <2>1
  <2> DEFINE g == Written(files, c, to)
  <2>6. g \in Files /\ Keeps(files, g)
    BY <2>1, <2>5, WrittenKeeps
  <2> HIDE DEF g
  <2>7. ~Unknown(g, c.alert)
    BY <2>5, <2>6 DEF Keeps
  <2>8. /\ files' \in Files
        /\ RetentionSuffices => Keeps(g, files')
    BY <1>12, <2>1, <2>2, <2>6, <2>7, SettledKeeps DEF g
  <2>9. QED BY <2>3, <2>4, <2>6, <2>8, KeepsTransitive
<1>16. ASSUME NEW w \in Workers, SettleStopped(w)
       PROVE  OutboxTypeOK' /\ Keeps(files, files')
  <2> DEFINE c == Head(batch[w])
  <2>1. c \in Claims /\ Owned(c)
    BY <1>10, <1>16 DEF SettleStopped
  <2>2. PICK to \in Outcomes(c) :
          \E f \in {Written(files, c, to), WrittenTwice(files, c, to)} :
            files' \in {f, Released(f, c)}
    BY <1>16 DEF SettleStopped
  <2>3. batch' \in [Workers -> Seq(Claims)]
    BY <1>8, <1>9, <1>16 DEF SettleStopped
  <2>4. stops' \in 0..MaxStops
    BY <1>16, OutboxAssumption DEF SettleStopped
  <2> HIDE DEF c
  <2>5. to \in {"delivered", "pending", "dead"} /\ ~Unknown(files, c.alert)
        /\ c.alert \in Alerts
    BY <1>11, <1>12, <2>1
  <2> DEFINE g == Written(files, c, to)
             h == WrittenTwice(files, c, to)
  <2>6. g \in Files /\ Keeps(files, g) /\ Elsewhere(g, c.alert)
    BY <2>1, <2>5, WrittenKeeps
  <2>7. h \in Files /\ Keeps(files, h) /\ Elsewhere(h, c.alert)
    <3>1. ~Unknown(g, c.alert)
      BY <2>5, <2>6 DEF Keeps
    <3>2. h = Written(g, c, AfterFailure(c, TRUE))
      BY DEF WrittenTwice
    <3> HIDE DEF g, h
    <3>3. h \in Files /\ Keeps(g, h) /\ Elsewhere(h, c.alert)
      BY <1>12, <2>1, <2>6, <3>1, <3>2, WrittenKeeps
    <3>4. QED BY <2>6, <3>3, KeepsTransitive
  <2>8. PICK f \in {g, h} : files' \in {f, Released(f, c)}
    BY <2>2
  <2> HIDE DEF g, h
  <2>9. f \in Files /\ Keeps(files, f) /\ Elsewhere(f, c.alert)
    BY <2>6, <2>7, <2>8
  <2>10. Released(f, c) \in Files /\ Keeps(files, Released(f, c))
    BY <2>1, <2>9, ReleasedKeeps, KeepsTransitive
  <2>11. QED BY <2>3, <2>4, <2>8, <2>9, <2>10
<1>17. ASSUME NEW w \in Workers, Crash(w)
       PROVE  OutboxTypeOK' /\ Keeps(files, files')
  <2>1. batch' \in [Workers -> Seq(Claims)] /\ files' = files
    BY <1>8, <1>9, <1>17 DEF Crash
  <2>2. stops' \in 0..MaxStops
    BY <1>17, OutboxAssumption DEF Crash
  <2>3. QED BY <2>1, <2>2 DEF Keeps
<1> HIDE DEF OutboxTypeOK
<1>18. QED BY <1>1, <1>2, <1>3, <1>4, <1>5, <1>6, <1>7, <1>13, <1>14, <1>15, <1>16, <1>17
           DEF OutboxNext

LEMMA StatusIs ==
  ASSUME NEW f, NEW a
  PROVE  /\ Unknown(f, a) => Status(f, a) = "none"
         /\ a \in f.delivered => Status(f, a) = "delivered"
         /\ ~Unknown(f, a) /\ a \notin f.delivered =>
              Status(f, a) \in {"dead", "waiting"}
<1>1. CASE Unknown(f, a)
  <2>1. a \notin f.delivered /\ f.dead[a] = Absent
    BY <1>1 DEF Unknown
  <2>2. QED BY <1>1, <2>1 DEF Status
<1>2. CASE a \in f.delivered
  <2>1. ~Unknown(f, a)
    BY <1>2 DEF Unknown
  <2>2. QED BY <1>2, <2>1 DEF Status
<1>3. CASE ~Unknown(f, a) /\ a \notin f.delivered
  <2>1. CASE f.dead[a] # Absent
    BY <1>3, <2>1 DEF Status
  <2>2. CASE f.dead[a] = Absent
    BY <1>3, <2>2 DEF Status
  <2>3. QED BY <1>3, <2>1, <2>2
<1>4. QED BY <1>1, <1>2, <1>3

\* Between such states an alert moves as JobLifecycle says.
LEMMA KeepsMoves ==
  ASSUME NEW f, NEW g, Keeps(f, g), NEW a \in Alerts,
         Status(f, a) # Status(g, a)
  PROVE  <<Status(f, a), Status(g, a)>> \in Moves
<1>1. /\ a \in f.delivered => a \in g.delivered
      /\ Unknown(f, a) <=> Unknown(g, a)
  BY DEF Keeps
<1>2. CASE Unknown(f, a)
  BY <1>1, <1>2, StatusIs
<1>3. CASE a \in f.delivered
  BY <1>1, <1>3, StatusIs
<1>4. CASE ~Unknown(f, a) /\ a \notin f.delivered
  <2>1. Status(f, a) \in {"dead", "waiting"}
    BY <1>4, StatusIs
  <2>2. Status(g, a) \in {"delivered", "dead", "waiting"}
    BY <1>1, <1>4, StatusIs
  <2>3. QED BY <2>1, <2>2 DEF Moves
<1>5. QED BY <1>2, <1>3, <1>4

LEMMA EnqueueMoves ==
  ASSUME OutboxTypeOK, NEW e \in Alerts, Enqueue(e),
         NEW a \in Alerts, Status(files, a) # Status(files', a)
  PROVE  <<Status(files, a), Status(files', a)>> \in Moves
<1> DEFINE f == Recovered(files)
<1>1. f \in Files /\ Keeps(files, f)
  BY RecoveredKeeps DEF OutboxTypeOK
<1>2. files' = IF Unknown(f, e)
               THEN [f EXCEPT !.pending[e] = [attempts |-> 0, due |-> TRUE]] ELSE f
  BY DEF Enqueue
<1> HIDE DEF f
<1>3. CASE ~Unknown(f, e)
  BY <1>1, <1>2, <1>3, KeepsMoves
<1>4. CASE Unknown(f, e)
  <2>1. /\ files'.pending = [f.pending EXCEPT ![e] = [attempts |-> 0, due |-> TRUE]]
        /\ files'.inflight = f.inflight /\ files'.dead = f.dead /\ files'.delivered = f.delivered
    BY <1>1, <1>2, <1>4 DEF Files
  <2>2. CASE a # e
    <3>1. files'.pending[a] = f.pending[a]
      BY <1>1, <2>1, <2>2 DEF Files
    <3>2. Unknown(files', a) <=> Unknown(f, a)
      BY <2>1, <3>1 DEF Unknown
    <3>3. Status(files', a) = Status(f, a)
      BY <2>1, <3>2 DEF Status
    <3>4. QED BY <1>1, <3>3, KeepsMoves
  <2>3. CASE a = e
    <3>1. Unknown(files, e)
      BY <1>1, <1>4 DEF Keeps
    <3>2. [attempts |-> 0, due |-> TRUE] \in PendingFile
      BY DEF PendingFile
    <3>3. files'.pending[e] = [attempts |-> 0, due |-> TRUE]
      BY <1>1, <2>1 DEF Files
    <3>4. files'.pending[e] # Absent
      BY <3>2, <3>3, AbsentIsNoFile
    <3>5. files'.dead[e] = Absent /\ e \notin files'.delivered
      BY <1>4, <2>1 DEF Unknown
    <3>6. Status(files, e) = "none"
      BY <3>1, StatusIs
    <3>7. Status(files', e) = "waiting"
      BY <3>4, <3>5 DEF Status, Unknown
    <3>8. QED BY <2>3, <3>6, <3>7 DEF Moves
  <2>4. QED BY <2>2, <2>3
<1>5. QED BY <1>3, <1>4

LEMMA OutboxStarts ==
  ASSUME OutboxInit
  PROVE  OutboxTypeOK
<1>1. files \in Files
  BY DEF OutboxInit, Files
<1>2. batch \in [Workers -> Seq(Claims)]
  BY EmptySeq DEF OutboxInit
<1>3. QED BY <1>1, <1>2, OutboxAssumption DEF OutboxInit, OutboxTypeOK

\* Every directory of the outbox holds what its readers expect.
THEOREM OutboxTypeCorrect == OutboxSpec => []OutboxTypeOK
<1>1. OutboxInit => OutboxTypeOK
  BY OutboxStarts
<1>2. OutboxTypeOK /\ [OutboxNext]_outboxVars => OutboxTypeOK'
  BY OutboxStep
<1>3. QED BY <1>1, <1>2, PTL DEF OutboxSpec

\* Within the retention an alert that was enqueued is never lost and a
\* receipt never taken back, for any number of alerts and workers.
THEOREM AlertLifecycle ==
  ASSUME RetentionSuffices
  PROVE  OutboxSpec => JobLifecycle
<1>1. OutboxTypeOK /\ [OutboxNext]_outboxVars
      => [\A a \in Alerts :
            Status(files, a) # Status(files', a)
            => <<Status(files, a), Status(files', a)>> \in Moves]_outboxVars
  BY OutboxStep, KeepsMoves, EnqueueMoves
<1>2. QED BY <1>1, OutboxTypeCorrect, PTL DEF OutboxSpec, JobLifecycle
=============================================================================
