----------------------------- MODULE AlertOutbox -----------------------------
(***************************************************************************)
(* Delivery of security alerts: securityAlertOutbox.js keeps one file per  *)
(* alert in the directory of its state, and the processes that run         *)
(* securityAlertDispatcher.js claim, deliver and settle them.              *)
(*                                                                         *)
(* Every operation of the outbox holds the file mutex and is one step; the *)
(* steps named Stopped are operations that end, by a crash or an           *)
(* exception, between two of their file operations.  Between claiming and  *)
(* settling a process awaits the receiver, so that is where processes      *)
(* interleave.  Times are abstract: a pending alert becomes due and a      *)
(* claim lapses at some time.                                              *)
(***************************************************************************)
EXTENDS Integers, Sequences, FiniteSets, Functions

CONSTANTS
  MaxAlert,           \* alerts are numbered in the order of their file names
  Workers,            \* the processes that dispatch
  MaxAttempts,        \* maxAttempts
  Batch,              \* batchSize
  DeliveredRetention, \* deliveredRetention
  DeadRetention,      \* deadLetterRetention
  MaxRequeues,        \* bound on how often an operator requeues an alert
  MaxStops,           \* bound on crashes, exceptions and stalls
  Absent              \* "there is no such file"

Alerts == 1..MaxAlert

ASSUME OutboxAssumption ==
  /\ IsFiniteSet(Workers)
  /\ MaxAlert \in Nat /\ MaxAttempts \in Nat \ {0} /\ Batch \in Nat \ {0}
  /\ DeliveredRetention \in Nat /\ DeadRetention \in Nat
  /\ MaxRequeues \in Nat /\ MaxStops \in Nat
  /\ Absent \notin Nat
  /\ Absent \notin [attempts : Nat, due : BOOLEAN]
  /\ Absent \notin [attempts : Nat, token : Nat, lapsed : BOOLEAN]

VARIABLES
  files,     \* the four directories: pending, inflight, delivered, dead
  batch,     \* the claims a worker has yet to settle; it delivers the first
  stops      \* the crashes, exceptions and stalls so far

outboxVars == <<files, batch, stops>>

Claims == [alert : Alerts, attempts : Nat, token : Nat \ {0}]

\* No directory has a file of the alert.
Unknown(f, a) ==
  /\ f.pending[a] = Absent /\ f.inflight[a] = Absent
  /\ f.dead[a] = Absent /\ a \notin f.delivered

(***************************************************************************)
(* recoverStaleLocked: a claim next to a file in another directory goes, a *)
(* lapsed one becomes pending again.                                       *)
(***************************************************************************)
Superseded(f, a) ==
  /\ f.inflight[a] # Absent
  /\ a \in f.delivered \/ f.dead[a] # Absent \/ f.pending[a] # Absent

Lapsed(f, a) ==
  /\ f.inflight[a] # Absent
  /\ ~Superseded(f, a)
  /\ f.inflight[a].lapsed

\* Mutant: a lapsed claim is removed like one that was superseded.
Recovered_Forgets(f) ==
  [f EXCEPT !.inflight = [a \in Alerts |->
     IF Lapsed(f, a) \/ Superseded(f, a) THEN Absent ELSE @[a]]]

\* Mutant: claims are recovered only once their alert was settled.
Recovered_KeepsLapsed(f) ==
  [f EXCEPT !.inflight = [a \in Alerts |-> IF Superseded(f, a) THEN Absent ELSE @[a]]]

Recovered(f) ==
  [f EXCEPT
    !.pending = [a \in Alerts |->
      IF Lapsed(f, a) THEN [attempts |-> f.inflight[a].attempts, due |-> TRUE] ELSE @[a]],
    !.inflight = [a \in Alerts |->
      IF Lapsed(f, a) \/ Superseded(f, a) THEN Absent ELSE @[a]]]

(***************************************************************************)
(* commitDestination and pruneDirectory, for a claim that is settled.      *)
(***************************************************************************)
\* The names that pruneDirectory removes: the first of the sorted list.
Excess(names, retain) ==
  {a \in names : Cardinality({b \in names : b > a}) >= retain}

DeadNames(f) == {a \in Alerts : f.dead[a] # Absent}

\* The destination is written.
Written(f, c, to) ==
  CASE to = "delivered" -> [f EXCEPT !.delivered = @ \cup {c.alert}]
    [] to = "pending"   -> [f EXCEPT !.pending[c.alert] =
                              [attempts |-> c.attempts + 1, due |-> FALSE]]
    [] to = "dead"      -> [f EXCEPT !.dead[c.alert] = c.attempts + 1]

Pruned(f, to) ==
  CASE to = "delivered" -> [f EXCEPT !.delivered = @ \ Excess(@, DeliveredRetention)]
    [] to = "dead"      -> [f EXCEPT !.dead = [a \in Alerts |->
                              IF a \in Excess(DeadNames(f), DeadRetention) THEN Absent ELSE @[a]]]
    [] OTHER            -> f

Released(f, c) == [f EXCEPT !.inflight[c.alert] = Absent]

\* Then the claim is removed, and what is beyond the retention.
Settled(f, c, to) == Pruned(Released(Written(f, c, to), c), to)

-----------------------------------------------------------------------------
OutboxInit ==
  /\ files = [pending   |-> [a \in Alerts |-> Absent],
              inflight  |-> [a \in Alerts |-> Absent],
              dead      |-> [a \in Alerts |-> Absent],
              delivered |-> {}]
  /\ batch = [w \in Workers |-> << >>]
  /\ stops = 0

\* enqueue: a file in any directory makes the event a duplicate, which
\* leaves the recovery in front of it as the only change.
Enqueue(a) ==
  /\ LET f == Recovered(files)
     IN files' = IF Unknown(f, a)
                 THEN [f EXCEPT !.pending[a] = [attempts |-> 0, due |-> TRUE]]
                 ELSE f
  /\ UNCHANGED <<batch, stops>>

\* Tokens are new: no claim file has one, and no worker remembers one.
TokensInUse ==
  {files.inflight[a].token : a \in {b \in Alerts : files.inflight[b] # Absent}}
    \cup UNION {{c.token : c \in Range(batch[w])} : w \in Workers}

FreshToken == CHOOSE t \in 1..(Cardinality(TokensInUse) + 1) : t \notin TokensInUse

Due(f) == {a \in Alerts : f.pending[a] # Absent /\ f.pending[a].due}

\* The first of the sorted list of what is due, as many as fit.
Claimable(f) == {a \in Due(f) : Cardinality({b \in Due(f) : b < a}) < Batch}

\* The one sequence of the names in their order.
InOrder(names) ==
  {q \in [1..Cardinality(names) -> names] : \A i, j \in DOMAIN q : i < j => q[i] < q[j]}

\* One token for the alerts claimed together: no two of them share a file.
Claimed(f, names) ==
  [f EXCEPT
    !.pending = [a \in Alerts |-> IF a \in names THEN Absent ELSE @[a]],
    !.inflight = [a \in Alerts |->
      IF a \in names
      THEN [attempts |-> f.pending[a].attempts, token |-> FreshToken, lapsed |-> FALSE]
      ELSE @[a]]]

\* claimDue, at the beginning of a dispatch cycle; none is running.
ClaimDue(w) ==
  /\ batch[w] = << >>
  /\ LET f == Recovered(files)
     IN /\ files' = Claimed(f, Claimable(f))
        /\ \E q \in InOrder(Claimable(f)) :
             batch' = [batch EXCEPT ![w] =
               [i \in DOMAIN q |->
                  [alert |-> q[i], attempts |-> f.pending[q[i]].attempts, token |-> FreshToken]]]
  /\ UNCHANGED stops

\* claimDue stops after the first of the alerts were claimed. A file that was
\* rewritten but not yet renamed is pending still, and as due as before.
ClaimStopped(w) ==
  /\ batch[w] = << >>
  /\ stops < MaxStops
  /\ LET f == Recovered(files)
     IN \E last \in Claimable(f) :
          files' = Claimed(f, {a \in Claimable(f) : a <= last})
  /\ stops' = stops + 1
  /\ UNCHANGED batch

\* Recovery stops at a claim it was to remove, after those before it; the
\* pending file that replaces it is written first.
RecoveryStopped(a) ==
  /\ stops < MaxStops
  /\ Lapsed(files, a) \/ Superseded(files, a)
  /\ \E removed \in {a - 1, a} :
       files' = [files EXCEPT
         !.pending  = [b \in Alerts |-> IF b <= a THEN Recovered(files).pending[b] ELSE @[b]],
         !.inflight = [b \in Alerts |->
           IF b <= removed THEN Recovered(files).inflight[b] ELSE @[b]]]
  /\ stops' = stops + 1
  /\ UNCHANGED batch

\* readClaim: the claim file still has the token of the claim.
Owned(c) == files.inflight[c.alert] # Absent /\ files.inflight[c.alert].token = c.token

\* finaliseFailure: another attempt, or the last one was made.
AfterFailure(c, retryable) ==
  IF retryable /\ c.attempts + 1 < MaxAttempts THEN "pending" ELSE "dead"

\* What the answer to the request, or the lack of one, leads to.
Outcomes(c) == {"delivered", AfterFailure(c, TRUE), AfterFailure(c, FALSE)}

\* What is left of the cycle of a worker.
Proceed(w, claims) == batch' = [batch EXCEPT ![w] = claims]

\* The claim is settled, and the cycle goes on.
Settle(w) ==
  /\ batch[w] # << >>
  /\ LET c == Head(batch[w])
     IN /\ Owned(c)
        /\ \E to \in Outcomes(c) : files' = Settled(files, c, to)
  /\ Proceed(w, Tail(batch[w]))
  /\ UNCHANGED stops

\* The claim lapsed and was recovered: complete throws, so does the retry
\* that follows, and the cycle ends with its other claims unsettled.
LoseClaim(w) ==
  /\ batch[w] # << >>
  /\ ~Owned(Head(batch[w]))
  /\ Proceed(w, << >>)
  /\ UNCHANGED <<files, stops>>

\* The outbox throws after it wrote the destination: the handler in
\* deliverClaim takes that for a failed request and settles the claim again.
WrittenTwice(f, c, to) == Written(Written(f, c, to), c, AfterFailure(c, TRUE))

SettleTwice(w) ==
  /\ stops < MaxStops
  /\ batch[w] # << >>
  /\ LET c == Head(batch[w])
     IN /\ Owned(c)
        /\ \E to \in Outcomes(c) :
             files' = Settled(Written(files, c, to), c, AfterFailure(c, TRUE))
  /\ Proceed(w, Tail(batch[w]))
  /\ stops' = stops + 1

\* The process dies, or the handler throws too, which ends the cycle: with one
\* destination or both written, the claim there or removed, nothing pruned.
SettleStopped(w) ==
  /\ stops < MaxStops
  /\ batch[w] # << >>
  /\ LET c == Head(batch[w])
     IN /\ Owned(c)
        /\ \E to \in Outcomes(c) :
             \E f \in {Written(files, c, to), WrittenTwice(files, c, to)} :
               files' \in {f, Released(f, c)}
  /\ Proceed(w, << >>)
  /\ stops' = stops + 1

\* The process dies; it starts again with no claim of its own.
Crash(w) ==
  /\ batch[w] # << >>
  /\ stops < MaxStops
  /\ Proceed(w, << >>)
  /\ stops' = stops + 1
  /\ UNCHANGED files

MayRequeue(a) == files.dead[a] # Absent /\ files.dead[a] < MaxAttempts + MaxRequeues

Requeued(f, a) ==
  [f EXCEPT !.pending[a] = [attempts |-> f.dead[a], due |-> TRUE]]

\* requeue, by an operator, of a dead letter.
Requeue(a) ==
  /\ MayRequeue(a)
  /\ files' = [Requeued(files, a) EXCEPT !.dead[a] = Absent]
  /\ UNCHANGED <<batch, stops>>

\* It stops before it removed the dead letter.
RequeueStopped(a) ==
  /\ MayRequeue(a)
  /\ stops < MaxStops
  /\ files' = Requeued(files, a)
  /\ stops' = stops + 1
  /\ UNCHANGED batch

\* nextAttemptAt has come.
BecomeDue(a) ==
  /\ files.pending[a] # Absent /\ ~files.pending[a].due
  /\ files' = [files EXCEPT !.pending[a].due = TRUE]
  /\ UNCHANGED <<batch, stops>>

Held(a) == \E w \in Workers : \E c \in Range(batch[w]) : c.alert = a /\ Owned(c)

\* inflightLeaseMs have passed since the claim.
Lapse(a) ==
  /\ files.inflight[a] # Absent /\ ~files.inflight[a].lapsed
  /\ files' = [files EXCEPT !.inflight[a].lapsed = TRUE]
  /\ UNCHANGED batch

\* Nobody is left to settle the claim.
LapseOrphan(a) == ~Held(a) /\ Lapse(a) /\ UNCHANGED stops

\* The worker is slower than the lease: a batch may take longer.
LapseHeld(a) == Held(a) /\ Lapse(a) /\ stops < MaxStops /\ stops' = stops + 1

OutboxNext ==
  \/ \E a \in Alerts :
       \/ Enqueue(a) \/ Requeue(a) \/ RequeueStopped(a) \/ RecoveryStopped(a)
       \/ BecomeDue(a) \/ LapseOrphan(a) \/ LapseHeld(a)
  \/ \E w \in Workers :
       \/ ClaimDue(w) \/ ClaimStopped(w) \/ Settle(w) \/ LoseClaim(w)
       \/ SettleTwice(w) \/ SettleStopped(w) \/ Crash(w)

OutboxSpec == OutboxInit /\ [][OutboxNext]_outboxVars

\* The timer of a dispatcher starts cycles for ever and a cycle goes on to
\* its end, requests being aborted after timeoutMs; and time passes.
Fairness ==
  /\ \A w \in Workers :
       WF_outboxVars(ClaimDue(w)) /\ WF_outboxVars(Settle(w) \/ LoseClaim(w))
  /\ \A a \in Alerts : WF_outboxVars(BecomeDue(a)) /\ WF_outboxVars(LapseOrphan(a))

FairSpec == OutboxSpec /\ Fairness

-----------------------------------------------------------------------------
\* Directories hold files of the alerts, with what their readers expect.
Files ==
  [pending   : [Alerts -> [attempts : Nat, due : BOOLEAN] \cup {Absent}],
   inflight  : [Alerts -> [attempts : Nat, token : Nat \ {0}, lapsed : BOOLEAN] \cup {Absent}],
   dead      : [Alerts -> Nat \cup {Absent}],
   delivered : SUBSET Alerts]

OutboxTypeOK ==
  /\ files \in Files
  /\ batch \in [Workers -> Seq(Claims)]
  /\ stops \in 0..MaxStops

\* What the outbox shows of an alert: a receipt tells more than a dead letter,
\* and that more than a file or claim that waits.
Status(f, a) ==
  CASE Unknown(f, a)                            -> "none"
    [] a \in f.delivered                        -> "delivered"
    [] a \notin f.delivered /\ f.dead[a] # Absent -> "dead"
    [] OTHER                                    -> "waiting"

Moves == {<<"none", "waiting">>, <<"waiting", "delivered">>, <<"waiting", "dead">>,
          <<"dead", "waiting">>, <<"dead", "delivered">>}

\* commitDestination, recoverStaleLocked and claimDue: within the retention
\* an alert that was enqueued is never lost and a receipt never taken back,
\* whatever stops between two file operations, lapses or is settled twice;
\* only a dead letter is open again.
JobLifecycle ==
  [][\A a \in Alerts :
       Status(files, a) # Status(files', a)
       => <<Status(files, a), Status(files', a)>> \in Moves]_outboxVars

\* recoverStaleLocked (lines 241-273) and finaliseFailure: an alert does not
\* wait for ever, once crashes and stalls have ended; it is delivered or
\* becomes a dead letter.
EveryAlertSettles ==
  \A a \in Alerts :
    Status(files, a) = "waiting" ~> Status(files, a) \in {"delivered", "dead"}

\* docs/security-alert-delivery.md:89, "Dead letters are never silently
\* discarded": one goes only to be pending again.
DeadLettersKept ==
  [][\A a \in Alerts :
       files.dead[a] # Absent /\ files'.dead[a] = Absent
       => files'.pending[a] # Absent]_outboxVars
=============================================================================
