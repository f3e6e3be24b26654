-------------------------- MODULE CoordinatedWrites --------------------------
(***************************************************************************)
(* Coordinated tenant state: coordinatedRegistry.js runs every mutation of *)
(* a tenant inside the lease of FileLease, on a registry that loads the    *)
(* latest version from fencedSnapshotStore.js and saves the changed state  *)
(* as the version of the lease's fencing token.  Reads take no lease.      *)
(*                                                                         *)
(* A version is abstracted to the set of the operations whose effect the   *)
(* snapshot contains: loading and saving in one operation adds that        *)
(* operation, which is all that "an update was lost" can see.  A restore,  *)
(* which replaces the state on purpose, is not one of these operations.    *)
(* Nothing in the program calls the lease's heartbeat, so neither do the   *)
(* operations here.                                                        *)
(***************************************************************************)
EXTENDS FileLease, FiniteSets

CONSTANTS
  Readers,   \* the requests that read the tenant without a lease
  Retained   \* retainedVersions

ASSUME RetainedAssumption == Retained \in Nat \ {0, 1}

VARIABLES
  versions,  \* the version files: fencing token -> contents
  stage,     \* where the operation of each lease holder is
  listed,    \* the newest token an operation saw when it loaded
  base,      \* what the operation loaded
  durable,   \* the operation has written its version file
  doomed,    \* the tokens the operation is about to prune
  acked,     \* the operations whose callers have their result
  reading,   \* the token each reader is about to read, NoVersion if none
  known      \* history: what was acknowledged when the reader listed

\* No version was listed; tokens start at 1.
NoVersion == 0

opVars    == <<stage, listed, base, durable, doomed>>
readVars  == <<reading, known>>
storeVars == <<versions, opVars, acked, readVars>>
vars      == <<leaseVars, storeVars>>

Stages == {"none", "load", "read", "check", "write", "prune", "saved", "failed"}

\* The operation a process runs under its current lease.
Op(p) == <<p, token[p]>>
Ops   == Procs \X Nat

Tokens == DOMAIN versions

\* Mutant: the list is sorted the other way round.
IsNewest_Ascending(t) == t \in Tokens /\ \A u \in Tokens : u >= t

\* listVersions sorts by token: t is the first of the list.
IsNewest(t) == t \in Tokens /\ \A u \in Tokens : u <= t

\* What a load that lists and reads at once would return.
Latest == IF Tokens = {} THEN {} ELSE versions[CHOOSE t \in Tokens : IsNewest(t)]

\* Mutant: the oldest are kept.
BeyondRetained_Newest ==
  {t \in Tokens : Cardinality({u \in Tokens : u < t}) >= Retained}

\* The versions slice(keep) leaves out of the sorted list.
BeyondRetained ==
  {t \in Tokens : Cardinality({u \in Tokens : u > t}) >= Retained}

StoreInit ==
  /\ versions = [t \in {} |-> {}]
  /\ stage = [p \in Procs |-> "none"]
  /\ listed = [p \in Procs |-> NoVersion]
  /\ base = [p \in Procs |-> {}]
  /\ durable = [p \in Procs |-> FALSE]
  /\ doomed = [p \in Procs |-> {}]
  /\ acked = {}
  /\ reading = [r \in Readers |-> NoVersion]
  /\ known = [r \in Readers |-> {}]

Init == LeaseInit /\ StoreInit

Advance(p, s) == stage' = [stage EXCEPT ![p] = s]

\* The locals of the operation are gone.
ForgetOperation(p) ==
  /\ Advance(p, "none")
  /\ listed' = [listed EXCEPT ![p] = NoVersion]
  /\ base' = [base EXCEPT ![p] = {}]
  /\ durable' = [durable EXCEPT ![p] = FALSE]
  /\ doomed' = [doomed EXCEPT ![p] = {}]

-----------------------------------------------------------------------------
(* The lease around the operation.                                          *)

\* Steps of withLease before and after the operation that leave it alone.
Coordinate(p) ==
  /\ \/ Start(p) \/ Compete(p) \/ SetUp(p)
     \/ LostBeforeOperation(p) \/ ReleaseOwned(p)
  /\ UNCHANGED storeVars

\* write: a fresh registry, bound to the lease's token, for the operation.
Enter(p) ==
  /\ EnterOperation(p)
  /\ Advance(p, "load")
  /\ UNCHANGED <<versions, listed, base, durable, doomed, acked, readVars>>

\* The operation returns after its last save.
Finish(p) ==
  /\ stage[p] = "saved"
  /\ doomed[p] = {}
  /\ FinishOperation(p)
  /\ UNCHANGED storeVars

\* The operation throws: it is refused, a load or a save failed, or a step
\* after a save did.
Abort(p) ==
  /\ stage[p] \in {"check", "saved", "failed"}
  /\ doomed[p] = {}
  /\ AbortOperation(p)
  /\ UNCHANGED storeVars

\* The call ends.  The caller has the result only if the last assertValid
\* succeeded and release did not throw.
Answer(p) ==
  /\ ReleaseForeign(p) \/ RemoveDirectory(p)
  /\ acked' = IF confirmed[p] THEN acked \cup {Op(p)} ELSE acked
  /\ ForgetOperation(p)
  /\ UNCHANGED <<versions, readVars>>

AnswerUnavailable(p) ==
  /\ RemoveFails(p)
  /\ ForgetOperation(p)
  /\ UNCHANGED <<versions, acked, readVars>>

CrashWriter(p) ==
  /\ Crash(p)
  /\ ForgetOperation(p)
  /\ UNCHANGED <<versions, acked, readVars>>

-----------------------------------------------------------------------------
(* The operation: load, change, save.                                       *)

Running(p, s) == pc[p] = "held" /\ stage[p] = s

\* readEncrypted lists the versions; without one the state is empty.
ListToLoad(p) ==
  /\ Running(p, "load")
  /\ IF Tokens = {}
     THEN Advance(p, "check") /\ UNCHANGED listed
     ELSE \E t \in Tokens :
            /\ IsNewest(t)
            /\ listed' = [listed EXCEPT ![p] = t]
            /\ Advance(p, "read")
  /\ UNCHANGED <<leaseVars, versions, base, durable, doomed, acked, readVars>>

\* It reads the first file of the list, which may have been pruned since.
ReadListed(p) ==
  /\ Running(p, "read")
  /\ IF listed[p] \in Tokens
     THEN /\ base' = [base EXCEPT ![p] = versions[listed[p]]]
          /\ Advance(p, "check")
     ELSE Advance(p, "failed") /\ UNCHANGED base
  /\ listed' = [listed EXCEPT ![p] = NoVersion]
  /\ UNCHANGED <<leaseVars, versions, durable, doomed, acked, readVars>>

\* Mutant: an equal token is rejected as well.
RejectSave_Equal(p) ==
  /\ Running(p, "check")
  /\ \E t \in Tokens : t >= token[p]
  /\ Advance(p, "failed")
  /\ UNCHANGED <<leaseVars, versions, listed, base, durable, doomed, acked, readVars>>

\* save: a newer version exists, FencingRejectedError.
RejectSave(p) ==
  /\ Running(p, "check")
  /\ \E t \in Tokens : t > token[p]
  /\ Advance(p, "failed")
  /\ UNCHANGED <<leaseVars, versions, listed, base, durable, doomed, acked, readVars>>

AllowSave(p) ==
  /\ Running(p, "check")
  /\ \A t \in Tokens : t <= token[p]
  /\ Advance(p, "write")
  /\ UNCHANGED <<leaseVars, versions, listed, base, durable, doomed, acked, readVars>>

\* save: atomicWrite of the version file of the token.
WriteVersion(p) ==
  /\ Running(p, "write")
  /\ versions' = [t \in Tokens \cup {token[p]} |->
                    IF t = token[p] THEN base[p] \cup {Op(p)} ELSE versions[t]]
  /\ durable' = [durable EXCEPT ![p] = TRUE]
  /\ Advance(p, "prune")
  /\ UNCHANGED <<leaseVars, listed, base, doomed, acked, readVars>>

WriteFails(p) ==
  /\ Running(p, "write")
  /\ p \in MayFail
  /\ Advance(p, "failed")
  /\ UNCHANGED <<leaseVars, versions, listed, base, durable, doomed, acked, readVars>>

\* pruneVersions lists again and keeps the newest.
ListToPrune(p) ==
  /\ Running(p, "prune")
  /\ doomed' = [doomed EXCEPT ![p] = BeyondRetained]
  /\ Advance(p, "saved")
  /\ UNCHANGED <<leaseVars, versions, listed, base, durable, acked, readVars>>

\* It removes the rest one by one, newest first, ignoring failures.
PruneOne(p) ==
  /\ Running(p, "saved")
  /\ \E t \in doomed[p] :
       /\ \A u \in doomed[p] : u <= t
       /\ doomed' = [doomed EXCEPT ![p] = @ \ {t}]
       /\ \/ versions' = [u \in Tokens \ {t} |-> versions[u]]
          \/ p \in MayFail /\ UNCHANGED versions
  /\ UNCHANGED <<leaseVars, stage, listed, base, durable, acked, readVars>>

\* An operation may save more than once (a backup and its event), and may
\* carry on after a later save failed.
SaveAgain(p) ==
  /\ Running(p, "saved")
  /\ doomed[p] = {}
  /\ Advance(p, "check")
  /\ UNCHANGED <<leaseVars, versions, listed, base, durable, doomed, acked, readVars>>

CarryOn(p) ==
  /\ Running(p, "failed")
  /\ durable[p]
  /\ Advance(p, "saved")
  /\ UNCHANGED <<leaseVars, versions, listed, base, durable, doomed, acked, readVars>>

Operation(p) ==
  \/ ListToLoad(p) \/ ReadListed(p)
  \/ RejectSave(p) \/ AllowSave(p) \/ WriteVersion(p) \/ WriteFails(p)
  \/ ListToPrune(p) \/ PruneOne(p) \/ SaveAgain(p) \/ CarryOn(p)

-----------------------------------------------------------------------------
(* Readers: a registry on a read-only store.                                *)

ReaderLists(r) ==
  /\ reading[r] = NoVersion
  /\ \E t \in Tokens : IsNewest(t) /\ reading' = [reading EXCEPT ![r] = t]
  /\ known' = [known EXCEPT ![r] = acked]
  /\ UNCHANGED <<leaseVars, versions, opVars, acked>>

EndRead(r) ==
  /\ reading' = [reading EXCEPT ![r] = NoVersion]
  /\ known' = [known EXCEPT ![r] = {}]
  /\ UNCHANGED <<leaseVars, versions, opVars, acked>>

ReaderReads(r) == reading[r] \in Tokens /\ EndRead(r)

\* The file is gone: PersistenceError.
ReaderFails(r) == reading[r] # NoVersion /\ reading[r] \notin Tokens /\ EndRead(r)

-----------------------------------------------------------------------------
Next ==
  \/ \E p \in Procs :
       \/ Coordinate(p) \/ Enter(p) \/ Operation(p) \/ Finish(p) \/ Abort(p)
       \/ Answer(p) \/ AnswerUnavailable(p) \/ CrashWriter(p)
  \/ Lapse /\ UNCHANGED storeVars
  \/ \E r \in Readers : ReaderLists(r) \/ ReaderReads(r) \/ ReaderFails(r)

Spec == Init /\ [][Next]_vars

-----------------------------------------------------------------------------
StoreTypeOK ==
  /\ Tokens \subseteq Nat \ {0}
  /\ IsFiniteSet(Tokens)
  /\ \A t \in Tokens : versions[t] \subseteq Ops
  /\ stage \in [Procs -> Stages]
  /\ listed \in [Procs -> Nat]
  /\ base \in [Procs -> SUBSET Ops]
  /\ durable \in [Procs -> BOOLEAN]
  /\ doomed \in [Procs -> SUBSET (Nat \ {0})]
  /\ acked \subseteq Ops
  /\ reading \in [Readers -> Nat]
  /\ known \in [Readers -> SUBSET Ops]

\* The token a load selects never falls, whatever writers that stall, crash
\* or were superseded do, and however their pruning overlaps.
LatestNeverRegresses ==
  [][\A t \in Tokens : \E u \in Tokens' : u >= t]_vars

\* A version that was listed is gone only when at least Retained newer ones
\* are there: a load fails for no other reason.
PrunedOnlyWhenSuperseded ==
  /\ \A p \in Procs : stage[p] = "read" /\ listed[p] \notin Tokens
       => Cardinality({t \in Tokens : t > listed[p]}) >= Retained
  /\ \A r \in Readers : reading[r] # NoVersion /\ reading[r] \notin Tokens
       => Cardinality({t \in Tokens : t > reading[r]}) >= Retained

\* No operation whose caller has its result is missing from the latest
\* version, even when lease holders stall in the middle of their operation
\* and write after they were replaced.
NoAcknowledgedLoss ==
  upset \subseteq {"stalledWork"} => acked \subseteq Latest

\* A reader that gets an answer sees every operation acknowledged before it
\* listed the versions.
ReadsSeeAcknowledged ==
  [][\A r \in Readers :
       upset' \subseteq {"stalledWork"} /\ ReaderReads(r)
         => known[r] \subseteq versions[reading[r]]]_vars

\* The fence rejects superseded holders only: the newest grant can always
\* save.
OnlySupersededRejected ==
  [][\A p \in Procs :
       upset' \subseteq {"stalledWork"} /\ RejectSave(p) => token[p] < fence]_vars

\* Without disturbances the tenant's state only grows: each version extends
\* the one it replaces.
VersionsExtendEachOther ==
  [][upset' = {} => Latest \subseteq Latest']_vars
=============================================================================
