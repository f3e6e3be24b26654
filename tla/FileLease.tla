------------------------------ MODULE FileLease ------------------------------
(***************************************************************************)
(* The per-tenant write lease of src/src/coordination/fileLeaseCoordinator *)
(* .js: processes that share a directory exclude each other with mkdir on  *)
(* <tenant>.lease, and stamp every grant with the next value of the        *)
(* durable counter <tenant>.fence.                                         *)
(*                                                                         *)
(* Leases of different tenants live in different directories and share no  *)
(* state, so the module has one tenant.  A step is one filesystem call, or *)
(* a read together with the decision taken on it: the processes share      *)
(* nothing but the filesystem, so that is where they interleave.           *)
(*                                                                         *)
(* Time is abstract.  The only thing the code asks of a clock is whether   *)
(* the lease on disk is older than leaseMs, which the field "lapsed" of    *)
(* the directory answers; the clocks of the processes are taken to agree.  *)
(* A process that keeps running releases within leaseMs; one in CanStall   *)
(* may be suspended, at any point, for longer than that.                   *)
(***************************************************************************)
EXTENDS Naturals

CONSTANTS
  Procs,     \* the processes that coordinate on this tenant
  CanStall,  \* the processes that may be suspended for longer than leaseMs
  MayFail,   \* the processes that may crash or have a filesystem call fail
  MaxFence,  \* bound: no operation starts once the counter has this value
  NoDir      \* "the lease directory does not exist"

ASSUME LeaseAssumption ==
  /\ CanStall \subseteq Procs
  /\ MayFail \subseteq Procs
  /\ MaxFence \in Nat
  /\ NoDir \notin [by : Procs, token : Nat, lapsed : BOOLEAN]

VARIABLES
  leaseDir,   \* <tenant>.lease: NoDir, or who wrote it, the token of its
              \* owner.json (0 when it has none) and whether leaseMs passed
  fence,      \* <tenant>.fence
  pc,         \* where each process is in withLease
  fenceRead,  \* the counter value a process read in nextFencingToken
  token,      \* the fencing token of the lease a process holds
  confirmed,  \* the last assertValid of withLease has succeeded
  upset       \* history: the disturbances that have happened so far

leaseVars == <<leaseDir, fence, pc, fenceRead, token, confirmed, upset>>

(***************************************************************************)
(* The control points of withLease: acquire's loop, the set-up of a new    *)
(* lease, the operation, and release.                                      *)
(***************************************************************************)
Setup   == {"readFence", "writeFence", "writeOwner"}
Working == {"check", "held", "rewrite", "release", "remove"}
Holding == Setup \cup Working
Control == {"idle", "probe", "readOwner", "stat", "takeOver"} \cup Holding

\* A process here has looked at the directory and will change it without
\* looking again.
Committed == {"takeOver", "rewrite", "remove"}

Disturbances == {"overtaken", "stalledSetup", "stalledWork"}

Present  == leaseDir # NoDir
HasOwner == Present /\ leaseDir.token > 0

\* sameLease: the record on disk carries this process's id and token.
Owns(p) == HasOwner /\ leaseDir.by = p /\ leaseDir.token = token[p]

\* What assertValid accepts.
Valid(p) == Owns(p) /\ ~leaseDir.lapsed

Goto(p, l) == pc' = [pc EXCEPT ![p] = l]

\* The call is over, its locals are gone.
Leave(p) ==
  /\ Goto(p, "idle")
  /\ fenceRead' = [fenceRead EXCEPT ![p] = 0]
  /\ token' = [token EXCEPT ![p] = 0]
  /\ confirmed' = [confirmed EXCEPT ![p] = FALSE]

LeaseInit ==
  /\ leaseDir = NoDir
  /\ fence = 0
  /\ pc = [p \in Procs |-> "idle"]
  /\ fenceRead = [p \in Procs |-> 0]
  /\ token = [p \in Procs |-> 0]
  /\ confirmed = [p \in Procs |-> FALSE]
  /\ upset = {}

-----------------------------------------------------------------------------
(* acquire: the loop that competes for the directory.                       *)

Start(p) ==
  /\ pc[p] = "idle"
  /\ fence < MaxFence
  /\ Goto(p, "probe")
  /\ UNCHANGED <<leaseDir, fence, fenceRead, token, confirmed, upset>>

\* mkdirSync succeeds.  History: the new directory overtakes every process
\* whose decision to change the path was about its predecessor.
MakeDirectory(p) ==
  /\ pc[p] = "probe"
  /\ ~Present
  /\ leaseDir' = [by |-> p, token |-> 0, lapsed |-> FALSE]
  /\ upset' = IF \E q \in Procs \ {p} : pc[q] \in Committed
              THEN upset \cup {"overtaken"}
              ELSE upset
  /\ Goto(p, "readFence")
  /\ UNCHANGED <<fence, fenceRead, token, confirmed>>

\* mkdirSync throws EEXIST.
DirectoryExists(p) ==
  /\ pc[p] = "probe"
  /\ Present
  /\ Goto(p, "readOwner")
  /\ UNCHANGED <<leaseDir, fence, fenceRead, token, confirmed, upset>>

\* Mutant: any owner counts as expired.
OwnerExpired_Unchecked(p) ==
  /\ pc[p] = "readOwner"
  /\ HasOwner
  /\ Goto(p, "takeOver")
  /\ UNCHANGED <<leaseDir, fence, fenceRead, token, confirmed, upset>>

\* readOwner finds a record that has expired.
OwnerExpired(p) ==
  /\ pc[p] = "readOwner"
  /\ HasOwner
  /\ leaseDir.lapsed
  /\ Goto(p, "takeOver")
  /\ UNCHANGED <<leaseDir, fence, fenceRead, token, confirmed, upset>>

\* readOwner finds no record: isOrphanedLease looks at the directory next.
NoOwner(p) ==
  /\ pc[p] = "readOwner"
  /\ ~HasOwner
  /\ Goto(p, "stat")
  /\ UNCHANGED <<leaseDir, fence, fenceRead, token, confirmed, upset>>

\* Mutant: a directory without a record is an orphan at once.
Orphaned_NoGrace(p) ==
  /\ pc[p] = "stat"
  /\ Goto(p, "takeOver")
  /\ UNCHANGED <<leaseDir, fence, fenceRead, token, confirmed, upset>>

\* isOrphanedLease: the directory is old enough, or it is not there any more.
Orphaned(p) ==
  /\ pc[p] = "stat"
  /\ Present => leaseDir.lapsed
  /\ Goto(p, "takeOver")
  /\ UNCHANGED <<leaseDir, fence, fenceRead, token, confirmed, upset>>

\* Mutant: only a recorded owner is waited for or reported busy.
SeesLiveLease_OwnerOnly(p) ==
  /\ pc[p] = "readOwner"
  /\ HasOwner
  /\ ~leaseDir.lapsed

\* The lease a process has just looked at is in force.
SeesLiveLease(p) ==
  /\ \/ pc[p] = "readOwner" /\ HasOwner
     \/ pc[p] = "stat" /\ Present
  /\ ~leaseDir.lapsed

Retry(p) ==
  /\ SeesLiveLease(p)
  /\ Goto(p, "probe")
  /\ UNCHANGED <<leaseDir, fence, fenceRead, token, confirmed, upset>>

\* The deadline of acquire has passed: CoordinationBusyError.
Refuse(p) ==
  /\ SeesLiveLease(p)
  /\ Goto(p, "idle")
  /\ UNCHANGED <<leaseDir, fence, fenceRead, token, confirmed, upset>>

\* tryTakeOverStaleLease: rename whatever is at the path now and delete it;
\* ENOENT and EEXIST count as "somebody else did".
TakeOver(p) ==
  /\ pc[p] = "takeOver"
  /\ leaseDir' = NoDir
  /\ Goto(p, "probe")
  /\ UNCHANGED <<fence, fenceRead, token, confirmed, upset>>

\* mkdir or rename fails for another reason: CoordinationUnavailableError.
Unavailable(p) ==
  /\ pc[p] \in {"probe", "takeOver"}
  /\ p \in MayFail
  /\ Goto(p, "idle")
  /\ UNCHANGED <<leaseDir, fence, fenceRead, token, confirmed, upset>>

-----------------------------------------------------------------------------
(* acquire: the set-up of the directory just made.                          *)

ReadFence(p) ==
  /\ pc[p] = "readFence"
  /\ fenceRead' = [fenceRead EXCEPT ![p] = fence]
  /\ Goto(p, "writeFence")
  /\ UNCHANGED <<leaseDir, fence, token, confirmed, upset>>

WriteFence(p) ==
  /\ pc[p] = "writeFence"
  /\ fence' = fenceRead[p] + 1
  /\ token' = [token EXCEPT ![p] = fenceRead[p] + 1]
  /\ fenceRead' = [fenceRead EXCEPT ![p] = 0]
  /\ Goto(p, "writeOwner")
  /\ UNCHANGED <<leaseDir, confirmed, upset>>

\* atomicWrite creates the directory again when it is gone, and replaces the
\* record of whoever made the one that is there.
WriteOwner(p) ==
  /\ pc[p] = "writeOwner"
  /\ leaseDir' = [by |-> p, token |-> token[p], lapsed |-> FALSE]
  /\ Goto(p, "check")
  /\ UNCHANGED <<fence, fenceRead, token, confirmed, upset>>

\* Mutant: the handler removes the counter together with the directory.
SetupFails_DropsCounter(p) ==
  /\ pc[p] \in Setup
  /\ p \in MayFail
  /\ leaseDir' = NoDir
  /\ fence' = 0
  /\ Leave(p)
  /\ UNCHANGED upset

\* A set-up step throws: the handler removes what is at the path, and
\* ignores a removal that fails.
SetupFails(p) ==
  /\ pc[p] \in Setup
  /\ p \in MayFail
  /\ leaseDir' \in {NoDir, leaseDir}
  /\ Leave(p)
  /\ UNCHANGED <<fence, upset>>

-----------------------------------------------------------------------------
(* The operation, between the assertValid calls before and after it.        *)

EnterOperation(p) ==
  /\ pc[p] = "check"
  /\ Valid(p)
  /\ Goto(p, "held")
  /\ UNCHANGED <<leaseDir, fence, fenceRead, token, confirmed, upset>>

\* assertValid throws CoordinationLostError: the operation is not run.
LostBeforeOperation(p) ==
  /\ pc[p] = "check"
  /\ ~Valid(p)
  /\ Goto(p, "release")
  /\ UNCHANGED <<leaseDir, fence, fenceRead, token, confirmed, upset>>

\* Mutant: heartbeat rewrites the record without validating it first.
Heartbeat_Unchecked(p) ==
  /\ pc[p] = "held"
  /\ Goto(p, "rewrite")
  /\ UNCHANGED <<leaseDir, fence, fenceRead, token, confirmed, upset>>

\* heartbeat validates and reads the record, then writes it back with a new
\* expiry and validates again.
Heartbeat(p) ==
  /\ pc[p] = "held"
  /\ Valid(p)
  /\ Goto(p, "rewrite")
  /\ UNCHANGED <<leaseDir, fence, fenceRead, token, confirmed, upset>>

RewriteOwner(p) ==
  /\ pc[p] = "rewrite"
  /\ leaseDir' = [by |-> p, token |-> token[p], lapsed |-> FALSE]
  /\ Goto(p, "check")
  /\ UNCHANGED <<fence, fenceRead, token, confirmed, upset>>

\* Mutant: no assertValid after the operation.
FinishOperation_Unchecked(p) ==
  /\ pc[p] = "held"
  /\ confirmed' = [confirmed EXCEPT ![p] = TRUE]
  /\ Goto(p, "release")
  /\ UNCHANGED <<leaseDir, fence, fenceRead, token, upset>>

\* The operation returns; its result reaches the caller only if the lease is
\* still valid.
FinishOperation(p) ==
  /\ pc[p] = "held"
  /\ confirmed' = [confirmed EXCEPT ![p] = Valid(p)]
  /\ Goto(p, "release")
  /\ UNCHANGED <<leaseDir, fence, fenceRead, token, upset>>

\* The operation throws.
AbortOperation(p) ==
  /\ pc[p] = "held"
  /\ Goto(p, "release")
  /\ UNCHANGED <<leaseDir, fence, fenceRead, token, confirmed, upset>>

-----------------------------------------------------------------------------
(* release                                                                  *)

ReleaseOwned(p) ==
  /\ pc[p] = "release"
  /\ Owns(p)
  /\ Goto(p, "remove")
  /\ UNCHANGED <<leaseDir, fence, fenceRead, token, confirmed, upset>>

\* release returns false: the record on disk is not this lease's.
ReleaseForeign(p) ==
  /\ pc[p] = "release"
  /\ ~Owns(p)
  /\ Leave(p)
  /\ UNCHANGED <<leaseDir, fence, upset>>

\* rmSync on the path, whatever is there by now.
RemoveDirectory(p) ==
  /\ pc[p] = "remove"
  /\ leaseDir' = NoDir
  /\ Leave(p)
  /\ UNCHANGED <<fence, upset>>

\* rmSync throws: the caller gets CoordinationUnavailableError.
RemoveFails(p) ==
  /\ pc[p] = "remove"
  /\ p \in MayFail
  /\ Leave(p)
  /\ UNCHANGED <<leaseDir, fence, upset>>

-----------------------------------------------------------------------------
(* The environment: crashes and the passage of time.                        *)

\* The process dies and, once restarted, is free to call again; its lease
\* directory stays behind.
Crash(p) ==
  /\ pc[p] # "idle"
  /\ p \in MayFail
  /\ Leave(p)
  /\ UNCHANGED <<leaseDir, fence, upset>>

\* leaseMs passes since the directory was last written.
Lapse ==
  /\ Present
  /\ ~leaseDir.lapsed
  /\ pc[leaseDir.by] \in Holding => leaseDir.by \in CanStall
  /\ leaseDir' = [leaseDir EXCEPT !.lapsed = TRUE]
  /\ upset' = CASE pc[leaseDir.by] \in Setup   -> upset \cup {"stalledSetup"}
                [] pc[leaseDir.by] \in Working -> upset \cup {"stalledWork"}
                [] OTHER                       -> upset
  /\ UNCHANGED <<fence, pc, fenceRead, token, confirmed>>

-----------------------------------------------------------------------------
Compete(p) ==
  \/ MakeDirectory(p) \/ DirectoryExists(p)
  \/ OwnerExpired(p) \/ NoOwner(p) \/ Orphaned(p)
  \/ Retry(p) \/ Refuse(p) \/ TakeOver(p) \/ Unavailable(p)

SetUp(p) == ReadFence(p) \/ WriteFence(p) \/ WriteOwner(p) \/ SetupFails(p)

Operate(p) ==
  \/ EnterOperation(p) \/ LostBeforeOperation(p)
  \/ RewriteOwner(p) \/ FinishOperation(p) \/ AbortOperation(p)

Release(p) ==
  \/ ReleaseOwned(p) \/ ReleaseForeign(p)
  \/ RemoveDirectory(p) \/ RemoveFails(p)

\* What a call under way does next.
Step(p) == Compete(p) \/ SetUp(p) \/ Operate(p) \/ Release(p)

LeaseNext ==
  \/ \E p \in Procs : Start(p) \/ Step(p) \/ Heartbeat(p) \/ Crash(p)
  \/ Lapse

LeaseSpec == LeaseInit /\ [][LeaseNext]_leaseVars

\* A running process keeps executing its synchronous code; an operation
\* heartbeats finitely often and comes to an end; and the clock reaches
\* acquire's deadline, so that a live lease is not polled for ever.
LeaseFairness ==
  \A p \in Procs :
    /\ WF_leaseVars(Step(p))
    /\ SF_leaseVars(FinishOperation(p) \/ AbortOperation(p))
    /\ SF_leaseVars(Refuse(p))

FairLeaseSpec == LeaseSpec /\ LeaseFairness

-----------------------------------------------------------------------------
LeaseTypeOK ==
  /\ leaseDir \in [by : Procs, token : Nat, lapsed : BOOLEAN] \cup {NoDir}
  /\ fence \in Nat
  /\ pc \in [Procs -> Control]
  /\ fenceRead \in [Procs -> Nat]
  /\ token \in [Procs -> Nat]
  /\ confirmed \in [Procs -> BOOLEAN]
  /\ upset \subseteq Disturbances

\* As long as no lease lapsed under its holder and no directory overtook a
\* pending decision, at most one process is between mkdir and the end of its
\* release: "two current owners" of README and docs never mutate together.
ExclusiveWhenCalm ==
  upset = {} =>
    \A p, q \in Procs : pc[p] \in Holding /\ pc[q] \in Holding => p = q

\* Even when holders stall during their operation, so that several are
\* between mkdir and release at once, no two of them carry the same token.
TokensAreUnique ==
  upset \subseteq {"stalledWork"} =>
    \A p, q \in Procs : p # q /\ token[p] = token[q] => token[p] = 0

\* Stalls during the operation do not let the counter repeat or fall: each
\* grant is stamped with a token above every token granted before it.
GrantsIncrease ==
  [][\A p \in Procs :
       upset' \subseteq {"stalledWork"} /\ WriteFence(p)
         => fence' > fence /\ \A q \in Procs : token'[p] > token[q]]_leaseVars

\* The lease on disk is the newest grant: a superseded holder never gets its
\* record back, so its last assertValid cannot succeed.
OwnerIsNewestGrant ==
  upset \subseteq {"stalledWork"} => (HasOwner => leaseDir.token = fence)

\* A confirmed result comes from the newest lease, or from one superseded
\* only after its operation had been confirmed: at the moment withLease
\* accepts a result no later token has been handed out.
ConfirmedByNewestGrant ==
  [][\A p \in Procs :
       upset' \subseteq {"stalledWork"} /\ ~confirmed[p] /\ confirmed'[p]
         => token[p] = fence]_leaseVars

\* A call of withLease is kept waiting for ever only by competitors that
\* make lease directories for ever: acquire goes back to mkdir after each
\* takeover without a look at its deadline.
CallsEndUnlessLeasesChurn ==
  <>[][\A p \in Procs : ~MakeDirectory(p)]_leaseVars
    => \A p \in Procs : pc[p] # "idle" ~> pc[p] = "idle"
=============================================================================
