------------------------- MODULE CoordinationProofs -------------------------
(***************************************************************************)
(* Theorems about FileLease and CoordinatedWrites.  For the lease: type    *)
(* correctness, exclusion while nothing disturbs it, and the order of the  *)
(* fencing tokens while holders may stall in their operation.  For the     *)
(* writes made under it: the versions on disk stay loadable, and what a    *)
(* caller was told stays in the latest one.                                *)
(***************************************************************************)
EXTENDS CoordinatedWrites, FiniteSetTheorems, TLAPS

-----------------------------------------------------------------------------
\* Every reachable state is well typed.
LEMMA LeaseTypeInductive == LeaseTypeOK /\ [LeaseNext]_leaseVars => LeaseTypeOK'
<1> SUFFICES ASSUME LeaseTypeOK, [LeaseNext]_leaseVars PROVE LeaseTypeOK'
  OBVIOUS
<1> USE LeaseAssumption DEF LeaseTypeOK, Control, Holding, Setup, Working,
        Disturbances, Goto, Leave
<1>1. ASSUME NEW p \in Procs, Start(p) PROVE LeaseTypeOK'
  BY <1>1 DEF Start
<1>2. ASSUME NEW p \in Procs, Compete(p) PROVE LeaseTypeOK'
  <2>1. CASE MakeDirectory(p)
    BY <2>1 DEF MakeDirectory
  <2>2. CASE DirectoryExists(p)
    BY <2>2 DEF DirectoryExists
  <2>3. CASE OwnerExpired(p)
    BY <2>3 DEF OwnerExpired
  <2>4. CASE NoOwner(p)
    BY <2>4 DEF NoOwner
  <2>5. CASE Orphaned(p)
    BY <2>5 DEF Orphaned
  <2>6. CASE Retry(p)
    BY <2>6 DEF Retry
  <2>7. CASE Refuse(p)
    BY <2>7 DEF Refuse
  <2>8. CASE TakeOver(p)
    BY <2>8 DEF TakeOver
  <2>9. CASE Unavailable(p)
    BY <2>9 DEF Unavailable
  <2>10. QED BY <1>2, <2>1, <2>2, <2>3, <2>4, <2>5, <2>6, <2>7, <2>8, <2>9 DEF Compete
<1>3. ASSUME NEW p \in Procs, SetUp(p) PROVE LeaseTypeOK'
  <2>1. CASE ReadFence(p)
    BY <2>1 DEF ReadFence
  <2>2. CASE WriteFence(p)
    BY <2>2 DEF WriteFence
  <2>3. CASE WriteOwner(p)
    BY <2>3 DEF WriteOwner
  <2>4. CASE SetupFails(p)
    BY <2>4 DEF SetupFails
  <2>5. QED BY <1>3, <2>1, <2>2, <2>3, <2>4 DEF SetUp
<1>4. ASSUME NEW p \in Procs, Operate(p) PROVE LeaseTypeOK'
  <2>1. CASE EnterOperation(p) \/ LostBeforeOperation(p) \/ AbortOperation(p)
    BY <2>1 DEF EnterOperation, LostBeforeOperation, AbortOperation
  <2>2. CASE RewriteOwner(p)
    BY <2>2 DEF RewriteOwner
  <2>3. CASE FinishOperation(p)
    <3>1. Valid(p) \in BOOLEAN
      BY DEF Valid, Owns, HasOwner, Present
    <3>2. QED BY <3>1, <2>3 DEF FinishOperation
  <2>4. QED BY <1>4, <2>1, <2>2, <2>3 DEF Operate
<1>5. ASSUME NEW p \in Procs, Release(p) PROVE LeaseTypeOK'
  <2>1. CASE ReleaseOwned(p)
    BY <2>1 DEF ReleaseOwned
  <2>2. CASE ReleaseForeign(p)
    BY <2>2 DEF ReleaseForeign
  <2>3. CASE RemoveDirectory(p)
    BY <2>3 DEF RemoveDirectory
  <2>4. CASE RemoveFails(p)
    BY <2>4 DEF RemoveFails
  <2>5. QED BY <1>5, <2>1, <2>2, <2>3, <2>4 DEF Release
<1>6. ASSUME NEW p \in Procs, Heartbeat(p) PROVE LeaseTypeOK'
  BY <1>6 DEF Heartbeat
<1>7. ASSUME NEW p \in Procs, Crash(p) PROVE LeaseTypeOK'
  BY <1>7 DEF Crash
<1>8. CASE Lapse
  BY <1>8 DEF Lapse, Present
<1>9. CASE UNCHANGED leaseVars
  BY <1>9 DEF leaseVars
<1>10. QED
  BY <1>1, <1>2, <1>3, <1>4, <1>5, <1>6, <1>7, <1>8, <1>9 DEF LeaseNext, Step

THEOREM LeaseTypeCorrect == LeaseSpec => []LeaseTypeOK
<1>1. LeaseInit => LeaseTypeOK
  BY LeaseAssumption DEF LeaseInit, LeaseTypeOK, Control
<1>2. QED
  BY <1>1, LeaseTypeInductive, PTL DEF LeaseSpec

-----------------------------------------------------------------------------
(* The inductive invariant.                                                 *)

\* Holders may stall during their operation, and nothing worse.
Tame == upset \subseteq {"stalledWork"}

\* Exactly the processes that were granted a lease carry a token.
TokensWhereDue ==
  \A p \in Procs : token[p] > 0 <=> pc[p] \in {"writeOwner"} \cup Working

\* The directory of a lease being set up is the one made for it, and no
\* other process is about to write the counter or to change the directory.
SetupIsAlone ==
  \A p \in Procs : pc[p] \in Setup =>
    /\ leaseDir = [by |-> p, token |-> 0, lapsed |-> FALSE]
    /\ \A q \in Procs \ {p} : pc[q] \notin Setup \cup Committed

\* The tokens in use are distinct values the counter has had, and the
\* processes that may write the record of a lease carry the latest one.
TokensInOrder ==
  /\ \A p \in Procs : token[p] <= fence
  /\ \A p, q \in Procs : p # q /\ token[p] = token[q] => token[p] = 0
  /\ \A p \in Procs : pc[p] = "writeFence" => fenceRead[p] = fence
  /\ \A p \in Procs : pc[p] \in {"writeOwner", "rewrite"} => token[p] = fence
  /\ HasOwner => leaseDir.token = fence

\* Without any disturbance the same holds until the end of release.
WorkIsAlone ==
  \A p \in Procs : pc[p] \in Working =>
    /\ leaseDir = [by |-> p, token |-> token[p], lapsed |-> FALSE]
    /\ \A q \in Procs \ {p} : pc[q] \notin Holding \cup Committed

LeaseInv ==
  /\ LeaseTypeOK
  /\ TokensWhereDue
  /\ Tame => SetupIsAlone /\ TokensInOrder
  /\ upset = {} => WorkIsAlone

-----------------------------------------------------------------------------
\* A fresh directory on disk is present and in force.
LEMMA FreshDirectory ==
  ASSUME NEW p \in Procs, NEW n \in Nat,
         leaseDir = [by |-> p, token |-> n, lapsed |-> FALSE]
  PROVE  Present /\ ~leaseDir.lapsed
<1>1. leaseDir \in [by : Procs, token : Nat, lapsed : BOOLEAN]
  OBVIOUS
<1>2. QED BY <1>1, LeaseAssumption DEF Present

-----------------------------------------------------------------------------
\* Disturbances are history: none is forgotten.
LEMMA UpsetGrows == [LeaseNext]_leaseVars => upset \subseteq upset'
<1> SUFFICES ASSUME [LeaseNext]_leaseVars PROVE upset \subseteq upset'
  OBVIOUS
<1>1. ASSUME NEW p \in Procs, Start(p) PROVE upset \subseteq upset'
  BY <1>1 DEF Start
<1>2. ASSUME NEW p \in Procs, Compete(p) PROVE upset \subseteq upset'
  <2>1. CASE MakeDirectory(p)
    BY <2>1 DEF MakeDirectory
  <2>2. CASE DirectoryExists(p)
    BY <2>2 DEF DirectoryExists
  <2>3. CASE OwnerExpired(p)
    BY <2>3 DEF OwnerExpired
  <2>4. CASE NoOwner(p)
    BY <2>4 DEF NoOwner
  <2>5. CASE Orphaned(p)
    BY <2>5 DEF Orphaned
  <2>6. CASE Retry(p)
    BY <2>6 DEF Retry, SeesLiveLease
  <2>7. CASE Refuse(p)
    BY <2>7 DEF Refuse, SeesLiveLease
  <2>8. CASE TakeOver(p)
    BY <2>8 DEF TakeOver
  <2>9. CASE Unavailable(p)
    BY <2>9 DEF Unavailable
  <2>10. QED BY <1>2, <2>1, <2>2, <2>3, <2>4, <2>5, <2>6, <2>7, <2>8, <2>9 DEF Compete
<1>3. ASSUME NEW p \in Procs, SetUp(p) PROVE upset \subseteq upset'
  <2>1. CASE ReadFence(p)
    BY <2>1 DEF ReadFence
  <2>2. CASE WriteFence(p)
    BY <2>2 DEF WriteFence
  <2>3. CASE WriteOwner(p)
    BY <2>3 DEF WriteOwner
  <2>4. CASE SetupFails(p)
    BY <2>4 DEF SetupFails
  <2>5. QED BY <1>3, <2>1, <2>2, <2>3, <2>4 DEF SetUp
<1>4. ASSUME NEW p \in Procs, Operate(p) PROVE upset \subseteq upset'
  <2>1. CASE EnterOperation(p)
    BY <2>1 DEF EnterOperation
  <2>2. CASE LostBeforeOperation(p)
    BY <2>2 DEF LostBeforeOperation
  <2>3. CASE RewriteOwner(p)
    BY <2>3 DEF RewriteOwner
  <2>4. CASE FinishOperation(p)
    BY <2>4 DEF FinishOperation
  <2>5. CASE AbortOperation(p)
    BY <2>5 DEF AbortOperation
  <2>6. QED BY <1>4, <2>1, <2>2, <2>3, <2>4, <2>5 DEF Operate
<1>5. ASSUME NEW p \in Procs, Release(p) PROVE upset \subseteq upset'
  <2>1. CASE ReleaseOwned(p)
    BY <2>1 DEF ReleaseOwned
  <2>2. CASE ReleaseForeign(p)
    BY <2>2 DEF ReleaseForeign
  <2>3. CASE RemoveDirectory(p)
    BY <2>3 DEF RemoveDirectory
  <2>4. CASE RemoveFails(p)
    BY <2>4 DEF RemoveFails
  <2>5. QED BY <1>5, <2>1, <2>2, <2>3, <2>4 DEF Release
<1>6. ASSUME NEW p \in Procs, Heartbeat(p) PROVE upset \subseteq upset'
  BY <1>6 DEF Heartbeat
<1>7. ASSUME NEW p \in Procs, Crash(p) PROVE upset \subseteq upset'
  BY <1>7 DEF Crash
<1>8. CASE Lapse
  BY <1>8 DEF Lapse
<1>9. CASE UNCHANGED leaseVars
  BY <1>9 DEF leaseVars
<1>10. QED
  BY <1>1, <1>2, <1>3, <1>4, <1>5, <1>6, <1>7, <1>8, <1>9 DEF LeaseNext, Step

\* A token is handed out by WriteFence and dropped when the call ends.
LEMMA TokensWhereDueInductive ==
  LeaseTypeOK /\ TokensWhereDue /\ [LeaseNext]_leaseVars => TokensWhereDue'
<1> SUFFICES ASSUME LeaseTypeOK, TokensWhereDue, [LeaseNext]_leaseVars
             PROVE  TokensWhereDue'
  OBVIOUS
<1> USE DEF LeaseTypeOK, TokensWhereDue, Control, Holding, Setup, Working, Goto, Leave
<1>1. ASSUME NEW p \in Procs, Start(p) PROVE TokensWhereDue'
  BY <1>1 DEF Start
<1>2. ASSUME NEW p \in Procs, Compete(p) PROVE TokensWhereDue'
  <2>1. CASE MakeDirectory(p)
    BY <2>1 DEF MakeDirectory
  <2>2. CASE DirectoryExists(p)
    BY <2>2 DEF DirectoryExists
  <2>3. CASE OwnerExpired(p)
    BY <2>3 DEF OwnerExpired
  <2>4. CASE NoOwner(p)
    BY <2>4 DEF NoOwner
  <2>5. CASE Orphaned(p)
    BY <2>5 DEF Orphaned
  <2>6. CASE Retry(p)
    BY <2>6 DEF Retry, SeesLiveLease
  <2>7. CASE Refuse(p)
    BY <2>7 DEF Refuse, SeesLiveLease
  <2>8. CASE TakeOver(p)
    BY <2>8 DEF TakeOver
  <2>9. CASE Unavailable(p)
    BY <2>9 DEF Unavailable
  <2>10. QED BY <1>2, <2>1, <2>2, <2>3, <2>4, <2>5, <2>6, <2>7, <2>8, <2>9 DEF Compete
<1>3. ASSUME NEW p \in Procs, SetUp(p) PROVE TokensWhereDue'
  <2>1. CASE ReadFence(p)
    BY <2>1 DEF ReadFence
  <2>2. CASE WriteFence(p)
    BY <2>2 DEF WriteFence
  <2>3. CASE WriteOwner(p)
    BY <2>3 DEF WriteOwner
  <2>4. CASE SetupFails(p)
    BY <2>4 DEF SetupFails
  <2>5. QED BY <1>3, <2>1, <2>2, <2>3, <2>4 DEF SetUp
<1>4. ASSUME NEW p \in Procs, Operate(p) PROVE TokensWhereDue'
  <2>1. CASE EnterOperation(p)
    BY <2>1 DEF EnterOperation
  <2>2. CASE LostBeforeOperation(p)
    BY <2>2 DEF LostBeforeOperation
  <2>3. CASE RewriteOwner(p)
    BY <2>3 DEF RewriteOwner
  <2>4. CASE FinishOperation(p)
    BY <2>4 DEF FinishOperation
  <2>5. CASE AbortOperation(p)
    BY <2>5 DEF AbortOperation
  <2>6. QED BY <1>4, <2>1, <2>2, <2>3, <2>4, <2>5 DEF Operate
<1>5. ASSUME NEW p \in Procs, Release(p) PROVE TokensWhereDue'
  <2>1. CASE ReleaseOwned(p)
    BY <2>1 DEF ReleaseOwned
  <2>2. CASE ReleaseForeign(p)
    BY <2>2 DEF ReleaseForeign
  <2>3. CASE RemoveDirectory(p)
    BY <2>3 DEF RemoveDirectory
  <2>4. CASE RemoveFails(p)
    BY <2>4 DEF RemoveFails
  <2>5. QED BY <1>5, <2>1, <2>2, <2>3, <2>4 DEF Release
<1>6. ASSUME NEW p \in Procs, Heartbeat(p) PROVE TokensWhereDue'
  BY <1>6 DEF Heartbeat
<1>7. ASSUME NEW p \in Procs, Crash(p) PROVE TokensWhereDue'
  BY <1>7 DEF Crash
<1>8. CASE Lapse
  BY <1>8 DEF Lapse
<1>9. CASE UNCHANGED leaseVars
  BY <1>9 DEF leaseVars
<1>10. QED
  BY <1>1, <1>2, <1>3, <1>4, <1>5, <1>6, <1>7, <1>8, <1>9 DEF LeaseNext, Step

\* While holders do no worse than stall in their operation, set-ups stay
\* alone and the tokens in order.
LEMMA TameInductive ==
  ASSUME LeaseTypeOK, TokensWhereDue, Tame', Tame => SetupIsAlone /\ TokensInOrder,
         [LeaseNext]_leaseVars
  PROVE  SetupIsAlone' /\ TokensInOrder'
<1>0. SetupIsAlone /\ TokensInOrder
  BY UpsetGrows DEF Tame
<1> USE <1>0 DEF LeaseTypeOK, TokensWhereDue, SetupIsAlone, TokensInOrder, Control,
        Holding, Setup, Working, Committed, Present, HasOwner, Goto, Leave
<1>1. ASSUME NEW p \in Procs, Start(p) PROVE SetupIsAlone' /\ TokensInOrder'
  BY <1>1 DEF Start
<1>2. ASSUME NEW p \in Procs, Compete(p) PROVE SetupIsAlone' /\ TokensInOrder'
  <2>1. CASE MakeDirectory(p)
    <3>1. \A q \in Procs \ {p} : pc[q] \notin Committed
      BY <2>1 DEF MakeDirectory, Tame
    <3>2. ASSUME NEW q \in Procs, pc[q] \in Setup PROVE FALSE
      <4>1. leaseDir = [by |-> q, token |-> 0, lapsed |-> FALSE]
        BY <3>2
      <4>2. Present /\ ~leaseDir.lapsed
        BY <4>1, FreshDirectory
      <4>3. QED BY <2>1, <4>2 DEF MakeDirectory
    <3>3. SetupIsAlone'
      <4>1. leaseDir' = [by |-> p, token |-> 0, lapsed |-> FALSE] /\ pc' = [pc EXCEPT ![p] = "readFence"]
        BY <2>1 DEF MakeDirectory
      <4>2. ASSUME NEW q \in Procs, pc'[q] \in Setup PROVE q = p
        BY <4>1, <4>2, <3>2
      <4>3. ASSUME NEW q \in Procs \ {p} PROVE pc'[q] \notin Setup \cup Committed
        BY <4>1, <3>1, <3>2
      <4>4. QED BY <4>1, <4>2, <4>3
    <3>4. TokensInOrder'
      BY <2>1 DEF MakeDirectory
    <3>5. QED BY <3>3, <3>4
  <2>2. CASE DirectoryExists(p)
    BY <2>2 DEF DirectoryExists
  <2>3. CASE OwnerExpired(p)
    BY <2>3 DEF OwnerExpired
  <2>4. CASE NoOwner(p)
    BY <2>4 DEF NoOwner
  <2>5. CASE Orphaned(p)
    <3>1. ASSUME NEW q \in Procs, pc[q] \in Setup PROVE FALSE
      <4>1. leaseDir = [by |-> q, token |-> 0, lapsed |-> FALSE]
        BY <3>1
      <4>2. Present /\ ~leaseDir.lapsed
        BY <4>1, FreshDirectory
      <4>3. QED BY <2>5, <4>2 DEF Orphaned
    <3>2. QED BY <2>5, <3>1 DEF Orphaned
  <2>6. CASE Retry(p)
    BY <2>6 DEF Retry, SeesLiveLease
  <2>7. CASE Refuse(p)
    BY <2>7 DEF Refuse, SeesLiveLease
  <2>8. CASE TakeOver(p)
    BY <2>8 DEF TakeOver
  <2>9. CASE Unavailable(p)
    BY <2>9 DEF Unavailable
  <2>10. QED BY <1>2, <2>1, <2>2, <2>3, <2>4, <2>5, <2>6, <2>7, <2>8, <2>9 DEF Compete
<1>3. ASSUME NEW p \in Procs, SetUp(p) PROVE SetupIsAlone' /\ TokensInOrder'
  <2>1. CASE ReadFence(p)
    BY <2>1 DEF ReadFence
  <2>2. CASE WriteFence(p)
    BY <2>2 DEF WriteFence
  <2>3. CASE WriteOwner(p)
    BY <2>3, LeaseAssumption DEF WriteOwner
  <2>4. CASE SetupFails(p)
    BY <2>4 DEF SetupFails
  <2>5. QED BY <1>3, <2>1, <2>2, <2>3, <2>4 DEF SetUp
<1>4. ASSUME NEW p \in Procs, Operate(p) PROVE SetupIsAlone' /\ TokensInOrder'
  <2>1. CASE EnterOperation(p)
    BY <2>1 DEF EnterOperation
  <2>2. CASE LostBeforeOperation(p)
    BY <2>2 DEF LostBeforeOperation
  <2>3. CASE RewriteOwner(p)
    BY <2>3, LeaseAssumption DEF RewriteOwner
  <2>4. CASE FinishOperation(p)
    BY <2>4 DEF FinishOperation
  <2>5. CASE AbortOperation(p)
    BY <2>5 DEF AbortOperation
  <2>6. QED BY <1>4, <2>1, <2>2, <2>3, <2>4, <2>5 DEF Operate
<1>5. ASSUME NEW p \in Procs, Release(p) PROVE SetupIsAlone' /\ TokensInOrder'
  <2>1. CASE ReleaseOwned(p)
    BY <2>1 DEF ReleaseOwned, Owns
  <2>2. CASE ReleaseForeign(p)
    BY <2>2 DEF ReleaseForeign
  <2>3. CASE RemoveDirectory(p)
    BY <2>3 DEF RemoveDirectory
  <2>4. CASE RemoveFails(p)
    BY <2>4 DEF RemoveFails
  <2>5. QED BY <1>5, <2>1, <2>2, <2>3, <2>4 DEF Release
<1>6. ASSUME NEW p \in Procs, Heartbeat(p) PROVE SetupIsAlone' /\ TokensInOrder'
  BY <1>6 DEF Heartbeat, Valid, Owns
<1>7. ASSUME NEW p \in Procs, Crash(p) PROVE SetupIsAlone' /\ TokensInOrder'
  BY <1>7 DEF Crash
<1>8. CASE Lapse
  BY <1>8 DEF Lapse, Tame
<1>9. CASE UNCHANGED leaseVars
  BY <1>9 DEF leaseVars
<1>10. QED
  BY <1>1, <1>2, <1>3, <1>4, <1>5, <1>6, <1>7, <1>8, <1>9 DEF LeaseNext, Step

\* Without disturbances a lease is alone from mkdir to the end of release.
LEMMA CalmInductive ==
  ASSUME LeaseTypeOK, TokensWhereDue, SetupIsAlone, TokensInOrder, WorkIsAlone,
         upset' = {}, [LeaseNext]_leaseVars
  PROVE  WorkIsAlone'
<1> USE DEF LeaseTypeOK, TokensWhereDue, SetupIsAlone, WorkIsAlone, Control,
        Holding, Setup, Working, Committed, Present, HasOwner, Goto, Leave
<1>1. ASSUME NEW p \in Procs, Start(p) PROVE WorkIsAlone'
  BY <1>1 DEF Start
<1>2. ASSUME NEW p \in Procs, Compete(p) PROVE WorkIsAlone'
  <2>1. CASE MakeDirectory(p)
    <3>1. ASSUME NEW q \in Procs, pc[q] \in Working PROVE FALSE
      <4>1. leaseDir = [by |-> q, token |-> token[q], lapsed |-> FALSE]
        BY <3>1
      <4>2. Present /\ ~leaseDir.lapsed
        BY <4>1, FreshDirectory
      <4>3. QED BY <2>1, <4>2 DEF MakeDirectory
    <3>2. QED BY <2>1, <3>1 DEF MakeDirectory
  <2>2. CASE DirectoryExists(p)
    BY <2>2 DEF DirectoryExists
  <2>3. CASE OwnerExpired(p)
    BY <2>3 DEF OwnerExpired
  <2>4. CASE NoOwner(p)
    BY <2>4 DEF NoOwner
  <2>5. CASE Orphaned(p)
    <3>1. ASSUME NEW q \in Procs, pc[q] \in Working PROVE FALSE
      <4>1. leaseDir = [by |-> q, token |-> token[q], lapsed |-> FALSE]
        BY <3>1
      <4>2. Present /\ ~leaseDir.lapsed
        BY <4>1, FreshDirectory
      <4>3. QED BY <2>5, <4>2 DEF Orphaned
    <3>2. QED BY <2>5, <3>1 DEF Orphaned
  <2>6. CASE Retry(p)
    BY <2>6 DEF Retry, SeesLiveLease
  <2>7. CASE Refuse(p)
    BY <2>7 DEF Refuse, SeesLiveLease
  <2>8. CASE TakeOver(p)
    BY <2>8 DEF TakeOver
  <2>9. CASE Unavailable(p)
    BY <2>9 DEF Unavailable
  <2>10. QED BY <1>2, <2>1, <2>2, <2>3, <2>4, <2>5, <2>6, <2>7, <2>8, <2>9 DEF Compete
<1>3. ASSUME NEW p \in Procs, SetUp(p) PROVE WorkIsAlone'
  <2>1. CASE ReadFence(p)
    BY <2>1 DEF ReadFence
  <2>2. CASE WriteFence(p)
    BY <2>2 DEF WriteFence
  <2>3. CASE WriteOwner(p)
    <3>1. \A q \in Procs \ {p} : pc[q] \notin Holding \cup Committed
      BY <2>3 DEF WriteOwner
    <3>2. /\ leaseDir' = [by |-> p, token |-> token'[p], lapsed |-> FALSE]
          /\ pc' = [pc EXCEPT ![p] = "check"]
      BY <2>3 DEF WriteOwner
    <3>3. ASSUME NEW q \in Procs, pc'[q] \in Working PROVE q = p
      BY <3>1, <3>2, <3>3
    <3>4. \A q \in Procs \ {p} : pc'[q] \notin Holding \cup Committed
      BY <3>1, <3>2
    <3>5. QED BY <3>2, <3>3, <3>4
  <2>4. CASE SetupFails(p)
    BY <2>4 DEF SetupFails
  <2>5. QED BY <1>3, <2>1, <2>2, <2>3, <2>4 DEF SetUp
<1>4. ASSUME NEW p \in Procs, Operate(p) PROVE WorkIsAlone'
  <2>1. CASE EnterOperation(p)
    BY <2>1 DEF EnterOperation
  <2>2. CASE LostBeforeOperation(p)
    BY <2>2 DEF LostBeforeOperation
  <2>3. CASE RewriteOwner(p)
    <3>1. \A q \in Procs \ {p} : pc[q] \notin Holding \cup Committed
      BY <2>3 DEF RewriteOwner
    <3>2. /\ leaseDir' = [by |-> p, token |-> token'[p], lapsed |-> FALSE]
          /\ pc' = [pc EXCEPT ![p] = "check"]
      BY <2>3 DEF RewriteOwner
    <3>3. ASSUME NEW q \in Procs, pc'[q] \in Working PROVE q = p
      BY <3>1, <3>2, <3>3
    <3>4. \A q \in Procs \ {p} : pc'[q] \notin Holding \cup Committed
      BY <3>1, <3>2
    <3>5. QED BY <3>2, <3>3, <3>4
  <2>4. CASE FinishOperation(p)
    BY <2>4 DEF FinishOperation
  <2>5. CASE AbortOperation(p)
    BY <2>5 DEF AbortOperation
  <2>6. QED BY <1>4, <2>1, <2>2, <2>3, <2>4, <2>5 DEF Operate
<1>5. ASSUME NEW p \in Procs, Release(p) PROVE WorkIsAlone'
  <2>1. CASE ReleaseOwned(p)
    BY <2>1 DEF ReleaseOwned, Owns
  <2>2. CASE ReleaseForeign(p)
    BY <2>2 DEF ReleaseForeign
  <2>3. CASE RemoveDirectory(p)
    BY <2>3 DEF RemoveDirectory
  <2>4. CASE RemoveFails(p)
    BY <2>4 DEF RemoveFails
  <2>5. QED BY <1>5, <2>1, <2>2, <2>3, <2>4 DEF Release
<1>6. ASSUME NEW p \in Procs, Heartbeat(p) PROVE WorkIsAlone'
  BY <1>6 DEF Heartbeat, Valid, Owns
<1>7. ASSUME NEW p \in Procs, Crash(p) PROVE WorkIsAlone'
  BY <1>7 DEF Crash
<1>8. CASE Lapse
  BY <1>8 DEF Lapse
<1>9. CASE UNCHANGED leaseVars
  BY <1>9 DEF leaseVars
<1>10. QED
  BY <1>1, <1>2, <1>3, <1>4, <1>5, <1>6, <1>7, <1>8, <1>9 DEF LeaseNext, Step

-----------------------------------------------------------------------------
LEMMA LeaseInvInductive == LeaseInv /\ [LeaseNext]_leaseVars => LeaseInv'
<1> SUFFICES ASSUME LeaseInv, [LeaseNext]_leaseVars PROVE LeaseInv'
  OBVIOUS
<1>1. LeaseTypeOK' /\ TokensWhereDue'
  BY LeaseTypeInductive, TokensWhereDueInductive DEF LeaseInv
<1>2. ASSUME Tame' PROVE SetupIsAlone' /\ TokensInOrder'
  BY <1>2, TameInductive DEF LeaseInv
<1>3. ASSUME upset' = {} PROVE WorkIsAlone'
  <2>1. upset = {}
    BY <1>3, UpsetGrows
  <2>2. LeaseTypeOK /\ TokensWhereDue /\ SetupIsAlone /\ TokensInOrder /\ WorkIsAlone
    BY <2>1 DEF LeaseInv, Tame
  <2>3. QED BY <1>3, <2>2, CalmInductive
<1>4. QED BY <1>1, <1>2, <1>3 DEF LeaseInv

\* The inductive invariant holds in every reachable state.
THEOREM LeaseInvariant == LeaseSpec => []LeaseInv
<1>1. LeaseInit => LeaseInv
  <2> SUFFICES ASSUME LeaseInit PROVE LeaseInv
    OBVIOUS
  <2>1. LeaseTypeOK
    BY LeaseAssumption DEF LeaseInit, LeaseTypeOK, Control
  <2>2. TokensWhereDue /\ SetupIsAlone /\ WorkIsAlone
    BY DEF LeaseInit, TokensWhereDue, SetupIsAlone, WorkIsAlone, Setup, Working
  <2>3. TokensInOrder
    BY DEF LeaseInit, TokensInOrder, HasOwner, Present
  <2>4. QED BY <2>1, <2>2, <2>3 DEF LeaseInv
<1>2. QED
  BY <1>1, LeaseInvInductive, PTL DEF LeaseSpec

\* At most one process is between mkdir and the end of its release as long
\* as no lease lapsed under its holder and no pending decision of acquire,
\* heartbeat or release was overtaken by a new directory.
THEOREM LeaseExclusion == LeaseSpec => []ExclusiveWhenCalm
<1>1. LeaseInv => ExclusiveWhenCalm
  BY DEF LeaseInv, ExclusiveWhenCalm, Tame, SetupIsAlone, WorkIsAlone, Holding
<1>2. QED
  BY <1>1, LeaseInvariant, PTL

\* Processes that hold leases at the same time because one of them stalled
\* never carry the same fencing token.
THEOREM TokenUniqueness == LeaseSpec => []TokensAreUnique
<1>1. LeaseInv => TokensAreUnique
  BY DEF LeaseInv, TokensAreUnique, Tame, TokensInOrder
<1>2. QED
  BY <1>1, LeaseInvariant, PTL

\* The record on disk is always the one of the newest grant.
THEOREM NewestOwner == LeaseSpec => []OwnerIsNewestGrant
<1>1. LeaseInv => OwnerIsNewestGrant
  BY DEF LeaseInv, OwnerIsNewestGrant, Tame, TokensInOrder
<1>2. QED
  BY <1>1, LeaseInvariant, PTL

\* Each grant is stamped with a token above every token in use.
THEOREM GrantOrder == LeaseSpec => GrantsIncrease
<1>1. LeaseInv /\ [LeaseNext]_leaseVars =>
        [\A p \in Procs :
           upset' \subseteq {"stalledWork"} /\ WriteFence(p)
             => fence' > fence /\ \A q \in Procs : token'[p] > token[q]]_leaseVars
  <2> SUFFICES ASSUME LeaseInv, NEW p \in Procs,
                      upset' \subseteq {"stalledWork"}, WriteFence(p)
               PROVE  fence' > fence /\ \A q \in Procs : token'[p] > token[q]
    OBVIOUS
  <2>1. LeaseTypeOK /\ TokensInOrder
    BY DEF LeaseInv, Tame, WriteFence
  <2>2. fence \in Nat /\ fenceRead[p] = fence /\ token'[p] = fence + 1 /\ fence' = fence + 1
    BY <2>1 DEF LeaseTypeOK, TokensInOrder, WriteFence
  <2>3. \A q \in Procs : token[q] \in Nat /\ token[q] <= fence
    BY <2>1 DEF LeaseTypeOK, TokensInOrder
  <2>4. QED BY <2>2, <2>3
<1>2. QED
  BY <1>1, LeaseInvariant, PTL DEF LeaseSpec, GrantsIncrease

\* withLease accepts a result only while its token is the last one handed
\* out.
THEOREM ConfirmationOrder == LeaseSpec => ConfirmedByNewestGrant
<1>1. LeaseInv /\ [LeaseNext]_leaseVars =>
        [\A p \in Procs :
           upset' \subseteq {"stalledWork"} /\ ~confirmed[p] /\ confirmed'[p]
             => token[p] = fence]_leaseVars
  <2> SUFFICES ASSUME LeaseInv, [LeaseNext]_leaseVars, NEW p \in Procs,
                      upset' \subseteq {"stalledWork"}, ~confirmed[p], confirmed'[p]
               PROVE  token[p] = fence
    OBVIOUS
  <2>1. LeaseTypeOK /\ TokensInOrder
    BY UpsetGrows DEF LeaseInv, Tame
  <2>2. FinishOperation(p)
    <3> USE <2>1 DEF LeaseTypeOK
    <3>1. CASE confirmed' = confirmed
      BY <3>1
    <3>2. ASSUME NEW q \in Procs, confirmed' = [confirmed EXCEPT ![q] = FALSE] PROVE FALSE
      BY <3>2
    <3>3. ASSUME NEW q \in Procs, FinishOperation(q) PROVE FinishOperation(p)
      BY <3>3 DEF FinishOperation
    <3>4. ASSUME NEW q \in Procs, Start(q) \/ Compete(q) \/ Heartbeat(q)
          PROVE  confirmed' = confirmed
      BY <3>4 DEF Start, Compete, MakeDirectory, DirectoryExists, OwnerExpired, NoOwner,
         Orphaned, Retry, Refuse, TakeOver, Unavailable, Heartbeat
    <3>5. ASSUME NEW q \in Procs, SetUp(q) \/ Release(q) \/ Crash(q)
          PROVE  \/ confirmed' = confirmed
                 \/ confirmed' = [confirmed EXCEPT ![q] = FALSE]
      BY <3>5 DEF SetUp, ReadFence, WriteFence, WriteOwner, SetupFails, Release,
         ReleaseOwned, ReleaseForeign, RemoveDirectory, RemoveFails, Crash, Leave
    <3>6. ASSUME NEW q \in Procs, Operate(q)
          PROVE  confirmed' = confirmed \/ FinishOperation(q)
      BY <3>6 DEF Operate, EnterOperation, LostBeforeOperation, RewriteOwner, AbortOperation
    <3>7. Lapse \/ UNCHANGED leaseVars => confirmed' = confirmed
      BY DEF Lapse, leaseVars
    <3>8. QED
      BY <3>1, <3>2, <3>3, <3>4, <3>5, <3>6, <3>7 DEF LeaseNext, Step
  <2>3. Valid(p)
    BY <2>1, <2>2 DEF FinishOperation, LeaseTypeOK
  <2>4. QED BY <2>1, <2>3 DEF Valid, Owns, TokensInOrder
<1>2. QED
  BY <1>1, LeaseInvariant, PTL DEF LeaseSpec, ConfirmedByNewestGrant

-----------------------------------------------------------------------------
(* The writes: every step of CoordinatedWrites is a step of the lease.      *)

LEMMA StepIsLeaseStep == [Next]_vars => [LeaseNext]_leaseVars
<1> SUFFICES ASSUME [Next]_vars PROVE [LeaseNext]_leaseVars
  OBVIOUS
<1>1. ASSUME NEW p \in Procs, Coordinate(p) PROVE LeaseNext
  BY <1>1 DEF Coordinate, LeaseNext, Step, Operate, Release
<1>2. ASSUME NEW p \in Procs, Enter(p) \/ Finish(p) \/ Abort(p) PROVE LeaseNext
  BY <1>2 DEF Enter, Finish, Abort, LeaseNext, Step, Operate
<1>3. ASSUME NEW p \in Procs, Operation(p) PROVE UNCHANGED leaseVars
  BY <1>3 DEF Operation, ListToLoad, ReadListed, RejectSave, AllowSave, WriteVersion,
     WriteFails, ListToPrune, PruneOne, SaveAgain, CarryOn
<1>4. ASSUME NEW p \in Procs, Answer(p) \/ AnswerUnavailable(p) \/ CrashWriter(p)
      PROVE  LeaseNext
  BY <1>4 DEF Answer, AnswerUnavailable, CrashWriter, LeaseNext, Step, Release
<1>5. ASSUME NEW r \in Readers, ReaderLists(r) \/ ReaderReads(r) \/ ReaderFails(r)
      PROVE  UNCHANGED leaseVars
  BY <1>5 DEF ReaderLists, ReaderReads, ReaderFails, EndRead
<1>6. CASE Lapse /\ UNCHANGED storeVars
  BY <1>6 DEF LeaseNext
<1>7. CASE UNCHANGED vars
  BY <1>7 DEF vars
<1>8. QED BY <1>1, <1>2, <1>3, <1>4, <1>5, <1>6, <1>7 DEF Next

\* The writes use the lease as FileLease specifies it: its theorems carry
\* over.
THEOREM WritesUseLease == Spec => LeaseSpec
<1>1. Init => LeaseInit
  BY DEF Init
<1>2. QED BY <1>1, StepIsLeaseStep, PTL DEF Spec, LeaseSpec

-----------------------------------------------------------------------------
\* Every reachable state of the store is well typed.
LEMMA StoreTypeInductive ==
  LeaseInv /\ StoreTypeOK /\ [Next]_vars => StoreTypeOK'
<1> SUFFICES ASSUME LeaseInv, StoreTypeOK, [Next]_vars PROVE StoreTypeOK'
  OBVIOUS
<1>0. \A p \in Procs : token[p] \in Nat /\ Op(p) \in Ops
  BY DEF LeaseInv, LeaseTypeOK, Op, Ops
<1> USE DEF StoreTypeOK, Tokens, Stages, Advance
<1>1. ASSUME UNCHANGED storeVars PROVE StoreTypeOK'
  BY <1>1 DEF storeVars, opVars, readVars
<1>2. ASSUME NEW p \in Procs, Enter(p) PROVE StoreTypeOK'
  BY <1>2 DEF Enter, readVars
<1>3. ASSUME NEW p \in Procs, Operation(p) PROVE StoreTypeOK'
  <2>1. CASE ListToLoad(p)
    BY <2>1 DEF ListToLoad, readVars, IsNewest
  <2>2. CASE ReadListed(p)
    BY <2>2 DEF ReadListed, readVars, NoVersion
  <2>3. CASE RejectSave(p) \/ AllowSave(p) \/ WriteFails(p) \/ SaveAgain(p) \/ CarryOn(p)
    BY <2>3 DEF RejectSave, AllowSave, WriteFails, SaveAgain, CarryOn, readVars
  <2>4. CASE WriteVersion(p)
    <3>1. token[p] \in Nat \ {0} /\ base[p] \cup {Op(p)} \subseteq Ops
      BY <1>0, <2>4 DEF WriteVersion, Running, LeaseInv, TokensWhereDue, Working
    <3>2. versions' = [t \in DOMAIN versions \cup {token[p]} |->
                         IF t = token[p] THEN base[p] \cup {Op(p)} ELSE versions[t]]
      BY <2>4 DEF WriteVersion
    <3>3. IsFiniteSet(DOMAIN versions \cup {token[p]})
      BY FS_AddElement
    <3>4. UNCHANGED <<listed, base, doomed, acked, readVars>>
      BY <2>4 DEF WriteVersion
    <3>5. stage' = [stage EXCEPT ![p] = "prune"] /\ durable' = [durable EXCEPT ![p] = TRUE]
      BY <2>4 DEF WriteVersion
    <3>6. QED BY <3>1, <3>2, <3>3, <3>4, <3>5 DEF readVars
  <2>5. CASE ListToPrune(p)
    BY <2>5 DEF ListToPrune, readVars, BeyondRetained
  <2>6. CASE PruneOne(p)
    <3>1. PICK t \in doomed[p] :
            /\ doomed' = [doomed EXCEPT ![p] = @ \ {t}]
            /\ \/ versions' = [u \in DOMAIN versions \ {t} |-> versions[u]]
               \/ UNCHANGED versions
      BY <2>6 DEF PruneOne
    <3>2. UNCHANGED <<stage, listed, base, durable, acked, readVars>>
      BY <2>6 DEF PruneOne
    <3>3. IsFiniteSet(DOMAIN versions \ {t})
      BY FS_RemoveElement
    <3>4. IsFiniteSet(DOMAIN versions')
      BY <3>1, <3>3
    <3>5. QED BY <3>1, <3>2, <3>4 DEF readVars
  <2>7. QED BY <1>3, <2>1, <2>2, <2>3, <2>4, <2>5, <2>6 DEF Operation
<1>4. ASSUME NEW p \in Procs, Answer(p) \/ AnswerUnavailable(p) \/ CrashWriter(p)
      PROVE  StoreTypeOK'
  <2>1. UNCHANGED <<versions, reading, known>>
    BY <1>4 DEF Answer, AnswerUnavailable, CrashWriter, readVars
  <2>2. ForgetOperation(p)
    BY <1>4 DEF Answer, AnswerUnavailable, CrashWriter
  <2>3. acked' \subseteq acked \cup {Op(p)}
    BY <1>4 DEF Answer, AnswerUnavailable, CrashWriter
  <2>4. QED BY <1>0, <2>1, <2>2, <2>3 DEF ForgetOperation, NoVersion
<1>5. ASSUME NEW r \in Readers, ReaderLists(r) \/ ReaderReads(r) \/ ReaderFails(r)
      PROVE  StoreTypeOK'
  BY <1>5 DEF ReaderLists, ReaderReads, ReaderFails, EndRead, NoVersion, opVars
<1>6. QED
  BY <1>1, <1>2, <1>3, <1>4, <1>5 DEF Next, vars, Coordinate, Finish, Abort

-----------------------------------------------------------------------------
(* The inductive invariant of the writes.                                   *)

\* An operation was entered and its call is not over.
Busy == {"held", "release", "remove"}

\* The version the operation of p writes.
Tip(p) == base[p] \cup {Op(p)}

\* The operation has its state and may still write it.
Loaded(p) ==
  /\ pc[p] = "held"
  /\ stage[p] \in {"check", "write", "prune", "saved"} \/ durable[p]

\* The operation is about to read the version it listed.
Reading(p) == pc[p] = "held" /\ stage[p] = "read"

\* What p writes is what the next load returns.
MayLead(p) == \A t \in Tokens : t <= token[p]

\* The operations whose result was accepted, told to the caller or not yet.
Settled == acked \cup {Op(p) : p \in {q \in Procs : confirmed[q]}}

Newer(t) == {u \in Tokens : u > t}

StageFitsLease ==
  \A p \in Procs :
    /\ pc[p] \notin Busy => stage[p] = "none"
    /\ confirmed[p] => pc[p] \in {"release", "remove"}
    /\ stage[p] \in {"none", "load", "read"} => ~durable[p]
    /\ stage[p] \in {"prune", "saved"} => durable[p]
    /\ stage[p] = "read" => listed[p] # NoVersion

\* There is a newest version, and what is about to be pruned is not needed.
NewestStays ==
  /\ Tokens # {} => \E t \in Tokens : IsNewest(t)
  /\ \A p \in Procs : \A t \in doomed[p] : Cardinality(Newer(t)) >= Retained

TokensGranted ==
  /\ \A t \in Tokens : t <= fence
  /\ \A p \in Procs : listed[p] <= fence
  /\ \A r \in Readers : reading[r] <= fence

\* The version of a token is the one its operation writes, and as long as
\* the operation runs a version at least as new is there.
OwnVersions ==
  \A p \in Procs :
    /\ token[p] \in Tokens => durable[p] /\ versions[token[p]] = Tip(p)
    /\ durable[p] => \E u \in Tokens : u >= token[p]

\* Version t has the operations S, also when it is written again.
Keeps(t, S) ==
  /\ t \in Tokens => S \subseteq versions[t]
  /\ \A p \in Procs : token[p] = t => durable[p] /\ S \subseteq Tip(p)

\* What is settled is in the newest version, and in what every operation
\* that could write a newer one has loaded or will read.
SettledStays ==
  /\ Tokens = {} => Settled = {}
  /\ \A t \in Tokens : IsNewest(t) => Settled \subseteq versions[t]
  /\ \A p \in Procs : Loaded(p) /\ MayLead(p) => Settled \subseteq Tip(p)
  /\ \A p \in Procs : Reading(p) /\ MayLead(p) => Keeps(listed[p], Settled)

KnownStays ==
  \A r \in Readers : reading[r] # NoVersion => Keeps(reading[r], known[r])

\* Without disturbances the operation works on the newest version.
WorksOnNewest ==
  \A p \in Procs :
    /\ Loaded(p) => \A t \in Tokens : IsNewest(t) => versions[t] \subseteq Tip(p)
    /\ Reading(p) => IsNewest(listed[p])

WritesInv ==
  /\ LeaseInv
  /\ StoreTypeOK
  /\ StageFitsLease
  /\ NewestStays
  /\ PrunedOnlyWhenSuperseded
  /\ Tame => TokensGranted /\ OwnVersions /\ SettledStays /\ KnownStays
  /\ upset = {} => WorksOnNewest

-----------------------------------------------------------------------------
(* What the steps do to the lease of the processes.                         *)

\* The lease moves on without an operation being entered or confirmed.
LeaseMoves ==
  \A q \in Procs :
    /\ pc[q] \in Busy => pc'[q] \in Busy /\ token'[q] = token[q]
    /\ pc'[q] = "held" => pc[q] = "held"
    /\ confirmed'[q] => confirmed[q]

\* A token is kept, dropped or new.
TokensMove ==
  /\ fence \in Nat /\ fence' \in Nat /\ fence <= fence'
  /\ \A q \in Procs : token'[q] \in {token[q], 0} \/ token'[q] > fence

LEMMA LeaseSteps ==
  ASSUME LeaseInv,
         \/ \E p \in Procs : Coordinate(p) \/ Abort(p)
         \/ Lapse
         \/ UNCHANGED leaseVars
  PROVE  LeaseMoves /\ (Tame => TokensMove)
<1> USE DEF LeaseInv, LeaseTypeOK, LeaseMoves, TokensMove, Busy, Goto, Leave
<1>1. ASSUME NEW p \in Procs, Start(p) PROVE LeaseMoves /\ TokensMove
  BY <1>1 DEF Start
<1>2. ASSUME NEW p \in Procs, Compete(p) PROVE LeaseMoves /\ TokensMove
  <2>1. CASE MakeDirectory(p)
    BY <2>1 DEF MakeDirectory
  <2>2. CASE DirectoryExists(p) \/ OwnerExpired(p) \/ NoOwner(p) \/ Orphaned(p)
    BY <2>2 DEF DirectoryExists, OwnerExpired, NoOwner, Orphaned
  <2>3. CASE Retry(p) \/ Refuse(p)
    BY <2>3 DEF Retry, Refuse, SeesLiveLease
  <2>4. CASE TakeOver(p) \/ Unavailable(p)
    BY <2>4 DEF TakeOver, Unavailable
  <2>5. QED BY <1>2, <2>1, <2>2, <2>3, <2>4 DEF Compete
<1>3. ASSUME NEW p \in Procs, SetUp(p) PROVE LeaseMoves /\ (Tame => TokensMove)
  <2>1. CASE ReadFence(p)
    BY <2>1 DEF ReadFence
  <2>2. CASE WriteFence(p)
    BY <2>2 DEF WriteFence, TokensInOrder
  <2>3. CASE WriteOwner(p)
    BY <2>3 DEF WriteOwner
  <2>4. CASE SetupFails(p)
    BY <2>4 DEF SetupFails, Setup
  <2>5. QED BY <1>3, <2>1, <2>2, <2>3, <2>4 DEF SetUp
<1>4. ASSUME NEW p \in Procs, LostBeforeOperation(p) \/ ReleaseOwned(p) \/ AbortOperation(p)
      PROVE  LeaseMoves /\ TokensMove
  BY <1>4 DEF LostBeforeOperation, ReleaseOwned, AbortOperation
<1>5. CASE Lapse
  BY <1>5 DEF Lapse
<1>6. CASE UNCHANGED leaseVars
  BY <1>6 DEF leaseVars
<1>7. QED
  BY <1>1, <1>2, <1>3, <1>4, <1>5, <1>6 DEF Coordinate, Abort

\* The call of p is over, and with it what only the operation knew.
CallEnds(p) ==
  /\ pc[p] # "idle"
  /\ Leave(p)
  /\ ForgetOperation(p)
  /\ acked' \in {acked, acked \cup {Op(p)}}
  /\ confirmed[p] \/ acked' = acked
  /\ UNCHANGED <<fence, versions, readVars>>

LEMMA CallsEnd ==
  ASSUME NEW p \in Procs, Answer(p) \/ AnswerUnavailable(p) \/ CrashWriter(p)
  PROVE  CallEnds(p)
<1>1. CASE Answer(p)
  BY <1>1 DEF Answer, CallEnds, ReleaseForeign, RemoveDirectory
<1>2. CASE AnswerUnavailable(p)
  BY <1>2 DEF AnswerUnavailable, CallEnds, RemoveFails
<1>3. CASE CrashWriter(p)
  BY <1>3 DEF CrashWriter, CallEnds, Crash
<1>4. QED BY <1>1, <1>2, <1>3

-----------------------------------------------------------------------------
(* The versions on disk: what pruning leaves.                               *)

\* Only saves and prunings change the versions.
LEMMA VersionSteps ==
  ASSUME [Next]_vars
  PROVE  \/ versions' = versions
         \/ \E p \in Procs : WriteVersion(p) \/ PruneOne(p)
<1>1. ASSUME NEW p \in Procs, Operation(p)
      PROVE  versions' = versions \/ WriteVersion(p) \/ PruneOne(p)
  BY <1>1 DEF Operation, ListToLoad, ReadListed, RejectSave, AllowSave, WriteFails,
     ListToPrune, SaveAgain, CarryOn
<1>2. ASSUME NEW p \in Procs,
             \/ Coordinate(p) \/ Enter(p) \/ Finish(p) \/ Abort(p)
             \/ Answer(p) \/ AnswerUnavailable(p) \/ CrashWriter(p)
      PROVE  versions' = versions
  BY <1>2 DEF Coordinate, Enter, Finish, Abort, Answer, AnswerUnavailable, CrashWriter, storeVars
<1>3. ASSUME NEW r \in Readers, ReaderLists(r) \/ ReaderReads(r) \/ ReaderFails(r)
      PROVE  versions' = versions
  BY <1>3 DEF ReaderLists, ReaderReads, ReaderFails, EndRead
<1>4. QED BY <1>1, <1>2, <1>3 DEF Next, vars, storeVars

\* There is only one newest version.
LEMMA NewestUnique ==
  ASSUME StoreTypeOK, NEW t, NEW u, IsNewest(t), IsNewest(u)
  PROVE  t = u
BY DEF StoreTypeOK, IsNewest

LEMMA NewerFinite ==
  ASSUME StoreTypeOK, NEW t \in Nat
  PROVE  IsFiniteSet(Newer(t)) /\ Cardinality(Newer(t)) \in Nat
<1>1. Newer(t) \subseteq Tokens /\ IsFiniteSet(Tokens)
  BY DEF StoreTypeOK, Newer
<1>2. QED BY <1>1, FS_Subset, FS_CardinalityType

\* A version with Retained newer ones has a newer one.
LEMMA SomeNewer ==
  ASSUME NEW t, Cardinality(Newer(t)) >= Retained
  PROVE  \E u \in Tokens : u > t
<1>1. Newer(t) # {}
  BY FS_EmptySet, RetainedAssumption
<1>2. QED BY <1>1 DEF Newer

\* What PruneOne does.
LEMMA PruneEffect ==
  ASSUME NEW p \in Procs, StoreTypeOK, NewestStays, PruneOne(p)
  PROVE  \E t \in Nat \ {0} :
           /\ Cardinality(Newer(t)) >= Retained
           /\ \/ versions' = versions
              \/ versions' = [u \in Tokens \ {t} |-> versions[u]]
<1>1. PICK t \in doomed[p] : \/ versions' = [u \in Tokens \ {t} |-> versions[u]]
                             \/ versions' = versions
  BY DEF PruneOne
<1>2. t \in Nat \ {0} /\ Cardinality(Newer(t)) >= Retained
  BY DEF StoreTypeOK, NewestStays
<1>3. QED BY <1>1, <1>2

\* However the prunings of several operations overlap, a version that has
\* Retained newer ones goes on having them.
LEMMA CountsStay ==
  ASSUME StoreTypeOK, StoreTypeOK', NewestStays, [Next]_vars,
         NEW t \in Nat, Cardinality(Newer(t)) >= Retained
  PROVE  Cardinality(Newer(t)') >= Retained
<1>1. CASE versions' = versions
  BY <1>1 DEF Newer, Tokens
<1>2. ASSUME NEW p \in Procs, WriteVersion(p) PROVE Cardinality(Newer(t)') >= Retained
  <2>1. Newer(t) \subseteq Newer(t)'
    BY <1>2 DEF WriteVersion, Newer, Tokens
  <2>2. IsFiniteSet(Newer(t)') /\ Cardinality(Newer(t)') \in Nat
    <3>1. Newer(t)' \subseteq Tokens' /\ IsFiniteSet(Tokens')
      BY DEF StoreTypeOK, Newer
    <3>2. QED BY <3>1, FS_Subset, FS_CardinalityType
  <2>3. Cardinality(Newer(t)) <= Cardinality(Newer(t)') /\ Cardinality(Newer(t)) \in Nat
    BY <2>1, <2>2, FS_Subset, NewerFinite
  <2>4. QED BY <2>2, <2>3, RetainedAssumption
<1>3. ASSUME NEW p \in Procs, PruneOne(p) PROVE Cardinality(Newer(t)') >= Retained
  <2>1. PICK u \in Nat \ {0} :
          /\ Cardinality(Newer(u)) >= Retained
          /\ \/ versions' = versions
             \/ versions' = [v \in Tokens \ {u} |-> versions[v]]
    BY <1>3, PruneEffect
  <2>2. CASE versions' = versions
    BY <2>2, <1>1
  <2>3. CASE versions' = [v \in Tokens \ {u} |-> versions[v]]
    <3>1. Newer(t)' = Newer(t) \ {u}
      BY <2>3 DEF Newer, Tokens
    <3>2. CASE u > t
      <4>1. Newer(u) \subseteq Newer(t)'
        <5>1. \A v \in Tokens : v \in Nat /\ (v > u => v > t /\ v # u)
          BY <3>2 DEF StoreTypeOK
        <5>2. Newer(u) \subseteq Newer(t) \ {u}
          BY <5>1 DEF Newer
        <5>3. QED BY <3>1, <5>2
      <4>2. IsFiniteSet(Newer(t)')
        BY <3>1, NewerFinite, FS_Subset
      <4>3. Cardinality(Newer(u)) <= Cardinality(Newer(t)')
        BY <4>1, <4>2, FS_Subset
      <4>4. Cardinality(Newer(u)) \in Nat /\ Cardinality(Newer(t)') \in Nat
        BY <4>2, NewerFinite, FS_CardinalityType
      <4>5. QED BY <2>1, <4>3, <4>4, RetainedAssumption
    <3>3. CASE ~(u > t)
      BY <3>1, <3>3 DEF Newer
    <3>4. QED BY <3>2, <3>3
  <2>4. QED BY <2>1, <2>2, <2>3
<1>4. QED BY <1>1, <1>2, <1>3, VersionSteps

\* A version disappears only when Retained newer ones are there.
LEMMA GoneMeansSuperseded ==
  ASSUME StoreTypeOK, StoreTypeOK', NewestStays, [Next]_vars,
         NEW t \in Tokens, t \notin Tokens'
  PROVE  Cardinality(Newer(t)') >= Retained
<1>1. t \in Nat
  BY DEF StoreTypeOK
<1>2. PICK p \in Procs : PruneOne(p)
  BY VersionSteps DEF WriteVersion, Tokens
<1>3. PICK u \in Nat \ {0} :
        /\ Cardinality(Newer(u)) >= Retained
        /\ \/ versions' = versions
           \/ versions' = [v \in Tokens \ {u} |-> versions[v]]
  BY <1>2, PruneEffect
<1>4. t = u
  BY <1>3 DEF Tokens
<1>5. QED BY <1>1, <1>3, <1>4, CountsStay

\* The versions of a step are those before it as far as the newest goes.
LEMMA TokensReach ==
  ASSUME StoreTypeOK, StoreTypeOK', NewestStays, [Next]_vars, NEW t \in Tokens
  PROVE  \E u \in Tokens' : u >= t
<1>1. t \in Nat
  BY DEF StoreTypeOK
<1>2. CASE t \in Tokens'
  BY <1>1, <1>2
<1>3. CASE t \notin Tokens'
  <2>1. Newer(t)' # {}
    BY <1>3, GoneMeansSuperseded, FS_EmptySet, RetainedAssumption
  <2>2. PICK u \in Tokens' : u > t
    BY <2>1 DEF Newer
  <2>3. u \in Nat
    BY DEF StoreTypeOK
  <2>4. QED BY <1>1, <2>2, <2>3
<1>4. QED BY <1>2, <1>3

-----------------------------------------------------------------------------
(* The parts of the invariant that no disturbance can break.                *)

LEMMA StageInductive ==
  LeaseInv /\ StoreTypeOK /\ StageFitsLease /\ [Next]_vars => StageFitsLease'
<1> SUFFICES ASSUME LeaseInv, StoreTypeOK, StageFitsLease, [Next]_vars PROVE StageFitsLease'
  OBVIOUS
<1> USE DEF StageFitsLease, StoreTypeOK, Advance
<1>0. pc \in [Procs -> Control] /\ confirmed \in [Procs -> BOOLEAN]
  BY DEF LeaseInv, LeaseTypeOK
<1>1. ASSUME LeaseMoves, UNCHANGED storeVars PROVE StageFitsLease'
  BY <1>0, <1>1 DEF LeaseMoves, storeVars, opVars, Busy
<1>2. ASSUME NEW p \in Procs, Coordinate(p) \/ Abort(p) PROVE StageFitsLease'
  BY <1>1, <1>2, LeaseSteps DEF Coordinate, Abort
<1>3. ASSUME NEW p \in Procs, Enter(p) PROVE StageFitsLease'
  BY <1>0, <1>3 DEF Enter, EnterOperation, Goto, Busy
<1>4. ASSUME NEW p \in Procs, Finish(p) PROVE StageFitsLease'
  <2>1. /\ pc' = [pc EXCEPT ![p] = "release"] /\ pc[p] = "held"
        /\ confirmed' = [confirmed EXCEPT ![p] = Valid(p)]
        /\ UNCHANGED <<stage, listed, durable>>
    BY <1>4 DEF Finish, FinishOperation, Goto, storeVars, opVars
  <2>2. QED BY <1>0, <2>1 DEF Busy
<1>5. ASSUME NEW p \in Procs, Operation(p) PROVE StageFitsLease'
  <2>0. pc' = pc /\ confirmed' = confirmed /\ pc[p] = "held"
    BY <1>5 DEF Operation, ListToLoad, ReadListed, RejectSave, AllowSave, WriteVersion,
       WriteFails, ListToPrune, PruneOne, SaveAgain, CarryOn, leaseVars, Running
  <2>1. CASE ListToLoad(p)
    BY <1>0, <2>0, <2>1 DEF ListToLoad, Busy, Running, IsNewest, NoVersion
  <2>2. CASE ReadListed(p)
    BY <1>0, <2>0, <2>2 DEF ReadListed, Busy, Running
  <2>3. CASE RejectSave(p) \/ AllowSave(p) \/ WriteFails(p) \/ SaveAgain(p) \/ CarryOn(p)
    BY <1>0, <2>0, <2>3 DEF RejectSave, AllowSave, WriteFails, SaveAgain, CarryOn, Busy, Running
  <2>4. CASE WriteVersion(p)
    BY <1>0, <2>0, <2>4 DEF WriteVersion, Busy, Running
  <2>5. CASE ListToPrune(p) \/ PruneOne(p)
    BY <1>0, <2>0, <2>5 DEF ListToPrune, PruneOne, Busy, Running
  <2>6. QED BY <1>5, <2>1, <2>2, <2>3, <2>4, <2>5 DEF Operation
<1>6. ASSUME NEW p \in Procs, Answer(p) \/ AnswerUnavailable(p) \/ CrashWriter(p)
      PROVE  StageFitsLease'
  <2>1. CallEnds(p)
    BY <1>6, CallsEnd
  <2>2. QED BY <1>0, <2>1 DEF CallEnds, Leave, Goto, ForgetOperation, Busy
<1>7. ASSUME NEW r \in Readers, ReaderLists(r) \/ ReaderReads(r) \/ ReaderFails(r)
      PROVE  StageFitsLease'
  BY <1>7 DEF ReaderLists, ReaderReads, ReaderFails, EndRead, opVars, leaseVars
<1>8. CASE Lapse /\ UNCHANGED storeVars
  BY <1>1, <1>8, LeaseSteps
<1>9. CASE UNCHANGED vars
  BY <1>9 DEF vars, storeVars, opVars, leaseVars
<1>10. QED
  BY <1>2, <1>3, <1>4, <1>5, <1>6, <1>7, <1>8, <1>9 DEF Next

\* What an operation is about to prune was listed by ListToPrune.
LEMMA DoomedSteps ==
  ASSUME StoreTypeOK, [Next]_vars, NEW p \in Procs, NEW t \in doomed'[p]
  PROVE  t \in doomed[p] \/ t \in BeyondRetained
<1> USE DEF StoreTypeOK
<1>1. ASSUME UNCHANGED doomed PROVE t \in doomed[p]
  BY <1>1
<1>2. ASSUME NEW q \in Procs, Operation(q) PROVE t \in doomed[p] \/ t \in BeyondRetained
  <2>1. CASE ListToPrune(q)
    BY <2>1 DEF ListToPrune
  <2>2. CASE PruneOne(q)
    BY <2>2 DEF PruneOne
  <2>3. QED
    BY <1>1, <1>2, <2>1, <2>2 DEF Operation, ListToLoad, ReadListed, RejectSave, AllowSave,
       WriteVersion, WriteFails, SaveAgain, CarryOn
<1>3. ASSUME NEW q \in Procs, Answer(q) \/ AnswerUnavailable(q) \/ CrashWriter(q)
      PROVE  t \in doomed[p]
  BY <1>3, CallsEnd DEF CallEnds, ForgetOperation
<1>4. ASSUME NEW q \in Procs, Coordinate(q) \/ Enter(q) \/ Finish(q) \/ Abort(q)
      PROVE  t \in doomed[p]
  BY <1>1, <1>4 DEF Coordinate, Enter, Finish, Abort, storeVars, opVars
<1>5. ASSUME NEW r \in Readers, ReaderLists(r) \/ ReaderReads(r) \/ ReaderFails(r)
      PROVE  t \in doomed[p]
  BY <1>1, <1>5 DEF ReaderLists, ReaderReads, ReaderFails, EndRead, opVars
<1>6. QED
  BY <1>1, <1>2, <1>3, <1>4, <1>5 DEF Next, vars, storeVars, opVars

LEMMA NewestInductive ==
  ASSUME StoreTypeOK, StoreTypeOK', NewestStays, [Next]_vars,
         \A p \in Procs : token[p] \in Nat
  PROVE  NewestStays'
<1>1. ASSUME Tokens' # {} PROVE \E t \in Tokens' : IsNewest(t)'
  <2>1. CASE versions' = versions
    BY <1>1, <2>1 DEF NewestStays, IsNewest, Tokens
  <2>2. ASSUME NEW p \in Procs, WriteVersion(p) PROVE \E t \in Tokens' : IsNewest(t)'
    <3>1. Tokens' = Tokens \cup {token[p]} /\ token[p] \in Nat /\ Tokens \subseteq Nat
      BY <2>2 DEF WriteVersion, Tokens, StoreTypeOK
    <3>2. CASE \A u \in Tokens : u <= token[p]
      BY <3>1, <3>2 DEF IsNewest
    <3>3. CASE ~(\A u \in Tokens : u <= token[p])
      <4>1. PICK u \in Tokens : ~(u <= token[p])
        BY <3>3
      <4>2. PICK t \in Tokens : \A v \in Tokens : v <= t
        BY <4>1 DEF NewestStays, IsNewest
      <4>3. token[p] <= t
        BY <3>1, <4>1, <4>2
      <4>4. QED BY <3>1, <4>2, <4>3 DEF IsNewest
    <3>4. QED BY <3>2, <3>3
  <2>3. ASSUME NEW p \in Procs, PruneOne(p) PROVE \E t \in Tokens' : IsNewest(t)'
    <3>1. PICK u \in Nat \ {0} :
            /\ Cardinality(Newer(u)) >= Retained
            /\ \/ versions' = versions
               \/ versions' = [v \in Tokens \ {u} |-> versions[v]]
      BY <2>3, PruneEffect
    <3>2. CASE versions' = [v \in Tokens \ {u} |-> versions[v]]
      <4>1. PICK w \in Tokens : w > u
        BY <3>1, SomeNewer
      <4>2. PICK t \in Tokens : \A v \in Tokens : v <= t
        BY <4>1 DEF NewestStays, IsNewest
      <4>3. t # u /\ Tokens' = Tokens \ {u}
        BY <3>2, <4>1, <4>2 DEF Tokens, StoreTypeOK
      <4>4. QED BY <4>2, <4>3 DEF IsNewest
    <3>3. QED BY <2>1, <3>1, <3>2
  <2>4. QED BY <2>1, <2>2, <2>3, VersionSteps
<1>2. ASSUME NEW p \in Procs, NEW t \in doomed'[p]
      PROVE  Cardinality(Newer(t)') >= Retained
  <2>1. t \in Nat
    BY DEF StoreTypeOK
  <2>2. Cardinality(Newer(t)) >= Retained
    <3>1. CASE t \in doomed[p]
      BY <3>1 DEF NewestStays
    <3>2. CASE t \in BeyondRetained
      BY <3>2 DEF BeyondRetained, Newer
    <3>3. QED BY <3>1, <3>2, DoomedSteps
  <2>3. QED BY <2>1, <2>2, CountsStay
<1>3. QED BY <1>1, <1>2 DEF NewestStays

\* An operation starts to read by listing the versions.
LEMMA ReadSteps ==
  ASSUME StoreTypeOK, [Next]_vars, NEW p \in Procs, stage'[p] = "read"
  PROVE  \/ stage[p] = "read" /\ listed'[p] = listed[p]
         \/ ListToLoad(p) /\ IsNewest(listed'[p])
<1> USE DEF StoreTypeOK, Advance
<1>1. ASSUME UNCHANGED <<stage, listed>> PROVE stage[p] = "read" /\ listed'[p] = listed[p]
  BY <1>1
<1>2. ASSUME NEW q \in Procs, q # p,
             UNCHANGED <<stage, listed>> \/ Operation(q) \/ Enter(q) \/ CallEnds(q)
      PROVE  stage[p] = "read" /\ listed'[p] = listed[p]
  <2>1. \E s : stage' = [stage EXCEPT ![q] = s]
    BY <1>2 DEF Operation, Enter, CallEnds, ForgetOperation, ListToLoad, ReadListed, RejectSave,
       AllowSave, WriteVersion, WriteFails, ListToPrune, PruneOne, SaveAgain, CarryOn
  <2>2. listed' = listed \/ \E n : listed' = [listed EXCEPT ![q] = n]
    BY <1>2 DEF Operation, Enter, CallEnds, ForgetOperation, ListToLoad, ReadListed, RejectSave,
       AllowSave, WriteVersion, WriteFails, ListToPrune, PruneOne, SaveAgain, CarryOn
  <2>3. QED BY <1>2, <2>1, <2>2
<1>3. ASSUME Operation(p)
      PROVE  \/ stage[p] = "read" /\ listed'[p] = listed[p]
             \/ ListToLoad(p) /\ IsNewest(listed'[p])
  <2>1. CASE ListToLoad(p)
    <3>1. Tokens # {}
      BY <2>1 DEF ListToLoad
    <3>2. PICK t \in Tokens : IsNewest(t) /\ listed' = [listed EXCEPT ![p] = t]
      BY <2>1, <3>1 DEF ListToLoad
    <3>3. QED BY <2>1, <3>2
  <2>2. CASE ReadListed(p)
    BY <2>2 DEF ReadListed
  <2>3. CASE PruneOne(p)
    BY <1>1, <2>3 DEF PruneOne
  <2>4. QED
    BY <1>3, <2>1, <2>2, <2>3 DEF Operation, RejectSave, AllowSave, WriteVersion,
       WriteFails, ListToPrune, SaveAgain, CarryOn
<1>4. ASSUME Enter(p) \/ CallEnds(p) PROVE FALSE
  BY <1>4 DEF Enter, CallEnds, ForgetOperation
<1>5. ASSUME NEW q \in Procs, Coordinate(q) \/ Finish(q) \/ Abort(q)
      PROVE  UNCHANGED <<stage, listed>>
  BY <1>5 DEF Coordinate, Finish, Abort, storeVars, opVars
<1>6. ASSUME NEW r \in Readers, ReaderLists(r) \/ ReaderReads(r) \/ ReaderFails(r)
      PROVE  UNCHANGED <<stage, listed>>
  BY <1>6 DEF ReaderLists, ReaderReads, ReaderFails, EndRead, opVars
<1>7. (Lapse /\ UNCHANGED storeVars) \/ UNCHANGED vars => UNCHANGED <<stage, listed>>
  BY DEF vars, storeVars, opVars
<1>8. QED
  BY <1>1, <1>2, <1>3, <1>4, <1>5, <1>6, <1>7, CallsEnd DEF Next

\* A reader starts by listing the versions.
LEMMA ReaderSteps ==
  ASSUME StoreTypeOK, [Next]_vars, NEW r \in Readers, reading'[r] # NoVersion
  PROVE  \/ reading'[r] = reading[r] /\ known'[r] = known[r]
         \/ ReaderLists(r) /\ IsNewest(reading'[r]) /\ known'[r] = acked
<1> USE DEF StoreTypeOK
<1>1. ASSUME UNCHANGED readVars PROVE reading'[r] = reading[r] /\ known'[r] = known[r]
  BY <1>1 DEF readVars
<1>2. ASSUME NEW p \in Procs,
             \/ Coordinate(p) \/ Enter(p) \/ Operation(p) \/ Finish(p) \/ Abort(p)
             \/ Answer(p) \/ AnswerUnavailable(p) \/ CrashWriter(p)
      PROVE  UNCHANGED readVars
  <2>1. CASE Operation(p)
    BY <2>1 DEF Operation, ListToLoad, ReadListed, RejectSave, AllowSave, WriteVersion,
       WriteFails, ListToPrune, PruneOne, SaveAgain, CarryOn
  <2>2. QED
    BY <1>2, <2>1 DEF Coordinate, Enter, Finish, Abort, Answer, AnswerUnavailable,
       CrashWriter, storeVars
<1>3. ASSUME NEW q \in Readers, ReaderLists(q)
      PROVE  \/ reading'[r] = reading[r] /\ known'[r] = known[r]
             \/ ReaderLists(r) /\ IsNewest(reading'[r]) /\ known'[r] = acked
  <2>1. PICK t \in Tokens : IsNewest(t) /\ reading' = [reading EXCEPT ![q] = t]
    BY <1>3 DEF ReaderLists
  <2>2. known' = [known EXCEPT ![q] = acked]
    BY <1>3 DEF ReaderLists
  <2>3. QED BY <1>3, <2>1, <2>2
<1>4. ASSUME NEW q \in Readers, ReaderReads(q) \/ ReaderFails(q)
      PROVE  reading'[r] = reading[r] /\ known'[r] = known[r]
  BY <1>4 DEF ReaderReads, ReaderFails, EndRead
<1>5. QED
  BY <1>1, <1>2, <1>3, <1>4 DEF Next, vars, storeVars

LEMMA PrunedInductive ==
  ASSUME StoreTypeOK, StoreTypeOK', NewestStays, PrunedOnlyWhenSuperseded, [Next]_vars
  PROVE  PrunedOnlyWhenSuperseded'
<1>1. ASSUME NEW t \in Nat, t \notin Tokens', t \notin Tokens => Cardinality(Newer(t)) >= Retained
      PROVE  Cardinality({u \in Tokens' : u > t}) >= Retained
  <2>1. Cardinality(Newer(t)') >= Retained
    BY <1>1, CountsStay, GoneMeansSuperseded
  <2>2. QED BY <2>1 DEF Newer
<1>2. ASSUME NEW p \in Procs, stage'[p] = "read", listed'[p] \notin Tokens'
      PROVE  Cardinality({u \in Tokens' : u > listed'[p]}) >= Retained
  <2>1. CASE stage[p] = "read" /\ listed'[p] = listed[p]
    <3>1. listed[p] \in Nat
      BY DEF StoreTypeOK
    <3>2. listed[p] \notin Tokens => Cardinality(Newer(listed[p])) >= Retained
      BY <2>1 DEF PrunedOnlyWhenSuperseded, Newer
    <3>3. \A t \in Nat : t = listed[p] => Cardinality({u \in Tokens' : u > t}) >= Retained
      BY <1>1, <1>2, <2>1, <3>2
    <3>4. QED BY <2>1, <3>1, <3>3
  <2>2. CASE ListToLoad(p) /\ IsNewest(listed'[p])
    BY <1>2, <2>2 DEF ListToLoad, IsNewest, Tokens
  <2>3. QED BY <1>2, <2>1, <2>2, ReadSteps
<1>3. ASSUME NEW r \in Readers, reading'[r] # NoVersion, reading'[r] \notin Tokens'
      PROVE  Cardinality({u \in Tokens' : u > reading'[r]}) >= Retained
  <2>1. CASE reading'[r] = reading[r]
    <3>1. reading[r] \in Nat
      BY DEF StoreTypeOK
    <3>2. reading[r] \notin Tokens => Cardinality(Newer(reading[r])) >= Retained
      BY <1>3, <2>1 DEF PrunedOnlyWhenSuperseded, Newer
    <3>3. \A t \in Nat : t = reading[r] => Cardinality({u \in Tokens' : u > t}) >= Retained
      BY <1>1, <1>3, <2>1, <3>2
    <3>4. QED BY <2>1, <3>1, <3>3
  <2>2. CASE ReaderLists(r) /\ IsNewest(reading'[r])
    BY <1>3, <2>2 DEF ReaderLists, IsNewest, Tokens
  <2>3. QED BY <1>3, <2>1, <2>2, ReaderSteps
<1>4. QED BY <1>2, <1>3 DEF PrunedOnlyWhenSuperseded

-----------------------------------------------------------------------------
(* The part of the invariant that the fencing tokens keep while holders     *)
(* stall.                                                                   *)

FencedInv == TokensGranted /\ OwnVersions /\ SettledStays /\ KnownStays

\* The step leaves what q knows and may do.
Same(q) ==
  /\ token'[q] = token[q]
  /\ base'[q] = base[q]
  /\ durable'[q] = durable[q]
  /\ listed'[q] = listed[q]
  /\ Loaded(q)' => Loaded(q)
  /\ Reading(q)' => Reading(q)

\* After the step q has no operation under way.
Aside(q) ==
  /\ token'[q] = 0 \/ token'[q] > fence
  /\ ~durable'[q]
  /\ listed'[q] <= fence
  /\ ~Loaded(q)'
  /\ ~Reading(q)'

\* A step that settles nothing, writes nothing and starts no read.
LEMMA QuietStep ==
  ASSUME StoreTypeOK, StageFitsLease, FencedInv,
         fence \in Nat, fence' \in Nat, fence <= fence',
         UNCHANGED <<versions, readVars>>,
         Settled' \subseteq Settled,
         \A q \in Procs : token[q] \in Nat /\ token'[q] \in Nat /\ listed'[q] \in Nat,
         \A q \in Procs : Same(q) \/ Aside(q)
  PROVE  FencedInv'
<1>0. /\ Tokens' = Tokens /\ versions' = versions
      /\ reading' = reading /\ known' = known
      /\ \A t \in Tokens : t \in Nat \ {0} /\ t <= fence
  BY DEF Tokens, readVars, StoreTypeOK, FencedInv, TokensGranted
<1>1. TokensGranted'
  <2>1. \A q \in Procs : listed[q] \in Nat /\ listed[q] <= fence /\ listed'[q] \in Nat
    BY DEF FencedInv, TokensGranted, StoreTypeOK
  <2>2. ASSUME NEW q \in Procs PROVE listed'[q] <= fence'
    BY <2>1 DEF Same, Aside
  <2>3. \A r \in Readers : reading[r] \in Nat /\ reading[r] <= fence
    BY DEF FencedInv, TokensGranted, StoreTypeOK
  <2>4. QED BY <1>0, <2>2, <2>3 DEF TokensGranted
<1>2. ASSUME NEW q \in Procs, Same(q) PROVE Tip(q)' = Tip(q) /\ MayLead(q)' = MayLead(q)
  BY <1>0, <1>2 DEF Tip, Op, Same, MayLead
<1>3. OwnVersions'
  <2>1. ASSUME NEW q \in Procs
        PROVE  /\ token'[q] \in Tokens' => durable'[q] /\ versions'[token'[q]] = Tip(q)'
               /\ durable'[q] => \E u \in Tokens' : u >= token'[q]
    <3>1. CASE Same(q)
      BY <1>0, <1>2, <3>1 DEF Same, FencedInv, OwnVersions
    <3>2. CASE Aside(q)
      BY <1>0, <3>2 DEF Aside
    <3>3. QED BY <3>1, <3>2
  <2>2. QED BY <2>1 DEF OwnVersions
<1>4. ASSUME NEW t \in Nat \ {0}, t <= fence, NEW S, NEW S1, S1 \subseteq S, Keeps(t, S)
      PROVE  /\ t \in Tokens' => S1 \subseteq versions'[t]
             /\ \A q \in Procs : token'[q] = t => durable'[q] /\ S1 \subseteq Tip(q)'
  <2>1. ASSUME NEW q \in Procs, token'[q] = t PROVE durable'[q] /\ S1 \subseteq Tip(q)'
    <3>1. Same(q)
      BY <1>4, <2>1 DEF Aside
    <3>2. QED BY <1>2, <1>4, <2>1, <3>1 DEF Same, Keeps
  <2>2. QED BY <1>0, <1>4, <2>1 DEF Keeps
<1>5. SettledStays'
  <2>1. Tokens' = {} => Settled' = {}
    BY <1>0 DEF FencedInv, SettledStays
  <2>2. ASSUME NEW t \in Tokens', IsNewest(t)' PROVE Settled' \subseteq versions'[t]
    BY <1>0, <2>2 DEF FencedInv, SettledStays, IsNewest
  <2>3. ASSUME NEW q \in Procs, Loaded(q)', MayLead(q)' PROVE Settled' \subseteq Tip(q)'
    <3>1. Same(q)
      BY <2>3 DEF Aside
    <3>2. QED BY <1>2, <2>3, <3>1 DEF Same, FencedInv, SettledStays
  <2>4. ASSUME NEW q \in Procs, Reading(q)', MayLead(q)' PROVE Keeps(listed[q], Settled)'
    <3>1. Same(q)
      BY <2>4 DEF Aside
    <3>2. Reading(q) /\ MayLead(q) /\ listed'[q] = listed[q]
      BY <1>2, <2>4, <3>1 DEF Same
    <3>3. Keeps(listed[q], Settled) /\ listed[q] \in Nat \ {0} /\ listed[q] <= fence
      BY <3>2 DEF FencedInv, SettledStays, TokensGranted, StageFitsLease, Reading, NoVersion,
         StoreTypeOK
    <3>4. QED BY <1>4, <3>2, <3>3 DEF Keeps
  <2>5. QED BY <2>1, <2>2, <2>3, <2>4 DEF SettledStays
<1>6. KnownStays'
  <2>1. ASSUME NEW r \in Readers, reading'[r] # NoVersion PROVE Keeps(reading[r], known[r])'
    <3>1. Keeps(reading[r], known[r]) /\ reading[r] \in Nat \ {0} /\ reading[r] <= fence
      BY <1>0, <2>1 DEF FencedInv, KnownStays, TokensGranted, StoreTypeOK, NoVersion
    <3>2. QED BY <1>0, <1>4, <3>1 DEF Keeps
  <2>2. QED BY <2>1 DEF KnownStays
<1>7. QED BY <1>1, <1>3, <1>5, <1>6 DEF FencedInv

\* The steps of the lease outside the operation are quiet.
LEMMA LeaseMovesQuiet ==
  ASSUME WritesInv, LeaseInv', Tame, LeaseMoves, TokensMove, UNCHANGED storeVars
  PROVE  FencedInv'
<1>0. FencedInv /\ StoreTypeOK /\ StageFitsLease
  BY DEF WritesInv, FencedInv
<1>1. UNCHANGED <<versions, stage, listed, base, durable, acked, readVars>>
  BY DEF storeVars, opVars
<1>2. \A q \in Procs : token[q] \in Nat /\ token'[q] \in Nat /\ listed'[q] \in Nat
  BY <1>0, <1>1 DEF WritesInv, LeaseInv, LeaseTypeOK, StoreTypeOK
<1>3. Settled' \subseteq Settled
  <2>1. \A q \in Procs : confirmed'[q] => confirmed[q] /\ token'[q] = token[q]
    BY <1>0 DEF LeaseMoves, StageFitsLease, Busy
  <2>2. QED BY <1>1, <2>1 DEF Settled, Op
<1>4. ASSUME NEW q \in Procs PROVE Same(q) \/ Aside(q)
  <2>1. CASE pc[q] \in Busy
    BY <1>1, <2>1 DEF LeaseMoves, Same, Loaded, Reading
  <2>2. CASE pc[q] \notin Busy
    <3>1. ~durable[q] /\ pc'[q] # "held" /\ stage[q] = "none"
      BY <1>0, <2>2 DEF StageFitsLease, LeaseMoves, Busy
    <3>2. ~durable'[q] /\ ~Loaded(q)' /\ ~Reading(q)' /\ listed'[q] <= fence
      BY <1>0, <1>1, <3>1 DEF Loaded, Reading, FencedInv, TokensGranted
    <3>3. CASE token'[q] = token[q]
      BY <1>1, <3>2, <3>3 DEF Same
    <3>4. CASE token'[q] = 0 \/ token'[q] > fence
      BY <3>2, <3>4 DEF Aside
    <3>5. QED BY <3>3, <3>4 DEF TokensMove
  <2>3. QED BY <2>1, <2>2
<1>5. QED BY <1>0, <1>1, <1>2, <1>3, <1>4, QuietStep DEF TokensMove

\* So are the beginning and the end of an operation.
LEMMA EnterQuiet ==
  ASSUME WritesInv, StoreTypeOK', NEW p \in Procs, Enter(p), Tame
  PROVE  FencedInv'
<1>0. FencedInv /\ StoreTypeOK /\ StageFitsLease /\ LeaseTypeOK
  BY DEF WritesInv, FencedInv, LeaseInv
<1>1. /\ UNCHANGED <<versions, listed, base, durable, acked, readVars, fence, token, confirmed>>
      /\ pc' = [pc EXCEPT ![p] = "held"] /\ pc[p] = "check"
      /\ stage' = [stage EXCEPT ![p] = "load"]
  BY DEF Enter, EnterOperation, Goto, Advance
<1>2. ~durable[p]
  BY <1>0, <1>1 DEF StageFitsLease, Busy
<1>3. Settled' \subseteq Settled
  BY <1>1 DEF Settled, Op
<1>4. ASSUME NEW q \in Procs PROVE Same(q)
  BY <1>0, <1>1, <1>2 DEF Same, Loaded, Reading, StoreTypeOK, LeaseTypeOK
<1>5. \A q \in Procs : token[q] \in Nat /\ token'[q] \in Nat /\ listed'[q] \in Nat
  BY <1>0, <1>1 DEF LeaseTypeOK, StoreTypeOK
<1>6. fence \in Nat /\ fence' \in Nat /\ fence <= fence'
  BY <1>0, <1>1 DEF LeaseTypeOK
<1>7. QED BY <1>0, <1>1, <1>3, <1>4, <1>5, <1>6, QuietStep

LEMMA EndQuiet ==
  ASSUME WritesInv, StoreTypeOK', NEW p \in Procs, CallEnds(p), Tame
  PROVE  FencedInv'
<1>0. FencedInv /\ StoreTypeOK /\ StageFitsLease /\ LeaseTypeOK
  BY DEF WritesInv, FencedInv, LeaseInv
<1>1. /\ UNCHANGED <<fence, versions, readVars>>
      /\ pc' = [pc EXCEPT ![p] = "idle"]
      /\ token' = [token EXCEPT ![p] = 0]
      /\ confirmed' = [confirmed EXCEPT ![p] = FALSE]
      /\ stage' = [stage EXCEPT ![p] = "none"]
      /\ listed' = [listed EXCEPT ![p] = 0]
      /\ base' = [base EXCEPT ![p] = {}]
      /\ durable' = [durable EXCEPT ![p] = FALSE]
  BY DEF CallEnds, Leave, Goto, ForgetOperation, Advance, NoVersion
<1>2. acked' \subseteq Settled
  BY <1>0 DEF CallEnds, Settled
<1>3. Settled' \subseteq Settled
  <2>1. \A q \in Procs : confirmed'[q] => confirmed[q] /\ token'[q] = token[q]
    BY <1>0, <1>1 DEF LeaseTypeOK
  <2>2. QED BY <1>2, <2>1 DEF Settled, Op
<1>4. fence \in Nat /\ fence' \in Nat /\ fence <= fence'
  BY <1>0, <1>1 DEF LeaseTypeOK
<1>5. ASSUME NEW q \in Procs PROVE Same(q) \/ Aside(q)
  <2>1. CASE q = p
    BY <1>0, <1>1, <1>4, <2>1 DEF Aside, Loaded, Reading, StoreTypeOK, LeaseTypeOK
  <2>2. CASE q # p
    BY <1>0, <1>1, <2>2 DEF Same, Loaded, Reading, StoreTypeOK, LeaseTypeOK
  <2>3. QED BY <2>1, <2>2
<1>6. \A q \in Procs : token[q] \in Nat /\ token'[q] \in Nat /\ listed'[q] \in Nat
  BY <1>0, <1>1 DEF LeaseTypeOK, StoreTypeOK
<1>7. QED BY <1>0, <1>1, <1>3, <1>4, <1>5, <1>6, QuietStep

\* A result is accepted from the newest grant, whose version is the newest.
LEMMA FinishFenced ==
  ASSUME WritesInv, StoreTypeOK', NEW p \in Procs, Finish(p), Tame
  PROVE  FencedInv'
<1>0. FencedInv /\ StoreTypeOK /\ StageFitsLease /\ LeaseTypeOK /\ TokensInOrder /\ TokensWhereDue
  BY DEF WritesInv, FencedInv, LeaseInv
<1>1. /\ UNCHANGED <<versions, stage, listed, base, durable, acked, reading, known, fence, token>>
      /\ pc' = [pc EXCEPT ![p] = "release"] /\ pc[p] = "held" /\ stage[p] = "saved"
      /\ confirmed' = [confirmed EXCEPT ![p] = Valid(p)]
  BY DEF Finish, FinishOperation, Goto, storeVars, opVars, readVars
<1>2. ASSUME NEW q \in Procs PROVE Same(q)
  BY <1>0, <1>1 DEF Same, Loaded, Reading, LeaseTypeOK
<1>3. \A q \in Procs : token[q] \in Nat /\ token'[q] \in Nat /\ listed'[q] \in Nat
  BY <1>0, <1>1 DEF LeaseTypeOK, StoreTypeOK
<1>4. CASE ~Valid(p)
  <2>1. Settled' \subseteq Settled
    BY <1>0, <1>1, <1>4 DEF Settled, Op, LeaseTypeOK
  <2>2. fence \in Nat /\ fence' \in Nat /\ fence <= fence'
    BY <1>0, <1>1 DEF LeaseTypeOK
  <2>3. UNCHANGED <<versions, readVars>>
    BY <1>1 DEF readVars
  <2>4. QED BY <1>0, <1>2, <1>3, <2>1, <2>2, <2>3, QuietStep
<1>5. CASE Valid(p)
  <2>1. token[p] = fence /\ fence \in Nat /\ token[p] > 0
    BY <1>0, <1>1, <1>5 DEF Valid, Owns, TokensInOrder, TokensWhereDue, Working, LeaseTypeOK
  <2>2. fence \in Tokens
    <3>1. PICK u \in Tokens : u >= token[p]
      BY <1>0, <1>1 DEF StageFitsLease, FencedInv, OwnVersions
    <3>2. u \in Nat /\ u <= fence
      BY <1>0 DEF FencedInv, TokensGranted, StoreTypeOK
    <3>3. QED BY <2>1, <3>1, <3>2
  <2>3. IsNewest(fence) /\ versions[fence] = Tip(p)
    BY <1>0, <2>1, <2>2 DEF FencedInv, TokensGranted, OwnVersions, IsNewest
  <2>4. Settled' \subseteq Settled \cup {Op(p)}
    BY <1>0, <1>1 DEF Settled, Op, LeaseTypeOK
  <2>5. Settled' \subseteq versions[fence]
    <3>1. Settled \subseteq versions[fence]
      BY <1>0, <2>2, <2>3 DEF FencedInv, SettledStays
    <3>2. QED BY <2>3, <2>4, <3>1 DEF Tip
  <2>6. ASSUME NEW q \in Procs, MayLead(q)' PROVE q = p
    <3>1. fence <= token[q] /\ token[q] \in Nat /\ token[q] <= fence
      BY <1>0, <1>1, <2>2, <2>6 DEF MayLead, Tokens, TokensInOrder, LeaseTypeOK
    <3>2. QED BY <1>0, <2>1, <3>1 DEF TokensInOrder
  <2>7. SettledStays'
    <3>1. Tokens' = Tokens /\ ~Loaded(p)' /\ ~Reading(p)'
      BY <1>0, <1>1 DEF Tokens, Loaded, Reading, LeaseTypeOK
    <3>2. ASSUME NEW t \in Tokens', IsNewest(t)' PROVE Settled' \subseteq versions'[t]
      <4>1. IsNewest(t)
        BY <1>1, <3>2 DEF IsNewest, Tokens
      <4>2. t = fence
        BY <1>0, <2>3, <4>1, NewestUnique
      <4>3. QED BY <1>1, <2>5, <4>2
    <3>3. QED BY <2>2, <2>6, <3>1, <3>2 DEF SettledStays
  <2>8. TokensGranted' /\ OwnVersions' /\ KnownStays'
    BY <1>0, <1>1 DEF FencedInv, TokensGranted, OwnVersions, KnownStays, Keeps, Tokens, Tip, Op
  <2>9. QED BY <2>7, <2>8 DEF FencedInv
<1>6. QED BY <1>4, <1>5

-----------------------------------------------------------------------------
(* The steps of the operation.                                              *)

LEMMA ListFenced ==
  ASSUME WritesInv, StoreTypeOK', NEW p \in Procs, ListToLoad(p), Tame
  PROVE  FencedInv'
<1>0. FencedInv /\ StoreTypeOK /\ StageFitsLease /\ LeaseTypeOK
  BY DEF WritesInv, FencedInv, LeaseInv
<1>1. /\ UNCHANGED <<pc, token, fence, confirmed, versions, base, durable, acked, reading, known>>
      /\ pc[p] = "held" /\ stage[p] = "load"
  BY DEF ListToLoad, Running, leaseVars, readVars
<1>2. /\ Tokens' = Tokens /\ Settled' = Settled
      /\ \A q \in Procs : Tip(q)' = Tip(q) /\ MayLead(q)' = MayLead(q)
  BY <1>1 DEF Tokens, Settled, Tip, Op, MayLead
<1>3. CASE Tokens = {}
  <2>1. stage' = [stage EXCEPT ![p] = "check"] /\ listed' = listed
    BY <1>3 DEF ListToLoad, Advance
  <2>2. Settled = {}
    BY <1>0, <1>3 DEF FencedInv, SettledStays
  <2>3. SettledStays'
    BY <1>2, <1>3, <2>2, <1>0, <1>1, <2>1 DEF SettledStays, Keeps, Reading, FencedInv, StoreTypeOK
  <2>4. TokensGranted' /\ OwnVersions' /\ KnownStays'
    BY <1>0, <1>1, <1>2, <2>1 DEF FencedInv, TokensGranted, OwnVersions, KnownStays, Keeps
  <2>5. QED BY <2>3, <2>4 DEF FencedInv
<1>4. CASE Tokens # {}
  <2>1. PICK t \in Tokens : /\ IsNewest(t)
                            /\ listed' = [listed EXCEPT ![p] = t]
                            /\ stage' = [stage EXCEPT ![p] = "read"]
    BY <1>4 DEF ListToLoad, Advance
  <2>2. t <= fence /\ Settled \subseteq versions[t]
    BY <1>0, <2>1 DEF FencedInv, TokensGranted, SettledStays
  <2>3. \A q \in Procs : token[q] = t => durable[q] /\ versions[t] = Tip(q)
    BY <1>0 DEF FencedInv, OwnVersions
  <2>4. ASSUME NEW q \in Procs, Loaded(q)' PROVE Loaded(q)
    BY <1>0, <1>1, <2>1, <2>4 DEF Loaded, StoreTypeOK
  <2>5. ASSUME NEW q \in Procs, Reading(q)', MayLead(q)' PROVE Keeps(listed[q], Settled)'
    <3>1. CASE q = p
      <4>1. listed'[q] = t
        BY <1>0, <2>1, <3>1 DEF StoreTypeOK
      <4>2. QED BY <1>1, <1>2, <2>2, <2>3, <4>1 DEF Keeps
    <3>2. CASE q # p
      <4>1. Reading(q) /\ listed'[q] = listed[q]
        BY <1>0, <1>1, <2>1, <2>5, <3>2 DEF Reading, StoreTypeOK
      <4>2. Keeps(listed[q], Settled)
        BY <1>0, <1>2, <2>5, <4>1 DEF FencedInv, SettledStays
      <4>3. QED BY <1>1, <1>2, <4>1, <4>2 DEF Keeps
    <3>3. QED BY <3>1, <3>2
  <2>6. ASSUME NEW u \in Tokens', IsNewest(u)' PROVE Settled' \subseteq versions'[u]
    BY <1>0, <1>1, <1>2, <2>6 DEF FencedInv, SettledStays, IsNewest
  <2>7. SettledStays'
    BY <1>0, <1>2, <1>4, <2>4, <2>5, <2>6 DEF FencedInv, SettledStays
  <2>8. TokensGranted'
    BY <1>0, <1>1, <1>2, <2>1, <2>2 DEF FencedInv, TokensGranted, StoreTypeOK
  <2>9. OwnVersions' /\ KnownStays'
    BY <1>0, <1>1, <1>2 DEF FencedInv, OwnVersions, KnownStays, Keeps
  <2>10. QED BY <2>7, <2>8, <2>9 DEF FencedInv
<1>5. QED BY <1>3, <1>4

LEMMA ReadFenced ==
  ASSUME WritesInv, StoreTypeOK', NEW p \in Procs, ReadListed(p), Tame
  PROVE  FencedInv'
<1>0. FencedInv /\ StoreTypeOK /\ StageFitsLease /\ LeaseTypeOK
  BY DEF WritesInv, FencedInv, LeaseInv
<1>1. /\ UNCHANGED <<pc, token, fence, confirmed, versions, durable, acked, reading, known>>
      /\ pc[p] = "held" /\ stage[p] = "read"
      /\ listed' = [listed EXCEPT ![p] = 0]
  BY DEF ReadListed, Running, leaseVars, readVars, NoVersion
<1>2. Tokens' = Tokens /\ Settled' = Settled /\ \A q \in Procs : MayLead(q)' = MayLead(q)
  BY <1>1 DEF Tokens, Settled, Op, MayLead
<1>3. ~durable[p] /\ token[p] \notin Tokens
  BY <1>0, <1>1 DEF StageFitsLease, FencedInv, OwnVersions
<1>4. ASSUME NEW q \in Procs, q # p
      PROVE  /\ Tip(q)' = Tip(q)
             /\ Loaded(q)' => Loaded(q)
             /\ Reading(q)' => Reading(q)
             /\ listed'[q] = listed[q]
  BY <1>0, <1>1, <1>4 DEF ReadListed, Advance, Tip, Op, Loaded, Reading, StoreTypeOK
<1>5. ASSUME NEW t, NEW S, Keeps(t, S)
      PROVE  /\ t \in Tokens' => S \subseteq versions'[t]
             /\ \A q \in Procs : token'[q] = t => durable'[q] /\ S \subseteq Tip(q)'
  BY <1>1, <1>2, <1>3, <1>4, <1>5 DEF Keeps
<1>6. ~Reading(p)'
  BY <1>0 DEF ReadListed, Advance, Reading, StoreTypeOK
<1>7. ASSUME Loaded(p)', MayLead(p)' PROVE Settled' \subseteq Tip(p)'
  <2>1. listed[p] \in Tokens
    BY <1>0, <1>1, <1>3, <1>7 DEF ReadListed, Advance, Loaded, StoreTypeOK
  <2>2. base'[p] = versions[listed[p]]
    BY <1>0, <2>1 DEF ReadListed, StoreTypeOK
  <2>3. Settled \subseteq versions[listed[p]]
    BY <1>0, <1>1, <1>2, <1>7, <2>1 DEF FencedInv, SettledStays, Reading, Keeps
  <2>4. QED BY <1>2, <2>2, <2>3 DEF Tip
<1>8. SettledStays'
  <2>1. ASSUME NEW u \in Tokens', IsNewest(u)' PROVE Settled' \subseteq versions'[u]
    BY <1>0, <1>1, <1>2, <2>1 DEF FencedInv, SettledStays, IsNewest
  <2>2. ASSUME NEW q \in Procs, Loaded(q)', MayLead(q)' PROVE Settled' \subseteq Tip(q)'
    <3>1. CASE q # p
      BY <1>0, <1>2, <1>4, <2>2, <3>1 DEF FencedInv, SettledStays
    <3>2. QED BY <1>7, <2>2, <3>1
  <2>3. ASSUME NEW q \in Procs, Reading(q)', MayLead(q)' PROVE Keeps(listed[q], Settled)'
    <3>1. q # p /\ Reading(q) /\ listed'[q] = listed[q]
      BY <1>4, <1>6, <2>3
    <3>2. Keeps(listed[q], Settled)
      BY <1>0, <1>2, <2>3, <3>1 DEF FencedInv, SettledStays
    <3>3. QED BY <1>2, <1>5, <3>1, <3>2 DEF Keeps
  <2>4. QED BY <1>0, <1>2, <2>1, <2>2, <2>3 DEF FencedInv, SettledStays
<1>9. KnownStays'
  <2>1. ASSUME NEW r \in Readers, reading'[r] # NoVersion PROVE Keeps(reading[r], known[r])'
    <3>1. Keeps(reading[r], known[r])
      BY <1>0, <1>1, <2>1 DEF FencedInv, KnownStays
    <3>2. reading'[r] = reading[r] /\ known'[r] = known[r]
      BY <1>1
    <3>3. /\ reading[r] \in Tokens' => known[r] \subseteq versions'[reading[r]]
          /\ \A q \in Procs : token'[q] = reading[r] => durable'[q] /\ known[r] \subseteq Tip(q)'
      BY <1>5, <3>1
    <3>4. QED BY <3>2, <3>3 DEF Keeps
  <2>2. QED BY <2>1 DEF KnownStays
<1>10. TokensGranted'
  BY <1>0, <1>1, <1>2 DEF FencedInv, TokensGranted, StoreTypeOK, LeaseTypeOK
<1>11. OwnVersions'
  BY <1>0, <1>1, <1>2, <1>3, <1>4 DEF FencedInv, OwnVersions
<1>12. QED BY <1>8, <1>9, <1>10, <1>11 DEF FencedInv

\* Steps of the operation that only decide what it does next.
LEMMA DecideQuiet ==
  ASSUME WritesInv, StoreTypeOK', NEW p \in Procs, Tame,
         RejectSave(p) \/ AllowSave(p) \/ WriteFails(p) \/ ListToPrune(p) \/ SaveAgain(p) \/ CarryOn(p)
  PROVE  FencedInv'
<1>0. FencedInv /\ StoreTypeOK /\ StageFitsLease /\ LeaseTypeOK
  BY DEF WritesInv, FencedInv, LeaseInv
<1>1. /\ UNCHANGED <<pc, token, fence, confirmed, versions, listed, base, durable, acked, readVars>>
      /\ pc[p] = "held"
  BY DEF RejectSave, AllowSave, WriteFails, ListToPrune, SaveAgain, CarryOn, Running, leaseVars
<1>2. \/ /\ stage' = [stage EXCEPT ![p] = "failed"]
         /\ stage[p] \in {"check", "write"}
      \/ /\ \E s \in {"check", "write", "saved"} : stage' = [stage EXCEPT ![p] = s]
         /\ stage[p] \in {"check", "prune", "saved"} \/ durable[p]
  BY DEF RejectSave, AllowSave, WriteFails, ListToPrune, SaveAgain, CarryOn, Running, Advance
<1>3. ASSUME NEW q \in Procs PROVE Same(q)
  <2>1. CASE q = p
    BY <1>0, <1>1, <1>2, <2>1 DEF Same, Loaded, Reading, StoreTypeOK
  <2>2. CASE q # p
    BY <1>0, <1>1, <1>2, <2>2 DEF Same, Loaded, Reading, StoreTypeOK
  <2>3. QED BY <2>1, <2>2
<1>4. Settled' \subseteq Settled
  BY <1>1 DEF Settled, Op
<1>5. \A q \in Procs : token[q] \in Nat /\ token'[q] \in Nat /\ listed'[q] \in Nat
  BY <1>0, <1>1 DEF LeaseTypeOK, StoreTypeOK
<1>6. fence \in Nat /\ fence' \in Nat /\ fence <= fence' /\ UNCHANGED <<versions, readVars>>
  BY <1>0, <1>1 DEF LeaseTypeOK
<1>7. QED BY <1>0, <1>3, <1>4, <1>5, <1>6, QuietStep

\* Whoever writes the newest version has loaded everything settled.
LEMMA WriteFenced ==
  ASSUME WritesInv, StoreTypeOK', NEW p \in Procs, WriteVersion(p), Tame
  PROVE  FencedInv'
<1>0. /\ FencedInv /\ StoreTypeOK /\ StageFitsLease /\ LeaseTypeOK
      /\ TokensInOrder /\ TokensWhereDue
  BY DEF WritesInv, FencedInv, LeaseInv
<1>1. /\ UNCHANGED <<pc, token, fence, confirmed, listed, base, acked, reading, known>>
      /\ pc[p] = "held" /\ stage[p] = "write"
      /\ stage' = [stage EXCEPT ![p] = "prune"]
      /\ durable' = [durable EXCEPT ![p] = TRUE]
      /\ versions' = [t \in Tokens \cup {token[p]} |->
                        IF t = token[p] THEN Tip(p) ELSE versions[t]]
  BY DEF WriteVersion, Running, leaseVars, readVars, Advance, Tip
<1>2. /\ Tokens' = Tokens \cup {token[p]} /\ Settled' = Settled
      /\ \A q \in Procs : Tip(q)' = Tip(q)
  BY <1>1 DEF Tokens, Settled, Tip, Op
<1>3. /\ versions'[token[p]] = Tip(p)
      /\ \A t \in Tokens : t # token[p] => versions'[t] = versions[t]
  BY <1>1
<1>4. \A q \in Procs : token[q] = token[p] => q = p
  BY <1>0, <1>1 DEF TokensInOrder, TokensWhereDue, Working, LeaseTypeOK
<1>5. \A q \in Procs : MayLead(q)' => MayLead(q)
  BY <1>1, <1>2 DEF MayLead
<1>6. \A q \in Procs : (Loaded(q)' => Loaded(q)) /\ (Reading(q)' => Reading(q)) /\ Loaded(p)
  BY <1>0, <1>1 DEF Loaded, Reading, StoreTypeOK
<1>7. \A q \in Procs : (durable[q] => durable'[q]) /\ durable'[p]
                       /\ (q # p => durable'[q] = durable[q])
  BY <1>0, <1>1 DEF StoreTypeOK
<1>8. ASSUME NEW t, NEW S, Keeps(t, S)
      PROVE  /\ t \in Tokens' => S \subseteq versions'[t]
             /\ \A q \in Procs : token'[q] = t => durable'[q] /\ S \subseteq Tip(q)'
  <2>1. CASE t = token[p]
    BY <1>1, <1>2, <1>3, <1>7, <1>8, <2>1 DEF Keeps
  <2>2. CASE t # token[p]
    BY <1>1, <1>2, <1>3, <1>7, <1>8, <2>2 DEF Keeps
  <2>3. QED BY <2>1, <2>2
<1>9. TokensGranted'
  <2>1. token[p] <= fence
    BY <1>0 DEF TokensInOrder
  <2>2. QED BY <1>0, <1>1, <1>2, <2>1 DEF FencedInv, TokensGranted
<1>10. OwnVersions'
  <2>1. ASSUME NEW q \in Procs, token'[q] \in Tokens'
        PROVE  durable'[q] /\ versions'[token'[q]] = Tip(q)'
    <3>1. CASE q = p
      BY <1>1, <1>2, <1>3, <1>7, <3>1
    <3>2. CASE q # p
      <4>1. token[q] \in Tokens /\ token[q] # token[p] /\ token'[q] = token[q]
        BY <1>1, <1>2, <1>4, <2>1, <3>2
      <4>2. QED BY <1>0, <1>2, <1>3, <1>7, <4>1 DEF FencedInv, OwnVersions
    <3>3. QED BY <3>1, <3>2
  <2>2. ASSUME NEW q \in Procs, durable'[q] PROVE \E u \in Tokens' : u >= token'[q]
    <3>1. CASE q = p
      BY <1>0, <1>1, <1>2, <3>1 DEF LeaseTypeOK
    <3>2. CASE q # p
      BY <1>0, <1>1, <1>2, <1>7, <2>2, <3>2 DEF FencedInv, OwnVersions
    <3>3. QED BY <3>1, <3>2
  <2>3. QED BY <2>1, <2>2 DEF OwnVersions
<1>11. SettledStays'
  <2>1. ASSUME NEW u \in Tokens', IsNewest(u)' PROVE Settled' \subseteq versions'[u]
    <3>1. \A t \in Tokens : t <= u
      BY <1>2, <2>1 DEF IsNewest
    <3>2. CASE u = token[p]
      BY <1>0, <1>2, <1>3, <1>6, <3>1, <3>2 DEF FencedInv, SettledStays, MayLead
    <3>3. CASE u # token[p]
      BY <1>0, <1>2, <1>3, <3>1, <3>3 DEF FencedInv, SettledStays, IsNewest
    <3>4. QED BY <3>2, <3>3
  <2>2. ASSUME NEW q \in Procs, Loaded(q)', MayLead(q)' PROVE Settled' \subseteq Tip(q)'
    BY <1>0, <1>2, <1>5, <1>6, <2>2 DEF FencedInv, SettledStays
  <2>3. ASSUME NEW q \in Procs, Reading(q)', MayLead(q)' PROVE Keeps(listed[q], Settled)'
    <3>1. Keeps(listed[q], Settled)
      BY <1>0, <1>5, <1>6, <2>3 DEF FencedInv, SettledStays
    <3>2. /\ listed[q] \in Tokens' => Settled \subseteq versions'[listed[q]]
          /\ \A s \in Procs : token'[s] = listed[q] => durable'[s] /\ Settled \subseteq Tip(s)'
      BY <1>8, <3>1
    <3>3. listed'[q] = listed[q]
      BY <1>1
    <3>4. QED BY <1>2, <3>2, <3>3 DEF Keeps
  <2>4. QED BY <1>2, <2>1, <2>2, <2>3 DEF SettledStays
<1>12. KnownStays'
  <2>1. ASSUME NEW r \in Readers, reading'[r] # NoVersion PROVE Keeps(reading[r], known[r])'
    <3>1. Keeps(reading[r], known[r])
      BY <1>0, <1>1, <2>1 DEF FencedInv, KnownStays
    <3>2. /\ reading[r] \in Tokens' => known[r] \subseteq versions'[reading[r]]
          /\ \A q \in Procs : token'[q] = reading[r] => durable'[q] /\ known[r] \subseteq Tip(q)'
      BY <1>8, <3>1
    <3>3. reading'[r] = reading[r] /\ known'[r] = known[r]
      BY <1>1
    <3>4. QED BY <3>2, <3>3 DEF Keeps
  <2>2. QED BY <2>1 DEF KnownStays
<1>13. QED BY <1>9, <1>10, <1>11, <1>12 DEF FencedInv

\* The version pruned is not the newest.
LEMMA PruneFenced ==
  ASSUME WritesInv, StoreTypeOK', [Next]_vars, NEW p \in Procs, PruneOne(p), Tame
  PROVE  FencedInv'
<1>0. FencedInv /\ StoreTypeOK /\ NewestStays /\ LeaseTypeOK
  BY DEF WritesInv, FencedInv, LeaseInv
<1>1. /\ UNCHANGED <<pc, token, fence, confirmed, stage, listed, base, durable, acked, reading, known>>
  BY DEF PruneOne, leaseVars, readVars
<1>2. PICK w \in Nat \ {0} :
        /\ Cardinality(Newer(w)) >= Retained
        /\ \/ versions' = versions
           \/ versions' = [v \in Tokens \ {w} |-> versions[v]]
  BY <1>0, PruneEffect
<1>3. Tokens' \subseteq Tokens /\ \A t \in Tokens' : versions'[t] = versions[t]
  BY <1>2 DEF Tokens
<1>4. Settled' = Settled
      /\ \A q \in Procs : Tip(q)' = Tip(q) /\ Loaded(q)' = Loaded(q) /\ Reading(q)' = Reading(q)
  BY <1>1 DEF Settled, Tip, Op, Loaded, Reading
<1>5. ASSUME NEW t \in Nat, \A u \in Tokens' : u <= t PROVE \A u \in Tokens : u <= t
  <2>1. ASSUME NEW u \in Tokens PROVE u <= t
    <3>1. PICK v \in Tokens' : v >= u
      BY <1>0, TokensReach
    <3>2. u \in Nat /\ v \in Nat /\ v <= t
      BY <1>0, <1>5, <3>1 DEF StoreTypeOK
    <3>3. QED BY <3>1, <3>2
  <2>2. QED BY <2>1
<1>6. ASSUME NEW q \in Procs, MayLead(q)' PROVE MayLead(q)
  BY <1>0, <1>1, <1>5, <1>6 DEF MayLead, LeaseTypeOK
<1>7. ASSUME NEW t, NEW S, Keeps(t, S)
      PROVE  /\ t \in Tokens' => S \subseteq versions'[t]
             /\ \A q \in Procs : token'[q] = t => durable'[q] /\ S \subseteq Tip(q)'
  BY <1>1, <1>3, <1>4, <1>7 DEF Keeps
<1>8. TokensGranted'
  BY <1>0, <1>1, <1>3 DEF FencedInv, TokensGranted
<1>9. OwnVersions'
  <2>1. ASSUME NEW q \in Procs, token'[q] \in Tokens'
        PROVE  durable'[q] /\ versions'[token'[q]] = Tip(q)'
    BY <1>0, <1>1, <1>3, <1>4, <2>1 DEF FencedInv, OwnVersions
  <2>2. ASSUME NEW q \in Procs, durable'[q] PROVE \E u \in Tokens' : u >= token'[q]
    <3>1. PICK u \in Tokens : u >= token[q]
      BY <1>0, <1>1, <2>2 DEF FencedInv, OwnVersions
    <3>2. PICK v \in Tokens' : v >= u
      BY <1>0, TokensReach
    <3>3. u \in Nat /\ v \in Nat /\ token[q] \in Nat /\ token'[q] = token[q]
      BY <1>0, <1>1, <1>3 DEF StoreTypeOK, LeaseTypeOK
    <3>4. QED BY <3>1, <3>2, <3>3
  <2>3. QED BY <2>1, <2>2 DEF OwnVersions
<1>10. SettledStays'
  <2>1. ASSUME NEW u \in Tokens', IsNewest(u)' PROVE Settled' \subseteq versions'[u]
    <3>1. u \in Nat /\ u \in Tokens /\ \A v \in Tokens' : v <= u
      BY <1>0, <1>3, <2>1 DEF StoreTypeOK, IsNewest
    <3>2. IsNewest(u)
      BY <1>5, <3>1 DEF IsNewest
    <3>3. QED BY <1>0, <1>3, <1>4, <3>1, <3>2 DEF FencedInv, SettledStays
  <2>2. ASSUME NEW q \in Procs, Loaded(q)', MayLead(q)' PROVE Settled' \subseteq Tip(q)'
    BY <1>0, <1>4, <1>6, <2>2 DEF FencedInv, SettledStays
  <2>3. ASSUME NEW q \in Procs, Reading(q)', MayLead(q)' PROVE Keeps(listed[q], Settled)'
    <3>1. Keeps(listed[q], Settled)
      BY <1>0, <1>4, <1>6, <2>3 DEF FencedInv, SettledStays
    <3>2. /\ listed[q] \in Tokens' => Settled \subseteq versions'[listed[q]]
          /\ \A s \in Procs : token'[s] = listed[q] => durable'[s] /\ Settled \subseteq Tip(s)'
      BY <1>7, <3>1
    <3>3. listed'[q] = listed[q]
      BY <1>1
    <3>4. QED BY <1>4, <3>2, <3>3 DEF Keeps
  <2>4. Tokens' = {} => Settled' = {}
    <3>1. Tokens' = {} => Tokens = {}
      BY <1>0, TokensReach
    <3>2. QED BY <1>0, <1>4, <3>1 DEF FencedInv, SettledStays
  <2>5. QED BY <2>1, <2>2, <2>3, <2>4 DEF SettledStays
<1>11. KnownStays'
  <2>1. ASSUME NEW r \in Readers, reading'[r] # NoVersion PROVE Keeps(reading[r], known[r])'
    <3>1. Keeps(reading[r], known[r])
      BY <1>0, <1>1, <2>1 DEF FencedInv, KnownStays
    <3>2. /\ reading[r] \in Tokens' => known[r] \subseteq versions'[reading[r]]
          /\ \A q \in Procs : token'[q] = reading[r] => durable'[q] /\ known[r] \subseteq Tip(q)'
      BY <1>7, <3>1
    <3>3. reading'[r] = reading[r] /\ known'[r] = known[r]
      BY <1>1
    <3>4. QED BY <3>2, <3>3 DEF Keeps
  <2>2. QED BY <2>1 DEF KnownStays
<1>12. QED BY <1>8, <1>9, <1>10, <1>11 DEF FencedInv

LEMMA ReadersFenced ==
  ASSUME WritesInv, StoreTypeOK', NEW r \in Readers, Tame,
         ReaderLists(r) \/ ReaderReads(r) \/ ReaderFails(r)
  PROVE  FencedInv'
<1>0. FencedInv /\ StoreTypeOK
  BY DEF WritesInv, FencedInv
<1>1. UNCHANGED <<pc, token, fence, confirmed, versions, stage, listed, base, durable, acked>>
  BY DEF ReaderLists, ReaderReads, ReaderFails, EndRead, leaseVars, opVars
<1>2. OwnVersions' /\ SettledStays'
  BY <1>0, <1>1 DEF FencedInv, OwnVersions, SettledStays, Settled, Tip, Op, Loaded, Reading,
     MayLead, Keeps, IsNewest, Tokens
<1>3. [Next]_vars
  BY DEF Next
<1>4. ASSUME NEW q \in Readers, reading'[q] # NoVersion
      PROVE  reading'[q] <= fence' /\ Keeps(reading[q], known[q])'
  <2>1. CASE reading'[q] = reading[q] /\ known'[q] = known[q]
    BY <1>0, <1>1, <1>4, <2>1 DEF FencedInv, TokensGranted, KnownStays, Keeps, Tip, Op, Tokens
  <2>2. CASE IsNewest(reading'[q]) /\ known'[q] = acked
    <3>1. PICK t \in Tokens : IsNewest(t) /\ t = reading'[q]
      BY <2>2 DEF IsNewest
    <3>2. t <= fence /\ acked \subseteq versions[t]
      BY <1>0, <3>1 DEF FencedInv, TokensGranted, SettledStays, Settled
    <3>3. \A p \in Procs : token[p] = t => durable[p] /\ versions[t] = Tip(p)
      BY <1>0, <3>1 DEF FencedInv, OwnVersions
    <3>4. QED BY <1>1, <2>2, <3>1, <3>2, <3>3 DEF Keeps, Tip, Op, Tokens
  <2>3. QED BY <1>0, <1>3, <1>4, <2>1, <2>2, ReaderSteps
<1>5. TokensGranted'
  <2>1. ASSUME NEW q \in Readers PROVE reading'[q] <= fence'
    <3>1. CASE reading'[q] = NoVersion
      <4>1. fence \in Nat
        BY DEF WritesInv, LeaseInv, LeaseTypeOK
      <4>2. QED BY <1>1, <3>1, <4>1 DEF NoVersion
    <3>2. QED BY <1>4, <3>1
  <2>2. QED BY <1>0, <1>1, <2>1 DEF FencedInv, TokensGranted, Tokens
<1>6. QED BY <1>2, <1>4, <1>5 DEF FencedInv, KnownStays

\* Taken together: while holders do no worse than stall in their operation,
\* what is settled stays in the newest version.
LEMMA FencedInductive ==
  ASSUME WritesInv, LeaseInv', StoreTypeOK', [Next]_vars, Tame
  PROVE  FencedInv'
<1>1. ASSUME NEW p \in Procs, Coordinate(p) \/ Abort(p) PROVE FencedInv'
  <2>1. LeaseMoves /\ TokensMove
    BY <1>1, LeaseSteps DEF WritesInv
  <2>2. QED BY <1>1, <2>1, LeaseMovesQuiet DEF Coordinate, Abort
<1>2. CASE Lapse /\ UNCHANGED storeVars
  <2>1. LeaseMoves /\ TokensMove
    BY <1>2, LeaseSteps DEF WritesInv
  <2>2. QED BY <1>2, <2>1, LeaseMovesQuiet
<1>3. CASE UNCHANGED vars
  <2>1. UNCHANGED leaseVars /\ UNCHANGED storeVars
    BY <1>3 DEF vars
  <2>2. LeaseMoves /\ TokensMove
    BY <2>1, LeaseSteps DEF WritesInv
  <2>3. QED BY <2>1, <2>2, LeaseMovesQuiet
<1>4. ASSUME NEW p \in Procs, Operation(p) PROVE FencedInv'
  BY <1>4, ListFenced, ReadFenced, DecideQuiet, WriteFenced, PruneFenced DEF Operation
<1>5. ASSUME NEW p \in Procs, Answer(p) \/ AnswerUnavailable(p) \/ CrashWriter(p)
      PROVE  FencedInv'
  BY <1>5, CallsEnd, EndQuiet
<1>6. QED
  BY <1>1, <1>2, <1>3, <1>4, <1>5, EnterQuiet, FinishFenced, ReadersFenced DEF Next

-----------------------------------------------------------------------------
(* Without disturbances.                                                    *)

LEMMA CalmWritesInductive ==
  ASSUME WritesInv, StoreTypeOK', [Next]_vars, upset = {}
  PROVE  WorksOnNewest'
<1>0. WorksOnNewest /\ StoreTypeOK /\ StageFitsLease /\ NewestStays /\ LeaseTypeOK /\ WorkIsAlone
  BY DEF WritesInv, LeaseInv
<1>1. ASSUME versions' = versions,
             \A q \in Procs : Loaded(q)' => Loaded(q) /\ Tip(q)' = Tip(q),
             \A q \in Procs : Reading(q)' => Reading(q) /\ listed'[q] = listed[q]
      PROVE  WorksOnNewest'
  BY <1>0, <1>1 DEF WorksOnNewest, IsNewest, Tokens
<1>2. ASSUME LeaseMoves, UNCHANGED storeVars PROVE WorksOnNewest'
  <2>1. UNCHANGED <<versions, stage, listed, base, durable>>
    BY <1>2 DEF storeVars, opVars
  <2>2. \A q \in Procs : pc'[q] = "held" => pc[q] = "held" /\ token'[q] = token[q]
    BY <1>2 DEF LeaseMoves, Busy
  <2>3. QED BY <1>1, <2>1, <2>2 DEF Loaded, Reading, Tip, Op
<1>3. ASSUME NEW p \in Procs, Coordinate(p) \/ Abort(p) PROVE WorksOnNewest'
  BY <1>2, <1>3, LeaseSteps DEF WritesInv, Coordinate, Abort
<1>4. (Lapse /\ UNCHANGED storeVars) \/ UNCHANGED vars => WorksOnNewest'
  BY <1>2, LeaseSteps DEF WritesInv, vars
<1>5. ASSUME NEW p \in Procs, Enter(p) PROVE WorksOnNewest'
  <2>1. /\ UNCHANGED <<versions, listed, base, durable, token>>
        /\ pc' = [pc EXCEPT ![p] = "held"] /\ pc[p] = "check"
        /\ stage' = [stage EXCEPT ![p] = "load"]
    BY <1>5 DEF Enter, EnterOperation, Goto, Advance
  <2>2. ~durable[p]
    BY <1>0, <2>1 DEF StageFitsLease, Busy
  <2>3. QED BY <1>0, <1>1, <2>1, <2>2 DEF Loaded, Reading, Tip, Op, StoreTypeOK, LeaseTypeOK
<1>6. ASSUME NEW p \in Procs, Finish(p) PROVE WorksOnNewest'
  <2>1. /\ UNCHANGED <<versions, stage, listed, base, durable, token>>
        /\ pc' = [pc EXCEPT ![p] = "release"]
    BY <1>6 DEF Finish, FinishOperation, Goto, storeVars, opVars
  <2>2. QED BY <1>0, <1>1, <2>1 DEF Loaded, Reading, Tip, Op, LeaseTypeOK
<1>7. ASSUME NEW p \in Procs, Answer(p) \/ AnswerUnavailable(p) \/ CrashWriter(p)
      PROVE  WorksOnNewest'
  <2>1. /\ versions' = versions
        /\ pc' = [pc EXCEPT ![p] = "idle"]
        /\ token' = [token EXCEPT ![p] = 0]
        /\ \E s : stage' = [stage EXCEPT ![p] = s]
        /\ \E n : listed' = [listed EXCEPT ![p] = n]
        /\ base' = [base EXCEPT ![p] = {}]
        /\ durable' = [durable EXCEPT ![p] = FALSE]
    BY <1>7, CallsEnd DEF CallEnds, Leave, Goto, ForgetOperation, Advance
  <2>2. \A q \in Procs : pc'[q] = "held" =>
          /\ q # p /\ pc[q] = "held" /\ stage'[q] = stage[q] /\ listed'[q] = listed[q]
          /\ base'[q] = base[q] /\ durable'[q] = durable[q] /\ token'[q] = token[q]
    BY <1>0, <2>1 DEF StoreTypeOK, LeaseTypeOK
  <2>3. QED BY <1>1, <2>1, <2>2 DEF Loaded, Reading, Tip, Op
<1>8. ASSUME NEW r \in Readers, ReaderLists(r) \/ ReaderReads(r) \/ ReaderFails(r)
      PROVE  WorksOnNewest'
  BY <1>1, <1>8 DEF ReaderLists, ReaderReads, ReaderFails, EndRead, leaseVars, opVars,
     Loaded, Reading, Tip, Op
<1>9. ASSUME NEW p \in Procs, Operation(p) PROVE WorksOnNewest'
  <2>1. pc' = pc /\ token' = token /\ pc[p] = "held"
    BY <1>9 DEF Operation, ListToLoad, ReadListed, RejectSave, AllowSave, WriteVersion,
       WriteFails, ListToPrune, PruneOne, SaveAgain, CarryOn, leaseVars, Running
  <2>2. \A q \in Procs : pc'[q] = "held" => q = p
    BY <1>0, <2>1 DEF WorkIsAlone, Working, Holding
  <2>3. SUFFICES /\ Loaded(p)' => \A t \in Tokens' : IsNewest(t)' => versions'[t] \subseteq Tip(p)'
                 /\ Reading(p)' => IsNewest(listed[p])'
    BY <2>2 DEF WorksOnNewest, Loaded, Reading
  <2>4. CASE ListToLoad(p)
    <3>1. UNCHANGED <<versions, base, durable>> /\ ~durable[p]
      BY <1>0, <2>4 DEF ListToLoad, StageFitsLease, Running
    <3>2. CASE Tokens = {}
      BY <1>0, <2>4, <3>1, <3>2 DEF ListToLoad, Advance, Reading, Tokens, StoreTypeOK
    <3>3. CASE Tokens # {}
      <4>1. PICK t \in Tokens : /\ IsNewest(t)
                                /\ listed' = [listed EXCEPT ![p] = t]
                                /\ stage' = [stage EXCEPT ![p] = "read"]
        BY <2>4, <3>3 DEF ListToLoad, Advance
      <4>2. listed'[p] = t /\ ~Loaded(p)'
        BY <1>0, <3>1, <4>1 DEF Loaded, StoreTypeOK
      <4>3. QED BY <3>1, <4>1, <4>2 DEF IsNewest, Tokens
    <3>4. QED BY <3>2, <3>3
  <2>5. CASE ReadListed(p)
    <3>1. IsNewest(listed[p]) /\ listed[p] \in Tokens
      BY <1>0, <2>5 DEF ReadListed, Running, WorksOnNewest, Reading, IsNewest
    <3>2. versions' = versions /\ base'[p] = versions[listed[p]] /\ stage'[p] = "check"
      BY <1>0, <2>5, <3>1 DEF ReadListed, Advance, StoreTypeOK
    <3>3. ASSUME NEW t \in Tokens', IsNewest(t)' PROVE versions'[t] \subseteq Tip(p)'
      <4>1. IsNewest(t)
        BY <3>2, <3>3 DEF IsNewest, Tokens
      <4>2. t = listed[p]
        BY <1>0, <3>1, <4>1, NewestUnique
      <4>3. QED BY <3>2, <4>2 DEF Tip
    <3>4. QED BY <3>2, <3>3 DEF Reading
  <2>6. CASE RejectSave(p) \/ AllowSave(p) \/ WriteFails(p) \/ ListToPrune(p) \/ SaveAgain(p) \/ CarryOn(p)
    <3>1. UNCHANGED <<versions, listed, base, durable>>
      BY <2>6 DEF RejectSave, AllowSave, WriteFails, ListToPrune, SaveAgain, CarryOn
    <3>2. Loaded(p)' => Loaded(p)
      BY <1>0, <2>1, <2>6 DEF RejectSave, AllowSave, WriteFails, ListToPrune, SaveAgain, CarryOn,
         Running, Advance, Loaded, StoreTypeOK
    <3>3. ~Reading(p)'
      BY <1>0, <2>6 DEF RejectSave, AllowSave, WriteFails, ListToPrune, SaveAgain, CarryOn,
         Advance, Reading, StoreTypeOK
    <3>4. QED BY <1>0, <2>1, <3>1, <3>2, <3>3 DEF WorksOnNewest, IsNewest, Tokens, Tip, Op
  <2>7. CASE WriteVersion(p)
    <3>1. /\ versions' = [t \in Tokens \cup {token[p]} |->
                            IF t = token[p] THEN Tip(p) ELSE versions[t]]
          /\ base' = base /\ Loaded(p) /\ stage'[p] = "prune"
      BY <1>0, <2>7 DEF WriteVersion, Running, Advance, Tip, Loaded, StoreTypeOK
    <3>2. Tip(p)' = Tip(p) /\ Tokens' = Tokens \cup {token[p]}
      BY <2>1, <3>1 DEF Tip, Op, Tokens
    <3>3. ASSUME NEW t \in Tokens', IsNewest(t)' PROVE versions'[t] \subseteq Tip(p)
      <4>1. CASE t = token[p]
        BY <3>1, <4>1
      <4>2. CASE t # token[p]
        <5>1. t \in Tokens /\ IsNewest(t) /\ versions'[t] = versions[t]
          BY <3>1, <3>2, <3>3, <4>2 DEF IsNewest
        <5>2. QED BY <1>0, <3>1, <5>1 DEF WorksOnNewest
      <4>3. QED BY <4>1, <4>2
    <3>4. QED BY <3>1, <3>2, <3>3 DEF Reading
  <2>8. CASE PruneOne(p)
    <3>1. /\ UNCHANGED <<stage, base, durable>>
          /\ Tokens' \subseteq Tokens
          /\ \A t \in Tokens' : versions'[t] = versions[t]
      BY <2>8 DEF PruneOne, Tokens
    <3>2. Loaded(p)' = Loaded(p) /\ ~Reading(p)' /\ Tip(p)' = Tip(p)
      BY <2>1, <2>8, <3>1 DEF PruneOne, Running, Loaded, Reading, Tip, Op
    <3>3. ASSUME NEW t \in Tokens', IsNewest(t)' PROVE IsNewest(t)
      <4>1. ASSUME NEW u \in Tokens PROVE u <= t
        <5>1. PICK v \in Tokens' : v >= u
          BY <1>0, TokensReach
        <5>2. u \in Nat /\ v \in Nat /\ t \in Nat /\ v <= t
          BY <1>0, <3>3, <5>1 DEF StoreTypeOK, IsNewest
        <5>3. QED BY <5>1, <5>2
      <4>2. QED BY <3>1, <4>1 DEF IsNewest
    <3>4. QED BY <1>0, <3>1, <3>2, <3>3 DEF WorksOnNewest
  <2>9. QED BY <1>9, <2>4, <2>5, <2>6, <2>7, <2>8 DEF Operation
<1>10. QED BY <1>3, <1>4, <1>5, <1>6, <1>7, <1>8, <1>9 DEF Next

-----------------------------------------------------------------------------
(* The theorems about the writes.                                           *)

LEMMA WritesInvInductive == WritesInv /\ [Next]_vars => WritesInv'
<1> SUFFICES ASSUME WritesInv, [Next]_vars PROVE WritesInv'
  OBVIOUS
<1>1. LeaseInv' /\ upset \subseteq upset'
  BY StepIsLeaseStep, LeaseInvInductive, UpsetGrows DEF WritesInv
<1>2. StoreTypeOK' /\ StageFitsLease'
  BY StoreTypeInductive, StageInductive DEF WritesInv
<1>3. NewestStays' /\ PrunedOnlyWhenSuperseded'
  BY <1>2, NewestInductive, PrunedInductive DEF WritesInv, LeaseInv, LeaseTypeOK
<1>4. ASSUME Tame' PROVE FencedInv'
  BY <1>1, <1>2, <1>4, FencedInductive DEF Tame
<1>5. ASSUME upset' = {} PROVE WorksOnNewest'
  <2>1. upset = {}
    BY <1>1, <1>5
  <2>2. QED BY <1>2, <2>1, CalmWritesInductive
<1>6. QED BY <1>1, <1>2, <1>3, <1>4, <1>5 DEF WritesInv, FencedInv

\* The inductive invariant of the lease and the writes holds in every
\* reachable state.
THEOREM WritesInvariant == Spec => []WritesInv
<1>1. Init => WritesInv
  <2> SUFFICES ASSUME Init PROVE WritesInv
    OBVIOUS
  <2>1. LeaseInv
    <3>1. LeaseInit
      BY DEF Init
    <3>2. LeaseTypeOK
      BY <3>1, LeaseAssumption DEF LeaseInit, LeaseTypeOK, Control
    <3>3. TokensWhereDue /\ SetupIsAlone /\ WorkIsAlone
      BY <3>1 DEF LeaseInit, TokensWhereDue, SetupIsAlone, WorkIsAlone, Setup, Working
    <3>4. TokensInOrder
      BY <3>1 DEF LeaseInit, TokensInOrder, HasOwner, Present
    <3>5. QED BY <3>2, <3>3, <3>4 DEF LeaseInv
  <2>2. Tokens = {} /\ IsFiniteSet(Tokens)
    BY FS_EmptySet DEF Init, StoreInit, Tokens
  <2>3. StoreTypeOK
    BY <2>2 DEF Init, StoreInit, StoreTypeOK, Stages, NoVersion
  <2>4. StageFitsLease
    BY DEF Init, LeaseInit, StoreInit, StageFitsLease
  <2>5. NewestStays /\ PrunedOnlyWhenSuperseded
    BY <2>2 DEF Init, StoreInit, NewestStays, PrunedOnlyWhenSuperseded
  <2>6. Settled = {} /\ \A q \in Procs : ~Loaded(q) /\ ~Reading(q)
    BY DEF Init, LeaseInit, StoreInit, Settled, Loaded, Reading
  <2>7. TokensGranted /\ OwnVersions /\ SettledStays /\ KnownStays /\ WorksOnNewest
    BY <2>2, <2>6 DEF Init, LeaseInit, StoreInit, NoVersion, TokensGranted, OwnVersions,
       SettledStays, KnownStays, WorksOnNewest
  <2>8. QED BY <2>1, <2>3, <2>4, <2>5, <2>7 DEF WritesInv
<1>2. QED BY <1>1, WritesInvInductive, PTL DEF Spec

\* The latest version is the newest one.
LEMMA LatestIs ==
  ASSUME StoreTypeOK, NEW t \in Tokens, IsNewest(t)
  PROVE  Latest = versions[t]
<1>1. \A u \in Tokens : IsNewest(u) => u = t
  BY NewestUnique
<1>2. (CHOOSE u \in Tokens : IsNewest(u)) = t
  BY <1>1
<1>3. QED BY <1>2 DEF Latest

\* No operation whose caller has its result is missing from the latest
\* version, whoever stalls in the middle of an operation.
THEOREM AcknowledgedKept == Spec => []NoAcknowledgedLoss
<1>1. WritesInv => NoAcknowledgedLoss
  <2> SUFFICES ASSUME WritesInv, Tame PROVE acked \subseteq Latest
    BY DEF NoAcknowledgedLoss, Tame
  <2>1. StoreTypeOK /\ NewestStays /\ SettledStays /\ acked \subseteq Settled
    BY DEF WritesInv, Settled
  <2>2. CASE Tokens = {}
    BY <2>1, <2>2 DEF SettledStays
  <2>3. CASE Tokens # {}
    <3>1. PICK t \in Tokens : IsNewest(t)
      BY <2>1, <2>3 DEF NewestStays
    <3>2. Settled \subseteq versions[t] /\ Latest = versions[t]
      BY <2>1, <3>1, LatestIs DEF SettledStays
    <3>3. QED BY <2>1, <3>2
  <2>4. QED BY <2>2, <2>3
<1>2. QED BY <1>1, WritesInvariant, PTL

\* A load or a read finds the file it listed gone only after Retained newer
\* versions were written, whatever disturbs the lease.
THEOREM LoadsFailOnlySuperseded == Spec => []PrunedOnlyWhenSuperseded
<1>1. WritesInv => PrunedOnlyWhenSuperseded
  BY DEF WritesInv
<1>2. QED BY <1>1, WritesInvariant, PTL

\* The token that a load selects never falls, whatever disturbs the lease.
THEOREM NewestNeverFalls == Spec => LatestNeverRegresses
<1>1. WritesInv /\ WritesInv' /\ [Next]_vars =>
        [\A t \in Tokens : \E u \in Tokens' : u >= t]_vars
  BY TokensReach DEF WritesInv
<1>2. QED BY <1>1, WritesInvariant, PTL DEF Spec, LatestNeverRegresses

\* The fence turns away superseded holders only.
THEOREM FenceRejectsSuperseded == Spec => OnlySupersededRejected
<1>1. WritesInv /\ [Next]_vars =>
        [\A p \in Procs :
           upset' \subseteq {"stalledWork"} /\ RejectSave(p) => token[p] < fence]_vars
  <2> SUFFICES ASSUME WritesInv, NEW p \in Procs, upset' \subseteq {"stalledWork"}, RejectSave(p)
               PROVE  token[p] < fence
    OBVIOUS
  <2>1. TokensGranted /\ StoreTypeOK /\ LeaseTypeOK
    BY DEF WritesInv, LeaseInv, Tame, RejectSave, leaseVars
  <2>2. PICK t \in Tokens : t > token[p]
    BY DEF RejectSave
  <2>3. t \in Nat /\ t <= fence /\ token[p] \in Nat /\ fence \in Nat
    BY <2>1 DEF TokensGranted, StoreTypeOK, LeaseTypeOK
  <2>4. QED BY <2>2, <2>3
<1>2. QED BY <1>1, WritesInvariant, PTL DEF Spec, OnlySupersededRejected

\* A reader that gets an answer sees what was acknowledged before it listed
\* the versions.
THEOREM ReadersInformed == Spec => ReadsSeeAcknowledged
<1>1. WritesInv /\ [Next]_vars =>
        [\A r \in Readers :
           upset' \subseteq {"stalledWork"} /\ ReaderReads(r)
             => known[r] \subseteq versions[reading[r]]]_vars
  <2> SUFFICES ASSUME WritesInv, NEW r \in Readers, upset' \subseteq {"stalledWork"}, ReaderReads(r)
               PROVE  known[r] \subseteq versions[reading[r]]
    OBVIOUS
  <2>1. KnownStays /\ StoreTypeOK
    BY DEF WritesInv, Tame, ReaderReads, EndRead, leaseVars
  <2>2. reading[r] \in Tokens /\ reading[r] # NoVersion
    BY <2>1 DEF ReaderReads, StoreTypeOK, NoVersion
  <2>3. QED BY <2>1, <2>2 DEF KnownStays, Keeps
<1>2. QED BY <1>1, WritesInvariant, PTL DEF Spec, ReadsSeeAcknowledged

\* Without disturbances each version extends the one it replaces.
THEOREM VersionsGrow == Spec => VersionsExtendEachOther
<1>1. WritesInv /\ WritesInv' /\ [Next]_vars => [upset' = {} => Latest \subseteq Latest']_vars
  <2> SUFFICES ASSUME WritesInv, WritesInv', [Next]_vars, upset' = {}
               PROVE  Latest \subseteq Latest'
    OBVIOUS
  <2>0. /\ StoreTypeOK /\ StoreTypeOK' /\ StageFitsLease /\ NewestStays /\ NewestStays'
        /\ WorksOnNewest
    BY StepIsLeaseStep, UpsetGrows DEF WritesInv
  <2>1. CASE Tokens = {}
    BY <2>1 DEF Latest
  <2>2. CASE Tokens # {}
    <3>1. PICK t \in Tokens : IsNewest(t) /\ Latest = versions[t]
      BY <2>0, <2>2, LatestIs DEF NewestStays
    <3>2. PICK u \in Tokens' : u >= t
      BY <2>0, TokensReach
    <3>3. PICK w \in Tokens' : IsNewest(w)'
      BY <2>0, <3>2 DEF NewestStays
    <3>4. Latest' = versions'[w]
      <4>1. \A v \in Tokens' : IsNewest(v)' => v = w
        BY <2>0, <3>3 DEF IsNewest, StoreTypeOK
      <4>2. (CHOOSE v \in Tokens' : IsNewest(v)') = w
        BY <3>3, <4>1
      <4>3. QED BY <3>3, <4>2 DEF Latest
    <3>5. t \in Nat /\ u \in Nat /\ w \in Nat /\ w >= t
      BY <2>0, <3>2, <3>3 DEF StoreTypeOK, IsNewest
    <3>6. ASSUME w \in Tokens, versions'[w] = versions[w] PROVE Latest \subseteq Latest'
      <4>1. w = t
        BY <3>1, <3>5, <3>6 DEF IsNewest
      <4>2. QED BY <3>1, <3>4, <3>6, <4>1
    <3>7. CASE versions' = versions
      BY <3>3, <3>6, <3>7 DEF Tokens
    <3>8. ASSUME NEW p \in Procs, PruneOne(p) PROVE Latest \subseteq Latest'
      <4>1. Tokens' \subseteq Tokens /\ \A v \in Tokens' : versions'[v] = versions[v]
        BY <3>8 DEF PruneOne, Tokens
      <4>2. QED BY <3>3, <3>6, <4>1
    <3>9. ASSUME NEW p \in Procs, WriteVersion(p) PROVE Latest \subseteq Latest'
      <4>1. versions' = [v \in Tokens \cup {token[p]} |->
                           IF v = token[p] THEN Tip(p) ELSE versions[v]]
        BY <3>9 DEF WriteVersion, Tip
      <4>2. Loaded(p)
        BY <3>9 DEF WriteVersion, Running, Loaded
      <4>3. CASE w = token[p]
        <5>1. versions[t] \subseteq Tip(p)
          BY <2>0, <3>1, <4>2 DEF WorksOnNewest
        <5>2. versions'[w] = Tip(p)
          BY <4>1, <4>3
        <5>3. QED BY <3>1, <3>4, <5>1, <5>2
      <4>4. CASE w # token[p]
        <5>1. w \in Tokens /\ versions'[w] = versions[w]
          BY <3>3, <4>1, <4>4 DEF Tokens
        <5>2. QED BY <3>6, <5>1
      <4>5. QED BY <4>3, <4>4
    <3>10. QED BY <3>7, <3>8, <3>9, VersionSteps
  <2>3. QED BY <2>1, <2>2
<1>2. QED BY <1>1, WritesInvariant, PTL DEF Spec, VersionsExtendEachOther
=============================================================================
