-------------------------- MODULE PrivilegedAccess --------------------------
(***************************************************************************)
(* The just-in-time privileged access of src/src/security/                 *)
(* privilegedAccessRegistry.js: requests for protected permissions, the    *)
(* approvals that activate them, break glass, expiry, review and pruning.  *)
(*                                                                         *)
(* The registry is one encrypted snapshot that every mutation reads,       *)
(* changes and replaces under the file mutex of fileMutex.js.  The mutex   *)
(* is a lease without a fencing token: a holder suspended for longer than  *)
(* leaseMs is evicted, and when it resumes it replaces the snapshot by     *)
(* what it computed from the old one (withLock looks at its ownership only *)
(* before and after the operation).  So a mutation either takes effect at  *)
(* once, or leaves a snapshot in "late" that some later step may write.    *)
(* The suspension is taken to come after the clock was read.               *)
(*                                                                         *)
(* An operation that is refused throws before it writes, so it changes     *)
(* nothing and has no step here.                                           *)
(***************************************************************************)
EXTENDS Naturals, Sequences, FiniteSets, Functions

CONSTANTS
  Subjects,          \* the people with a principal
  TenantOf,          \* the tenant of each subject
  Requesters,        \* who has privileged:request
  Approvers,         \* who has privileged:approve and privileged:revoke
  BreakGlassUsers,   \* who has privileged:break_glass
  Permissions,       \* the protected permissions
  Bundles,           \* the sets of permissions that are asked for
  ApprovalsRequired, \* the approvals that activate a request
  Window,            \* how long a request waits for its approvals
  Duration,          \* how long an elevation lasts
  BreakGlassDuration,
  RequestRetention,  \* how long closed requests are kept
  EventRetention,    \* how many events are kept
  Lookers,           \* whose last look at a request is tracked
  MaxRequests,       \* bound on the requests ever made
  MaxTime,           \* bound on the clock
  MaxLate,           \* bound on the evicted holders that may still write
  Nobody             \* "not reviewed"

ASSUME PrivilegedAssumption ==
  /\ TenantOf \in [Subjects -> {TenantOf[u] : u \in Subjects}]
  /\ Requesters \subseteq Subjects
  /\ Approvers \subseteq Subjects
  /\ BreakGlassUsers \subseteq Subjects
  /\ Lookers \subseteq Subjects
  /\ Bundles \subseteq SUBSET Permissions
  /\ ApprovalsRequired \in Nat
  /\ ApprovalsRequired > 0
  /\ Window \in Nat
  /\ Duration \in Nat
  /\ BreakGlassDuration \in Nat
  /\ RequestRetention \in Nat
  /\ EventRetention \in Nat
  /\ MaxRequests \in Nat
  /\ MaxTime \in Nat
  /\ MaxLate \in Nat
  /\ Nobody \notin Subjects

VARIABLES
  store,   \* the snapshot on disk
  late,    \* what evicted holders computed and may still write
  issued,  \* the request identifiers handed out
  now,     \* the clock
  seen     \* the request that each looker read last

vars == <<store, late, issued, now, seen>>

-----------------------------------------------------------------------------
Live     == {"pending", "active"}
Terminal == {"denied", "cancelled", "revoked", "expired"}

Actions ==
  {"requested", "approved", "activated", "denied", "cancelled", "revoked",
   "expired", "broke_glass", "reviewed"}

Ids == Nat \ {0}

\* deadline: approvalExpiresAt of a pending request, expiresAt of an active one.
Request ==
  [subject : Subjects, permissions : SUBSET Permissions, breakGlass : BOOLEAN,
   status : Live \cup Terminal, approvals : Seq(Subjects), deadline : Nat,
   closedAt : Nat, reviewer : Subjects \cup {Nobody}, version : Nat]

Event == [seq : Nat, action : Actions, id : Ids]

\* The events are a set; the array of the code is that set in order of seq.
Empty ==
  [requests |-> [i \in {} |-> i], log |-> {}, sequence |-> 0, anchor |-> 0]

\* Mutant: the stored status is taken at face value.
Effective_Stored(r, t) == r.status

\* What a reader takes for the status of a request: an elapsed deadline
\* counts although no mutation has stored it yet.
Effective(r, t) ==
  IF r.status \in Live /\ r.deadline <= t THEN "expired" ELSE r.status

IdsIn(s) == DOMAIN s.requests

-----------------------------------------------------------------------------
(* The helpers of mutate, from the snapshot read to the one written.        *)

\* event: actions appended for a request, in this order.
Logged(log, sequence, actions, id) ==
  log \cup {[seq |-> sequence + i, action |-> actions[i], id |-> id] :
              i \in DOMAIN actions}

Closed(r, status, t) ==
  [r EXCEPT !.status = status, !.closedAt = t, !.version = @ + 1]

\* Mutant: expiry is not recorded as an event.
Expire_Silent(s, t) ==
  [s EXCEPT !.requests =
     [id \in IdsIn(s) |->
        IF Effective(s.requests[id], t) = s.requests[id].status
        THEN s.requests[id]
        ELSE Closed(s.requests[id], "expired", t)]]

\* expire: elapsed deadlines are stored, with an event each, in the order in
\* which the requests were made.
Expire(s, t) ==
  LET elapsed == {id \in IdsIn(s) :
                    Effective(s.requests[id], t) # s.requests[id].status}
      Rank(id) == Cardinality({other \in elapsed : other <= id})
  IN  [requests |->
         [id \in IdsIn(s) |->
            IF id \in elapsed
            THEN Closed(s.requests[id], "expired", t)
            ELSE s.requests[id]],
       log |-> s.log \cup {[seq |-> s.sequence + Rank(id),
                            action |-> "expired", id |-> id] : id \in elapsed},
       sequence |-> s.sequence + Cardinality(elapsed),
       anchor |-> s.anchor]

\* Mutant: an outstanding review does not keep a request.
Prunable_Unreviewed(r, t) ==
  r.status \in Terminal /\ r.closedAt + RequestRetention <= t

\* What prune deletes: requests closed long ago, but no break glass that
\* nobody has reviewed.
Prunable(r, t) ==
  /\ r.status \in Terminal
  /\ r.closedAt + RequestRetention <= t
  /\ r.breakGlass => r.reviewer # Nobody

Prune(s, t) ==
  LET kept == {id \in IdsIn(s) : ~Prunable(s.requests[id], t)}
  IN  [requests |-> Restrict(s.requests, kept), log |-> s.log,
       sequence |-> s.sequence, anchor |-> s.anchor]

\* Mutant: the anchor stays behind.
Trim_NoAnchor(s) ==
  IF s.sequence - s.anchor <= EventRetention THEN s
  ELSE [s EXCEPT !.log = {e \in @ : e.seq > s.sequence - EventRetention}]

\* trim: the oldest events go, and the anchor moves to the last of them.
Trim(s) ==
  IF s.sequence - s.anchor <= EventRetention THEN s
  ELSE LET last == s.sequence - EventRetention
       IN  [requests |-> s.requests, log |-> {e \in s.log : e.seq > last},
            sequence |-> s.sequence, anchor |-> last]

\* The snapshot that the operation of a mutation finds.
Current == Prune(Expire(store, now), now)

\* The snapshot with a request put in or replaced, and its events.
Put(s, id, r, actions) ==
  [requests |-> [i \in IdsIn(s) \cup {id} |->
                   IF i = id THEN r ELSE s.requests[i]],
   log |-> Logged(s.log, s.sequence, actions, id),
   sequence |-> s.sequence + Len(actions),
   anchor |-> s.anchor]

\* write: at once, or, for a holder that is evicted on the way, later.
Save(s) ==
  \/ /\ store' = Trim(s)
     /\ UNCHANGED late
  \/ /\ Cardinality(late) < MaxLate
     /\ late' = late \cup {Trim(s)}
     /\ UNCHANGED store

-----------------------------------------------------------------------------
Init ==
  /\ store = Empty
  /\ late = {}
  /\ issued = 0
  /\ now = 0
  /\ seen = [u \in Lookers |-> [id |-> 0]]

Tick ==
  /\ now < MaxTime
  /\ now' = now + 1
  /\ UNCHANGED <<store, late, issued, seen>>

SameTenant(r, u) == TenantOf[r.subject] = TenantOf[u]

\* ensureVisible: who may not decide on requests sees only his own.
Visible(r, u) == SameTenant(r, u) /\ (u \in Approvers \/ r.subject = u)

\* get: the stored request with its effective status.
Look(u) ==
  /\ \E id \in IdsIn(store) :
       /\ Visible(store.requests[id], u)
       /\ seen' = [seen EXCEPT ![u] =
            [id |-> id,
             request |-> [store.requests[id] EXCEPT
                            !.status = Effective(store.requests[id], now)]]]
  /\ UNCHANGED <<store, late, issued, now>>

\* authorise: whether somebody may use a permission now.
Authorised(u, permission) ==
  \E id \in IdsIn(store) :
    LET r == store.requests[id]
    IN  /\ Effective(r, now) = "active"
        /\ r.subject = u
        /\ permission \in r.permissions

\* version: the caller names the version it wants to change.  A looker names
\* the one it saw; for the others the model does not track what they saw and
\* lets them name the current one, every other being refused.
Expected(u, id) ==
  u \in Lookers => /\ seen[u].id = id
                   /\ seen[u].request.version = Current.requests[id].version

\* A live request of the same person shares a permission.
Overlaps(r, u, permissions) ==
  r.status \in Live /\ r.subject = u /\ r.permissions \cap permissions # {}

NewRequest(u, permissions) ==
  [subject |-> u, permissions |-> permissions, breakGlass |-> FALSE,
   status |-> "pending", approvals |-> <<>>, deadline |-> now + Window,
   closedAt |-> 0, reviewer |-> Nobody, version |-> 1]

NewBreakGlass(u, permissions) ==
  [subject |-> u, permissions |-> permissions, breakGlass |-> TRUE,
   status |-> "active", approvals |-> <<>>,
   deadline |-> now + BreakGlassDuration,
   closedAt |-> 0, reviewer |-> Nobody, version |-> 1]

RequestAccess(u, permissions) ==
  /\ issued < MaxRequests
  /\ \A id \in IdsIn(Current) :
       ~Overlaps(Current.requests[id], u, permissions)
  /\ issued' = issued + 1
  /\ Save(Put(Current, issued + 1, NewRequest(u, permissions), <<"requested">>))
  /\ UNCHANGED <<now, seen>>

ActivateBreakGlass(u, permissions) ==
  /\ issued < MaxRequests
  /\ issued' = issued + 1
  /\ Save(Put(Current, issued + 1, NewBreakGlass(u, permissions),
              <<"broke_glass">>))
  /\ UNCHANGED <<now, seen>>

\* Mutant: one approver may approve twice.
MayApprove_Twice(u, r) ==
  SameTenant(r, u) /\ r.status = "pending" /\ r.subject # u

\* Who may approve: another person of the tenant, once, while it is pending.
MayApprove(u, r) ==
  /\ SameTenant(r, u)
  /\ r.status = "pending"
  /\ r.subject # u
  /\ u \notin Range(r.approvals)

\* The request with one more approval, activated when these are enough.
Approved(r, u) ==
  LET approvals == Append(r.approvals, u)
      enough    == Len(approvals) >= ApprovalsRequired
  IN  [r EXCEPT !.approvals = approvals,
                !.version = @ + 1,
                !.status = IF enough THEN "active" ELSE @,
                !.deadline = IF enough THEN now + Duration ELSE @]

Approve(u, id) ==
  /\ id \in IdsIn(Current)
  /\ Expected(u, id)
  /\ MayApprove(u, Current.requests[id])
  /\ LET r == Approved(Current.requests[id], u)
     IN  Save(Put(Current, id, r, IF r.status = "active"
                                  THEN <<"approved", "activated">>
                                  ELSE <<"approved">>))
  /\ UNCHANGED <<issued, now, seen>>

\* deny, by way of closePending.
Deny(u, id) ==
  /\ id \in IdsIn(Current)
  /\ Expected(u, id)
  /\ LET r == Current.requests[id]
     IN  /\ SameTenant(r, u)
         /\ r.status = "pending"
         /\ r.subject # u
         /\ Save(Put(Current, id, Closed(r, "denied", now), <<"denied">>))
  /\ UNCHANGED <<issued, now, seen>>

\* Mutant: what is closed can be cancelled again.
MayCancel_Closed(u, r) == r.subject = u

MayCancel(u, r) == r.subject = u /\ r.status \in Live

\* cancel: the requester withdraws a request, or gives an elevation back.
Cancel(u, id) ==
  /\ id \in IdsIn(Current)
  /\ Expected(u, id)
  /\ LET r == Current.requests[id]
     IN  /\ MayCancel(u, r)
         /\ Save(Put(Current, id,
                     Closed(r, IF r.status = "active" THEN "revoked"
                                                      ELSE "cancelled", now),
                     <<"cancelled">>))
  /\ UNCHANGED <<issued, now, seen>>

Revoke(u, id) ==
  /\ id \in IdsIn(Current)
  /\ Expected(u, id)
  /\ LET r == Current.requests[id]
     IN  /\ SameTenant(r, u)
         /\ r.status = "active"
         /\ Save(Put(Current, id, Closed(r, "revoked", now), <<"revoked">>))
  /\ UNCHANGED <<issued, now, seen>>

\* completePostReview: by another person, once, whatever the status.
CompletePostReview(u, id) ==
  /\ id \in IdsIn(Current)
  /\ Expected(u, id)
  /\ LET r == Current.requests[id]
     IN  /\ SameTenant(r, u)
         /\ r.breakGlass
         /\ r.subject # u
         /\ r.reviewer = Nobody
         /\ Save(Put(Current, id,
                     [r EXCEPT !.reviewer = u, !.version = @ + 1],
                     <<"reviewed">>))
  /\ UNCHANGED <<issued, now, seen>>

\* An evicted holder resumes and replaces the snapshot by its own.
LateWrite ==
  /\ \E s \in late : store' = s /\ late' = late \ {s}
  /\ UNCHANGED <<issued, now, seen>>

Decide(u, id) ==
  \/ Approve(u, id)
  \/ Deny(u, id)
  \/ Revoke(u, id)
  \/ CompletePostReview(u, id)

\* handle: each route asks for the permission of the principal that its action
\* needs; a decision carries the expected version.
Handle ==
  \/ \E u \in Lookers : Look(u)
  \/ \E u \in Requesters, b \in Bundles : RequestAccess(u, b)
  \/ \E u \in BreakGlassUsers, b \in Bundles : ActivateBreakGlass(u, b)
  \/ \E u \in Requesters, id \in IdsIn(store) : Cancel(u, id)
  \/ \E u \in Approvers, id \in IdsIn(store) : Decide(u, id)

Next == Tick \/ LateWrite \/ Handle

Spec == Init /\ [][Next]_vars

-----------------------------------------------------------------------------
(* What the registry promises.                                              *)

Snapshots == {store} \cup late

SnapshotOK(s) ==
  /\ IdsIn(s) \subseteq Ids
  /\ \A id \in IdsIn(s) : s.requests[id] \in Request
  /\ s.log \subseteq Event
  /\ s.sequence \in Nat
  /\ s.anchor \in Nat

\* Every snapshot is well formed, also those that evicted holders may write.
TypeOK ==
  /\ \A s \in Snapshots : SnapshotOK(s)
  /\ issued \in Nat
  /\ now \in Nat
  /\ seen \in [Lookers -> [id : {0}] \cup [id : Ids, request : Request]]

Colleagues(r) == {u \in Subjects : u # r.subject /\ SameTenant(r, u)}

\* approve (lines 151-180): an elevation that is not break glass rests on the
\* approvals of ApprovalsRequired different people of the requester's tenant,
\* none of them the requester, in whatever order approvals, expiry, denials
\* and the writes of evicted holders came.
ElevationHasQuorum ==
  \A s \in Snapshots : \A id \in IdsIn(s) :
    LET r == s.requests[id]
    IN  r.status = "active" /\ ~r.breakGlass =>
          Cardinality(Range(r.approvals) \cap Colleagues(r)) >= ApprovalsRequired

\* authorise (lines 68-101): nobody uses a permission outside the term of some
\* grant of his, although the end of the term is stored only by the next
\* mutation, and an old grant may be brought back by the write of an evicted
\* holder.
AccessWithinTerm ==
  \A u \in Subjects, permission \in Permissions :
    Authorised(u, permission) =>
      \E id \in IdsIn(store) :
        LET r    == store.requests[id]
            term == IF r.breakGlass THEN BreakGlassDuration ELSE Duration
        IN  /\ r.subject = u /\ permission \in r.permissions
            /\ r.status = "active"
            /\ now < r.deadline /\ r.deadline <= now + term

\* requestAccess (lines 111-120): nobody has, next to a live request or
\* elevation, another request made later for one of its permissions.  Break
\* glass is the exception: it is granted next to anything.
OneLiveRequestPerPermission ==
  \A s \in Snapshots : \A i, j \in IdsIn(s) :
    i < j /\ s.requests[i].status \in Live /\ s.requests[j].status \in Live
      /\ ~s.requests[j].breakGlass /\ s.requests[i].subject = s.requests[j].subject
    => s.requests[i].permissions \cap s.requests[j].permissions = {}

\* verifyEvents (lines 594-612): the retained events are numbered without a
\* gap from the anchor to the last event, whatever was trimmed.
ChainVerifies ==
  \A s \in Snapshots :
    /\ {e.seq : e \in s.log} = (s.anchor + 1)..s.sequence
    /\ Cardinality(s.log) = s.sequence - s.anchor

StatusAfter(action) ==
  CASE action \in {"requested", "approved"}    -> {"pending"}
    [] action \in {"activated", "broke_glass"} -> {"active"}
    [] action = "cancelled"                    -> {"cancelled", "revoked"}
    [] OTHER                                   -> {action}

\* event (lines 573-592): the last retained event of a request, reviews
\* aside, tells its status, so no change of status escapes the event chain.
EventsAccountForRequests ==
  \A s \in Snapshots : \A id \in IdsIn(s) :
    LET told == {e \in s.log : e.id = id /\ e.action # "reviewed"}
    IN  \A e \in told :
          (\A f \in told : f.seq <= e.seq)
            => s.requests[id].status \in StatusAfter(e.action)

\* TERMINAL (line 10): what is denied, cancelled, revoked or expired stays so
\* until it is pruned, as long as no evicted holder writes.
ClosedStaysClosed ==
  [][\/ LateWrite
     \/ \A id \in IdsIn(store) :
          store.requests[id].status \in Terminal /\ id \in IdsIn(store')
          => store'.requests[id].status = store.requests[id].status]_vars

\* prune (lines 451-460): a break glass that nobody has reviewed is kept, as
\* long as no evicted holder writes.
BreakGlassKeptForReview ==
  [][\/ LateWrite
     \/ \A id \in IdsIn(store) :
          store.requests[id].breakGlass /\ store.requests[id].reviewer = Nobody
          => id \in IdsIn(store')]_vars

\* version (lines 621-632): who approves, denies, cancels, revokes or reviews
\* does so on exactly the request it looked at, although others change and
\* expire requests in between.  This needs that no evicted holder writes: two
\* snapshots that grew apart can have different requests of one version.
DecisionsAreInformed ==
  [][\A u \in Lookers, id \in IdsIn(store) :
       Decide(u, id) \/ Cancel(u, id)
       => seen[u].request = store.requests[id]]_vars

\* privilegedAccessAdapter.js:19-22 says of every call that it reaches the
\* "mutex-protected registry so revocation and expiry remain immediately
\* visible across processes".
RevocationIsFinal ==
  [][\A id \in IdsIn(store) :
       store.requests[id].status = "revoked" /\ id \in IdsIn(store')
       => store'.requests[id].status # "active"]_vars

\* docs/privileged-access.md asks for a "post-use review" of a break glass.
ReviewedAfterUse ==
  \A id \in IdsIn(store) :
    store.requests[id].reviewer # Nobody
    => Effective(store.requests[id], now) # "active"

=============================================================================
