----------------------- MODULE PrivilegedAccessProofs -----------------------
(***************************************************************************)
(* Theorems about PrivilegedAccess: every snapshot, also one that an       *)
(* evicted holder may still write, is well formed, elevates nobody without *)
(* the approvals, has no overlapping requests, grants terms only, and has  *)
(* a chain of events that accounts for its requests; and what mutations    *)
(* that are not late can do to closed requests and to outstanding reviews. *)
(*                                                                         *)
(* The invariant is about one snapshot at a time, so the proof follows     *)
(* mutate: each helper turns a good snapshot into a good one.              *)
(***************************************************************************)
EXTENDS PrivilegedAccess, FunctionTheorems, FiniteSetTheorems, SequenceTheorems,
        TLAPS

\* A request whose approvals are those of different colleagues, and which is
\* active only with enough of them.
GoodRequest(r) ==
  /\ r \in Request
  /\ IsInjective(r.approvals)
  /\ Range(r.approvals) \subseteq Colleagues(r)
  /\ r.status = "active" /\ ~r.breakGlass => Len(r.approvals) >= ApprovalsRequired

\* Request j, if made later than i and ordinary, shares nothing with it.
Apart(i, a, j, b) ==
  i < j /\ a.status \in Live /\ b.status \in Live /\ ~b.breakGlass
    /\ a.subject = b.subject
  => a.permissions \cap b.permissions = {}

GoodSnapshot(s, n) ==
  /\ SnapshotOK(s)
  /\ IdsIn(s) \subseteq 1..n
  /\ \A id \in IdsIn(s) : GoodRequest(s.requests[id])
  /\ \A i, j \in IdsIn(s) : Apart(i, s.requests[i], j, s.requests[j])

Inv ==
  /\ TypeOK
  /\ \A s \in Snapshots : GoodSnapshot(s, issued)

-----------------------------------------------------------------------------
(* What the helpers of mutate do to a good snapshot.                        *)

LEMMA GoodLater ==
  ASSUME NEW s, NEW m \in Nat, NEW n \in Nat, m <= n, GoodSnapshot(s, m)
  PROVE  GoodSnapshot(s, n)
BY DEF GoodSnapshot

\* A closed request is a good one.
LEMMA ClosedGood ==
  ASSUME NEW r, GoodRequest(r), NEW status \in Terminal, NEW t \in Nat
  PROVE  /\ GoodRequest(Closed(r, status, t))
         /\ Closed(r, status, t).status = status
         /\ Closed(r, status, t).breakGlass = r.breakGlass
         /\ Closed(r, status, t).reviewer = r.reviewer
         /\ Closed(r, status, t).version = r.version + 1
<1> DEFINE x == Closed(r, status, t)
<1>1. r \in Request
  BY DEF GoodRequest
<1>2. x \in Request
  <2>1. status \in Live \cup Terminal /\ r.version + 1 \in Nat
    BY <1>1 DEF Request
  <2>2. QED BY <1>1, <2>1 DEF Request, Closed
<1>3. /\ x.status = status /\ x.approvals = r.approvals
      /\ x.breakGlass = r.breakGlass /\ x.reviewer = r.reviewer
      /\ x.subject = r.subject /\ x.version = r.version + 1
  BY <1>1 DEF Request, Closed
<1> HIDE DEF x
<1>4. Colleagues(x) = Colleagues(r)
  BY <1>3 DEF Colleagues, SameTenant
<1>5. GoodRequest(x)
  BY <1>1, <1>2, <1>3, <1>4 DEF GoodRequest, Terminal
<1>6. QED BY <1>3, <1>5 DEF x

\* expire leaves the requests alone, or makes live ones expired.
LEMMA ExpireRequests ==
  ASSUME NEW s, NEW n \in Nat, GoodSnapshot(s, n), NEW t \in Nat
  PROVE  /\ IdsIn(Expire(s, t)) = IdsIn(s)
         /\ \A id \in IdsIn(s) :
              \/ /\ Expire(s, t).requests[id] = s.requests[id]
                 /\ Effective(s.requests[id], t) = s.requests[id].status
              \/ /\ s.requests[id].status \in Live
                 /\ Expire(s, t).requests[id] = Closed(s.requests[id], "expired", t)
BY DEF Expire, IdsIn, Effective

LEMMA ExpireGood ==
  ASSUME NEW s, NEW n \in Nat, GoodSnapshot(s, n), NEW t \in Nat
  PROVE  GoodSnapshot(Expire(s, t), n)
<1> DEFINE x == Expire(s, t)
           elapsed == {id \in IdsIn(s) :
                         Effective(s.requests[id], t) # s.requests[id].status}
           Rank(id) == Cardinality({other \in elapsed : other <= id})
<1>1. \A id \in IdsIn(s) : GoodRequest(x.requests[id])
  <2>1. "expired" \in Terminal
    BY DEF Terminal
  <2> TAKE id \in IdsIn(s)
  <2>2. GoodRequest(s.requests[id])
    BY DEF GoodSnapshot
  <2>3. GoodRequest(Closed(s.requests[id], "expired", t))
    BY <2>1, <2>2, ClosedGood
  <2>4. QED BY <2>2, <2>3, ExpireRequests
<1>2. IdsIn(x) = IdsIn(s)
  BY ExpireRequests
<1>3. \A id \in IdsIn(s) :
        \/ x.requests[id] = s.requests[id]
        \/ x.requests[id].status = "expired"
  <2>1. "expired" \in Terminal
    BY DEF Terminal
  <2> TAKE id \in IdsIn(s)
  <2>2. GoodRequest(s.requests[id])
    BY DEF GoodSnapshot
  <2>3. Closed(s.requests[id], "expired", t).status = "expired"
    BY <2>1, <2>2, ClosedGood
  <2>4. QED BY <2>3, ExpireRequests
<1>4. \A i, j \in IdsIn(s) : Apart(i, x.requests[i], j, x.requests[j])
  BY <1>3 DEF GoodSnapshot, Apart, Live
<1>5. IsFiniteSet(elapsed) /\ Cardinality(elapsed) \in Nat
  <2>1. elapsed \in SUBSET (1..n)
    BY DEF GoodSnapshot
  <2>2. IsFiniteSet(1..n)
    BY FS_Interval
  <2> HIDE DEF elapsed
  <2>3. QED BY <2>1, <2>2, FS_Subset, FS_CardinalityType
<1>6. \A id \in elapsed : Rank(id) \in Nat
  <2> TAKE id \in elapsed
  <2>1. {other \in elapsed : other <= id} \in SUBSET elapsed
    OBVIOUS
  <2>2. QED BY <2>1, <1>5, FS_Subset, FS_CardinalityType
<1>7. x.log \subseteq Event /\ x.sequence \in Nat /\ x.anchor \in Nat
  <2>1. x.log = s.log \cup {[seq |-> s.sequence + Rank(id),
                            action |-> "expired", id |-> id] : id \in elapsed}
    BY DEF Expire
  <2>2. \A id \in elapsed : [seq |-> s.sequence + Rank(id),
                             action |-> "expired", id |-> id] \in Event
    BY <1>6 DEF GoodSnapshot, SnapshotOK, Event, Actions, Ids
  <2>3. x.sequence = s.sequence + Cardinality(elapsed) /\ x.anchor = s.anchor
    BY DEF Expire
  <2> HIDE DEF elapsed, Rank, x
  <2>4. QED BY <2>1, <2>2, <2>3, <1>5 DEF GoodSnapshot, SnapshotOK
<1> HIDE DEF x
<1>8. SnapshotOK(x)
  BY <1>1, <1>2, <1>7 DEF GoodSnapshot, SnapshotOK, GoodRequest
<1>9. GoodSnapshot(x, n)
  BY <1>1, <1>2, <1>4, <1>8 DEF GoodSnapshot
<1>10. QED BY <1>9 DEF x

LEMMA PruneRequests ==
  ASSUME NEW s, NEW t
  PROVE  /\ IdsIn(Prune(s, t)) = {id \in IdsIn(s) : ~Prunable(s.requests[id], t)}
         /\ \A id \in IdsIn(Prune(s, t)) :
              Prune(s, t).requests[id] = s.requests[id]
         /\ Prune(s, t).log = s.log
         /\ Prune(s, t).sequence = s.sequence
         /\ Prune(s, t).anchor = s.anchor
BY DEF Prune, IdsIn, Restrict

LEMMA PruneGood ==
  ASSUME NEW s, NEW n \in Nat, GoodSnapshot(s, n), NEW t \in Nat
  PROVE  GoodSnapshot(Prune(s, t), n)
BY PruneRequests DEF GoodSnapshot, SnapshotOK

LEMMA TrimGood ==
  ASSUME NEW s, NEW n \in Nat, GoodSnapshot(s, n)
  PROVE  GoodSnapshot(Trim(s), n) /\ Trim(s).requests = s.requests
<1>1. CASE s.sequence - s.anchor <= EventRetention
  BY <1>1 DEF Trim
<1>2. CASE ~(s.sequence - s.anchor <= EventRetention)
  <2> DEFINE last == s.sequence - EventRetention
  <2>1. last \in Nat
    BY <1>2, PrivilegedAssumption DEF GoodSnapshot, SnapshotOK
  <2>2. Trim(s) = [requests |-> s.requests, log |-> {e \in s.log : e.seq > last},
                   sequence |-> s.sequence, anchor |-> last]
    BY <1>2 DEF Trim
  <2>3. QED BY <2>1, <2>2 DEF GoodSnapshot, SnapshotOK, IdsIn
<1>3. QED BY <1>1, <1>2

\* A good request can be put where it is apart from the others.
LEMMA PutGood ==
  ASSUME NEW s, NEW m \in Nat, NEW n \in Nat, m <= n, GoodSnapshot(s, m),
         NEW id \in 1..n, NEW r, GoodRequest(r), NEW actions \in Seq(Actions),
         \A i \in IdsIn(s) \ {id} : /\ Apart(i, s.requests[i], id, r)
                                    /\ Apart(id, r, i, s.requests[i])
  PROVE  GoodSnapshot(Put(s, id, r, actions), n)
<1> DEFINE x == Put(s, id, r, actions)
<1>1. /\ IdsIn(x) = IdsIn(s) \cup {id}
      /\ \A i \in IdsIn(x) : x.requests[i] = IF i = id THEN r ELSE s.requests[i]
      /\ x.log = Logged(s.log, s.sequence, actions, id)
      /\ x.sequence = s.sequence + Len(actions)
      /\ x.anchor = s.anchor
  BY DEF Put, IdsIn
<1> HIDE DEF x
<1>2. x.log \subseteq Event
  <2>1. \A i \in DOMAIN actions :
          [seq |-> s.sequence + i, action |-> actions[i], id |-> id] \in Event
    BY DEF GoodSnapshot, SnapshotOK, Event, Ids
  <2>2. QED BY <1>1, <2>1 DEF Logged, GoodSnapshot, SnapshotOK
<1>3. \A i, j \in IdsIn(x) : Apart(i, x.requests[i], j, x.requests[j])
  <2>1. ~Apart(id, r, id, r) => FALSE
    BY DEF Apart
  <2>2. QED BY <1>1, <2>1 DEF GoodSnapshot
<1>4. SnapshotOK(x)
  BY <1>1, <1>2 DEF GoodSnapshot, SnapshotOK, GoodRequest, Ids
<1>5. IdsIn(x) \subseteq 1..n /\ \A i \in IdsIn(x) : GoodRequest(x.requests[i])
  BY <1>1 DEF GoodSnapshot
<1>6. GoodSnapshot(x, n)
  BY <1>3, <1>4, <1>5 DEF GoodSnapshot
<1>7. QED BY <1>6 DEF x

-----------------------------------------------------------------------------
(* The snapshot that an operation finds, and what saving does.              *)

\* Compared with the snapshot on disk, an operation finds some requests
\* expired and some gone, but no unreviewed break glass gone.
LEMMA CurrentRequests ==
  ASSUME Inv
  PROVE  /\ GoodSnapshot(Current, issued)
         /\ \A id \in IdsIn(Current) :
              /\ id \in IdsIn(store)
              /\ \/ /\ Current.requests[id] = store.requests[id]
                    /\ Effective(store.requests[id], now) = store.requests[id].status
                 \/ /\ store.requests[id].status \in Live
                    /\ Current.requests[id].status = "expired"
                    /\ Current.requests[id].version = store.requests[id].version + 1
                    /\ Current.requests[id].breakGlass = store.requests[id].breakGlass
                    /\ Current.requests[id].reviewer = store.requests[id].reviewer
         /\ \A id \in IdsIn(store) :
              store.requests[id].breakGlass /\ store.requests[id].reviewer = Nobody
              => id \in IdsIn(Current)
<1>1. GoodSnapshot(store, issued) /\ now \in Nat /\ issued \in Nat
  BY DEF Inv, Snapshots, TypeOK
<1> DEFINE x == Expire(store, now)
<1>2. GoodSnapshot(x, issued)
  BY <1>1, ExpireGood
<1>3. /\ IdsIn(x) = IdsIn(store)
      /\ \A id \in IdsIn(store) :
           \/ /\ x.requests[id] = store.requests[id]
              /\ Effective(store.requests[id], now) = store.requests[id].status
           \/ /\ store.requests[id].status \in Live
              /\ x.requests[id].status = "expired"
              /\ x.requests[id].version = store.requests[id].version + 1
              /\ x.requests[id].breakGlass = store.requests[id].breakGlass
              /\ x.requests[id].reviewer = store.requests[id].reviewer
  <2>1. "expired" \in Terminal
    BY DEF Terminal
  <2>2. \A id \in IdsIn(store) : GoodRequest(store.requests[id])
    BY <1>1 DEF GoodSnapshot
  <2>3. QED BY <1>1, <2>1, <2>2, ExpireRequests, ClosedGood
<1> HIDE DEF x
<1>4. Current = Prune(x, now)
  BY DEF Current, x
<1>5. GoodSnapshot(Current, issued)
  BY <1>1, <1>2, <1>4, PruneGood
<1>6. /\ IdsIn(Current) = {id \in IdsIn(x) : ~Prunable(x.requests[id], now)}
      /\ \A id \in IdsIn(Current) : Current.requests[id] = x.requests[id]
  BY <1>4, PruneRequests
<1>7. QED BY <1>3, <1>5, <1>6 DEF Prunable

\* What an operation saves is good if what it put together is.
LEMMA SaveGood ==
  ASSUME Inv, NEW s, Save(s), issued' \in Nat, issued <= issued',
         GoodSnapshot(s, issued')
  PROVE  /\ \A x \in Snapshots' : GoodSnapshot(x, issued')
         /\ \/ store' = store
            \/ store'.requests = s.requests
<1>1. GoodSnapshot(Trim(s), issued') /\ Trim(s).requests = s.requests
  BY TrimGood
<1>2. \A x \in Snapshots : GoodSnapshot(x, issued')
  BY GoodLater DEF Inv, TypeOK
<1>3. \A x \in Snapshots' : x \in Snapshots \/ x = Trim(s)
  BY DEF Save, Snapshots
<1>4. store' = store \/ store' = Trim(s)
  BY DEF Save
<1>5. QED BY <1>1, <1>2, <1>3, <1>4

\* A request that keeps its person and permissions, and is live only if it
\* was, can replace its former self.
LEMMA ReplaceGood ==
  ASSUME Inv, NEW id \in IdsIn(Current), NEW r, GoodRequest(r),
         NEW actions \in Seq(Actions),
         r.subject = Current.requests[id].subject,
         r.permissions = Current.requests[id].permissions,
         r.breakGlass = Current.requests[id].breakGlass,
         r.status \in Live => Current.requests[id].status \in Live
  PROVE  GoodSnapshot(Put(Current, id, r, actions), issued)
<1>1. GoodSnapshot(Current, issued) /\ issued \in Nat
  BY CurrentRequests DEF Inv, TypeOK
<1>2. id \in 1..issued
  BY <1>1 DEF GoodSnapshot
<1>3. \A i \in IdsIn(Current) \ {id} :
        /\ Apart(i, Current.requests[i], id, r)
        /\ Apart(id, r, i, Current.requests[i])
  BY <1>1 DEF GoodSnapshot, Apart
<1>4. issued <= issued
  BY <1>1
<1>5. QED BY <1>1, <1>2, <1>3, <1>4, PutGood

\* A request can be added if it is apart from those there are.
LEMMA AddGood ==
  ASSUME Inv, NEW r, GoodRequest(r), NEW actions \in Seq(Actions),
         \A i \in IdsIn(Current) : Apart(i, Current.requests[i], issued + 1, r)
  PROVE  GoodSnapshot(Put(Current, issued + 1, r, actions), issued + 1)
<1>1. GoodSnapshot(Current, issued) /\ issued \in Nat
  BY CurrentRequests DEF Inv, TypeOK
<1>2. \A i \in IdsIn(Current) : i \in 1..issued
  BY <1>1 DEF GoodSnapshot
<1>3. \A i \in IdsIn(Current) : Apart(issued + 1, r, i, Current.requests[i])
  BY <1>1, <1>2 DEF Apart
<1>4. issued <= issued + 1 /\ issued + 1 \in Nat /\ issued + 1 \in 1..(issued + 1)
  BY <1>1
<1>5. QED BY <1>1, <1>3, <1>4, PutGood

-----------------------------------------------------------------------------
(* What the operations put into the snapshot is good.                       *)

LEMMA NewGood ==
  ASSUME Inv, NEW u \in Subjects, NEW b \in Bundles
  PROVE  GoodRequest(NewRequest(u, b)) /\ GoodRequest(NewBreakGlass(u, b))
<1>1. now \in Nat /\ Window \in Nat /\ BreakGlassDuration \in Nat
      /\ b \in SUBSET Permissions
  BY PrivilegedAssumption DEF Inv, TypeOK
<1>2. <<>> \in Seq(Subjects) /\ IsInjective(<<>>) /\ Range(<<>>) = {}
  BY DEF IsInjective, Range
<1>3. NewRequest(u, b) \in Request /\ NewBreakGlass(u, b) \in Request
  BY <1>1, <1>2 DEF NewRequest, NewBreakGlass, Request, Live, Terminal
<1>4. QED
  BY <1>2, <1>3 DEF NewRequest, NewBreakGlass, GoodRequest

\* An approval by someone who may approve keeps the approvals distinct, and
\* activates no request short of them.
LEMMA ApprovedGood ==
  ASSUME Inv, NEW r, GoodRequest(r), NEW u \in Subjects, MayApprove(u, r)
  PROVE  /\ GoodRequest(Approved(r, u))
         /\ Approved(r, u).subject = r.subject
         /\ Approved(r, u).permissions = r.permissions
         /\ Approved(r, u).breakGlass = r.breakGlass
         /\ Approved(r, u).reviewer = r.reviewer
         /\ Approved(r, u).version = r.version + 1
<1> DEFINE a == Append(r.approvals, u)
           x == Approved(r, u)
<1>1. r \in Request /\ r.approvals \in Seq(Subjects) /\ now + Duration \in Nat
  BY PrivilegedAssumption DEF GoodRequest, Request, Inv, TypeOK
<1>2. /\ a \in Seq(Subjects)
      /\ Len(a) = Len(r.approvals) + 1
      /\ \A i \in 1..Len(r.approvals) : a[i] = r.approvals[i]
      /\ a[Len(r.approvals) + 1] = u
  BY <1>1, AppendProperties
<1> HIDE DEF a
<1>3. \A i \in 1..Len(r.approvals) : r.approvals[i] # u
  BY <1>1 DEF MayApprove, Range
<1>4. IsInjective(a)
  BY <1>1, <1>2, <1>3 DEF GoodRequest, IsInjective
<1>5. Range(a) \subseteq Colleagues(r)
  BY <1>1, <1>2 DEF GoodRequest, Range, MayApprove, Colleagues
<1>6. x = [r EXCEPT !.approvals = a, !.version = @ + 1,
                    !.status = IF Len(a) >= ApprovalsRequired THEN "active" ELSE @,
                    !.deadline = IF Len(a) >= ApprovalsRequired
                                 THEN now + Duration ELSE @]
  BY DEF Approved, a
<1> HIDE DEF x
<1>7. /\ x.subject = r.subject /\ x.permissions = r.permissions
      /\ x.breakGlass = r.breakGlass /\ x.reviewer = r.reviewer
      /\ x.approvals = a /\ x.version = r.version + 1
      /\ x.status = IF Len(a) >= ApprovalsRequired THEN "active" ELSE r.status
  BY <1>1, <1>6 DEF Request
<1>8. x \in Request
  <2> DEFINE status == IF Len(a) >= ApprovalsRequired THEN "active" ELSE r.status
             deadline == IF Len(a) >= ApprovalsRequired
                         THEN now + Duration ELSE r.deadline
  <2>1. r.version + 1 \in Nat /\ deadline \in Nat
    BY <1>1 DEF Request
  <2>2. status \in Live \cup Terminal
    BY <1>1 DEF Request, Live, Terminal
  <2>3. x = [r EXCEPT !.approvals = a, !.version = r.version + 1,
                      !.status = status, !.deadline = deadline]
    BY <1>6
  <2> HIDE DEF status, deadline
  <2>4. QED BY <1>1, <1>2, <2>1, <2>2, <2>3 DEF Request
<1>9. Colleagues(x) = Colleagues(r)
  BY <1>7 DEF Colleagues, SameTenant
<1>10. GoodRequest(x)
  BY <1>4, <1>5, <1>7, <1>8, <1>9 DEF GoodRequest, MayApprove
<1>11. QED BY <1>7, <1>10 DEF x

-----------------------------------------------------------------------------
(* The invariant and its consequences.                                      *)

\* A step that leaves the snapshots and the looks alone, or saves a good one.
LEMMA SaveKeepsInv ==
  ASSUME Inv, NEW s, Save(s), GoodSnapshot(s, issued'),
         issued' \in Nat, issued <= issued', UNCHANGED <<now, seen>>
  PROVE  Inv'
<1>1. \A x \in Snapshots' : GoodSnapshot(x, issued')
  BY SaveGood
<1>2. TypeOK'
  BY <1>1 DEF Inv, TypeOK, GoodSnapshot
<1>3. QED BY <1>1, <1>2 DEF Inv

\* The term of a request; break glass is never pending.
WithinTerm(r, t) ==
  /\ r.status = "pending" => ~r.breakGlass
  /\ r.status = "active" =>
       r.deadline <= t + (IF r.breakGlass THEN BreakGlassDuration ELSE Duration)

\* What a mutation puts in place of request id, or as a new one: the last of
\* its actions tells the status, or it is a review, which changes none.
Told(id, r, actions) ==
  \/ /\ actions = <<"reviewed">> /\ id \in IdsIn(Current)
     /\ r.status = Current.requests[id].status
     /\ r.breakGlass = Current.requests[id].breakGlass
     /\ r.deadline = Current.requests[id].deadline
  \/ /\ WithinTerm(r, now)
     /\ \E action \in Actions \ {"reviewed"} :
          /\ actions \in {<<action>>, <<"approved", action>>}
          /\ r.status \in StatusAfter(action)

\* What each mutation puts into the snapshot it found, and that this is good and told.
LEMMA MutationSaves ==
  ASSUME Inv
  PROVE  /\ \A u \in Approvers, id \in IdsIn(Current) :
              Decide(u, id) =>
                \E r, actions :
                  /\ GoodSnapshot(Put(Current, id, r, actions), issued)
                  /\ Save(Put(Current, id, r, actions))
                  /\ UNCHANGED <<issued, now, seen>>
                  /\ WithinTerm(Current.requests[id], now) => Told(id, r, actions)
                  /\ r.version = Current.requests[id].version + 1
                  /\ Current.requests[id].status \in Terminal
                       => r.status = Current.requests[id].status
         /\ \A u \in Requesters, id \in IdsIn(Current) :
              Cancel(u, id) =>
                \E r, actions :
                  /\ GoodSnapshot(Put(Current, id, r, actions), issued)
                  /\ Save(Put(Current, id, r, actions))
                  /\ UNCHANGED <<issued, now, seen>>
                  /\ WithinTerm(Current.requests[id], now) => Told(id, r, actions)
                  /\ r.version = Current.requests[id].version + 1
               /\ Current.requests[id].status \notin Terminal
<1>1. \A id \in IdsIn(Current) : GoodRequest(Current.requests[id])
  BY CurrentRequests DEF GoodSnapshot
<1>2. now \in Nat
  BY DEF Inv, TypeOK
<1>3. ASSUME NEW id \in IdsIn(Current), NEW status \in Terminal,
             NEW action \in Actions \ {"reviewed"}, status \in StatusAfter(action)
      PROVE  GoodSnapshot(Put(Current, id,
                              Closed(Current.requests[id], status, now),
                              <<action>>), issued)
             /\ Closed(Current.requests[id], status, now).version
                  = Current.requests[id].version + 1
             /\ Told(id, Closed(Current.requests[id], status, now), <<action>>)
  <2> DEFINE r == Current.requests[id]
  <2>1. GoodRequest(r) /\ r \in Request
    BY <1>1 DEF GoodRequest
  <2>2. GoodRequest(Closed(r, status, now)) /\ Closed(r, status, now).status = status
        /\ Closed(r, status, now).breakGlass = r.breakGlass
        /\ Closed(r, status, now).version = r.version + 1
    BY <1>2, <2>1, ClosedGood
  <2>3. Closed(r, status, now).subject = r.subject
        /\ Closed(r, status, now).permissions = r.permissions
    BY <2>1 DEF Closed, Request
  <2>4. status \notin Live /\ <<action>> \in Seq(Actions)
    BY DEF Live, Terminal
  <2>5. Told(id, Closed(r, status, now), <<action>>)
    BY <1>3, <2>2, <2>4 DEF Told, WithinTerm, Live
  <2> HIDE DEF r
  <2>6. QED BY <2>2, <2>3, <2>4, <2>5, ReplaceGood DEF r
<1>4. ASSUME NEW u \in Approvers, NEW id \in IdsIn(Current), Approve(u, id)
      PROVE  \E r, actions :
               /\ GoodSnapshot(Put(Current, id, r, actions), issued)
               /\ Save(Put(Current, id, r, actions))
               /\ UNCHANGED <<issued, now, seen>>
               /\ WithinTerm(Current.requests[id], now) => Told(id, r, actions)
               /\ r.version = Current.requests[id].version + 1
               /\ Current.requests[id].status \in Terminal
                    => r.status = Current.requests[id].status
  <2> DEFINE old == Current.requests[id]
             r == Approved(old, u)
             actions == IF r.status = "active" THEN <<"approved", "activated">>
                                               ELSE <<"approved">>
  <2>1. GoodRequest(old) /\ MayApprove(u, old) /\ u \in Subjects
    BY <1>1, <1>4, PrivilegedAssumption DEF Approve
  <2>2. GoodRequest(r) /\ r.subject = old.subject /\ r.breakGlass = old.breakGlass
        /\ r.permissions = old.permissions /\ r.version = old.version + 1
    BY <2>1, ApprovedGood
  <2>3. actions \in Seq(Actions)
    <3>1. "approved" \in Actions /\ "activated" \in Actions
      BY DEF Actions
    <3>2. <<"approved">> \in Seq(Actions)
          /\ <<"approved", "activated">> \in Seq(Actions)
      BY <3>1
    <3> HIDE DEF r
    <3>3. QED BY <3>2
  <2>4. old.status = "pending" /\ old.status \in Live /\ old.status \notin Terminal
    BY <2>1 DEF MayApprove, Live, Terminal
  <2>5. Save(Put(Current, id, r, actions)) /\ UNCHANGED <<issued, now, seen>>
    BY <1>4 DEF Approve
  <2> HIDE DEF r, actions
  <2>6. GoodSnapshot(Put(Current, id, r, actions), issued)
    BY <2>2, <2>3, <2>4, ReplaceGood
  <2>7. WithinTerm(old, now) => Told(id, r, actions)
    <3> SUFFICES ASSUME WithinTerm(old, now) PROVE Told(id, r, actions)
      OBVIOUS
    <3>1. old.breakGlass \in BOOLEAN /\ ~old.breakGlass
      BY <2>1, <2>4 DEF WithinTerm, GoodRequest, Request
    <3>2. \/ r.status = "active" /\ r.deadline = now + Duration
             /\ actions = <<"approved", "activated">>
          \/ r.status = "pending" /\ actions = <<"approved">>
      BY <2>1, <2>4 DEF r, actions, Approved, GoodRequest, Request
    <3>3. WithinTerm(r, now)
      BY <1>2, <2>2, <3>1, <3>2, PrivilegedAssumption DEF WithinTerm
    <3>4. QED BY <3>2, <3>3 DEF Told, StatusAfter, Actions
  <2>8. QED BY <2>2, <2>4, <2>5, <2>6, <2>7
<1>5. ASSUME NEW u \in Approvers, NEW id \in IdsIn(Current),
             Deny(u, id) \/ Revoke(u, id)
      PROVE  \E r, actions :
               /\ GoodSnapshot(Put(Current, id, r, actions), issued)
               /\ Save(Put(Current, id, r, actions))
               /\ UNCHANGED <<issued, now, seen>>
               /\ WithinTerm(Current.requests[id], now) => Told(id, r, actions)
               /\ r.version = Current.requests[id].version + 1
               /\ Current.requests[id].status \in Terminal
                    => r.status = Current.requests[id].status
  <2>1. /\ {"denied", "revoked"} \subseteq Terminal
        /\ {"denied", "revoked"} \subseteq Actions \ {"reviewed"}
        /\ "denied" \in StatusAfter("denied") /\ "revoked" \in StatusAfter("revoked")
        /\ "pending" \notin Terminal /\ "active" \notin Terminal
    BY DEF Terminal, Actions, StatusAfter
  <2>2. QED BY <1>3, <1>5, <2>1 DEF Deny, Revoke
<1>6. ASSUME NEW u \in Approvers, NEW id \in IdsIn(Current),
             CompletePostReview(u, id)
      PROVE  \E r, actions :
               /\ GoodSnapshot(Put(Current, id, r, actions), issued)
               /\ Save(Put(Current, id, r, actions))
               /\ UNCHANGED <<issued, now, seen>>
               /\ WithinTerm(Current.requests[id], now) => Told(id, r, actions)
               /\ r.version = Current.requests[id].version + 1
               /\ Current.requests[id].status \in Terminal
                    => r.status = Current.requests[id].status
  <2> DEFINE old == Current.requests[id]
             r == [old EXCEPT !.reviewer = u, !.version = @ + 1]
             actions == <<"reviewed">>
  <2>1. GoodRequest(old) /\ old \in Request /\ u \in Subjects
    BY <1>1, PrivilegedAssumption DEF GoodRequest
  <2>2. /\ r \in Request /\ r.subject = old.subject /\ r.breakGlass = old.breakGlass
        /\ r.permissions = old.permissions /\ r.status = old.status
        /\ r.approvals = old.approvals /\ r.version = old.version + 1
        /\ r.deadline = old.deadline
    <3>1. old.version + 1 \in Nat /\ u \in Subjects \cup {Nobody}
      BY <2>1 DEF Request
    <3> HIDE DEF old
    <3>2. QED BY <2>1, <3>1 DEF Request
  <2>3. actions \in Seq(Actions)
    BY DEF Actions
  <2>4. Save(Put(Current, id, r, actions)) /\ UNCHANGED <<issued, now, seen>>
    BY <1>6 DEF CompletePostReview
  <2> HIDE DEF r, actions
  <2>5. GoodRequest(r)
    BY <2>1, <2>2 DEF GoodRequest, Colleagues, SameTenant
  <2>6. GoodSnapshot(Put(Current, id, r, actions), issued)
    BY <2>2, <2>3, <2>5, ReplaceGood
  <2>7. Told(id, r, actions)
    BY <2>2 DEF Told, actions
  <2>8. QED BY <2>2, <2>4, <2>6, <2>7
<1>7. ASSUME NEW u \in Requesters, NEW id \in IdsIn(Current), Cancel(u, id)
      PROVE  \E r, actions :
               /\ GoodSnapshot(Put(Current, id, r, actions), issued)
               /\ Save(Put(Current, id, r, actions))
               /\ UNCHANGED <<issued, now, seen>>
               /\ WithinTerm(Current.requests[id], now) => Told(id, r, actions)
               /\ r.version = Current.requests[id].version + 1
               /\ Current.requests[id].status \notin Terminal
  <2>1. /\ "cancelled" \in Terminal /\ "revoked" \in Terminal
        /\ "cancelled" \in Actions \ {"reviewed"}
        /\ StatusAfter("cancelled") = {"cancelled", "revoked"}
    BY DEF Terminal, Actions, StatusAfter
  <2>2. Current.requests[id].status \notin Terminal
    BY <1>7 DEF Cancel, MayCancel, Live, Terminal
  <2>3. QED BY <1>3, <1>7, <2>1, <2>2 DEF Cancel
<1>8. QED
  BY <1>4, <1>5, <1>6, <1>7 DEF Decide

\* The same for new requests and break glass.
LEMMA AdditionSaves ==
  ASSUME Inv, NEW u, NEW b \in Bundles,
         \/ u \in Requesters /\ RequestAccess(u, b)
         \/ u \in BreakGlassUsers /\ ActivateBreakGlass(u, b)
  PROVE  \E r, actions :
           /\ GoodSnapshot(Put(Current, issued + 1, r, actions), issued')
           /\ Save(Put(Current, issued + 1, r, actions))
           /\ issued' = issued + 1 /\ issued' \in Nat /\ issued <= issued'
           /\ UNCHANGED <<now, seen>>
           /\ Told(issued + 1, r, actions)
<1>1. /\ GoodRequest(NewRequest(u, b)) /\ GoodRequest(NewBreakGlass(u, b))
      /\ issued \in Nat
  BY NewGood, PrivilegedAssumption DEF Inv, TypeOK
<1>2. <<"requested">> \in Seq(Actions) /\ <<"broke_glass">> \in Seq(Actions)
  BY DEF Actions
<1>3. /\ Told(issued + 1, NewRequest(u, b), <<"requested">>)
      /\ Told(issued + 1, NewBreakGlass(u, b), <<"broke_glass">>)
  <2>1. /\ WithinTerm(NewRequest(u, b), now) /\ WithinTerm(NewBreakGlass(u, b), now)
        /\ NewRequest(u, b).status \in StatusAfter("requested")
        /\ NewBreakGlass(u, b).status \in StatusAfter("broke_glass")
    BY PrivilegedAssumption DEF WithinTerm, NewRequest, NewBreakGlass, StatusAfter, Inv, TypeOK
  <2>2. {"requested", "broke_glass"} \subseteq Actions \ {"reviewed"}
    BY DEF Actions
  <2>3. QED BY <2>1, <2>2 DEF Told
<1>4. CASE RequestAccess(u, b)
  <2>1. \A i \in IdsIn(Current) :
          Apart(i, Current.requests[i], issued + 1, NewRequest(u, b))
    BY <1>4 DEF RequestAccess, Overlaps, Apart, NewRequest
  <2>2. GoodSnapshot(Put(Current, issued + 1, NewRequest(u, b), <<"requested">>),
                     issued + 1)
    BY <1>1, <1>2, <2>1, AddGood
  <2>3. QED BY <1>1, <1>3, <1>4, <2>2 DEF RequestAccess
<1>5. CASE ActivateBreakGlass(u, b)
  <2>1. \A i \in IdsIn(Current) :
          Apart(i, Current.requests[i], issued + 1, NewBreakGlass(u, b))
    BY DEF Apart, NewBreakGlass
  <2>2. GoodSnapshot(Put(Current, issued + 1, NewBreakGlass(u, b),
                         <<"broke_glass">>), issued + 1)
    BY <1>1, <1>2, <2>1, AddGood
  <2>3. QED BY <1>1, <1>3, <1>5, <2>2 DEF ActivateBreakGlass
<1>6. QED BY <1>4, <1>5

LEMMA InitInv == Init => Inv
<1> SUFFICES ASSUME Init PROVE Inv
  OBVIOUS
<1>1. IdsIn(store) = {} /\ store.log = {} /\ store.sequence = 0 /\ store.anchor = 0
  BY DEF Init, Empty, IdsIn
<1>2. Snapshots = {store} /\ issued = 0 /\ now = 0
  BY DEF Init, Snapshots
<1>3. seen \in [Lookers -> [id : {0}] \cup [id : Ids, request : Request]]
  BY DEF Init
<1>4. SnapshotOK(store) /\ GoodSnapshot(store, issued)
  BY <1>1 DEF SnapshotOK, GoodSnapshot
<1>5. QED BY <1>2, <1>3, <1>4 DEF Inv, TypeOK

\* Identifiers offered to a mutation are either found by it, or refused.
LEMMA FoundByMutation ==
  /\ \A u, id : Decide(u, id) => id \in IdsIn(Current)
  /\ \A u, id : Cancel(u, id) => id \in IdsIn(Current)
BY DEF Decide, Approve, Deny, Revoke, CompletePostReview, Cancel

LEMMA InvInductive == Inv /\ [Next]_vars => Inv'
<1> SUFFICES ASSUME Inv, [Next]_vars PROVE Inv'
  OBVIOUS
<1>1. CASE Tick
  BY <1>1 DEF Tick, Inv, TypeOK, Snapshots
<1>2. CASE LateWrite
  <2>1. Snapshots' \subseteq Snapshots /\ UNCHANGED <<issued, now, seen>>
    BY <1>2 DEF LateWrite, Snapshots
  <2>2. QED BY <2>1 DEF Inv, TypeOK
<1>3. ASSUME NEW u \in Lookers, Look(u) PROVE Inv'
  <2>1. PICK id \in IdsIn(store) :
          seen' = [seen EXCEPT ![u] =
                     [id |-> id,
                      request |-> [store.requests[id] EXCEPT
                                     !.status = Effective(store.requests[id], now)]]]
    BY <1>3 DEF Look
  <2> DEFINE r == store.requests[id]
  <2>2. id \in Ids /\ r \in Request
    BY DEF Inv, Snapshots, TypeOK, SnapshotOK
  <2>3. Effective(r, now) \in Live \cup Terminal
    BY <2>2 DEF Effective, Request, Terminal
  <2> HIDE DEF r
  <2>4. [r EXCEPT !.status = Effective(r, now)] \in Request
    BY <2>2, <2>3 DEF Request
  <2>5. seen' \in [Lookers -> [id : {0}] \cup [id : Ids, request : Request]]
    BY <2>1, <2>2, <2>4 DEF Inv, TypeOK, r
  <2>6. UNCHANGED <<store, late, issued, now>>
    BY <1>3 DEF Look
  <2>7. QED BY <2>5, <2>6 DEF Inv, TypeOK, Snapshots
<1>4. ASSUME NEW u \in Requesters, NEW b \in Bundles, RequestAccess(u, b)
      PROVE  Inv'
  BY <1>4, AdditionSaves, SaveKeepsInv
<1>5. ASSUME NEW u \in BreakGlassUsers, NEW b \in Bundles,
             ActivateBreakGlass(u, b)
      PROVE  Inv'
  BY <1>5, AdditionSaves, SaveKeepsInv
<1>6. ASSUME NEW u, NEW id,
             \/ u \in Requesters /\ Cancel(u, id)
             \/ u \in Approvers /\ Decide(u, id)
      PROVE  Inv'
  <2>1. \E r, actions :
          /\ GoodSnapshot(Put(Current, id, r, actions), issued)
          /\ Save(Put(Current, id, r, actions))
          /\ UNCHANGED <<issued, now, seen>>
    BY <1>6, FoundByMutation, MutationSaves
  <2>2. issued \in Nat /\ issued <= issued
    BY DEF Inv, TypeOK
  <2>3. QED BY <2>1, <2>2, SaveKeepsInv
<1>7. CASE UNCHANGED vars
  BY <1>7 DEF vars, Inv, TypeOK, Snapshots
<1>8. ASSUME NEW u \in Requesters, NEW id, Cancel(u, id) PROVE Inv'
  BY <1>6, <1>8
<1>9. ASSUME NEW u \in Approvers, NEW id, Decide(u, id) PROVE Inv'
  BY <1>6, <1>9
<1>10. QED
  BY <1>1, <1>2, <1>3, <1>4, <1>5, <1>7, <1>8, <1>9 DEF Next, Handle

\* Every snapshot that is, or may come to be, on disk is good.
THEOREM PrivilegedInvariant == Spec => []Inv
BY InitInv, InvInductive, PTL DEF Spec

\* Every reachable state is well typed.
THEOREM PrivilegedTypeCorrect == Spec => []TypeOK
<1>1. Inv => TypeOK
  BY DEF Inv
<1>2. QED BY <1>1, PrivilegedInvariant, PTL

\* Distinct approvals by colleagues are as many colleagues as approvals.
LEMMA ApproversCounted ==
  ASSUME NEW r, GoodRequest(r)
  PROVE  Cardinality(Range(r.approvals) \cap Colleagues(r)) = Len(r.approvals)
<1> DEFINE a == r.approvals
<1>1. a \in Seq(Subjects) /\ Len(a) \in Nat /\ DOMAIN a = 1..Len(a)
  BY DEF GoodRequest, Request
<1>2. Range(a) \cap Colleagues(r) = Range(a)
  BY DEF GoodRequest
<1>3. a \in [1..Len(a) -> Range(a)]
  BY <1>1 DEF Range
<1>4. a \in Bijection(1..Len(a), Range(a))
  BY <1>1, <1>3 DEF GoodRequest, IsInjective, Range, Bijection, Injection, Surjection
<1>5. Cardinality(Range(a)) = Len(a)
  BY <1>1, <1>4, FS_CountingElements DEF ExistsBijection
<1>6. QED BY <1>2, <1>5

\* approve (lines 151-180): no elevation but break glass without the approvals
\* of enough different colleagues of the requester.
THEOREM ElevationsApproved == Spec => []ElevationHasQuorum
<1>1. Inv => ElevationHasQuorum
  BY ApproversCounted DEF Inv, GoodSnapshot, GoodRequest, ElevationHasQuorum
<1>2. QED BY <1>1, PrivilegedInvariant, PTL

\* requestAccess (lines 111-120): no request is made for a permission that
\* another live request of the same person covers.
THEOREM RequestsApart == Spec => []OneLiveRequestPerPermission
<1>1. Inv => OneLiveRequestPerPermission
  BY DEF Inv, GoodSnapshot, Apart, OneLiveRequestPerPermission
<1>2. QED BY <1>1, PrivilegedInvariant, PTL

-----------------------------------------------------------------------------
(* The events and the terms: what every snapshot tells.                     *)

\* Events are numbered without a gap and once each, about requests made.
Numbered(s, n) ==
  /\ s.anchor <= s.sequence
  /\ \A e \in s.log : s.anchor < e.seq /\ e.seq <= s.sequence /\ e.id <= n
  /\ \A k \in (s.anchor + 1)..s.sequence : \E e \in s.log : e.seq = k
  /\ \A e, f \in s.log : e.seq = f.seq => e = f

\* e is the last that the log says of request id, reviews aside.
LastWord(log, id, e) ==
  /\ e \in log /\ e.id = id /\ e.action # "reviewed"
  /\ \A f \in log : f.id = id /\ f.action # "reviewed" => f.seq <= e.seq

Accounted(s, n, t) ==
  /\ GoodSnapshot(s, n)
  /\ Numbered(s, n)
  /\ \A id \in IdsIn(s) :
       /\ WithinTerm(s.requests[id], t)
       /\ \A e : LastWord(s.log, id, e) => s.requests[id].status \in StatusAfter(e.action)

Account == \A s \in Snapshots : Accounted(s, issued, now)

\* The members of a finite set of numbers, ranked by size, get the ranks from
\* one to their number.
LEMMA Ranks ==
  ASSUME NEW S \in SUBSET Nat, IsFiniteSet(S)
  PROVE  LET Rank(i) == Cardinality({j \in S : j <= i})
         IN  /\ \A i \in S : Rank(i) \in 1..Cardinality(S)
             /\ \A i, j \in S : Rank(i) = Rank(j) => i = j
             /\ \A k \in 1..Cardinality(S) : \E i \in S : Rank(i) = k
<1> DEFINE Upto(i) == {j \in S : j <= i}
           Rank(i) == Cardinality(Upto(i))
           n == Cardinality(S)
<1>1. n \in Nat
  BY FS_CardinalityType
<1>2. \A i \in S : Upto(i) \in SUBSET S /\ i \in Upto(i)
  OBVIOUS
<1>3. \A i \in S : IsFiniteSet(Upto(i)) /\ Rank(i) \in Nat /\ Rank(i) <= n /\ Rank(i) # 0
  <2> TAKE i \in S
  <2>1. IsFiniteSet(Upto(i)) /\ Rank(i) <= n
    BY <1>2, FS_Subset
  <2>2. Rank(i) \in Nat /\ (Rank(i) = 0 => Upto(i) = {})
    BY <2>1, FS_CardinalityType, FS_EmptySet
  <2>3. QED BY <1>2, <2>1, <2>2
<1>4. ASSUME NEW i \in S, NEW j \in S, i < j
      PROVE  Rank(i) # Rank(j)
  <2>1. i \in Nat /\ j \in Nat /\ \A k \in S : k \in Nat
    OBVIOUS
  <2>2. Upto(i) \in SUBSET Upto(j) /\ j \in Upto(j) /\ j \notin Upto(i)
    <3>1. \A k \in Upto(i) : k \in S /\ k <= j
      BY <1>4, <2>1
    <3>2. j \in Upto(j) /\ ~(j <= i)
      BY <1>4, <2>1
    <3>3. QED BY <3>1, <3>2
  <2> HIDE DEF Upto
  <2>3. QED BY <1>3, <2>2, FS_Subset
<1>5. \A i, j \in S : Rank(i) = Rank(j) => i = j
  <2> TAKE i \in S, j \in S
  <2> HIDE DEF Rank
  <2>1. i < j \/ j < i \/ i = j
    OBVIOUS
  <2>2. QED BY <1>4, <2>1
<1> DEFINE f == [i \in S |-> Rank(i)]
<1> HIDE DEF Rank, n, Upto
<1>6. f \in [S -> 1..n]
  BY <1>1, <1>3
<1>7. f \in Injection(S, 1..n)
  BY <1>5, <1>6 DEF Injection, IsInjective
<1>8. IsFiniteSet(1..n) /\ Cardinality(1..n) = n
  BY <1>1, FS_Interval
<1>9. f \in Surjection(S, 1..n)
  BY <1>7, <1>8, FS_Injection DEF n
<1>10. \A k \in 1..n : \E i \in S : Rank(i) = k
  BY <1>9 DEF Surjection
<1>11. \A i \in S : Rank(i) \in 1..n
  BY <1>6
<1>12. QED BY <1>5, <1>10, <1>11 DEF Rank, n, Upto

\* expire numbers its events on, and each is the last of its request.
LEMMA ExpireAccounts ==
  ASSUME NEW s, NEW n \in Nat, NEW t \in Nat, Accounted(s, n, t)
  PROVE  Accounted(Expire(s, t), n, t)
<1> DEFINE x == Expire(s, t)
           elapsed == {id \in IdsIn(s) :
                         Effective(s.requests[id], t) # s.requests[id].status}
           Rank(id) == Cardinality({other \in elapsed : other <= id})
           m == Cardinality(elapsed)
           Said(id) == [seq |-> s.sequence + Rank(id), action |-> "expired", id |-> id]
<1>1. /\ GoodSnapshot(s, n) /\ s.sequence \in Nat /\ s.anchor \in Nat /\ s.log \subseteq Event
      /\ IdsIn(s) \subseteq 1..n
      /\ Numbered(s, n)
  BY DEF Accounted, GoodSnapshot, SnapshotOK
<1>2. GoodSnapshot(x, n)
  BY <1>1, ExpireGood
<1>3. /\ elapsed \in SUBSET Nat /\ IsFiniteSet(elapsed) /\ m \in Nat
      /\ elapsed \subseteq 1..n
  <2>1. elapsed \in SUBSET (1..n)
    BY <1>1
  <2>2. IsFiniteSet(1..n)
    BY FS_Interval
  <2>3. elapsed \in SUBSET Nat
    BY <2>1
  <2> HIDE DEF elapsed
  <2>4. IsFiniteSet(elapsed)
    BY <2>1, <2>2, FS_Subset
  <2>5. QED BY <2>1, <2>3, <2>4, FS_CardinalityType
<1>4. /\ \A i \in elapsed : Rank(i) \in 1..m
      /\ \A i, j \in elapsed : Rank(i) = Rank(j) => i = j
      /\ \A k \in 1..m : \E i \in elapsed : Rank(i) = k
  <2> HIDE DEF elapsed
  <2>1. QED BY <1>3, Ranks
<1>5. /\ x.log = s.log \cup {Said(id) : id \in elapsed}
      /\ x.sequence = s.sequence + m /\ x.anchor = s.anchor
      /\ IdsIn(x) = IdsIn(s)
      /\ \A id \in IdsIn(s) : x.requests[id] = IF id \in elapsed
                                               THEN Closed(s.requests[id], "expired", t)
                                               ELSE s.requests[id]
  BY DEF Expire, IdsIn
<1>6. \A id \in elapsed : Closed(s.requests[id], "expired", t).status = "expired"
  BY <1>1, ClosedGood DEF GoodSnapshot, Terminal
<1>7. \A id \in elapsed : /\ Said(id).seq = s.sequence + Rank(id)
                          /\ Said(id).id = id /\ Said(id).action = "expired"
  OBVIOUS
<1> HIDE DEF x, elapsed, Rank, m, Said
<1>8. Numbered(x, n)
  <2>1. x.anchor <= x.sequence
    BY <1>1, <1>3, <1>5 DEF Numbered
  <2>2. \A e \in x.log : x.anchor < e.seq /\ e.seq <= x.sequence /\ e.id <= n
    BY <1>1, <1>3, <1>4, <1>5, <1>7 DEF Numbered, Event
  <2>3. ASSUME NEW k \in (x.anchor + 1)..x.sequence PROVE \E e \in x.log : e.seq = k
    <3>1. CASE k <= s.sequence
      BY <1>1, <1>5, <3>1 DEF Numbered
    <3>2. CASE k > s.sequence
      <4>1. k - s.sequence \in 1..m
        BY <1>1, <1>3, <1>5, <3>2
      <4>2. PICK i \in elapsed : Rank(i) = k - s.sequence
        BY <1>4, <4>1
      <4>3. Said(i).seq = k
        BY <1>1, <1>7, <4>1, <4>2
      <4>4. QED BY <1>5, <4>2, <4>3
    <3>3. QED BY <1>1, <1>5, <3>1, <3>2
  <2>4. ASSUME NEW e \in x.log, NEW f \in x.log, e.seq = f.seq PROVE e = f
    <3>1. CASE e \in s.log /\ f \in s.log
      BY <1>1, <2>4, <3>1 DEF Numbered
    <3>2. CASE e \in s.log /\ f \notin s.log
      BY <1>1, <1>4, <1>5, <1>7, <2>4, <3>2, <1>3 DEF Numbered, Event
    <3>3. CASE e \notin s.log /\ f \in s.log
      BY <1>1, <1>4, <1>5, <1>7, <2>4, <3>3, <1>3 DEF Numbered, Event
    <3>4. CASE e \notin s.log /\ f \notin s.log
      <4>1. PICK i \in elapsed, j \in elapsed : e = Said(i) /\ f = Said(j)
        BY <1>5, <3>4
      <4>2. Rank(i) = Rank(j)
        BY <1>1, <1>3, <1>4, <1>7, <2>4, <4>1
      <4>3. QED BY <1>4, <4>1, <4>2
    <3>5. QED BY <3>1, <3>2, <3>3, <3>4
  <2>5. QED BY <2>1, <2>2, <2>3, <2>4 DEF Numbered
<1>9. ASSUME NEW id \in IdsIn(x)
      PROVE  /\ WithinTerm(x.requests[id], t)
             /\ \A e : LastWord(x.log, id, e) => x.requests[id].status \in StatusAfter(e.action)
  <2>1. CASE id \in elapsed
    <3>1. x.requests[id].status = "expired"
      BY <1>5, <1>6, <1>9, <2>1
    <3>2. ASSUME NEW e, LastWord(x.log, id, e) PROVE e.action = "expired"
      <4>1. Said(id) \in x.log /\ s.sequence < Said(id).seq /\ Said(id).seq <= e.seq
        BY <1>1, <1>3, <1>4, <1>5, <1>7, <2>1, <3>2 DEF LastWord
      <4>2. e \in x.log /\ (e \in s.log => e.seq <= s.sequence /\ e.seq \in Nat)
        BY <1>1, <3>2 DEF LastWord, Numbered, Event
      <4>3. Said(id).seq \in Nat
        BY <1>1, <1>3, <1>4, <1>7, <2>1
      <4>4. e \notin s.log
        BY <1>1, <4>1, <4>2, <4>3
      <4>5. QED BY <1>5, <1>7, <4>2, <4>4
    <3>3. QED BY <3>1, <3>2 DEF WithinTerm, StatusAfter
  <2>2. CASE id \notin elapsed
    <3>1. x.requests[id] = s.requests[id] /\ id \in IdsIn(s)
      BY <1>5, <1>9, <2>2
    <3>2. \A e : LastWord(x.log, id, e) => LastWord(s.log, id, e)
      BY <1>5, <1>7, <2>2 DEF LastWord
    <3>3. QED BY <3>1, <3>2 DEF Accounted
  <2>3. QED BY <2>1, <2>2
<1>10. Accounted(x, n, t)
  BY <1>2, <1>8, <1>9 DEF Accounted
<1>11. QED BY <1>10 DEF x

LEMMA PruneAccounts ==
  ASSUME NEW s, NEW n \in Nat, NEW t \in Nat, Accounted(s, n, t)
  PROVE  Accounted(Prune(s, t), n, t)
<1>1. GoodSnapshot(Prune(s, t), n)
  BY PruneGood DEF Accounted
<1>2. QED BY <1>1, PruneRequests DEF Accounted, Numbered

\* What trim leaves of the log has the last words that it had.
LEMMA TrimAccounts ==
  ASSUME NEW s, NEW n \in Nat, NEW t \in Nat, Accounted(s, n, t)
  PROVE  Accounted(Trim(s), n, t)
<1>1. GoodSnapshot(Trim(s), n)
  BY TrimGood DEF Accounted
<1>2. CASE s.sequence - s.anchor <= EventRetention
  BY <1>2 DEF Trim
<1>3. CASE ~(s.sequence - s.anchor <= EventRetention)
  <2> DEFINE last == s.sequence - EventRetention
             x == Trim(s)
  <2>1. /\ s.sequence \in Nat /\ s.anchor \in Nat /\ s.log \subseteq Event
        /\ last \in Nat /\ s.anchor < last /\ last <= s.sequence
    BY <1>3, PrivilegedAssumption DEF Accounted, GoodSnapshot, SnapshotOK
  <2>2. /\ x.requests = s.requests /\ x.log = {e \in s.log : e.seq > last}
        /\ x.sequence = s.sequence /\ x.anchor = last
    BY <1>3 DEF Trim
  <2> HIDE DEF last, x
  <2>3. Numbered(x, n)
    BY <2>1, <2>2 DEF Accounted, Numbered, Event
  <2>4. ASSUME NEW id, NEW e, LastWord(x.log, id, e) PROVE LastWord(s.log, id, e)
    <3>1. ASSUME NEW f \in s.log, f.id = id, f.action # "reviewed" PROVE f.seq <= e.seq
      <4>1. f.seq \in Nat /\ e.seq \in Nat /\ e.seq > last
        BY <2>1, <2>2, <2>4 DEF LastWord, Event
      <4>2. QED BY <2>1, <2>2, <2>4, <3>1, <4>1 DEF LastWord
    <3>2. QED BY <2>2, <2>4, <3>1 DEF LastWord
  <2>5. Accounted(x, n, t)
    BY <1>1, <2>2, <2>3, <2>4 DEF Accounted, IdsIn, x
  <2>6. QED BY <2>5 DEF x
<1>4. QED BY <1>2, <1>3

LEMMA PutAccounts ==
  ASSUME NEW n \in Nat, NEW m \in Nat, m <= n, now \in Nat, Accounted(Current, m, now),
         NEW id, NEW r, NEW actions, Told(id, r, actions),
         GoodSnapshot(Put(Current, id, r, actions), n),
         id \in IdsIn(Current) \/ id = m + 1
  PROVE  Accounted(Put(Current, id, r, actions), n, now)
<1> DEFINE s == Current
           x == Put(s, id, r, actions)
           Said(i) == [seq |-> s.sequence + i, action |-> actions[i], id |-> id]
           k == Len(actions)
<1>1. /\ s.sequence \in Nat /\ s.anchor \in Nat /\ s.log \subseteq Event
      /\ Numbered(s, m) /\ IdsIn(s) \subseteq 1..m
  BY DEF Accounted, GoodSnapshot, SnapshotOK
<1>2. /\ k \in {1, 2} /\ DOMAIN actions = 1..k
      /\ \/ actions = <<"reviewed">>
         \/ /\ actions[k] # "reviewed"
            /\ r.status \in StatusAfter(actions[k]) /\ WithinTerm(r, now)
  <2>1. CASE actions = <<"reviewed">>
    BY <2>1
  <2>2. ASSUME NEW action \in Actions \ {"reviewed"},
               actions \in {<<action>>, <<"approved", action>>},
               r.status \in StatusAfter(action), WithinTerm(r, now)
        PROVE  /\ k \in {1, 2} /\ DOMAIN actions = 1..k
               /\ actions[k] # "reviewed" /\ r.status \in StatusAfter(actions[k])
    <3>1. k \in {1, 2} /\ DOMAIN actions = 1..k /\ actions[k] = action
      <4>1. CASE actions = <<action>>
        BY <4>1
      <4>2. CASE actions = <<"approved", action>>
        BY <4>2
      <4>3. QED BY <2>2, <4>1, <4>2
    <3>2. QED BY <2>2, <3>1
  <2>3. QED BY <2>1, <2>2 DEF Told
<1>3. /\ IdsIn(x) = IdsIn(s) \cup {id}
      /\ \A i \in IdsIn(x) : x.requests[i] = IF i = id THEN r ELSE s.requests[i]
      /\ x.log = s.log \cup {Said(i) : i \in 1..k}
      /\ x.sequence = s.sequence + k /\ x.anchor = s.anchor
  BY <1>2 DEF Put, IdsIn, Logged
<1>4. \A i \in 1..k : /\ Said(i).seq = s.sequence + i /\ Said(i).id = id
                      /\ Said(i).action = actions[i]
  OBVIOUS
<1>5. id <= n /\ id \in Nat
  BY <1>3 DEF GoodSnapshot
<1> HIDE DEF s, x, Said, k
<1>6. Numbered(x, n)
  <2>1. x.anchor <= x.sequence
    BY <1>1, <1>2, <1>3 DEF Numbered
  <2>2. \A e \in x.log : x.anchor < e.seq /\ e.seq <= x.sequence /\ e.id <= n
    BY <1>1, <1>2, <1>3, <1>4, <1>5 DEF Numbered, Event, Ids
  <2>3. ASSUME NEW j \in (x.anchor + 1)..x.sequence PROVE \E e \in x.log : e.seq = j
    <3>1. CASE j <= s.sequence
      BY <1>1, <1>3, <3>1 DEF Numbered
    <3>2. CASE j > s.sequence
      <4>1. j - s.sequence \in 1..k
        BY <1>1, <1>2, <1>3, <3>2
      <4>2. Said(j - s.sequence).seq = j /\ Said(j - s.sequence) \in x.log
        BY <1>1, <1>3, <1>4, <4>1
      <4>3. QED BY <4>2
    <3>3. QED BY <1>1, <1>2, <1>3, <3>1, <3>2
  <2>4. ASSUME NEW e \in x.log, NEW f \in x.log, e.seq = f.seq PROVE e = f
    <3>1. CASE e \in s.log /\ f \in s.log
      BY <1>1, <2>4, <3>1 DEF Numbered
    <3>2. \A g \in s.log : g.seq \in Nat /\ g.seq <= s.sequence
      BY <1>1 DEF Numbered, Event
    <3>3. \A i \in 1..k : Said(i).seq > s.sequence
      BY <1>1, <1>2, <1>4
    <3>4. CASE e \notin s.log /\ f \notin s.log
      <4>1. PICK i \in 1..k, j \in 1..k : e = Said(i) /\ f = Said(j)
        BY <1>3, <3>4
      <4>2. i = j
        BY <1>1, <1>2, <1>4, <2>4, <4>1
      <4>3. QED BY <4>1, <4>2
    <3>5. \A g \in x.log \ s.log : g.seq \in Nat /\ g.seq > s.sequence
      BY <1>1, <1>2, <1>3, <1>4, <3>3
    <3>6. QED BY <1>1, <2>4, <3>1, <3>2, <3>4, <3>5
  <2>5. QED BY <2>1, <2>2, <2>3, <2>4 DEF Numbered
<1>7. ASSUME NEW i \in IdsIn(x)
      PROVE  /\ WithinTerm(x.requests[i], now)
             /\ \A e : LastWord(x.log, i, e) => x.requests[i].status \in StatusAfter(e.action)
  <2>1. CASE i # id
    <3>1. x.requests[i] = s.requests[i] /\ i \in IdsIn(s)
      BY <1>3, <1>7, <2>1
    <3>2. \A e : LastWord(x.log, i, e) => LastWord(s.log, i, e)
      BY <1>3, <1>4, <2>1 DEF LastWord
    <3>3. QED BY <3>1, <3>2 DEF Accounted, s
  <2>2. CASE i = id /\ actions = <<"reviewed">>
    <3>1. id \in IdsIn(s) /\ x.requests[i] = r
      <4>1. ASSUME NEW action \in Actions \ {"reviewed"}
            PROVE  actions # <<action>> /\ actions # <<"approved", action>>
        BY <2>2
      <4>2. QED BY <1>3, <1>7, <2>2, <4>1 DEF Told, s
    <3>2. /\ r.status = s.requests[id].status /\ r.breakGlass = s.requests[id].breakGlass
          /\ r.deadline = s.requests[id].deadline
      <4>1. ASSUME NEW action \in Actions \ {"reviewed"}
            PROVE  actions # <<action>> /\ actions # <<"approved", action>>
        BY <2>2
      <4>2. QED BY <4>1 DEF Told, s
    <3>3. \A j \in 1..k : Said(j).action = "reviewed"
      BY <1>4, <2>2 DEF k
    <3>4. \A e : LastWord(x.log, i, e) => LastWord(s.log, i, e)
      BY <1>3, <3>3 DEF LastWord
    <3>5. QED BY <2>2, <3>1, <3>2, <3>4 DEF Accounted, WithinTerm, s
  <2>3. CASE i = id /\ actions # <<"reviewed">>
    <3>1. x.requests[i] = r /\ WithinTerm(r, now) /\ k \in 1..k
      BY <1>2, <1>3, <1>7, <2>3
    <3>2. ASSUME NEW e, LastWord(x.log, i, e) PROVE e = Said(k)
      <4>1. /\ Said(k) \in x.log /\ Said(k).id = i /\ Said(k).action # "reviewed"
            /\ Said(k).seq = x.sequence
        BY <1>2, <1>3, <1>4, <2>3, <3>1
      <4>2. e \in x.log /\ x.sequence <= e.seq
        BY <3>2, <4>1 DEF LastWord
      <4>3. e.seq <= x.sequence /\ e.seq \in Nat /\ x.sequence \in Nat
        <5>1. x.log \subseteq Event /\ x.sequence \in Nat
          BY DEF GoodSnapshot, SnapshotOK, x, s
        <5>2. QED BY <1>6, <4>2, <5>1 DEF Numbered, Event
      <4>4. QED BY <1>6, <4>1, <4>2, <4>3 DEF Numbered
    <3>3. QED BY <1>2, <1>4, <2>3, <3>1, <3>2
  <2>4. QED BY <2>1, <2>2, <2>3
<1>8. GoodSnapshot(x, n)
  BY DEF x, s
<1>9. Accounted(x, n, now)
  BY <1>6, <1>7, <1>8 DEF Accounted
<1>10. QED BY <1>9 DEF x, s

\* Later, and with more requests made, a snapshot is still accounted for.
LEMMA AccountedLater ==
  ASSUME NEW s, NEW m \in Nat, NEW n \in Nat, m <= n, NEW t \in Nat, NEW u \in Nat, t <= u,
         Accounted(s, m, t)
  PROVE  Accounted(s, n, u)
<1>1. GoodSnapshot(s, n)
  BY GoodLater DEF Accounted
<1>2. Numbered(s, n)
  BY DEF Accounted, Numbered, GoodSnapshot, SnapshotOK, Event, Ids
<1>3. \A id \in IdsIn(s) : WithinTerm(s.requests[id], u)
  <2> TAKE id \in IdsIn(s)
  <2>1. s.requests[id].deadline \in Nat /\ WithinTerm(s.requests[id], t)
    BY DEF Accounted, GoodSnapshot, SnapshotOK, Request
  <2>2. Duration \in Nat /\ BreakGlassDuration \in Nat
    BY PrivilegedAssumption
  <2>3. QED BY <2>1, <2>2 DEF WithinTerm
<1>4. QED BY <1>1, <1>2, <1>3 DEF Accounted

LEMMA CurrentAccounts == ASSUME Inv, Account PROVE Accounted(Current, issued, now)
<1>1. Accounted(store, issued, now) /\ issued \in Nat /\ now \in Nat
  BY DEF Account, Snapshots, Inv, TypeOK
<1>2. QED BY <1>1, ExpireAccounts, PruneAccounts DEF Current

LEMMA SaveAccounts ==
  ASSUME Inv, Account, NEW id, NEW r, NEW actions, Save(Put(Current, id, r, actions)),
         GoodSnapshot(Put(Current, id, r, actions), issued'), Told(id, r, actions),
         issued' \in Nat, issued <= issued', now' = now,
         id \in IdsIn(Current) \/ id = issued + 1
  PROVE  Account'
<1> DEFINE s == Put(Current, id, r, actions)
<1>1. issued \in Nat /\ now \in Nat /\ now <= now
  BY DEF Inv, TypeOK
<1>2. Accounted(s, issued', now)
  BY <1>1, CurrentAccounts, PutAccounts
<1> HIDE DEF s
<1>3. Accounted(Trim(s), issued', now)
  BY <1>1, <1>2, TrimAccounts
<1>4. \A x \in Snapshots : Accounted(x, issued', now)
  BY <1>1, AccountedLater DEF Account
<1>5. \A x \in Snapshots' : x \in Snapshots \/ x = Trim(s)
  BY DEF Save, Snapshots, s
<1>6. QED BY <1>3, <1>4, <1>5 DEF Account

LEMMA AccountKept == Inv /\ Account /\ [Next]_vars => Account'
<1> SUFFICES ASSUME Inv, Account, [Next]_vars PROVE Account'
  OBVIOUS
<1>1. issued \in Nat /\ now \in Nat /\ issued <= issued
  BY DEF Inv, TypeOK
<1>2. CASE Snapshots' \subseteq Snapshots /\ issued' = issued
           /\ now' \in Nat /\ now <= now'
  <2>1. \A x \in Snapshots' : Accounted(x, issued, now)
    BY <1>2 DEF Account
  <2>2. \A x \in Snapshots' : Accounted(x, issued, now')
    BY <1>1, <1>2, <2>1, AccountedLater
  <2>3. QED BY <1>2, <2>2 DEF Account
<1>3. CASE Tick
  BY <1>1, <1>2, <1>3 DEF Tick, Snapshots
<1>4. CASE LateWrite
  BY <1>1, <1>2, <1>4 DEF LateWrite, Snapshots
<1>5. ASSUME NEW u \in Lookers, Look(u) PROVE Account'
  BY <1>1, <1>2, <1>5 DEF Look, Snapshots
<1>6. ASSUME NEW u \in Requesters, NEW b \in Bundles, RequestAccess(u, b) PROVE Account'
  BY <1>6, AdditionSaves, SaveAccounts
<1>7. ASSUME NEW u \in BreakGlassUsers, NEW b \in Bundles, ActivateBreakGlass(u, b)
      PROVE  Account'
  BY <1>7, AdditionSaves, SaveAccounts
<1>8. ASSUME NEW u, NEW id,
             \/ u \in Requesters /\ Cancel(u, id)
             \/ u \in Approvers /\ Decide(u, id)
      PROVE  Account'
  <2>1. id \in IdsIn(Current)
    BY <1>8, FoundByMutation
  <2>2. PICK r, actions :
          /\ GoodSnapshot(Put(Current, id, r, actions), issued)
          /\ Save(Put(Current, id, r, actions))
          /\ UNCHANGED <<issued, now, seen>>
          /\ WithinTerm(Current.requests[id], now) => Told(id, r, actions)
    BY <1>8, <2>1, MutationSaves
  <2>3. WithinTerm(Current.requests[id], now)
    BY <2>1, CurrentAccounts DEF Accounted
  <2>4. QED BY <1>1, <2>1, <2>2, <2>3, SaveAccounts
<1>9. ASSUME NEW u \in Requesters, NEW id, Cancel(u, id) PROVE Account'
  BY <1>8, <1>9
<1>10. ASSUME NEW u \in Approvers, NEW id, Decide(u, id) PROVE Account'
  BY <1>8, <1>10
<1>11. CASE UNCHANGED vars
  BY <1>1, <1>2, <1>11 DEF vars, Snapshots
<1>12. QED
  BY <1>3, <1>4, <1>5, <1>6, <1>7, <1>9, <1>10, <1>11 DEF Next, Handle

\* Whatever was trimmed, pruned or written late, each snapshot accounts for
\* the requests in it.
THEOREM SnapshotsAccount == Spec => []Account
<1>1. Init => Account
  <2> SUFFICES ASSUME Init PROVE Account
    OBVIOUS
  <2>1. /\ IdsIn(store) = {} /\ store.log = {} /\ store.sequence = 0 /\ store.anchor = 0
        /\ Snapshots = {store}
    BY DEF Init, Empty, IdsIn, Snapshots
  <2>2. GoodSnapshot(store, issued)
    BY InitInv DEF Inv, Snapshots
  <2>3. QED BY <2>1, <2>2 DEF Account, Accounted, Numbered
<1>2. QED BY <1>1, AccountKept, PrivilegedInvariant, PTL DEF Spec

\* authorise (lines 68-101): nobody uses a permission outside the term of a
\* grant of his.
THEOREM AccessHasTerm == Spec => []AccessWithinTerm
<1>1. Inv /\ Account => AccessWithinTerm
  <2> SUFFICES ASSUME Inv, Account, NEW u \in Subjects, NEW permission \in Permissions,
                      Authorised(u, permission)
               PROVE  \E id \in IdsIn(store) :
                        LET r    == store.requests[id]
                            term == IF r.breakGlass THEN BreakGlassDuration ELSE Duration
                        IN  /\ r.subject = u /\ permission \in r.permissions
                            /\ r.status = "active"
                            /\ now < r.deadline /\ r.deadline <= now + term
    BY DEF AccessWithinTerm
  <2>1. PICK id \in IdsIn(store) :
          /\ Effective(store.requests[id], now) = "active"
          /\ store.requests[id].subject = u
          /\ permission \in store.requests[id].permissions
    BY DEF Authorised
  <2>2. WithinTerm(store.requests[id], now) /\ store.requests[id] \in Request /\ now \in Nat
    BY DEF Account, Accounted, Snapshots, Inv, TypeOK, SnapshotOK
  <2>3. store.requests[id].status = "active" /\ ~(store.requests[id].deadline <= now)
    BY <2>1 DEF Effective, Live
  <2>4. QED BY <2>1, <2>2, <2>3 DEF WithinTerm, Request
<1>2. QED BY <1>1, SnapshotsAccount, PrivilegedInvariant, PTL

\* verifyEvents (lines 594-612): the retained events are numbered without a
\* gap from the anchor on.
THEOREM ChainsVerify == Spec => []ChainVerifies
<1>1. Account => ChainVerifies
  <2> SUFFICES ASSUME Account, NEW s \in Snapshots
               PROVE  /\ {e.seq : e \in s.log} = (s.anchor + 1)..s.sequence
                      /\ Cardinality(s.log) = s.sequence - s.anchor
    BY DEF ChainVerifies
  <2> DEFINE numbers == (s.anchor + 1)..s.sequence
             f == [e \in s.log |-> e.seq]
  <2>1. /\ Numbered(s, issued) /\ s.log \subseteq Event /\ s.sequence \in Nat
        /\ s.anchor \in Nat
    BY DEF Account, Accounted, GoodSnapshot, SnapshotOK
  <2>2. {e.seq : e \in s.log} = numbers
    BY <2>1 DEF Numbered, Event
  <2>3. IsFiniteSet(numbers) /\ Cardinality(numbers) = s.sequence - s.anchor
    <3>1. s.anchor + 1 \in Int /\ s.sequence \in Int /\ s.anchor <= s.sequence
      BY <2>1 DEF Numbered
    <3>2. /\ IsFiniteSet(numbers)
          /\ Cardinality(numbers) = IF s.anchor + 1 > s.sequence THEN 0
                                    ELSE s.sequence - (s.anchor + 1) + 1
      BY <3>1, FS_Interval
    <3> HIDE DEF numbers
    <3>3. QED BY <2>1, <3>1, <3>2
  <2> HIDE DEF numbers
  <2>4. f \in [s.log -> numbers]
    BY <2>2
  <2>5. f \in Injection(s.log, numbers)
    BY <2>1, <2>4 DEF Injection, IsInjective, Numbered
  <2>6. f \in Surjection(s.log, numbers)
    BY <2>2, <2>4 DEF Surjection
  <2>7. Cardinality(s.log) = Cardinality(numbers)
    BY <2>3, <2>5, <2>6, FS_Injection
  <2>8. QED BY <2>2, <2>3, <2>7 DEF numbers
<1>2. QED BY <1>1, SnapshotsAccount, PTL

\* event (lines 573-592): the last retained event of a request tells its
\* status.
THEOREM EventsAccount == Spec => []EventsAccountForRequests
<1>1. Account => EventsAccountForRequests
  BY DEF Account, Accounted, LastWord, EventsAccountForRequests
<1>2. QED BY <1>1, SnapshotsAccount, PTL

-----------------------------------------------------------------------------
(* What a mutation that is not late does to the requests on disk.           *)

\* Request a became b: not at all, or in a new version that reopens nothing.
Became(a, b) ==
  \/ b = a
  \/ b.version > a.version /\ (a.status \in Terminal => b.status = a.status)

Progress ==
  /\ issued <= issued'
  /\ now <= now'
  /\ \A id \in IdsIn(store) :
       /\ store.requests[id].breakGlass /\ store.requests[id].reviewer = Nobody
            => id \in IdsIn(store')
       /\ id \in IdsIn(store')
            => Became(store.requests[id], store'.requests[id])
  /\ \A id \in IdsIn(store') \ IdsIn(store) : id > issued

\* Saving Current with one request replaced or added is progress.
LEMMA SaveProgress ==
  ASSUME Inv, NEW id, NEW r, NEW actions,
         Save(Put(Current, id, r, actions)),
         GoodSnapshot(Put(Current, id, r, actions), issued'),
         issued' \in Nat, issued <= issued', now' = now,
         \/ id = issued + 1
         \/ /\ id \in IdsIn(Current)
            /\ r.version = Current.requests[id].version + 1
            /\ Current.requests[id].status \in Terminal
                 => r.status = Current.requests[id].status
  PROVE  Progress
<1> DEFINE s == Put(Current, id, r, actions)
<1>1. store' = store \/ store'.requests = s.requests
  BY SaveGood
<1>2. IdsIn(s) = IdsIn(Current) \cup {id}
      /\ \A i \in IdsIn(s) : s.requests[i] = IF i = id THEN r ELSE Current.requests[i]
  BY DEF Put, IdsIn
<1> HIDE DEF s
<1>3. /\ issued \in Nat /\ now \in Nat
      /\ \A i \in IdsIn(store) : i \in 1..issued /\ store.requests[i].version \in Nat
  BY DEF Inv, TypeOK, Snapshots, GoodSnapshot, GoodRequest, Request
<1>4. CASE store' = store
  BY <1>3, <1>4 DEF Progress, Became
<1>5. CASE store'.requests = s.requests
  <2>1. IdsIn(store') = IdsIn(Current) \cup {id}
        /\ \A i \in IdsIn(store') :
             store'.requests[i] = IF i = id THEN r ELSE Current.requests[i]
    BY <1>2, <1>5 DEF IdsIn
  <2>2. \A i \in IdsIn(store) :
          store.requests[i].breakGlass /\ store.requests[i].reviewer = Nobody
          => i \in IdsIn(store')
    BY <2>1, CurrentRequests
  <2>3. "expired" \in Terminal /\ Live \cap Terminal = {}
    BY DEF Live, Terminal
  <2>4. \A i \in IdsIn(Current) : Became(store.requests[i], Current.requests[i])
    BY <1>3, <2>3, CurrentRequests DEF Became
  <2>5. ASSUME NEW i \in IdsIn(store), i \in IdsIn(store')
        PROVE  Became(store.requests[i], store'.requests[i])
    <3>1. i # issued + 1 /\ i \in IdsIn(Current)
      BY <1>3, <2>1, <2>5
    <3>2. CASE i # id
      BY <2>1, <2>4, <2>5, <3>1, <3>2
    <3>3. CASE i = id
      <4>1. /\ store'.requests[i] = r
            /\ r.version = Current.requests[i].version + 1
            /\ Current.requests[i].status \in Terminal
                 => r.status = Current.requests[i].status
        BY <2>1, <2>5, <3>1, <3>3
      <4>2. /\ store.requests[i].version \in Nat
            /\ \/ Current.requests[i] = store.requests[i]
               \/ /\ Current.requests[i].version = store.requests[i].version + 1
                  /\ store.requests[i].status \notin Terminal
        BY <1>3, <2>3, <3>1, CurrentRequests
      <4>3. QED BY <4>1, <4>2 DEF Became
    <3>4. QED BY <3>2, <3>3
  <2>6. \A i \in IdsIn(store') \ IdsIn(store) : i > issued
    BY <1>3, <2>1, CurrentRequests
  <2>7. QED BY <1>3, <2>2, <2>5, <2>6 DEF Progress
<1>6. QED BY <1>1, <1>4, <1>5

LEMMA NextProgress == Inv /\ [Next]_vars => LateWrite \/ Progress
<1> SUFFICES ASSUME Inv, [Next]_vars, ~LateWrite PROVE Progress
  OBVIOUS
<1>1. issued \in Nat /\ now \in Nat /\ Inv'
  BY InvInductive DEF Inv, TypeOK
<1>2. CASE store' = store /\ issued' = issued /\ now <= now'
  BY <1>1, <1>2 DEF Progress, Became
<1>3. CASE Tick
  BY <1>1, <1>2, <1>3 DEF Tick
<1>4. ASSUME NEW u \in Lookers, Look(u) PROVE Progress
  BY <1>1, <1>2, <1>4 DEF Look
<1>5. ASSUME NEW u \in Requesters, NEW b \in Bundles, RequestAccess(u, b)
      PROVE  Progress
  BY <1>5, AdditionSaves, SaveProgress
<1>6. ASSUME NEW u \in BreakGlassUsers, NEW b \in Bundles,
             ActivateBreakGlass(u, b)
      PROVE  Progress
  BY <1>6, AdditionSaves, SaveProgress
<1>7. ASSUME NEW u, NEW id,
             \/ u \in Requesters /\ Cancel(u, id)
             \/ u \in Approvers /\ Decide(u, id)
      PROVE  Progress
  <2>1. id \in IdsIn(Current)
    BY <1>7, FoundByMutation
  <2>2. PICK r, actions :
          /\ GoodSnapshot(Put(Current, id, r, actions), issued)
          /\ Save(Put(Current, id, r, actions))
          /\ UNCHANGED <<issued, now, seen>>
          /\ r.version = Current.requests[id].version + 1
          /\ Current.requests[id].status \in Terminal
               => r.status = Current.requests[id].status
    BY <1>7, <2>1, MutationSaves
  <2>3. QED BY <1>1, <2>1, <2>2, SaveProgress
<1>8. ASSUME NEW u \in Requesters, NEW id, Cancel(u, id) PROVE Progress
  BY <1>7, <1>8
<1>9. ASSUME NEW u \in Approvers, NEW id, Decide(u, id) PROVE Progress
  BY <1>7, <1>9
<1>10. CASE UNCHANGED vars
  BY <1>1, <1>2, <1>10 DEF vars
<1>11. QED
  BY <1>3, <1>4, <1>5, <1>6, <1>8, <1>9, <1>10 DEF Next, Handle

\* TERMINAL (line 10): closed requests stay as they are, unless an evicted
\* holder writes.
THEOREM ClosingIsFinal == Spec => ClosedStaysClosed
<1>1. Inv /\ [Next]_vars =>
        [\/ LateWrite
         \/ \A id \in IdsIn(store) :
              store.requests[id].status \in Terminal /\ id \in IdsIn(store')
              => store'.requests[id].status = store.requests[id].status]_vars
  BY NextProgress DEF Progress, Became
<1>2. QED BY <1>1, PrivilegedInvariant, PTL DEF Spec, ClosedStaysClosed

\* prune (lines 451-460): break glass waits for its review, unless an evicted
\* holder writes.
THEOREM ReviewsOutstanding == Spec => BreakGlassKeptForReview
<1>1. Inv /\ [Next]_vars =>
        [\/ LateWrite
         \/ \A id \in IdsIn(store) :
              store.requests[id].breakGlass /\ store.requests[id].reviewer = Nobody
              => id \in IdsIn(store')]_vars
  BY NextProgress DEF Progress
<1>2. QED BY <1>1, PrivilegedInvariant, PTL DEF Spec, BreakGlassKeptForReview

-----------------------------------------------------------------------------
(* Optimistic locking, when no evicted holder writes.                       *)

\* What a looker saw is still what is on disk, deadlines that elapsed since
\* aside, or the request has a newer version, or it is gone for good.
Informed ==
  \A u \in Lookers : seen[u].id # 0 =>
    LET id == seen[u].id
        x  == seen[u].request
        r  == store.requests[id]
    IN  /\ id <= issued
        /\ id \in IdsIn(store) =>
             \/ x.version < r.version
             \/ \E t \in 0..now : x = [r EXCEPT !.status = Effective(r, t)]

LEMMA NoLateWriter ==
  ASSUME MaxLate = 0
  PROVE  Spec => [](late = {})
<1>1. Init => late = {}
  BY DEF Init
<1>2. late = {} /\ [Next]_vars => (late = {})'
  <2> SUFFICES ASSUME late = {}, [Next]_vars PROVE late' = {}
    OBVIOUS
  <2>1. \A s : Save(s) => late' = {}
    BY FS_EmptySet DEF Save
  <2>2. QED
    BY <2>1 DEF Next, Handle, vars, Tick, LateWrite, Look, RequestAccess,
       ActivateBreakGlass, Cancel, Decide, Approve, Deny, Revoke,
       CompletePostReview
<1>3. QED BY <1>1, <1>2, PTL DEF Spec

\* The looks change only when someone looks.
LEMMA SeenUnchanged ==
  ASSUME [Next]_vars, \A u \in Lookers : ~Look(u)
  PROVE  seen' = seen
BY DEF Next, Handle, vars, Tick, LateWrite, RequestAccess, ActivateBreakGlass, Cancel,
   Decide, Approve, Deny, Revoke, CompletePostReview

LEMMA InformedInductive ==
  Inv /\ Informed /\ late = {} /\ [Next]_vars => Informed'
<1> SUFFICES ASSUME Inv, Informed, late = {}, [Next]_vars PROVE Informed'
  OBVIOUS
<1>1. /\ issued \in Nat /\ now \in Nat /\ now' \in Nat
      /\ \A id \in IdsIn(store) : id \in 1..issued /\ store.requests[id] \in Request
      /\ seen \in [Lookers -> [id : {0}] \cup [id : Ids, request : Request]]
  BY InvInductive DEF Inv, TypeOK, Snapshots, GoodSnapshot, GoodRequest
<1>2. ~LateWrite /\ Progress
  BY NextProgress DEF LateWrite
<1>3. ASSUME NEW v \in Lookers, Look(v) PROVE Informed'
  <2>1. UNCHANGED <<store, issued, now>>
    BY <1>3 DEF Look
  <2>2. PICK id \in IdsIn(store) :
          seen' = [seen EXCEPT ![v] =
                     [id |-> id,
                      request |-> [store.requests[id] EXCEPT
                                     !.status = Effective(store.requests[id], now)]]]
    BY <1>3 DEF Look
  <2>3. now \in 0..now /\ id <= issued
    BY <1>1
  <2>4. /\ seen'[v].id = id
        /\ seen'[v].request = [store.requests[id] EXCEPT
                                 !.status = Effective(store.requests[id], now)]
        /\ \A u \in Lookers \ {v} : seen'[u] = seen[u]
    BY <1>1, <2>2
  <2>5. QED BY <2>1, <2>3, <2>4 DEF Informed
<1>4. CASE \A u \in Lookers : ~Look(u)
  <2> SUFFICES ASSUME NEW u \in Lookers, seen[u].id # 0
               PROVE  LET id == seen[u].id
                          x  == seen[u].request
                          r  == store'.requests[id]
                      IN  /\ id <= issued'
                          /\ id \in IdsIn(store') =>
                               \/ x.version < r.version
                               \/ \E t \in 0..now' :
                                    x = [r EXCEPT !.status = Effective(r, t)]
    BY <1>4, SeenUnchanged DEF Informed, Effective
  <2> DEFINE id == seen[u].id
             x  == seen[u].request
  <2>1. id <= issued /\ x \in Request /\ id \in Nat /\ issued' \in Nat
    BY <1>1, InvInductive DEF Informed, Ids, Inv, TypeOK
  <2>2. id <= issued'
    BY <1>1, <1>2, <2>1 DEF Progress
  <2>3. ASSUME id \in IdsIn(store')
        PROVE  \/ x.version < store'.requests[id].version
               \/ \E t \in 0..now' :
                    x = [store'.requests[id] EXCEPT
                           !.status = Effective(store'.requests[id], t)]
    <3>1. id \in IdsIn(store)
      BY <1>1, <1>2, <2>1, <2>3 DEF Progress
    <3>2. Became(store.requests[id], store'.requests[id])
      BY <1>2, <2>3, <3>1 DEF Progress
    <3>3. store'.requests[id] \in Request /\ store.requests[id] \in Request
      BY <1>1, <2>3, <3>1, InvInductive
      DEF Inv, Snapshots, GoodSnapshot, GoodRequest
    <3>4. 0..now \subseteq 0..now'
      BY <1>1, <1>2 DEF Progress
    <3>5. \/ x.version < store.requests[id].version
          \/ \E t \in 0..now :
               x = [store.requests[id] EXCEPT
                      !.status = Effective(store.requests[id], t)]
      BY <3>1 DEF Informed
    <3>6. CASE x.version < store.requests[id].version
      <4>1. /\ x.version \in Nat /\ store.requests[id].version \in Nat
            /\ store'.requests[id].version \in Nat
        BY <2>1, <3>3 DEF Request
      <4>2. QED BY <3>2, <3>6, <4>1 DEF Became
    <3>7. CASE \E t \in 0..now :
                 x = [store.requests[id] EXCEPT
                        !.status = Effective(store.requests[id], t)]
      <4>1. x.version = store.requests[id].version
        BY <3>3, <3>7 DEF Request
      <4>2. QED BY <3>2, <3>3, <3>4, <3>7, <4>1 DEF Became, Request
    <3>8. QED BY <3>5, <3>6, <3>7
  <2>4. QED BY <2>2, <2>3
<1>5. QED BY <1>3, <1>4

\* A decision that names the version it saw finds what it saw.
LEMMA ExpectedSeen ==
  ASSUME Inv, Informed, NEW u \in Lookers, NEW id \in IdsIn(Current),
         Expected(u, id)
  PROVE  seen[u].request = store.requests[id]
<1> DEFINE x == seen[u].request
           r == store.requests[id]
<1>1. /\ seen[u].id = id /\ x.version = Current.requests[id].version
      /\ id \in IdsIn(store) /\ r \in Request /\ r.version \in Nat
      /\ id \in Ids /\ now \in Nat
  BY CurrentRequests
  DEF Expected, Inv, TypeOK, Snapshots, GoodSnapshot, SnapshotOK, GoodRequest, Request
<1>2. \/ x.version < r.version
      \/ \E t \in 0..now : x = [r EXCEPT !.status = Effective(r, t)]
  BY <1>1 DEF Informed, Ids
<1>3. \/ Current.requests[id].version = r.version /\ Effective(r, now) = r.status
      \/ Current.requests[id].version = r.version + 1
  BY CurrentRequests
<1> HIDE DEF r
<1>4. ASSUME NEW t \in 0..now PROVE [r EXCEPT !.status = Effective(r, t)].version = r.version
  BY <1>1 DEF Request
<1>5. /\ Effective(r, now) = r.status
      /\ \E t \in 0..now : x = [r EXCEPT !.status = Effective(r, t)]
  <2>1. x.version \in Nat
    BY <1>1, <1>3
  <2>2. x.version <= r.version
    <3>1. CASE x.version < r.version
      BY <1>1, <2>1, <3>1
    <3>2. ASSUME NEW t \in 0..now, x = [r EXCEPT !.status = Effective(r, t)]
          PROVE  x.version <= r.version
      <4>1. x.version = r.version
        BY <1>4, <3>2
      <4>2. QED BY <1>1, <4>1
    <3>3. QED BY <1>2, <3>1, <3>2
  <2>3. QED BY <1>1, <1>2, <1>3, <2>2
<1>6. PICK t \in 0..now : x = [r EXCEPT !.status = Effective(r, t)]
  BY <1>5
<1>7. Effective(r, t) = r.status
  BY <1>1, <1>5 DEF Effective, Request, Live
<1>8. [r EXCEPT !.status = r.status] = r
  BY <1>1 DEF Request
<1>9. QED BY <1>6, <1>7, <1>8 DEF r

\* version (lines 621-632): without evicted holders who write, whoever decides
\* does so on exactly the request that he looked at.
THEOREM DecisionsInformed ==
  ASSUME MaxLate = 0
  PROVE  Spec => DecisionsAreInformed
<1>1. Init => Informed
  BY DEF Init, Informed
<1>2. Spec => [](late = {})
  BY NoLateWriter
<1>3. Spec => []Informed
  BY <1>1, <1>2, InformedInductive, PrivilegedInvariant, PTL DEF Spec
<1>4. Inv /\ Informed =>
        [\A u \in Lookers, id \in IdsIn(store) :
           Decide(u, id) \/ Cancel(u, id)
           => seen[u].request = store.requests[id]]_vars
  BY ExpectedSeen DEF Decide, Approve, Deny, Revoke, CompletePostReview, Cancel
<1>5. QED BY <1>3, <1>4, PrivilegedInvariant, PTL DEF DecisionsAreInformed

=============================================================================
