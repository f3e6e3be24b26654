------------------------- MODULE MCCoordinatedWrites -------------------------
(* CoordinatedWrites on small sets of processes and readers.                 *)
EXTENDS CoordinatedWrites

CONSTANTS p1, p2, r1

One == {p1}
Two == {p1, p2}
OneReader == {r1}

\* The disturbances the fence is there to contain.
OnlyStalls == upset \subseteq {"stalledWork"}

-----------------------------------------------------------------------------
(* What the documentation says of the program without conditions.  It takes
   no process that stalls to refute the first.                               *)

\* docs/multiprocess-coordination.md:7, "Atomic per-tenant lease directories
\* prevent two current owners from mutating the same tenant simultaneously",
\* and line 67, "Disabling coordination while multiple writers remain active
\* reintroduces stale overwrite risk": with coordination an acknowledged
\* operation is never overwritten.
NeverAcknowledgedLoss == acked \subseteq Latest

\* docs/multiprocess-coordination.md:40, "503 WRITE_COORDINATION_LOST: the
\* process lost ownership during an operation. Treat the mutation as failed":
\* a mutation refused that way is not in the tenant's state.
LostMutationsHaveNoEffect ==
  [][\A p \in Procs : Finish(p) /\ ~confirmed'[p] => Op(p) \notin Latest]_vars
=============================================================================
