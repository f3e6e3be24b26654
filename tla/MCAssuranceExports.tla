-------------------------- MODULE MCAssuranceExports --------------------------
(* Two requests for one recipient, made by one actor: the other two approve. *)
EXTENDS AssuranceExports

CONSTANTS r1, r2, manager, admin, officer, auditor

MCRequester == [r \in Requests |-> manager]
MCRecipient == [r \in Requests |-> auditor]
=============================================================================
