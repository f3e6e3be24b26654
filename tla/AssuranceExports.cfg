\* Two requests of which one ended one is kept, three packages and claims.
SPECIFICATION Spec
CONSTANTS
  r1 = r1
  r2 = r2
  manager = manager
  admin = admin
  officer = officer
  auditor = auditor
  Requests = {r1, r2}
  Actors = {manager, admin, officer}
  Requester <- MCRequester
  Recipient <- MCRecipient
  Quorum = 2
  ApprovalRetention = 1
  BundleRetention = 1
  MaxMoments = 1
  MaxSeals = 2
  MaxClaims = 2
INVARIANTS ExportsAreApproved DeliveredWasReceived
CHECK_DEADLOCK FALSE
