\* One request, which is never pruned.
SPECIFICATION Spec
CONSTANTS
  r1 = r1
  r2 = r2
  manager = manager
  admin = admin
  officer = officer
  auditor = auditor
  Requests = {r1}
  Actors = {manager, admin, officer}
  Requester <- MCRequester
  Recipient <- MCRecipient
  Quorum = 2
  ApprovalRetention = 2
  BundleRetention = 1
  MaxMoments = 1
  MaxSeals = 2
  MaxClaims = 2
INVARIANT MaterialisedOnce
CHECK_DEADLOCK FALSE
