CONSTANTS
  alice = alice
  bob = bob
  carol = carol
  eve = eve
  acme = acme
  globex = globex
  restore = restore
  read = read
  Nobody = Nobody
  Subjects <- People
  TenantOf <- Tenancy
  Requesters <- OnlyAlice
  Approvers <- People
  BreakGlassUsers <- AliceAndEve
  Permissions <- Protected
  Bundles <- OneBundle
  ApprovalsRequired = 2
  Window = 1
  Duration = 1
  BreakGlassDuration = 1
  RequestRetention = 1
  EventRetention = 3
  Lookers <- OnlyEve
  MaxRequests = 2
  MaxTime = 2
  MaxLate = 1
SPECIFICATION Spec
\* The clock and the number of requests are bounded.
CHECK_DEADLOCK FALSE
INVARIANTS ElevationHasQuorum AccessWithinTerm ChainVerifies EventsAccountForRequests
PROPERTIES ClosedStaysClosed BreakGlassKeptForReview
