CONSTANTS
  alice = alice
  bob = bob
  carol = carol
  eve = eve
  acme = acme
  globex = globex
  restore = restore
  read = read
  Nobody = Nobody
  Subjects <- People
  TenantOf <- Tenancy
  Requesters <- OnlyAlice
  Approvers <- People
  BreakGlassUsers <- OnlyAlice
  Permissions <- Protected
  Bundles <- Overlapping
  ApprovalsRequired = 2
  Window = 1
  Duration = 1
  BreakGlassDuration = 1
  RequestRetention = 1
  EventRetention = 3
  Lookers <- OnlyBob
  MaxRequests = 2
  MaxTime = 3
  MaxLate = 0
SPECIFICATION Spec
\* The clock and the number of requests are bounded.
CHECK_DEADLOCK FALSE
INVARIANTS OneLiveRequestPerPermission
PROPERTIES DecisionsAreInformed
