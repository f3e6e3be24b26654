CONSTANTS
  alice = alice
  bob = bob
  carol = carol
  eve = eve
  acme = acme
  globex = globex
  restore = restore
  read = read
  Nobody = Nobody
  Subjects <- People
  TenantOf <- Tenancy
  Requesters <- OnlyAlice
  Approvers <- People
  BreakGlassUsers <- Nobodies
  Permissions <- Protected
  Bundles <- OneBundle
  ApprovalsRequired = 2
  Window = 1
  Duration = 1
  BreakGlassDuration = 1
  RequestRetention = 1
  EventRetention = 3
  Lookers <- Nobodies
  MaxRequests = 1
  MaxTime = 1
  MaxLate = 1
SPECIFICATION Spec
CHECK_DEADLOCK FALSE
PROPERTIES RevocationIsFinal
