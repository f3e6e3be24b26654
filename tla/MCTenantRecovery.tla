--------------------------- MODULE MCTenantRecovery ---------------------------
(* TenantRecovery as it is: the constants come from the configuration.       *)
EXTENDS TenantRecovery
=============================================================================
