----------------------------- MODULE MCScanJobs ------------------------------
(* ScanJobs as it is: the constants come from the configuration.             *)
EXTENDS ScanJobs
=============================================================================
