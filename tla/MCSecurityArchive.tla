-------------------------- MODULE MCSecurityArchive --------------------------
(***************************************************************************)
(* SecurityArchive with small numbers of days and events.                  *)
(***************************************************************************)
EXTENDS SecurityArchive
=============================================================================
