-------------------------- MODULE MCEvidenceCustody --------------------------
(* EvidenceCustody as it is: the constants come from the configuration.      *)
EXTENDS EvidenceCustody
=============================================================================
