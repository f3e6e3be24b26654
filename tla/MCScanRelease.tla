---------------------------- MODULE MCScanRelease ----------------------------
(* ScanRelease with two versions, and contradicting attestations of one.     *)
EXTENDS ScanRelease

Signed(id, version, verdict, scannedAt) ==
  [id |-> id, version |-> version, verdict |-> verdict, scannedAt |-> scannedAt]

Contradicting == {Signed("a1", 1, "clean", 1), Signed("a2", 1, "malicious", 2)}
OneClean == {Signed("a1", 1, "clean", 1)}
=============================================================================
