---------------------------- MODULE MCAlertOutbox ----------------------------
(* AlertOutbox with two workers.                                             *)
EXTENDS AlertOutbox

CONSTANTS w1, w2

One == {w1}
Two == {w1, w2}
=============================================================================
