------------------------- MODULE MCPrivilegedAccess -------------------------
(***************************************************************************)
(* PrivilegedAccess with an approver who asks for access himself, two more *)
(* of his tenant and one of another tenant.                                *)
(***************************************************************************)
EXTENDS PrivilegedAccess

CONSTANTS alice, bob, carol, eve, acme, globex, restore, read

People     == {alice, bob, carol, eve}
Tenancy    == [u \in People |-> IF u = eve THEN globex ELSE acme]
OnlyAlice  == {alice}
OnlyBob    == {bob}
Nobodies   == {}
OnlyEve    == {eve}
AliceAndEve == {alice, eve}
Protected  == {restore, read}
OneBundle  == {{restore}}
Overlapping == {{restore}, {restore, read}}
=============================================================================
