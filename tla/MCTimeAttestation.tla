--------------------------- MODULE MCTimeAttestation --------------------------
(* TimeAttestation with two authorities, of which one rotates its key.       *)
EXTENDS TimeAttestation

Attested(id, archive, provider, key, time, nonce) ==
  [id |-> id, archive |-> archive, provider |-> provider, key |-> key, time |-> time,
   nonce |-> nonce, policy |-> "p"]

Signed ==
  {Attested("a1", "v1", "tsa1", "old", 1, "n1"), Attested("a2", "v1", "tsa1", "new", 2, "n1"),
   Attested("a3", "v1", "tsa2", "old", 1, "n1"), Attested("a4", "v2", "tsa1", "new", 2, "n2"),
   Attested("a5", "v2", "tsa2", "old", 2, "n2"), Attested("a6", "v1", "tsa2", "old", 3, "n2")}

About(type, target, replacement, archive, at) ==
  [type |-> type, target |-> target, replacement |-> replacement, archive |-> archive,
   provider |-> "none", key |-> "none", effectiveAt |-> at, retroactive |-> FALSE]

Against(type, provider, key, at, retroactive) ==
  [type |-> type, target |-> "none", replacement |-> "none", archive |-> "none",
   provider |-> provider, key |-> key, effectiveAt |-> at, retroactive |-> retroactive]

Decisions ==
  {About("attestation_superseded", "a1", "a2", "v1", 1),
   Against("key_revoked", "tsa1", "old", 2, TRUE), Against("key_revoked", "tsa1", "old", 3, TRUE),
   Against("provider_revoked", "tsa2", "none", 2, FALSE)}

Key(provider, key, from, until) ==
  [provider |-> provider, key |-> key, from |-> from, until |-> until, policies |-> {"p"}]

Both == {Key("tsa1", "old", 0, 3), Key("tsa1", "new", 0, 3), Key("tsa2", "old", 0, 3)}
Expired == {Key("tsa1", "old", 0, 0), Key("tsa1", "new", 2, 3), Key("tsa2", "old", 0, 3)}
Dropped == {Key("tsa1", "new", 0, 3), Key("tsa2", "old", 0, 3)}
Rotations == {Both, Expired, Dropped}
=============================================================================
