--------------------------- MODULE MCCommandLine ---------------------------
(***************************************************************************)
(* Key files and inputs for the command line: each way a PEM section can   *)
(* be wrong, alone and next to a good one; each shape of input, signed by  *)
(* the right key, another or an unknown one, with and without the keys the *)
(* detection looks at.                                                     *)
(***************************************************************************)
EXTENDS CommandLineContract

CONSTANTS K1, K2, P1, P2

Line(name, padded, kid) == [name |-> name, padded |-> padded, value |-> kid]
Kid1 == Line("kid", FALSE, K1)
Kid2 == Line("kid", FALSE, K2)

Pem(type, headers, body) ==
    [kind |-> "block", type |-> type, headers |-> headers, body |-> body]

Good1 == Pem("PUBLIC KEY", <<Kid1>>, P1)
Good2 == Pem("ATLASENT PUBLIC KEY", <<Kid2>>, P2)
Again == Pem("PUBLIC KEY", <<Kid1>>, P2)
Twice == Pem("PUBLIC KEY", <<Kid1, Kid2>>, P1)

BadSections ==
    { Junk, Broken, Twice, Again,
      Pem("OTHER", <<Kid1>>, P1),
      Pem("PUBLIC KEY", <<>>, P1),
      Pem("PUBLIC KEY", <<Kid1, Line("kid", TRUE, K2)>>, P1),
      Pem("PUBLIC KEY", <<Kid1, Line("other", FALSE, K2)>>, P1),
      Pem("PUBLIC KEY", <<Line("-----BEGIN ", FALSE, K2), Kid1>>, P1),
      Pem("PUBLIC KEY", <<Line("kid", FALSE, EmptyKid)>>, P1),
      Pem("PUBLIC KEY", <<Kid1>>, NotEd25519),
      Pem("PUBLIC KEY", <<Kid1>>, NotPKIX) }

MCKeyFiles ==
    {Unopenable, <<>>, <<Good1>>, <<Good2>>, <<Good1, Good2>>,
     <<Broken, Good1>>, <<Broken, Junk, Good1>>, <<Good2, Broken, Good1>>}
    \cup {<<s>> : s \in BadSections}
    \cup {<<Good1, s>> : s \in BadSections}
    \cup {<<Good2, s>> : s \in BadSections}
    \cup {<<Good2, s, Good1>> : s \in BadSections}

By(kid, key) == [kid |-> kid, key |-> key]

File(shape, fields, signers, sound) ==
    [shape |-> shape, fields |-> fields, signers |-> signers, sound |-> sound]

EnvelopeKeys == {"public_key_pem", "evaluations"}
EntryKeys    == {"chain_version", "entry_hash"}

Envelope1 == File("envelope", EnvelopeKeys, <<By(K1, P1)>>, TRUE)
Chain1    == File("chain", EntryKeys, <<By(K1, P1)>>, TRUE)
Mistyped  == File("mistyped", {"evaluations"}, <<>>, TRUE)

MCInputs ==
    { Envelope1, Chain1, Mistyped,
      File("envelope", EnvelopeKeys, <<By(K1, P1)>>, FALSE),
      File("envelope", EnvelopeKeys, <<By(K1, P2)>>, TRUE),
      File("envelope", {"evaluations"}, <<By(K2, P2)>>, TRUE),
      File("envelope", EnvelopeKeys, <<By(EmptyKid, P1)>>, TRUE),
      File("envelope", {}, <<By(K1, P1)>>, TRUE),
      File("envelope", EnvelopeKeys \cup {"entry_hash"}, <<By(K1, P1)>>, TRUE),
      File("chain", {}, <<>>, TRUE),
      File("chain", EntryKeys \cup {"public_key_pem"}, <<By(K1, P1)>>, TRUE),
      File("chain", EntryKeys, <<By(K1, P1), By(K2, P2)>>, TRUE),
      File("chain", EntryKeys, <<By(K1, P1), By(K1, P2)>>, TRUE),
      File("chain", EntryKeys, <<By(K1, P1)>>, FALSE),
      File("oversize", EntryKeys, <<By(K1, P1)>>, TRUE),
      File("text", {}, <<>>, FALSE) }

MCSeconds == {Envelope1, Chain1, Mistyped}
=============================================================================
