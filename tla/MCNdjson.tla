------------------------------ MODULE MCNdjson ------------------------------
(***************************************************************************)
(* Lines and anchor files for whole NDJSON runs: the producer's chain of   *)
(* org A, a forged one, a legacy-form entry, and anchors that are genuine, *)
(* stale, ahead, for the forged chain, or refused by the parser.           *)
(***************************************************************************)
EXTENDS NdjsonContract

CONSTANTS A, B, Kid, OtherKid, Key, OtherKey, Genesis, V1

FreeHash(prev, content) == <<prev, content>>

(* An entry chained to prev; its body holds the fields it is hashed with. *)
Made(org, seq, prev, kid, payload, ev, key) ==
    LET body == [org |-> org, seq |-> seq, prev |-> prev, kid |-> kid,
                 payload |-> payload]
        hash == FreeHash(prev, [body |-> body, engine_version |-> ev])
    IN  [ kind           |-> "entry",
          chain_version  |-> 5,
          org_id         |-> org,
          sequence       |-> seq,
          body           |-> body,
          canonical      |-> TRUE,
          engine_version |-> ev,
          previous_hash  |-> prev,
          entry_hash     |-> hash,
          key_version    |-> kid,
          signature      |-> [key |-> key, over |-> hash] ]

A1 == Made(A, 1, Genesis, Kid, "p", Absent, Key)
A2 == Made(A, 2, A1.entry_hash, Kid, "p", V1, Key)
B1 == Made(B, 1, Genesis, OtherKid, "p", Absent, OtherKey)

(* The same first entry, engine_version added after it was hashed. *)
A1Tagged   == [A1 EXCEPT !.engine_version = V1]
A1Forged   == Made(A, 1, Genesis, Kid, "q", Absent, Key)
A2OfForged == Made(A, 2, A1Forged.entry_hash, Kid, "q", V1, Key)
A1Unsigned == [A1 EXCEPT !.signature = Unsigned]

MCEntries == {A1, A2, B1, A1Tagged, A1Forged, A2OfForged, A1Unsigned}
MCLines   == {BlankLine, MalformedLine, OversizeLine} \cup MCEntries
MCOrg     == {A, B}
MCBody    == {e.body : e \in MCEntries}
MCDigest  == {Genesis} \cup {e.entry_hash : e \in MCEntries}
MCKeyStores == {NoKeys, [k \in {Kid} |-> Key]}
MCProducerLog == [o \in MCOrg |-> IF o = A THEN <<A1, A2>> ELSE <<B1>>]

Anchor(o, s, h) == [org_id |-> o, sequence |-> s, entry_hash |-> h]

MCAnchorFiles ==
    { NoHead, Unreadable, BadDocument, <<>>,
      <<Anchor(A, 2, A2.entry_hash)>>,
      <<Anchor(A, 1, A1.entry_hash), Anchor(B, 1, B1.entry_hash)>>,
      <<Anchor(A, 1, A1.entry_hash), Anchor(A, 1, A1.entry_hash)>>,
      <<Anchor(A, 2, A2OfForged.entry_hash)>>,
      <<Anchor(B, 1, UpperHex)>>,
      <<Anchor(A, 0, A1.entry_hash)>>,
      <<Anchor(EmptyOrg, 1, A1.entry_hash)>>,
      <<Anchor(A, 1, NotHex)>> }
=============================================================================
