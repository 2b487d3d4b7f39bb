------------------------------ MODULE MCChain ------------------------------
(***************************************************************************)
(* Lines for the chain runs: the genuine chains of two orgs, and what      *)
(* becomes of them when an export is edited, forked, re-versioned, signed  *)
(* by another key or merely produced under the legacy hash form.           *)
(***************************************************************************)
EXTENDS ChainRefinement, LedgerOnly

CONSTANTS A, B,            \* orgs
          Kid, OtherKid,   \* key versions: in the keystore, not in it
          Key, OtherKey,   \* public keys
          Genesis, V1      \* genesis digest, an engine_version

(* A collision-free hash: the digest is what was hashed, a previous_hash    *)
(* that repeats prev being written once.                                    *)
FreeHash(prev, content) ==
    <<prev, content.engine_version,
      [content.body EXCEPT !.prev = IF @ = prev THEN <<>> ELSE @]>>

BodyOf(org, seq, prev, kid, payload) ==
    [version |-> 5, org |-> org, seq |-> seq, prev |-> prev, kid |-> kid,
     payload |-> payload]

(* An entry with this body, hashed after digest over and signed by key. *)
Made(body, over, ev, legacy, key) ==
    LET hash == FreeHash(over,
                  [body           |-> body,
                   engine_version |-> IF legacy THEN Absent ELSE ev])
    IN  [ kind           |-> "entry",
          chain_version  |-> body.version,
          org_id         |-> body.org,
          sequence       |-> body.seq,
          body           |-> body,
          canonical      |-> TRUE,
          engine_version |-> ev,
          previous_hash  |-> body.prev,
          entry_hash     |-> hash,
          key_version    |-> body.kid,
          signature      |-> [key |-> key, over |-> hash] ]

(* The usual producer: chained to prev, current hash form, its own key. *)
Produced(org, seq, prev, payload) ==
    Made(BodyOf(org, seq, prev, Kid, payload), prev, V1, FALSE, Key)

A1 == Produced(A, 1, Genesis, "p")
A2 == Produced(A, 2, A1.entry_hash, "p")
A3 == Made(BodyOf(A, 3, A2.entry_hash, OtherKid, "p"), A2.entry_hash, Absent,
           FALSE, OtherKey)
B1 == Made(BodyOf(B, 1, Genesis, Kid, "p"), Genesis, V1, TRUE, Key)

(* A2 forked by someone else, and the entry that follows the fork. *)
A2Forked   == Made(BodyOf(A, 2, A1.entry_hash, Kid, "q"), A1.entry_hash, V1,
                   FALSE, OtherKey)
A3OfFork   == Produced(A, 3, A2Forked.entry_hash, "q")
(* A second genesis, and an entry 2 chained to the genesis value. *)
A1Again    == Produced(A, 1, Genesis, "q")
A2Unlinked == Produced(A, 2, Genesis, "q")
(* A2 with its payload edited in place, or no longer canonical. *)
A2Edited   == [A2 EXCEPT !.body.payload = "q"]
A2Dup      == [A2 EXCEPT !.canonical = FALSE]
(* previous_hash is not a digest, the hash is over the right one. *)
A2BadPrev  == Made(BodyOf(A, 2, NotHex, Kid, "p"), A1.entry_hash, V1, FALSE, Key)
(* A first entry that claims a predecessor, hashed as the genesis it is. *)
A1Claims   == Made(BodyOf(A, 1, B1.entry_hash, Kid, "p"), Genesis, V1, FALSE, Key)
A2NoSig    == [A2 EXCEPT !.signature = Undecodable]
A1Unsigned == [A1 EXCEPT !.signature = Unsigned]
A1Older    == Made([A1.body EXCEPT !.version = 4], Genesis, V1, FALSE, Key)
A1Newer    == Made([A1.body EXCEPT !.version = 6], Genesis, V1, FALSE, Key)
(* The largest sequence number, and the entry a wrapped counter expects. *)
ALast      == Produced(A, MaxInt64, Genesis, "p")
AWrapped   == Produced(A, -MaxInt64 - 1, ALast.entry_hash, "p")

MCEntries ==
    {A1, A2, A3, B1, A2Forked, A3OfFork, A1Again, A2Unlinked, A2Edited,
     A2Dup, A2BadPrev, A1Claims, A2NoSig, A1Unsigned, A1Older, A1Newer, ALast, AWrapped}

MCLines == {BlankLine, MalformedLine, OversizeLine} \cup MCEntries

MCOrg == {A, B}
MCBody == {e.body : e \in MCEntries}
MCDigest ==
    {Genesis} \cup {e.entry_hash : e \in MCEntries}
MCKeyStores == {NoKeys, [k \in {Kid} |-> Key]}
=============================================================================
