----------------------------- MODULE ChainEntry -----------------------------
(***************************************************************************)
(* The lines of an audit-chain v5 NDJSON export and the pure functions     *)
(* chain.Verify applies to one of them (internal/chain/entry.go,           *)
(* chain_base64.go; the keystore lookup of internal/keys/pem.go).          *)
(*                                                                         *)
(* SHA-256 over a previous digest and a canonical payload is the constant  *)
(* operator Hash, and an Ed25519 signature is the record of the key that   *)
(* made it and the digest it covers.  What an entry contributes to its own *)
(* hash is its body (every wire field but entry_hash, signature and        *)
(* engine_version, kept opaque) together with engine_version.              *)
(***************************************************************************)
EXTENDS Integers, Sequences, FiniteSets

CONSTANTS
    Org,              \* organisation ids
    Digest,           \* 32-byte digests
    GenesisHash,      \* GenesisPreviousHashHex: 32 zero bytes
    NotHex,           \* a hash field that is not the hex of 32 bytes
    Body,             \* what is hashed of an entry besides engine_version
    EngineVersion,    \* values of engine_version on the wire, null included
    Absent,           \* engine_version not on the wire
    KeyVersion,       \* key_version selectors ("kid")
    PublicKey,        \* Ed25519 public keys
    NoKeys,           \* no --keys: a nil chain.KeyStore
    Undecodable,      \* a signature field that is not base64
    Unsigned,         \* a signature field that decodes to no valid signature
    MaxInt64,         \* largest sequence number; the next one wraps
    Hash(_, _)        \* Hash(previous digest, canonical content)

(* What canonical.Bytes returns, up to encoding. *)
Content == [body : Body, engine_version : EngineVersion \cup {Absent}]

ASSUME GenesisAssumption == GenesisHash \in Digest /\ NotHex \notin Digest

(* hex.EncodeToString of a SHA-256 sum is never a malformed hash field. *)
ASSUME HashAssumption ==
    \A d \in Digest, c \in Content : Hash(d, c) # NotHex

ASSUME MaxInt64Assumption == MaxInt64 \in Nat \ {0}

MinChainVersion == 5

Signature ==
    {Undecodable, Unsigned} \cup [key : PublicKey, over : Digest]

(***************************************************************************)
(* A line that json.Unmarshal accepts.  canonical is FALSE when            *)
(* canonicalizeForHash refuses the line all the same: a duplicate key, or  *)
(* a number that is not an integer literal.                                *)
(***************************************************************************)
Entry ==
    [ kind           : {"entry"},
      chain_version  : Int,
      org_id         : Org,
      sequence       : Int,
      body           : Body,
      canonical      : BOOLEAN,
      engine_version : EngineVersion \cup {Absent},
      previous_hash  : Digest \cup {NotHex},
      entry_hash     : Digest \cup {NotHex},
      key_version    : KeyVersion,
      signature      : Signature ]

BlankLine     == [kind |-> "blank"]      \* only space, tab, CR, LF
MalformedLine == [kind |-> "malformed"]  \* not a JSON object of Entry's shape
OversizeLine  == [kind |-> "oversize"]   \* longer than maxNDJSONLineBytes

Line == {BlankLine, MalformedLine, OversizeLine} \cup Entry

(* A loaded keystore maps some key versions to public keys. *)
KeyStore == UNION {[K -> PublicKey] : K \in SUBSET KeyVersion}

-----------------------------------------------------------------------------

(* int64 addition in "e.Sequence + 1". *)
NextSequence(s) == IF s = MaxInt64 THEN -MaxInt64 - 1 ELSE s + 1

CanonicalizeForHash(e, keepEngineVersion) ==
    [ body           |-> e.body,
      engine_version |-> IF keepEngineVersion THEN e.engine_version ELSE Absent ]

PrimaryHash(prev, e) == Hash(prev, CanonicalizeForHash(e, TRUE))
LegacyHash(prev, e)  == Hash(prev, CanonicalizeForHash(e, FALSE))

(* entry_hash matched only by the engine_version-excluded form. *)
UsesLegacyForm(prev, e) ==
    /\ e.entry_hash # PrimaryHash(prev, e)
    /\ e.entry_hash = LegacyHash(prev, e)

HashMatches(prev, e) ==
    e.entry_hash \in {PrimaryHash(prev, e), LegacyHash(prev, e)}

KeyKnown(keys, e) == keys # NoKeys /\ e.key_version \in DOMAIN keys

Ed25519Verify(pk, digest, sig) == sig = [key |-> pk, over |-> digest]

SignatureDecodes(e) == e.signature # Undecodable

SignatureVerifies(keys, e) ==
    SignatureDecodes(e)
        /\ Ed25519Verify(keys[e.key_version], e.entry_hash, e.signature)
=============================================================================
