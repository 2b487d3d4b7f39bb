--------------------------- MODULE ChainContract ---------------------------
(***************************************************************************)
(* What chain.Verify promises about an export, stated on the export alone  *)
(* (docs/canonical-form-v5.md, docs/verification-contract.md) and related  *)
(* to the Result the pass builds.                                          *)
(***************************************************************************)
EXTENDS ChainVerify

EntryAt(f, i, o) ==
    i \in DOMAIN f /\ f[i].kind = "entry" /\ f[i].org_id = o

(* Line i holds the first entry of org o. *)
FirstOf(f, i, o) ==
    EntryAt(f, i, o) /\ \A j \in DOMAIN f : j < i => ~EntryAt(f, j, o)

(* Line i holds the last entry of org o. *)
LastOf(f, i, o) ==
    EntryAt(f, i, o) /\ \A j \in DOMAIN f : j > i => ~EntryAt(f, j, o)

(* Lines j < i hold consecutive entries of org o. *)
Consecutive(f, j, i, o) ==
    /\ EntryAt(f, j, o) /\ EntryAt(f, i, o) /\ j < i
    /\ \A k \in DOMAIN f : j < k /\ k < i => ~EntryAt(f, k, o)

(* A signature by a key the verifier holds must verify. *)
SignatureAccepted(ks, e) == KeyKnown(ks, e) => SignatureVerifies(ks, e)

WellFormed(ks, e) ==
    e.chain_version >= 5 /\ e.canonical /\ SignatureAccepted(ks, e)

IsGenesis(e) ==
    /\ e.sequence = 1
    /\ e.previous_hash = GenesisHash
    /\ HashMatches(GenesisHash, e)

Succeeds(d, e) ==
    /\ e.sequence = NextSequence(d.sequence)
    /\ e.previous_hash = d.entry_hash
    /\ HashMatches(d.entry_hash, e)

ValidOrgChain(ks, f, o) ==
    \A i \in DOMAIN f : EntryAt(f, i, o) =>
        /\ WellFormed(ks, f[i])
        /\ FirstOf(f, i, o) => IsGenesis(f[i])
        /\ \A j \in DOMAIN f : Consecutive(f, j, i, o) => Succeeds(f[j], f[i])

FindingsOf(o) == {x \in findings : EntryAt(file, x.line, o)}

-----------------------------------------------------------------------------

(***************************************************************************)
(* An org has a finding exactly when its own entries do not form a valid   *)
(* chain: the pass misses nothing, raises nothing false, and the lines of  *)
(* other orgs, blank and malformed lines between them never matter.        *)
(***************************************************************************)
OrgCleanIffValid ==
    \A o \in Org : FindingsOf(o) = {} <=> ValidOrgChain(keys, file, o)

(***************************************************************************)
(* The head reported for an org without findings is its last entry, and    *)
(* an org whose lines were all read has a head: the anchor check that      *)
(* follows compares against the true tail of the export.                   *)
(***************************************************************************)
HeadIsTail ==
    \A o \in Org : FindingsOf(o) = {} =>
        \A i \in DOMAIN file : LastOf(file, i, o) =>
            head[o] = [sequence   |-> file[i].sequence,
                       entry_hash |-> file[i].entry_hash]

(***************************************************************************)
(* Even in a damaged export a reported head is an entry of that org that   *)
(* passed every check of its own and is hash-linked to the genesis value   *)
(* or to an earlier entry of the org.                                      *)
(***************************************************************************)
HeadIsBacked ==
    \A o \in Org : head[o] # Unseen =>
        \E i \in DOMAIN file :
            /\ EntryAt(file, i, o)
            /\ head[o] = [sequence   |-> file[i].sequence,
                          entry_hash |-> file[i].entry_hash]
            /\ WellFormed(keys, file[i])
            /\ \/ HashMatches(GenesisHash, file[i])
               \/ \E j \in 1..(i - 1) : /\ EntryAt(file, j, o)
                                        /\ HashMatches(file[j].entry_hash, file[i])

ChainBroken(o) == \E x \in FindingsOf(o) : x.kind = "chain_break"

(***************************************************************************)
(* A head, once set, only moves to the entry numbered next and chained to  *)
(* it, unless a chain_break was reported for the org: no other damage can  *)
(* make the reported head skip, restart or go back.                        *)
(***************************************************************************)
HeadAdvancesByOne ==
    [][\A o \in Org :
          head[o] # Unseen /\ head'[o] # head[o] /\ ~ChainBroken(o) =>
            /\ head'[o].sequence = NextSequence(head[o].sequence)
            /\ file'[Len(file')].previous_hash = head[o].entry_hash]_chainVars

(***************************************************************************)
(* In an export without findings, every scanned entry was either           *)
(* signature-verified or counted as skipped and named by one warning.      *)
(***************************************************************************)
SignatureAccounting ==
    findings = {} =>
        /\ keys = NoKeys => sigVerified = 0 /\ sigSkipped = 0
        /\ keys # NoKeys =>
             /\ sigVerified + sigSkipped = scanned
             /\ sigSkipped =
                  Cardinality({w \in warnings : w.kind = "unknown_key_version"})

(***************************************************************************)
(* Without findings and with nothing skipped, every entry carries a valid  *)
(* signature of a key in the keystore (what StrictSignatureAcceptance      *)
(* rests on).                                                              *)
(***************************************************************************)
NothingSkippedMeansAllSigned ==
    findings = {} /\ keys # NoKeys /\ sigSkipped = 0 =>
        \A i \in DOMAIN file : file[i].kind = "entry" =>
            KeyKnown(keys, file[i]) /\ SignatureVerifies(keys, file[i])

-----------------------------------------------------------------------------
(* What the repository's documents say and the code does not do. *)

(***************************************************************************)
(* entry.go, at chain_break: "Mark the head at the last good entry and     *)
(* stop processing this org."                                              *)
(***************************************************************************)
BreakStopsOrg ==
    [][\A o \in Org : ChainBroken(o) => head'[o] = head[o]]_chainVars

(***************************************************************************)
(* docs/canonical-form-v5.md: a verifier "must never silently interpret a  *)
(* newer unknown version as an older one".                                 *)
(***************************************************************************)
NewerVersionNotVerified ==
    findings = {} =>
        \A i \in DOMAIN file :
            file[i].kind = "entry" => file[i].chain_version <= 5
=============================================================================
