---------------------------- MODULE ChainVerify ----------------------------
(***************************************************************************)
(* chain.Verify (internal/chain/entry.go): one pass over an NDJSON export, *)
(* one line at a time.  Each way round the loop is an action: the line is  *)
(* skipped, refused with a finding, or accepted.  The export is any        *)
(* sequence of lines; `file' records the lines read so far, so what holds  *)
(* in every state holds of the Result of every export.                     *)
(***************************************************************************)
EXTENDS ChainEntry

CONSTANTS
    Lines,       \* the lines an export may be made of
    KeyStores,   \* the keystores --keys may supply, NoKeys for none
    MaxLines,    \* bound: lines of an export
    Unseen       \* an org with no entry in the map `state'

ASSUME LinesAssumption     == Lines \subseteq Line
ASSUME KeyStoresAssumption == KeyStores \subseteq KeyStore \cup {NoKeys}
ASSUME MaxLinesAssumption  == MaxLines \in Nat

VARIABLES
    file,          \* lines read so far (history; the code keeps only `line')
    keys,          \* the keystore, fixed for the run
    failed,        \* the scanner stopped with an error
    state,         \* org -> previous hash and next sequence, or Unseen
    findings,      \* integrity failures: line number and kind
    warnings,      \* non-fatal observations: line number and kind
    scanned,       \* EntriesScanned
    sigVerified,   \* SignaturesVerified
    sigSkipped,    \* SignaturesSkipped
    head           \* HeadByOrg and HeadHashByOrg, or Unseen

chainVars == <<file, keys, failed, state, findings, warnings, scanned,
               sigVerified, sigSkipped, head>>

FindingKind ==
    {"parse_error", "chain_version_unsupported", "ordering",
     "genesis_previous_hash", "malformed_previous_hash", "chain_break",
     "canonical_form", "hash_mismatch", "signature_decode",
     "signature_invalid"}

WarningKind == {"engine_version_legacy_hash_form", "unknown_key_version"}

OrgState == [prev : Digest, nextSeq : Int]
OrgHead  == [sequence : Int, entry_hash : Digest]

ASSUME UnseenAssumption == Unseen \notin OrgState /\ Unseen \notin OrgHead

TypeOK ==
    /\ file \in Seq(Lines) /\ Len(file) <= MaxLines
    /\ keys \in KeyStores
    /\ failed \in BOOLEAN
    /\ state \in [Org -> OrgState \cup {Unseen}]
    /\ findings \subseteq [line : 1..Len(file), kind : FindingKind]
    /\ warnings \subseteq [line : 1..Len(file), kind : WarningKind]
    /\ scanned \in Nat /\ sigVerified \in Nat /\ sigSkipped \in Nat
    /\ head \in [Org -> OrgHead \cup {Unseen}]

Init ==
    /\ file = <<>>
    /\ keys \in KeyStores
    /\ failed = FALSE
    /\ state = [o \in Org |-> Unseen]
    /\ findings = {}
    /\ warnings = {}
    /\ scanned = 0
    /\ sigVerified = 0
    /\ sigSkipped = 0
    /\ head = [o \in Org |-> Unseen]

-----------------------------------------------------------------------------
(* Reading a line. *)

Read(l) ==
    /\ ~failed
    /\ Len(file) < MaxLines
    /\ file' = Append(file, l)
    /\ keys' = keys

(* Mutation: lineNo is incremented after the line has been handled. *)
HereFromZero(kind) == [line |-> Len(file), kind |-> kind]

Here(kind) == [line |-> Len(file) + 1, kind |-> kind]

SkipBlankLine ==
    /\ BlankLine \in Lines
    /\ Read(BlankLine)
    /\ UNCHANGED <<failed, state, findings, warnings, scanned, sigVerified,
                   sigSkipped, head>>

RejectMalformedLine ==
    /\ MalformedLine \in Lines
    /\ Read(MalformedLine)
    /\ findings' = findings \cup {Here("parse_error")}
    /\ UNCHANGED <<failed, state, warnings, scanned, sigVerified, sigSkipped,
                   head>>

(* sc.Scan returns false and sc.Err is bufio.ErrTooLong: Verify returns it. *)
FailOnOversizeLine ==
    /\ OversizeLine \in Lines
    /\ Read(OversizeLine)
    /\ failed' = TRUE
    /\ UNCHANGED <<state, findings, warnings, scanned, sigVerified,
                   sigSkipped, head>>

ReadEntry(e) ==
    /\ Read(e)
    /\ scanned' = scanned + 1
    /\ UNCHANGED failed

(* A refusal that leaves the org's state alone. *)
Refuse(e, kind) ==
    /\ ReadEntry(e)
    /\ findings' = findings \cup {Here(kind)}
    /\ UNCHANGED <<warnings, sigVerified, sigSkipped, head>>

SupportedVersion(e) == e.chain_version >= MinChainVersion

RejectVersion(e) ==
    /\ ~SupportedVersion(e)
    /\ Refuse(e, "chain_version_unsupported")
    /\ UNCHANGED state

-----------------------------------------------------------------------------
(* Continuity with the org's previous entry. *)

Opens(e) == state[e.org_id] = Unseen

RejectOutOfOrder(e) ==
    /\ SupportedVersion(e) /\ ~Opens(e)
    /\ e.sequence # state[e.org_id].nextSeq
    /\ Refuse(e, "ordering")
    /\ UNCHANGED state

RejectMalformedPrevious(e) ==
    /\ SupportedVersion(e) /\ ~Opens(e)
    /\ e.sequence = state[e.org_id].nextSeq
    /\ e.previous_hash = NotHex
    /\ Refuse(e, "malformed_previous_hash")
    /\ UNCHANGED state

(* The org is dropped from `state': its next entry opens it again. *)
BreakChain(e) ==
    /\ SupportedVersion(e) /\ ~Opens(e)
    /\ e.sequence = state[e.org_id].nextSeq
    /\ e.previous_hash \notin {NotHex, state[e.org_id].prev}
    /\ Refuse(e, "chain_break")
    /\ state' = [state EXCEPT ![e.org_id] = Unseen]

(* Mutation: an entry continues its org by sequence number alone. *)
ContinuesBySequence(e) ==
    SupportedVersion(e) /\ (~Opens(e) => e.sequence = state[e.org_id].nextSeq)

(* The entry goes on to its hash check. *)
Continues(e) ==
    /\ SupportedVersion(e)
    /\ ~Opens(e) => /\ e.sequence = state[e.org_id].nextSeq
                    /\ e.previous_hash = state[e.org_id].prev

(* Mutation: an opening entry's previous_hash is not looked at. *)
OpeningSequenceFindingsOnly(e) ==
    IF Opens(e) /\ e.sequence # 1 THEN {Here("ordering")} ELSE {}

(* Mutation: an opening entry's sequence number is not looked at. *)
OpeningPreviousFindingsOnly(e) ==
    IF Opens(e) /\ e.previous_hash # GenesisHash
      THEN {Here("genesis_previous_hash")} ELSE {}

(* Findings on an org's first entry do not stop its hash check. *)
OpeningFindings(e) ==
    IF ~Opens(e) THEN {}
    ELSE {f \in {Here("ordering"), Here("genesis_previous_hash")} :
            \/ f.kind = "ordering" /\ e.sequence # 1
            \/ f.kind = "genesis_previous_hash"
                 /\ e.previous_hash # GenesisHash}

(* The *orgState the hash check works on. *)
Current(e) ==
    IF Opens(e) THEN [prev |-> GenesisHash, nextSeq |-> 1]
                ELSE state[e.org_id]

-----------------------------------------------------------------------------
(* Hash and signature. *)

(* A refusal after state[e.OrgID] has been set. *)
RefuseHashed(e, kind) ==
    /\ ReadEntry(e)
    /\ findings' = findings \cup OpeningFindings(e) \cup {Here(kind)}
    /\ state' = [state EXCEPT ![e.org_id] = Current(e)]
    /\ UNCHANGED <<sigVerified, sigSkipped, head>>

RejectCanonicalForm(e) ==
    /\ Continues(e)
    /\ ~e.canonical
    /\ RefuseHashed(e, "canonical_form")
    /\ UNCHANGED warnings

Hashable(e) == Continues(e) /\ e.canonical

RejectHash(e) ==
    /\ Hashable(e)
    /\ ~HashMatches(Current(e).prev, e)
    /\ RefuseHashed(e, "hash_mismatch")
    /\ UNCHANGED warnings

(* Mutation: the hash is recomputed over the entry's own previous_hash. *)
HashVerifiedAsClaimed(e) == Hashable(e) /\ HashMatches(e.previous_hash, e)

HashVerified(e) == Hashable(e) /\ HashMatches(Current(e).prev, e)

LegacyWarning(e) ==
    IF UsesLegacyForm(Current(e).prev, e)
      THEN {Here("engine_version_legacy_hash_form")} ELSE {}

RejectSignatureEncoding(e) ==
    /\ HashVerified(e)
    /\ KeyKnown(keys, e) /\ ~SignatureDecodes(e)
    /\ RefuseHashed(e, "signature_decode")
    /\ warnings' = warnings \cup LegacyWarning(e)

RejectSignature(e) ==
    /\ HashVerified(e)
    /\ KeyKnown(keys, e) /\ SignatureDecodes(e) /\ ~SignatureVerifies(keys, e)
    /\ RefuseHashed(e, "signature_invalid")
    /\ warnings' = warnings \cup LegacyWarning(e)

(* Entry valid: advance state. *)
Advance(e) ==
    /\ ReadEntry(e)
    /\ findings' = findings \cup OpeningFindings(e)
    /\ state' = [state EXCEPT ![e.org_id] =
                   [prev    |-> e.entry_hash,
                    nextSeq |-> NextSequence(e.sequence)]]
    /\ head' = [head EXCEPT ![e.org_id] =
                   [sequence |-> e.sequence, entry_hash |-> e.entry_hash]]

AcceptWithoutKeys(e) ==
    /\ HashVerified(e)
    /\ keys = NoKeys
    /\ Advance(e)
    /\ warnings' = warnings \cup LegacyWarning(e)
    /\ UNCHANGED <<sigVerified, sigSkipped>>

(* Mutation: an unknown key_version ends the iteration with its warning. *)
SkipUnknownKey(e) ==
    /\ HashVerified(e)
    /\ keys # NoKeys /\ ~KeyKnown(keys, e)
    /\ ReadEntry(e)
    /\ findings' = findings \cup OpeningFindings(e)
    /\ warnings' = warnings \cup {Here("unknown_key_version")}
    /\ UNCHANGED <<state, sigVerified, sigSkipped, head>>

AcceptUnknownKey(e) ==
    /\ HashVerified(e)
    /\ keys # NoKeys /\ ~KeyKnown(keys, e)
    /\ Advance(e)
    /\ sigSkipped' = sigSkipped + 1
    /\ warnings' =
         warnings \cup LegacyWarning(e) \cup {Here("unknown_key_version")}
    /\ UNCHANGED sigVerified

(* Mutation: a signature is counted without being checked. *)
AcceptAnySigned(e) ==
    /\ HashVerified(e)
    /\ KeyKnown(keys, e) /\ SignatureDecodes(e)
    /\ Advance(e)
    /\ sigVerified' = sigVerified + 1
    /\ warnings' = warnings \cup LegacyWarning(e)
    /\ UNCHANGED sigSkipped

AcceptSigned(e) ==
    /\ HashVerified(e)
    /\ KeyKnown(keys, e) /\ SignatureVerifies(keys, e)
    /\ Advance(e)
    /\ sigVerified' = sigVerified + 1
    /\ warnings' = warnings \cup LegacyWarning(e)
    /\ UNCHANGED sigSkipped

-----------------------------------------------------------------------------

ReadSomeEntry(e) ==
    \/ RejectVersion(e)
    \/ RejectOutOfOrder(e)
    \/ RejectMalformedPrevious(e)
    \/ BreakChain(e)
    \/ RejectCanonicalForm(e)
    \/ RejectHash(e)
    \/ RejectSignatureEncoding(e)
    \/ RejectSignature(e)
    \/ AcceptWithoutKeys(e)
    \/ AcceptUnknownKey(e)
    \/ AcceptSigned(e)

Next ==
    \/ SkipBlankLine
    \/ RejectMalformedLine
    \/ FailOnOversizeLine
    \/ \E e \in {l \in Lines : l.kind = "entry"} : ReadSomeEntry(e)

Spec == Init /\ [][Next]_chainVars
=============================================================================
