----------------------------- MODULE LedgerOnly -----------------------------
(***************************************************************************)
(* VerifyNDJSONLedgerOnly (internal/envelope/verify.go): the Result of     *)
(* chain.Verify put in the words of the envelope's three layers.  Envelope,*)
(* correlation and archive are always "absent"; nothing calls it yet.      *)
(***************************************************************************)
EXTENDS ChainContract

LedgerIntegrity ==
    IF scanned = 0         THEN "absent"
    ELSE IF findings = {}  THEN "valid"
    ELSE "invalid"

FailureCode(kind) ==
    IF kind \in {"chain_break", "ordering", "genesis_previous_hash"}
      THEN "ledger_chain_broken" ELSE "ledger_hash_mismatch"

LedgerFindings ==
    IF scanned = 0 THEN {}
    ELSE {[record |-> f, code |-> FailureCode(f.kind)] : f \in findings}

(* Mutation: an entry out of place still counts, its hash was checked. *)
HashedEntries ==
    scanned
      - Cardinality({f \in findings : FailureCode(f.kind) = "ledger_hash_mismatch"})

LedgerEntriesVerified == scanned - Cardinality(findings)

(* VerificationResult.OK. *)
LedgerOnlyOK == LedgerFindings = {} /\ LedgerIntegrity # "invalid"

-----------------------------------------------------------------------------

(***************************************************************************)
(* The number of entries reported as verified is never above the number of *)
(* entries without a finding, though a line may have two findings and a    *)
(* malformed line, which is no entry, has one; it may be below it, and     *)
(* below zero.                                                             *)
(***************************************************************************)
LedgerCountIsCautious ==
    LedgerEntriesVerified <=
        Cardinality({i \in DOMAIN file :
            file[i].kind = "entry" /\ \A f \in findings : f.line # i})

(***************************************************************************)
(* verify.go:336-338: "VerifyNDJSONLedgerOnly wraps the legacy NDJSON path *)
(* so the CLI can present a unified 3-layer result: [...] ledger = the     *)
(* chain.Verify verdict", which is a failure whenever there is a finding.  *)
(***************************************************************************)
LedgerIsTheVerdict == LedgerOnlyOK <=> findings = {}
=============================================================================
