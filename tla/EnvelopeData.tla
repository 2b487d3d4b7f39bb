---------------------------- MODULE EnvelopeData ----------------------------
(***************************************************************************)
(* The signed export envelope as envelope.Verify decodes it                *)
(* (internal/envelope/model.go).                                           *)
(*                                                                         *)
(* A string field is a member of Text: "" when it is missing, " " when it  *)
(* is only white space.  A field the code compares without regard to case  *)
(* (decision, outcome, correlation_status) holds its folded form.  Where   *)
(* the code treats several fields alike, one stands for all of them, as    *)
(* said at the field.                                                      *)
(***************************************************************************)
EXTENDS Integers, Sequences, FiniteSets

CONSTANTS
    Text,          \* values of string fields
    PublicKey,     \* Ed25519 public keys
    NoKeys,        \* no --keys
    Unsigned,      \* signature missing
    BadSignature,  \* signature not base64 of 64 bytes
    NoPem,         \* public_key_pem missing, or not one Ed25519 SPKI block
    NoCertification,
    Unclaimed,     \* a manifest field that is not there
    Sha(_),        \* hex SHA-256 of a canonical_payload
    BundleSha(_),  \* hex SHA-256 of the canonical record sections
    Fold(_)        \* case folding of an organisation id

ASSUME TextAssumption == "" \in Text

(* ledger_ok, lite_ok: the row decodes as ledgerRow, as EvaluationLite. *)
EvaluationRow ==
    [ ledger_ok : BOOLEAN, lite_ok : BOOLEAN, id : Text, prev_hash : Text,
      entry_hash : Text, canonical_payload : Text, decision : Text,
      permit_token_hash : Text, organization_id : Text ]

(* presented_action_type also stands for presented_environment. *)
VerificationRow ==
    [ decision_id : Text, permit_token_hash : Text,
      presented_action_type : Text, presented_payload_hash : Text,
      outcome : Text, organization_id : Text ]

(* verdict: confidence, observed_action_hash, bypass_detected and the       *)
(* spelling of correlation_status.                                          *)
CorrelationRow ==
    [ decision_id : Text, permit_token_hash : Text,
      provider_request_id : Text, presented_action_type : Text,
      presented_payload_hash : Text, correlation_status : Text,
      verdict : Text, organization_id : Text ]

(***************************************************************************)
(* complete: object_id, purpose, verified_at, presented_actor_id are all   *)
(* there.  retention: mode, retain_until and a provider confirmation are   *)
(* all there (archiveRetentionRecorded).  explained: verify_error_code is  *)
(* there.                                                                  *)
(***************************************************************************)
RetrievalRow ==
    [ id : Text, complete : BOOLEAN, retrieval_status : Text,
      organization_id : Text, returned_sha256 : Text, explained : BOOLEAN,
      decision_id : Text, retention : BOOLEAN ]

(* denied_integrity: integrity_verified is there and false. *)
ProbeRow ==
    [ id : Text, complete : BOOLEAN, probe_status : Text,
      organization_id : Text, returned_sha256 : Text,
      denied_integrity : BOOLEAN, retention : BOOLEAN ]

CountedSections ==
    {"evaluations", "verification_events", "correlation_events",
     "retrieval_events", "probe_events", "protection_configurations"}

(* other_sections: context_envelopes, governance_transitions, admin_log and *)
(* exception_events, which only the bundle hash looks at.                   *)
BundleSections(version) ==
    (CountedSections \cup {"other_sections"})
        \ (IF version >= 6 THEN {} ELSE {"protection_configurations"})

BlankText(s) == s \in {"", " "}

Finding(code, section, i) ==
    [code |-> code, section |-> section, index |-> i]

(* What is signed: the whole object without its signature. *)
SignedBytes(v) == [f \in DOMAIN v \ {"signature"} |-> v[f]]

Ed25519Verify(pk, v) ==
    v.signature = [key |-> pk, over |-> SignedBytes(v)]
=============================================================================
