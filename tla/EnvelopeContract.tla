-------------------------- MODULE EnvelopeContract --------------------------
(***************************************************************************)
(* What the verification of a signed envelope promises, stated on the      *)
(* envelope and the keystore.                                              *)
(***************************************************************************)
EXTENDS EnvelopeReport

LayerVerdict == {"absent", "valid", "invalid"}

TypeOK ==
    /\ keys \in KeyStores /\ requireSigs \in BOOLEAN
    /\ phase \in {"parse", "ledger", "rows", "correlation", "archive",
                  "certification", "exit", "exited"}
    /\ \A f \in findings : f.index \in Nat
    /\ row \in Nat \ {0} /\ prevEntryHash \in Text /\ ledgerInvalid \in BOOLEAN
    /\ ledgerVerified \in 0..(row - 1)
    /\ envelope \in LayerVerdict \cup {"untrusted"}
    /\ {ledger, correlation, archive} \subseteq LayerVerdict
    /\ keyTrusted \in BOOLEAN /\ bundleChecked \in BOOLEAN
    /\ corrVerified \in Nat /\ archVerified \in Nat
    /\ {orgBinding, archBinding} \subseteq
         {"not_applicable", "not_present_in_export", "checked"}
    /\ retention \in
         {"not_applicable", "not_recorded", "recorded_not_verified_offline"}
    /\ exit \in 0..3

-----------------------------------------------------------------------------
(* Signature and layers. *)

(***************************************************************************)
(* With exit 0 the object as a whole was signed: by the key the keystore   *)
(* holds for its key_id if there is one, whatever key the envelope embeds, *)
(* and only otherwise by the embedded key, which --require-signatures      *)
(* never accepts.                                                          *)
(***************************************************************************)
AcceptedSignatureHolds ==
    exit = 0 =>
        IF keys # NoKeys /\ env.key_id \in DOMAIN keys \ {""}
          THEN env.signature = [key |-> keys[env.key_id], over |-> SignedBytes(env)]
          ELSE /\ ~requireSigs
               /\ env.signature = [key  |-> env.public_key_pem,
                                   over |-> SignedBytes(env)]

Family(prefix) == {f \in findings : f.code \in prefix}

LedgerCodes == {"LEDGER_MALFORMED", "LEDGER_HASH_MISMATCH", "LEDGER_CHAIN_BROKEN"}
CorrelationCodes ==
    {"CORRELATION_REFERENCE_MISSING", "CORRELATION_REFERENCE_OUTSIDE_EXPORT",
     "CORRELATION_DECISION_MISMATCH", "CORRELATION_LIFECYCLE_INVALID",
     "CORRELATION_ACTION_MISMATCH", "CORRELATION_TARGET_MISMATCH",
     "CORRELATION_ORG_MISMATCH", "CORRELATION_DUPLICATE",
     "CORRELATION_CONFLICT"}
ArchiveCodes ==
    {"ARCHIVE_REFERENCE_MISSING", "ARCHIVE_REFERENCE_OUTSIDE_EXPORT",
     "ARCHIVE_ORG_MISMATCH", "ARCHIVE_DUPLICATE", "ARCHIVE_CONFLICT",
     "ARCHIVE_OUTCOME_UNKNOWN"}

(***************************************************************************)
(* Once all layers have been checked, a layer is "invalid" exactly when a  *)
(* finding of its own family says why; and under a broken envelope nothing *)
(* but the envelope is reported.                                           *)
(***************************************************************************)
LayersMatchFindings ==
    phase \in {"exit", "exited"} /\ exit # 2 =>
        /\ ledger = "invalid" <=> Family(LedgerCodes) # {}
        /\ correlation = "invalid" <=> Family(CorrelationCodes) # {}
        /\ archive = "invalid" <=> Family(ArchiveCodes) # {}
        /\ envelope = "invalid" =>
             /\ {ledger, correlation, archive} = {"absent"}
             /\ Cardinality(findings) = 1 /\ ~bundleChecked

-----------------------------------------------------------------------------
(* The ledger. *)

LinksTo(i, j) ==
    \/ Rows[j].prev_hash = "" \/ Rows[i].entry_hash = ""
    \/ Rows[j].prev_hash = Rows[i].entry_hash

(***************************************************************************)
(* The ledger is "valid" exactly when some row can be recomputed, every    *)
(* row that can be was, and every asserted link holds between neighbours.  *)
(***************************************************************************)
LedgerValidIffLinked ==
    phase \in {"correlation", "archive", "certification"} =>
        (ledger = "valid" <=>
            /\ AllDecode /\ HaveCanonical
            /\ \A i \in DOMAIN Rows : ~RecomputeFails(Rows[i])
            /\ \A i \in DOMAIN Rows : i > 1 => LinksTo(i - 1, i))

Unflagged(i) == \A f \in Family(LedgerCodes) : f.index # i

(***************************************************************************)
(* Also in a damaged ledger, the rows counted as verified are those        *)
(* without a finding, and each is linked to the one counted before it: a   *)
(* rejected row never becomes the parent of an accepted one.               *)
(***************************************************************************)
PassedRowsAreLinked ==
    phase \in {"rows", "correlation"} /\ AllDecode /\ HaveCanonical =>
        LET passed == {i \in 1..(row - 1) : Unflagged(i)} IN
        /\ ledgerVerified = Cardinality(passed)
        /\ \A i, j \in passed :
             i < j /\ (\A k \in passed : k <= i \/ j <= k) => LinksTo(i, j)

-----------------------------------------------------------------------------
(* Correlations and archive. *)

Corrs == env.correlation_events

AllowedBy(d, c) ==
    /\ d.lite_ok /\ d.permit_token_hash = c.permit_token_hash
    /\ d.decision = "allow"
    /\ c.decision_id = "" \/ d.id \in {"", c.decision_id}

AdmittedBy(w, c) ==
    /\ \/ c.permit_token_hash # "" /\ w.permit_token_hash = c.permit_token_hash
       \/ c.decision_id # "" /\ w.decision_id = c.decision_id
    /\ w.outcome \in {"verified", "mismatch", ""}
    /\ c.decision_id = "" \/ w.decision_id \in {"", c.decision_id}

(***************************************************************************)
(* In a "valid" correlation layer no two records share their identity, and *)
(* each has in this export a decision that allowed it or a permit check    *)
(* that admitted it, for the decision it names, and no other org.          *)
(***************************************************************************)
CorrelationsAreAnchored ==
    correlation = "valid" =>
        \A i \in DOMAIN Corrs :
            /\ \A j \in DOMAIN Corrs :
                 i # j => \/ Corrs[i].decision_id # Corrs[j].decision_id
                          \/ Corrs[i].permit_token_hash # Corrs[j].permit_token_hash
                          \/ Corrs[i].provider_request_id # Corrs[j].provider_request_id
            /\ \/ \E k \in DOMAIN Rows : AllowedBy(Rows[k], Corrs[i])
               \/ \E k \in DOMAIN env.verification_events :
                    AdmittedBy(env.verification_events[k], Corrs[i])
            /\ env.org_id # "" => Corrs[i].organization_id \in {"", env.org_id}

(***************************************************************************)
(* The printed breakdowns are partitions of what was verified: no verified *)
(* record is counted twice, and none of the archive is left out.           *)
(***************************************************************************)
StagesAddUp ==
    /\ stages.permit_resolved = corrVerified
    /\ stages.observed + stages.not_observed <= corrVerified
    /\ archStages.retrieval_succeeded + archStages.retrieval_failed
         = archStages.retrieval_attempted
    /\ archStages.integrity_confirmed + archStages.integrity_failed
         + archStages.integrity_inconclusive = archStages.probe_executed
    /\ archStages.retrieval_attempted + archStages.probe_executed = archVerified

(***************************************************************************)
(* A disclosure is never counted twice: also in a damaged archive section  *)
(* the number of verified disclosures is that of distinct ids.             *)
(***************************************************************************)
DisclosuresCountedOnce ==
    phase = "certification" =>
        archStages.retrieval_attempted <=
            Cardinality({env.retrieval_events[i].id :
                           i \in DOMAIN env.retrieval_events} \ {"", " "})

-----------------------------------------------------------------------------
(* The certified copy and the whole. *)

(***************************************************************************)
(* "[OK] Certified copy" is printed only over a signed envelope whose      *)
(* every declared count is the number of records there, and whose declared *)
(* bundle hash is that of the sections its own version binds.              *)
(***************************************************************************)
CertifiedCopyIsAccurate ==
    phase = "exited" /\ env # Unparseable /\ CertificationMark = "OK" =>
        LET m == env.certification IN
        /\ SignatureHolds
        /\ \A s \in CheckedCounts : m.record_counts[s] = Len(env[s])
        /\ m.bundle_sha256 # Unclaimed =>
             /\ bundleChecked
             /\ m.bundle_sha256 =
                  BundleSha([s \in (CountedSections \cup {"other_sections"})
                               \ (IF m.version <= 5 THEN {"protection_configurations"}
                                                    ELSE {}) |-> env[s]])

(* Every correlation names its decision and its permit check, which agree  *)
(* with it, and no permit or decision is recorded twice.                   *)
Unambiguous ==
    LET E == Rows  V == env.verification_events IN
    /\ \A i, j \in DOMAIN E :
         i # j => E[i].permit_token_hash # E[j].permit_token_hash
    /\ \A i, j \in DOMAIN V : i # j =>
         V[i].permit_token_hash # V[j].permit_token_hash
    /\ \A i, j \in DOMAIN Corrs : i # j => Identity(Corrs[i]) # Identity(Corrs[j])

Genuine ==
    /\ Unambiguous
    /\ \A i \in DOMAIN Rows :
         /\ Rows[i].ledger_ok /\ Rows[i].lite_ok /\ Rows[i].entry_hash # ""
         /\ Rows[i].entry_hash = Sha(Rows[i].canonical_payload)
         /\ i > 1 => Rows[i].prev_hash = Rows[i - 1].entry_hash
    /\ \A i \in DOMAIN Corrs :
         /\ Corrs[i].permit_token_hash # ""
         /\ Corrs[i].organization_id \in {"", env.org_id}
         /\ \E k \in DOMAIN Rows :
              /\ Rows[k].permit_token_hash = Corrs[i].permit_token_hash
              /\ Rows[k].id = Corrs[i].decision_id
              /\ Rows[k].decision = "allow"
              /\ Rows[k].organization_id \in {"", env.org_id}
         /\ \E k \in DOMAIN env.verification_events :
              LET w == env.verification_events[k] IN
              /\ w.permit_token_hash = Corrs[i].permit_token_hash
              /\ w.presented_action_type = Corrs[i].presented_action_type
              /\ w.presented_payload_hash = Corrs[i].presented_payload_hash
    /\ env.retrieval_events = <<>> /\ env.probe_events = <<>>
    /\ env.certification = NoCertification

(***************************************************************************)
(* No false alarm: an envelope whose ledger recomputes and links, and      *)
(* whose correlations agree with their one decision and permit check, has  *)
(* no finding under its signature.                                         *)
(***************************************************************************)
GenuineIsAccepted ==
    phase \in {"exit", "exited"} /\ exit # 2 /\ envelope # "invalid" /\ Genuine =>
        findings = {} /\ (exit = 1 => requireSigs /\ ~keyTrusted)

-----------------------------------------------------------------------------
(* What comments in the code say and the code does not do. *)

(***************************************************************************)
(* main.go: 'A stage is "OK" only when every verified correlation          *)
(* evidences it; otherwise "~~" flags a partial stage'.                    *)
(***************************************************************************)
StageOKMeansEvery ==
    StageLinesPrinted /\ ObservationMark = "OK" => stages.observed = corrVerified

(***************************************************************************)
(* ledger.go: "LayerValid when every row recomputed and linked."           *)
(***************************************************************************)
LedgerValidMeansRecomputed ==
    ledger = "valid" =>
        \A i \in DOMAIN Rows : Rows[i].entry_hash = Sha(Rows[i].canonical_payload)

(***************************************************************************)
(* correlation.go: "Both dec.ID and ver.DecisionID are the canonical       *)
(* decision identity [...]; either disagreeing with the correlation's own  *)
(* declared decision_id is the mismatch."                                  *)
(***************************************************************************)
EitherDecisionMismatchFails ==
    correlation = "valid" =>
        \A i \in DOMAIN Corrs :
            LET c == Corrs[i] IN
            c.decision_id # "" =>
                /\ HasDec(env, c) => Dec(env, c).id \in {"", c.decision_id}
                /\ HasVer(env, c) => Ver(env, c).decision_id \in {"", c.decision_id}
=============================================================================
