--------------------------- MODULE EnvelopeReport ---------------------------
(***************************************************************************)
(* The lines printEnvelopeHuman derives from more than one field of the    *)
(* result (cmd/atlasent-audit-verify/main.go).  The layer lines print one  *)
(* field each and are not modelled.                                        *)
(***************************************************************************)
EXTENDS EnvelopeVerify

(* The lifecycle lines are printed for a verified correlation layer only. *)
StageLinesPrinted == correlation = "valid" /\ corrVerified > 0

(* The marker of the Observation line: "OK" or "~~". *)
ObservationMark ==
    IF IF stages.not_observed > 0 THEN stages.observed > 0
                                  ELSE stages.observed = corrVerified
      THEN "OK" ELSE "~~"

HasCertificationFinding ==
    \E f \in findings : f.code \in {"CERTIFICATION_COUNT_MISMATCH",
                                    "CERTIFICATION_BUNDLE_HASH_MISMATCH"}

(* The "Certified copy" line, none without a manifest. *)
CertificationMark ==
    IF ~Certified \/ env.certification.version <= 0  THEN "none"
    ELSE IF envelope = "invalid"                     THEN "FAIL"
    ELSE IF HasCertificationFinding                  THEN "FAIL"
    ELSE "OK"

(* What certificationSummaryDetail names as checked on an "OK" line. *)
CheckedCounts ==
    {s \in CountedSections : env.certification.record_counts[s] # Unclaimed}
=============================================================================
