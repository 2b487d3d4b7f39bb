--------------------------- MODULE EnvelopeVerify ---------------------------
(***************************************************************************)
(* A run of the CLI on a signed envelope: envelope.Verify                  *)
(* (internal/envelope/verify.go), its layers in the order of the code, and *)
(* the exit policy of runEnvelope (cmd/atlasent-audit-verify/main.go).     *)
(***************************************************************************)
EXTENDS LedgerLayer, Correlation, Archive

CONSTANTS
    Envelopes,      \* the inputs; Unparseable when JSON decoding fails
    Unparseable,
    KeyStores       \* the keystores --keys may supply, NoKeys for none

(* A section that is not there decodes as an empty list. *)
ASSUME SectionsAssumption ==
    \A v \in Envelopes \ {Unparseable}, s \in CountedSections :
        Len(v[s]) \in Nat /\ DOMAIN v[s] = 1..Len(v[s])

ASSUME VersionAssumption ==
    \A v \in Envelopes \ {Unparseable} :
        v.certification # NoCertification => v.certification.version \in Int

(* ledger_ok and lite_ok tell the rows that do not decode. *)
ASSUME RowsAssumption ==
    \A v \in Envelopes \ {Unparseable} : v.evaluations \in Seq(EvaluationRow)

VARIABLES
    keys,           \* the keystore
    requireSigs,    \* --require-signatures
    envelope,       \* res.EnvelopeIntegrity
    keyTrusted,     \* res.KeyTrusted
    correlation,    \* res.CorrelationIntegrity
    corrVerified,   \* res.CorrelationRecordsVerified
    stages,         \* res.Stages
    orgBinding,     \* res.OrgBinding
    archive,        \* res.ArchiveIntegrity
    archVerified,   \* res.ArchiveRecordsVerified
    archStages,     \* res.ArchiveStages
    archBinding,    \* res.ArchiveOrgBinding
    retention,      \* res.RetentionAssurance
    bundleChecked,  \* res.CertificationBundleHashChecked
    exit            \* the process exit code, 3 while running

corrVars == <<correlation, corrVerified, stages, orgBinding>>
archVars == <<archive, archVerified, archStages, archBinding, retention>>
inputVars == <<env, keys, requireSigs>>
vars == <<inputVars, phase, findings, envelope, keyTrusted, ledgerVars,
          corrVars, archVars, bundleChecked, exit>>

SupportedEnvelopeVersion == 1
SupportedCertificationVersion == 6

NoStages == [permit_resolved |-> 0, observed |-> 0, not_observed |-> 0]

NoArchiveStages ==
    [ retrieval_attempted    |-> 0,
      retrieval_succeeded    |-> 0,
      retrieval_failed       |-> 0,
      probe_executed         |-> 0,
      integrity_confirmed    |-> 0,
      integrity_failed       |-> 0,
      integrity_inconclusive |-> 0 ]

(* main refuses --require-signatures without --keys before it gets here. *)
Init ==
    /\ env \in Envelopes
    /\ keys \in KeyStores
    /\ requireSigs \in BOOLEAN /\ (requireSigs => keys # NoKeys)
    /\ phase = "parse"
    /\ findings = {}
    /\ envelope = "absent" /\ keyTrusted = FALSE
    /\ LedgerInit
    /\ correlation = "absent" /\ corrVerified = 0
    /\ stages = NoStages /\ orgBinding = "not_applicable"
    /\ archive = "absent" /\ archVerified = 0
    /\ archStages = NoArchiveStages /\ archBinding = "not_applicable"
    /\ retention = "not_applicable"
    /\ bundleChecked = FALSE
    /\ exit = 3

-----------------------------------------------------------------------------
(* Shape and outer signature: a failure ends the verification. *)

FailParse ==
    /\ phase = "parse"
    /\ env = Unparseable
    /\ phase' = "exited" /\ exit' = 2
    /\ UNCHANGED <<inputVars, findings, envelope, keyTrusted, ledgerVars,
                   corrVars, archVars, bundleChecked>>

RejectEnvelope(code) ==
    /\ envelope' = "invalid"
    /\ findings' = findings \cup {Finding(code, "", 0)}
    /\ phase' = "exit"
    /\ UNCHANGED <<inputVars, keyTrusted, ledgerVars, corrVars, archVars,
                   bundleChecked, exit>>

SupportedShape == env # Unparseable /\ env.version = SupportedEnvelopeVersion

ReadableCertification ==
    env.certification # NoCertification =>
        env.certification.version <= SupportedCertificationVersion

RejectVersion ==
    /\ phase = "parse"
    /\ env # Unparseable /\ ~SupportedShape
    /\ RejectEnvelope("UNSUPPORTED_ENVELOPE_VERSION")

RejectCertificationVersion ==
    /\ phase = "parse"
    /\ SupportedShape /\ ~ReadableCertification
    /\ RejectEnvelope("UNSUPPORTED_CERTIFICATION_VERSION")

(* A signature of 64 bytes over an object that can be canonicalized. *)
SignatureUsable ==
    env.signature \notin {Unsigned, BadSignature} /\ env.canonical

(* Mutation: the embedded key is asked first. *)
TrustedKeyIfNotEmbedded ==
    /\ keys # NoKeys /\ env.key_id # "" /\ env.key_id \in DOMAIN keys
    /\ env.public_key_pem = NoPem

(* key_id resolves in --keys: only that key may verify the signature. *)
TrustedKey == keys # NoKeys /\ env.key_id # "" /\ env.key_id \in DOMAIN keys

SignatureHolds ==
    /\ SignatureUsable
    /\ IF TrustedKey THEN Ed25519Verify(keys[env.key_id], env)
       ELSE /\ env.public_key_pem # NoPem
            /\ Ed25519Verify(env.public_key_pem, env)

RejectSignature ==
    /\ phase = "parse"
    /\ SupportedShape /\ ReadableCertification
    /\ ~SignatureHolds
    /\ RejectEnvelope("ENVELOPE_SIGNATURE_INVALID")

AcceptSignature ==
    /\ phase = "parse"
    /\ SupportedShape /\ ReadableCertification
    /\ SignatureHolds
    /\ envelope' = IF TrustedKey THEN "valid" ELSE "untrusted"
    /\ keyTrusted' = TrustedKey
    /\ phase' = "ledger"
    /\ UNCHANGED <<inputVars, findings, ledgerVars, corrVars, archVars,
                   bundleChecked, exit>>

-----------------------------------------------------------------------------
(* The layers under the signature. *)

CheckLedger ==
    /\ LedgerNext
    /\ UNCHANGED <<keys, requireSigs, envelope, keyTrusted, corrVars,
                   archVars, bundleChecked, exit>>

ValidateCorrelations ==
    /\ phase = "correlation"
    /\ IF env.correlation_events = <<>>
         THEN UNCHANGED <<findings, corrVars>>
         ELSE /\ findings' = findings \cup CorrelationFindings(env)
              /\ corrVerified' = Cardinality(VerifiedCorrelations(env))
              /\ correlation' = IF Failed(env) = {} THEN "valid" ELSE "invalid"
              /\ stages' = CorrelationStages(env)
              /\ orgBinding' = IF OrgCheckable(env) THEN "checked"
                                                    ELSE "not_present_in_export"
    /\ phase' = "archive"
    /\ UNCHANGED <<inputVars, envelope, keyTrusted, ledgerVars, archVars,
                   bundleChecked, exit>>

ArchiveTotal == Len(env.retrieval_events) + Len(env.probe_events)

ValidateArchive ==
    /\ phase = "archive"
    /\ LET good == Cardinality(GoodRetrievals(env)) + Cardinality(GoodProbes(env))
       IN  IF ArchiveTotal = 0
             THEN UNCHANGED <<findings, archVars>>
             ELSE /\ findings' = findings \cup ArchiveFindings(env)
                  /\ archVerified' = good
                  /\ archive' = IF good = ArchiveTotal THEN "valid" ELSE "invalid"
                  /\ archStages' = ArchiveStages(env)
                  /\ archBinding' = ArchiveOrgBinding(env)
                  /\ retention' = IF RetentionRecords(env) > 0
                                    THEN "recorded_not_verified_offline"
                                    ELSE "not_recorded"
    /\ phase' = "certification"
    /\ UNCHANGED <<inputVars, envelope, keyTrusted, ledgerVars, corrVars,
                   bundleChecked, exit>>

Certified == env.certification # NoCertification

(* Sections whose claimed number of records is not the number there. *)
MiscountedSections ==
    {s \in CountedSections :
       env.certification.record_counts[s] \notin {Unclaimed, Len(env[s])}}

HasBundleHash == Certified /\ env.certification.bundle_sha256 # Unclaimed

(* Mutation: the shape hashed is that of this build, not of the manifest. *)
BundleMatchesNewest ==
    env.certification.bundle_sha256 =
        BundleSha([s \in BundleSections(SupportedCertificationVersion) |-> env[s]])

(* The sections hashed are those of the manifest's own version. *)
BundleMatches ==
    env.certification.bundle_sha256 =
        BundleSha([s \in BundleSections(env.certification.version) |-> env[s]])

CheckCertification ==
    /\ phase = "certification"
    /\ findings' = findings
         \cup (IF Certified
                 THEN {Finding("CERTIFICATION_COUNT_MISMATCH", s, 0) :
                         s \in MiscountedSections}
                 ELSE {})
         \cup (IF HasBundleHash /\ ~BundleMatches
                 THEN {Finding("CERTIFICATION_BUNDLE_HASH_MISMATCH", "", 0)}
                 ELSE {})
    /\ bundleChecked' = HasBundleHash
    /\ phase' = "exit"
    /\ UNCHANGED <<inputVars, envelope, keyTrusted, ledgerVars, corrVars,
                   archVars, exit>>

-----------------------------------------------------------------------------
(* The exit policy. *)

OK ==
    /\ findings = {}
    /\ "invalid" \notin {envelope, ledger, correlation, archive}

StrictOK == OK /\ envelope # "untrusted" /\ keyTrusted

Accepted == IF requireSigs THEN StrictOK ELSE OK

ExitEnvelope ==
    /\ phase = "exit"
    /\ exit' = IF Accepted THEN 0 ELSE 1
    /\ phase' = "exited"
    /\ UNCHANGED <<inputVars, findings, envelope, keyTrusted, ledgerVars,
                   corrVars, archVars, bundleChecked>>

Next ==
    \/ FailParse
    \/ RejectVersion
    \/ RejectCertificationVersion
    \/ RejectSignature
    \/ AcceptSignature
    \/ CheckLedger
    \/ ValidateCorrelations
    \/ ValidateArchive
    \/ CheckCertification
    \/ ExitEnvelope

Spec == Init /\ [][Next]_vars
=============================================================================
