----------------------------- MODULE MCEnvelope -----------------------------
(***************************************************************************)
(* Signed envelopes in five families, each varying one layer: the          *)
(* signature and its keys, the ledger, the correlations with the records   *)
(* they refer to, the archive, and the certification manifest.             *)
(***************************************************************************)
EXTENDS EnvelopeContract, SequencesExt

CONSTANTS K1, K2

MCSha(payload) == "sha:" \o payload
MCBundleSha(sections) == sections
MCFold(org) == IF org = "ORG-A" THEN "org-a" ELSE org

SeqsOf(S, n) == UNION {[1..k -> S] : k \in 0..n}

Sign(v, k) == [v EXCEPT !.signature = [key |-> k, over |-> SignedBytes(v)]]

Empty ==
    [ version |-> 1, org_id |-> "org-a", key_id |-> "k1",
      public_key_pem |-> K1, signature |-> Unsigned, canonical |-> TRUE,
      evaluations |-> <<>>, verification_events |-> <<>>,
      correlation_events |-> <<>>, retrieval_events |-> <<>>,
      probe_events |-> <<>>, protection_configurations |-> <<>>,
      other_sections |-> "o", certification |-> NoCertification ]

-----------------------------------------------------------------------------
(* Ledger rows: a chain of three inside a window, and damaged ones. *)

Eval(id, permit, payload, prev) ==
    [ ledger_ok |-> TRUE, lite_ok |-> TRUE, id |-> id, prev_hash |-> prev,
      entry_hash |-> MCSha(payload), canonical_payload |-> payload,
      decision |-> "allow", permit_token_hash |-> permit,
      organization_id |-> "" ]

E1 == Eval("d1", "p1", "c1", "sha:c0")
E2 == Eval("d2", "p2", "c2", E1.entry_hash)
E3 == Eval("d3", "p3", "c3", E2.entry_hash)

LedgerRows ==
    { E1, E2, E3,
      [E3 EXCEPT !.prev_hash = E1.entry_hash],
      [E2 EXCEPT !.canonical_payload = "c9"],
      [E2 EXCEPT !.canonical_payload = ""],
      [E2 EXCEPT !.entry_hash = ""],
      [E3 EXCEPT !.prev_hash = ""],
      [E2 EXCEPT !.ledger_ok = FALSE, !.lite_ok = FALSE] }

LedgerFamily ==
    {[Empty EXCEPT !.evaluations = rows] : rows \in SeqsOf(LedgerRows, 3)}

-----------------------------------------------------------------------------
(* Correlations. *)

Check(id, permit) ==
    [ decision_id |-> id, permit_token_hash |-> permit,
      presented_action_type |-> "deploy", presented_payload_hash |-> "x",
      outcome |-> "verified", organization_id |-> "" ]

V1 == Check("d1", "p1")

Checks ==
    { <<>>, <<V1>>, <<V1, Check("d2", "p2")>>,
      <<Check("d2", "p1")>>, <<Check("d1", "p1"), Check("d1", "")>>,
      <<[V1 EXCEPT !.outcome = "expired"]>>,
      <<[V1 EXCEPT !.outcome = "mismatch", !.presented_payload_hash = ""]>>,
      <<[V1 EXCEPT !.organization_id = "org-b", !.presented_action_type = "drop"]>> }

Evaluations ==
    { <<>>, <<E1>>, <<E1, E2>>,
      <<E1, [E2 EXCEPT !.permit_token_hash = "p1"]>>,
      <<[E1 EXCEPT !.decision = "deny"]>>,
      <<[E1 EXCEPT !.organization_id = "org-b"]>>,
      <<[E1 EXCEPT !.lite_ok = FALSE]>> }

C1 == [ decision_id |-> "d1", permit_token_hash |-> "p1",
        provider_request_id |-> "r1", presented_action_type |-> "deploy",
        presented_payload_hash |-> "x", correlation_status |-> "MATCH",
        verdict |-> "high", organization_id |-> "" ]

Correlations ==
    { C1,
      [C1 EXCEPT !.verdict = "low"],
      [C1 EXCEPT !.provider_request_id = "r2", !.correlation_status = "NOT_OBSERVED",
                 !.organization_id = "org-a"],
      [C1 EXCEPT !.provider_request_id = "r3", !.organization_id = "org-b"],
      [C1 EXCEPT !.decision_id = "", !.presented_payload_hash = "y"],
      [C1 EXCEPT !.permit_token_hash = "", !.correlation_status = "PENDING"],
      [C1 EXCEPT !.permit_token_hash = "", !.decision_id = ""],
      [C1 EXCEPT !.decision_id = "d2", !.permit_token_hash = "p2"],
      [C1 EXCEPT !.decision_id = "d2"] }

CorrelationFamily ==
    {[Empty EXCEPT !.evaluations = es, !.verification_events = vs,
                   !.correlation_events = cs] :
       es \in Evaluations, vs \in Checks, cs \in SeqsOf(Correlations, 2)}

-----------------------------------------------------------------------------
(* Archive. *)

R1 == [ id |-> "a1", complete |-> TRUE, retrieval_status |-> "retrieved",
        organization_id |-> "org-a", returned_sha256 |-> "x",
        explained |-> FALSE, decision_id |-> "", retention |-> FALSE ]

Retrievals ==
    { R1,
      [R1 EXCEPT !.id = "a2", !.retrieval_status = "denied",
                 !.returned_sha256 = "", !.explained = TRUE, !.retention = TRUE],
      [R1 EXCEPT !.decision_id = "d1", !.organization_id = ""],
      [R1 EXCEPT !.id = "a3", !.retrieval_status = "sealed",
                 !.organization_id = "ORG-A"],
      [R1 EXCEPT !.id = "a2", !.retrieval_status = "denied",
                 !.organization_id = "org-b"],
      [R1 EXCEPT !.id = " ", !.returned_sha256 = " "] }

P1 == [ id |-> "b1", complete |-> TRUE, probe_status |-> "verified",
        organization_id |-> "org-a", returned_sha256 |-> "x",
        denied_integrity |-> FALSE, retention |-> FALSE ]

Probes ==
    { <<>>, <<P1>>, <<P1, [P1 EXCEPT !.probe_status = "unreadable"]>>,
      <<[P1 EXCEPT !.probe_status = "inconclusive", !.organization_id = ""]>>,
      <<[P1 EXCEPT !.probe_status = "unreadable"],
        [P1 EXCEPT !.id = "b2", !.retention = TRUE]>>,
      <<[P1 EXCEPT !.denied_integrity = TRUE]>>,
      <<[P1 EXCEPT !.probe_status = "", !.complete = FALSE]>> }

ArchiveFamily ==
    {[Empty EXCEPT !.evaluations = es, !.retrieval_events = rs,
                   !.probe_events = ps] :
       es \in {<<>>, <<E1>>, <<E2>>}, rs \in SeqsOf(Retrievals, 3), ps \in Probes}

-----------------------------------------------------------------------------
(* Certification manifests over a small bundle, right and wrong. *)

Bundle(v, version) == [s \in BundleSections(version) |-> v[s]]

Content == [Empty EXCEPT !.evaluations = <<E1>>, !.retrieval_events = <<R1>>]
Contents == {Content, [Content EXCEPT !.protection_configurations = <<"m">>]}
Edited(v) == [v EXCEPT !.evaluations = <<E2>>]

Counts(v) == [s \in CountedSections |-> Len(v[s])]
CountClaims(v) ==
    { Counts(v), [s \in CountedSections |-> Unclaimed],
      [Counts(v) EXCEPT !["evaluations"] = 2],
      [Counts(v) EXCEPT !["probe_events"] = Unclaimed, !["retrieval_events"] = 0] }

CertificationFamily ==
    UNION {{[v EXCEPT !.certification =
               [version |-> n, record_counts |-> counts, bundle_sha256 |-> hash]] :
              n \in {0, 5, 6, 7}, counts \in CountClaims(v),
              hash \in {Bundle(v, 5), Bundle(v, 6), Bundle(Edited(v), 6), Unclaimed}} :
           v \in Contents}

-----------------------------------------------------------------------------
(* Signatures. *)

Unsealed ==
    {[Content EXCEPT !.version = n, !.key_id = id, !.public_key_pem = pem,
                     !.canonical = canonical] :
       n \in {1, 2}, id \in {"k1", "k2", ""}, pem \in {K1, K2, NoPem},
       canonical \in BOOLEAN}

(* Signed by either key, altered after it was signed, or not signed. *)
SignatureFamily ==
    UNION {{Sign(v, K1), Sign(v, K2),
            [Sign(v, K1) EXCEPT !.evaluations = <<E2>>],
            v, [v EXCEPT !.signature = BadSignature]} : v \in Unsealed}

MCEnvelopes ==
    {Unparseable} \cup SignatureFamily \cup
    {Sign(v, K1) : v \in LedgerFamily \cup CorrelationFamily \cup ArchiveFamily
                         \cup CertificationFamily}

MCText ==
    {"", "d1", "d2", "d3", "p1", "p2", "p3", "c1", "c2", "c3", "c9",
     "sha:c0", "sha:c1", "sha:c2", "sha:c3", "allow", "deny", "org-a", "org-b"}
MCKeyStores == {NoKeys, [k \in {"k1"} |-> K1]}
=============================================================================
