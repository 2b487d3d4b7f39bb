------------------------------- MODULE Archive -------------------------------
(***************************************************************************)
(* validateArchiveEvents (internal/envelope/archive.go): are the governed  *)
(* disclosures and the integrity-probe verdicts of a signed envelope       *)
(* coherent.  Every check of a record is made, so a record may have        *)
(* several findings.                                                       *)
(***************************************************************************)
EXTENDS EnvelopeData

(* Mutation: only the record just before is looked at. *)
RepeatedNext(rows, i) ==
    rows[i].id # "" /\ i > 1 /\ rows[i - 1].id = rows[i].id

(* An earlier record of the section, good or bad, has the same id. *)
Repeated(rows, i) ==
    rows[i].id # "" /\ \E j \in 1..(i - 1) : rows[j].id = rows[i].id

ForeignOrg(v, r) ==
    r.organization_id # "" /\ Fold(r.organization_id) # Fold(v.org_id)

(* Ids of the evaluations the envelope carries. *)
DecisionIds(v) ==
    {v.evaluations[i].id :
       i \in {k \in DOMAIN v.evaluations : v.evaluations[k].lite_ok}} \ {""}

(* Mutation: a status outside the vocabulary is let through. *)
OutcomeTolerated(status, known) == FALSE

OutcomeUnknown(status, known) == status \notin known \cup {""}

(* The failures both kinds of record share; known is the vocabulary. *)
CommonFailures(v, rows, i, status, known) ==
    {code \in {"ARCHIVE_REFERENCE_MISSING", "ARCHIVE_DUPLICATE",
               "ARCHIVE_ORG_MISMATCH", "ARCHIVE_OUTCOME_UNKNOWN"} :
        \/ /\ code = "ARCHIVE_REFERENCE_MISSING"
           /\ \/ BlankText(rows[i].id)
              \/ BlankText(status)
              \/ ~rows[i].complete
        \/ code = "ARCHIVE_DUPLICATE" /\ Repeated(rows, i)
        \/ code = "ARCHIVE_ORG_MISMATCH" /\ ForeignOrg(v, rows[i])
        \/ code = "ARCHIVE_OUTCOME_UNKNOWN" /\ OutcomeUnknown(status, known)}

(* A record that contradicts itself. *)
RetrievalConflict(r) ==
    \/ r.retrieval_status = "retrieved" /\ BlankText(r.returned_sha256)
    \/ r.retrieval_status = "denied" /\ (~BlankText(r.returned_sha256) \/ ~r.explained)

ProbeConflict(p) ==
    p.probe_status = "verified" /\ (BlankText(p.returned_sha256) \/ p.denied_integrity)

(* Reported only when the bundle has evaluations at all. *)
DecisionOutsideExport(v, r) ==
    r.decision_id # "" /\ DecisionIds(v) # {} /\ r.decision_id \notin DecisionIds(v)

ProbeStatuses == {"verified", "mismatch", "unreadable", "inconclusive"}

RetrievalFailures(v, i) ==
    LET r == v.retrieval_events[i] IN
    CommonFailures(v, v.retrieval_events, i, r.retrieval_status,
                   {"retrieved", "denied"})
    \cup (IF RetrievalConflict(r) THEN {"ARCHIVE_CONFLICT"} ELSE {})
    \cup (IF DecisionOutsideExport(v, r)
            THEN {"ARCHIVE_REFERENCE_OUTSIDE_EXPORT"} ELSE {})

ProbeFailures(v, i) ==
    LET p == v.probe_events[i] IN
    CommonFailures(v, v.probe_events, i, p.probe_status, ProbeStatuses)
    \cup (IF ProbeConflict(p) THEN {"ARCHIVE_CONFLICT"} ELSE {})

RetrievalFindings(v, i) ==
    {Finding(code, "retrieval_events", i) : code \in RetrievalFailures(v, i)}
ProbeFindings(v, i) ==
    {Finding(code, "probe_events", i) : code \in ProbeFailures(v, i)}

ArchiveFindings(v) ==
    (UNION {RetrievalFindings(v, i) : i \in DOMAIN v.retrieval_events})
    \cup (UNION {ProbeFindings(v, i) : i \in DOMAIN v.probe_events})

GoodRetrievals(v) ==
    {i \in DOMAIN v.retrieval_events : RetrievalFailures(v, i) = {}}
GoodProbes(v) == {i \in DOMAIN v.probe_events : ProbeFailures(v, i) = {}}

(* ArchiveStages. *)
RetrievalsAs(v, s) ==
    Cardinality({i \in GoodRetrievals(v) :
                   v.retrieval_events[i].retrieval_status = s})
ProbesIn(v, S) ==
    Cardinality({i \in GoodProbes(v) : v.probe_events[i].probe_status \in S})

ArchiveStages(v) ==
    [ retrieval_attempted    |-> Cardinality(GoodRetrievals(v)),
      retrieval_succeeded    |-> RetrievalsAs(v, "retrieved"),
      retrieval_failed       |-> RetrievalsAs(v, "denied"),
      probe_executed         |-> Cardinality(GoodProbes(v)),
      integrity_confirmed    |-> ProbesIn(v, {"verified"}),
      integrity_failed       |-> ProbesIn(v, {"mismatch", "unreadable"}),
      integrity_inconclusive |-> ProbesIn(v, {"inconclusive"}) ]

(* Records with provider-confirmed retention metadata, among the good ones. *)
RetentionRecords(v) ==
    Cardinality({i \in GoodRetrievals(v) : v.retrieval_events[i].retention})
    + Cardinality({i \in GoodProbes(v) : v.probe_events[i].retention})

(* "checked" only when every record of both sections carries its org. *)
ArchiveOrgBinding(v) ==
    LET orgs == {v.retrieval_events[i].organization_id :
                   i \in DOMAIN v.retrieval_events}
                \cup {v.probe_events[i].organization_id :
                        i \in DOMAIN v.probe_events}
    IN  IF "" \in orgs THEN "not_present_in_export" ELSE "checked"
=============================================================================
