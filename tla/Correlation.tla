----------------------------- MODULE Correlation -----------------------------
(***************************************************************************)
(* validateCorrelations (internal/envelope/correlation.go): does every     *)
(* correlation record of a signed envelope fit the other records in it.    *)
(* A record stops at its first failing check; records that share their     *)
(* identity fail together.                                                 *)
(***************************************************************************)
EXTENDS EnvelopeData

LastIn(S) == CHOOSE i \in S : \A j \in S : j <= i

(* Entries of decByPermit, verByPermit and verByDecision under the keys of *)
(* c; of several rows with one key the last is the one that is kept.       *)
DecisionRows(v, c) ==
    {i \in DOMAIN v.evaluations :
        /\ v.evaluations[i].lite_ok
        /\ c.permit_token_hash # ""
        /\ v.evaluations[i].permit_token_hash = c.permit_token_hash}

VerificationRows(v, c) ==
    LET at(field) == {i \in DOMAIN v.verification_events :
                        /\ c[field] # ""
                        /\ v.verification_events[i][field] = c[field]}
    IN  IF at("permit_token_hash") # {} THEN at("permit_token_hash")
        ELSE at("decision_id")

HasDec(v, c) == DecisionRows(v, c) # {}
HasVer(v, c) == VerificationRows(v, c) # {}
Dec(v, c) == v.evaluations[LastIn(DecisionRows(v, c))]
Ver(v, c) == v.verification_events[LastIn(VerificationRows(v, c))]

-----------------------------------------------------------------------------
(* The checks, in the order of the code. *)

ReferenceMissing(c) == c.decision_id = "" /\ c.permit_token_hash = ""

OutsideExport(v, c) == ~HasDec(v, c) /\ ~HasVer(v, c)

DecisionMismatch(v, c) ==
    /\ c.decision_id # ""
    /\ IF HasDec(v, c) THEN Dec(v, c).id \notin {"", c.decision_id}
       ELSE Ver(v, c).decision_id \notin {"", c.decision_id}

(* Mutation: outcomes that refuse are listed instead, one of them forgotten. *)
AdmitsUnlessRefused(outcome) ==
    outcome \notin {"revoked", "invalid", "replay_blocked"}

VerificationOutcomeAdmitsExecution(outcome) ==
    outcome \in {"verified", "mismatch", ""}

LifecycleInvalid(v, c) ==
    IF HasDec(v, c) THEN Dec(v, c).decision # "allow"
    ELSE ~VerificationOutcomeAdmitsExecution(Ver(v, c).outcome)

BindingAgrees(a, b) == a = "" \/ b = "" \/ a = b

ActionMismatch(v, c) ==
    HasVer(v, c) /\ ~BindingAgrees(c.presented_action_type,
                                   Ver(v, c).presented_action_type)

TargetMismatch(v, c) ==
    HasVer(v, c) /\ ~BindingAgrees(c.presented_payload_hash,
                                   Ver(v, c).presented_payload_hash)

AnchorOrg(v, c) ==
    IF HasDec(v, c) THEN Dec(v, c).organization_id
    ELSE Ver(v, c).organization_id

OrgMismatch(v, c) ==
    \/ ~BindingAgrees(c.organization_id, v.org_id)
    \/ ~BindingAgrees(AnchorOrg(v, c), v.org_id)

(* The failure of one record on its own, if any. *)
RecordFailure(v, c) ==
    IF ReferenceMissing(c)          THEN {"CORRELATION_REFERENCE_MISSING"}
    ELSE IF OutsideExport(v, c)     THEN {"CORRELATION_REFERENCE_OUTSIDE_EXPORT"}
    ELSE IF DecisionMismatch(v, c)  THEN {"CORRELATION_DECISION_MISMATCH"}
    ELSE IF LifecycleInvalid(v, c)  THEN {"CORRELATION_LIFECYCLE_INVALID"}
    ELSE IF ActionMismatch(v, c)    THEN {"CORRELATION_ACTION_MISMATCH"}
    ELSE IF TargetMismatch(v, c)    THEN {"CORRELATION_TARGET_MISMATCH"}
    ELSE IF OrgMismatch(v, c)       THEN {"CORRELATION_ORG_MISMATCH"}
    ELSE {}

(* Some record reached the org check with two values to compare. *)
OrgCheckable(v) ==
    \E i \in DOMAIN v.correlation_events :
        LET c == v.correlation_events[i] IN
        /\ RecordFailure(v, c) \subseteq {"CORRELATION_ORG_MISMATCH"}
        /\ v.org_id # ""
        /\ c.organization_id # "" \/ AnchorOrg(v, c) # ""

-----------------------------------------------------------------------------
(* Duplicates and conflicts. *)

Identity(c) == <<c.decision_id, c.permit_token_hash, c.provider_request_id>>

MaterialKey(c) ==
    <<c.correlation_status, c.verdict, c.presented_payload_hash>>

(* Records that share the identity of record i, itself included. *)
Group(v, i) ==
    {j \in DOMAIN v.correlation_events :
        Identity(v.correlation_events[j]) = Identity(v.correlation_events[i])}

GroupCode(v, i) ==
    IF \A j \in Group(v, i) :
         MaterialKey(v.correlation_events[j]) = MaterialKey(v.correlation_events[i])
      THEN "CORRELATION_DUPLICATE" ELSE "CORRELATION_CONFLICT"

(* Mutation: a duplicate or conflict is reported but fails no record. *)
FailedAlone(v) ==
    {i \in DOMAIN v.correlation_events :
        RecordFailure(v, v.correlation_events[i]) # {}}

Failed(v) ==
    {i \in DOMAIN v.correlation_events :
        \/ RecordFailure(v, v.correlation_events[i]) # {}
        \/ Group(v, i) # {i}}

(* The finding of a record's own failure. *)
RecordFindings(v, i) ==
    {Finding(code, "correlation_events", i) :
       code \in RecordFailure(v, v.correlation_events[i])}

(* The first records of the groups of more than one. *)
GroupHeads(v) ==
    {i \in DOMAIN v.correlation_events :
        Group(v, i) # {i} /\ \A j \in Group(v, i) : i <= j}

CorrelationFindings(v) ==
    (UNION {RecordFindings(v, i) : i \in DOMAIN v.correlation_events})
    \cup {Finding(GroupCode(v, i), "correlation_events", i) : i \in GroupHeads(v)}

VerifiedCorrelations(v) == DOMAIN v.correlation_events \ Failed(v)

(* CorrelationStages: permit_resolved, observed, not_observed. *)
WithStatus(v, S) ==
    Cardinality({i \in VerifiedCorrelations(v) :
                   v.correlation_events[i].correlation_status \in S})

CorrelationStages(v) ==
    [ permit_resolved |-> Cardinality(VerifiedCorrelations(v)),
      observed        |-> WithStatus(v, {"MATCH", "MISMATCH"}),
      not_observed    |-> WithStatus(v, {"NOT_OBSERVED"}) ]
=============================================================================
