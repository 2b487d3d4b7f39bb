------------------------------ MODULE Reconcile ------------------------------
(***************************************************************************)
(* --reconcile-with: runEnvelopeReconcile                                  *)
(* (cmd/atlasent-audit-verify/main.go) and Reconcile                       *)
(* (internal/reconcile/reconcile.go).  Two signed envelopes are verified   *)
(* on their own, then their permit-verification records are compared,      *)
(* shared permit by shared permit.                                         *)
(*                                                                         *)
(* What envelope.Verify made of an export is its verdict: "error", "failed"*)
(* (not OK), "ok" (OK), "trusted" (StrictOK too).  A permit_token_hash is  *)
(* a number, 0 when it is blank, in the sort order of the hashes; a time   *)
(* is in milliseconds, Unusable when it does not parse.                    *)
(***************************************************************************)
EXTENDS Integers, Sequences, FiniteSets

CONSTANTS
    ExportsA, ExportsB,   \* the two inputs
    NotAnEnvelope,        \* the second file cannot be opened, or is no envelope
    NoScope,              \* reconciliation_scope missing
    Unusable,
    ClockUncertaintyTolerance

ASSUME ToleranceAssumption == ClockUncertaintyTolerance \in Nat

(* One permit-verification record, as json.Unmarshal leaves it. *)
PermitRow ==
    [ permit : Nat, outcome : STRING, verified_at : Int \cup {Unusable},
      revoked_at : Int \cup {Unusable} ]

Exports == ExportsA \cup (ExportsB \ {NotAnEnvelope})

ASSUME ExportsAssumption ==
    (\A v \in Exports : v.rows \in Seq(PermitRow)) /\ Unusable \notin Int

VARIABLES
    a, b,          \* the exports
    requireSigs,   \* --require-signatures
    phase,         \* "load", "scope", "compare", "done", "exited"
    todo,          \* shared permits not yet compared
    overlap,       \* res.OverlappingPermitTokenHashes
    echo,          \* res.OrgID and res.DeploymentID are set
    findings,      \* res.Findings: code, permit, export that revoked
    integrity,     \* res.ReconciliationIntegrity
    exit           \* the process exit code, 3 while running

inputs == <<a, b, requireSigs>>
vars == <<inputs, phase, todo, overlap, echo, findings, integrity, exit>>

Init ==
    /\ a \in ExportsA /\ b \in ExportsB
    /\ requireSigs \in BOOLEAN
    /\ phase = "load"
    /\ todo = {} /\ overlap = 0 /\ echo = FALSE
    /\ findings = {} /\ integrity = "absent"
    /\ exit = 3

Finding(code, permit, side) == [code |-> code, permit |-> permit, side |-> side]

-----------------------------------------------------------------------------
(* Both envelopes are verified before anything is compared. *)

BothEnvelopes ==
    a.verdict # "error" /\ b # NotAnEnvelope /\ b.verdict # "error"

FailInput ==
    /\ phase = "load" /\ ~BothEnvelopes
    /\ phase' = "exited" /\ exit' = 2
    /\ UNCHANGED <<inputs, todo, overlap, echo, findings, integrity>>

VerifyBoth ==
    /\ phase = "load" /\ BothEnvelopes
    /\ phase' = "scope"
    /\ UNCHANGED <<inputs, todo, overlap, echo, findings, integrity, exit>>

Blank(s) == s \in {"", " "}

(* Mutation: an export without a scope is compared anyway. *)
SameScopeIfDeclared ==
    /\ a.org_id = b.org_id /\ ~Blank(a.org_id)
    /\ NoScope \in {a.deployment, b.deployment} \/ a.deployment = b.deployment

SameScope ==
    /\ NoScope \notin {a.deployment, b.deployment}
    /\ ~Blank(a.org_id) /\ ~Blank(b.org_id) /\ a.org_id = b.org_id
    /\ ~Blank(a.deployment) /\ ~Blank(b.deployment)
    /\ a.deployment = b.deployment

RefuseScope ==
    /\ phase = "scope" /\ ~SameScope
    /\ integrity' = "refused"
    /\ findings' = {Finding("RECONCILIATION_SCOPE_MISMATCH", 0, "")}
    /\ phase' = "done"
    /\ UNCHANGED <<inputs, todo, overlap, echo, exit>>

-----------------------------------------------------------------------------
(* indexByPermit and overlappingHashes. *)

RowsOf(v, permit) == {i \in DOMAIN v.rows : v.rows[i].permit = permit}

(* Mutation: records without a permit_token_hash are grouped together. *)
PermitsWithBlank(v) == {v.rows[i].permit : i \in DOMAIN v.rows}

Permits(v) == {v.rows[i].permit : i \in DOMAIN v.rows} \ {0}
Overlap == Permits(a) \cap Permits(b)

IndexPermits ==
    /\ phase = "scope" /\ SameScope
    /\ echo' = TRUE
    /\ todo' = Overlap
    /\ overlap' = Cardinality(Overlap)
    /\ phase' = "compare"
    /\ UNCHANGED <<inputs, findings, integrity, exit>>

-----------------------------------------------------------------------------
(* The checks of one shared permit. *)

WithOutcome(v, permit, outcome) ==
    {i \in RowsOf(v, permit) : v.rows[i].outcome = outcome}

(* checkDuplicateConsumption *)
DuplicateConsumption(permit) ==
    IF WithOutcome(a, permit, "verified") # {} /\ WithOutcome(b, permit, "verified") # {}
      THEN {Finding("CROSS_RUNTIME_DUPLICATE_CONSUMPTION", permit, "")}
      ELSE {}

RevokedTimes(v, permit) ==
    {v.rows[i].revoked_at : i \in WithOutcome(v, permit, "revoked")} \ {Unusable}

(* Mutation: the last revoked row wins, not the earliest revocation. *)
LatestRevokedAt(v, permit) ==
    CHOOSE t \in RevokedTimes(v, permit) :
        \A u \in RevokedTimes(v, permit) : u <= t

EarliestRevokedAt(v, permit) ==
    CHOOSE t \in RevokedTimes(v, permit) :
        \A u \in RevokedTimes(v, permit) : t <= u

(* earliestValidAfter finds a row. *)
ValidAfter(v, permit, t) ==
    \E i \in WithOutcome(v, permit, "verified") :
        /\ v.rows[i].verified_at # Unusable
        /\ v.rows[i].verified_at - t > ClockUncertaintyTolerance

(* checkDirection: one side revoked the permit, the other accepted it. *)
CheckDirection(permit, side, revoker, other) ==
    IF WithOutcome(revoker, permit, "revoked") = {} THEN {}
    ELSE IF RevokedTimes(revoker, permit) = {}
      THEN {Finding("RECONCILIATION_REVOCATION_TIMESTAMP_UNAVAILABLE", permit, side)}
    ELSE IF ValidAfter(other, permit, EarliestRevokedAt(revoker, permit))
      THEN {Finding("CROSS_RUNTIME_POST_REVOCATION_VALIDITY", permit, side)}
    ELSE {}

ComparePermit ==
    /\ phase = "compare"
    /\ \E permit \in todo :
         /\ \A other \in todo : permit <= other
         /\ todo' = todo \ {permit}
         /\ findings' = findings \cup DuplicateConsumption(permit)
                          \cup CheckDirection(permit, "A", a, b)
                          \cup CheckDirection(permit, "B", b, a)
    /\ UNCHANGED <<inputs, phase, overlap, echo, integrity, exit>>

ReportConflict ==
    /\ phase = "compare" /\ todo = {} /\ findings # {}
    /\ integrity' = "invalid"
    /\ phase' = "done"
    /\ UNCHANGED <<inputs, todo, overlap, echo, findings, exit>>

(* Mutation: sharing no permit is taken for proof of no conflict. *)
ProvenIfDisjoint == overlap = 0

(* Nothing in an export can attest it: unconditionally false. *)
EvidenceCompletenessProven == FALSE

ReportNothingFound ==
    /\ phase = "compare" /\ todo = {} /\ findings = {}
    /\ IF ~EvidenceCompletenessProven
         THEN /\ integrity' = "unavailable"
              /\ findings' =
                   {Finding("RECONCILIATION_EVIDENCE_COMPLETENESS_UNAVAILABLE", 0, "")}
         ELSE /\ integrity' = IF overlap = 0 THEN "absent" ELSE "verified"
              /\ UNCHANGED findings
    /\ phase' = "done"
    /\ UNCHANGED <<inputs, todo, overlap, echo, exit>>

-----------------------------------------------------------------------------

Passes(v) == v.verdict \in (IF requireSigs THEN {"trusted"} ELSE {"ok", "trusted"})

ReconcileOK == integrity \in {"verified", "absent"}

ExitReconcile ==
    /\ phase = "done"
    /\ exit' = IF Passes(a) /\ Passes(b) /\ ReconcileOK THEN 0 ELSE 1
    /\ phase' = "exited"
    /\ UNCHANGED <<inputs, todo, overlap, echo, findings, integrity>>

Next ==
    \/ FailInput
    \/ VerifyBoth
    \/ RefuseScope
    \/ IndexPermits
    \/ ComparePermit
    \/ ReportConflict
    \/ ReportNothingFound
    \/ ExitReconcile

Spec == Init /\ [][Next]_vars
=============================================================================
