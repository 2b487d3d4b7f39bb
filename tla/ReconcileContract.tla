-------------------------- MODULE ReconcileContract --------------------------
(***************************************************************************)
(* What reconciling two exports promises, stated on the exports.           *)
(***************************************************************************)
EXTENDS Reconcile

TypeOK ==
    /\ a \in ExportsA /\ b \in ExportsB /\ requireSigs \in BOOLEAN
    /\ phase \in {"load", "scope", "compare", "done", "exited"}
    /\ todo \subseteq Nat \ {0}
    /\ overlap \in Nat /\ Cardinality(todo) <= overlap
    /\ echo \in BOOLEAN
    /\ \A f \in findings : f.permit \in Nat /\ f.side \in {"", "A", "B"}
    /\ integrity \in {"absent", "verified", "invalid", "refused", "unavailable"}
    /\ exit \in 0..3

Compared == phase \in {"done", "exited"} /\ echo

Consumed(v, i, permit) ==
    v.rows[i].permit = permit /\ v.rows[i].outcome = "verified"
Revoked(v, i, permit) ==
    v.rows[i].permit = permit /\ v.rows[i].outcome = "revoked"

(* Some record of the revoker says when, some record of other accepts the   *)
(* permit more than the tolerance later.                                    *)
AcceptedAfterRevocation(revoker, other, permit) ==
    \E i \in DOMAIN revoker.rows, j \in DOMAIN other.rows :
        /\ Revoked(revoker, i, permit) /\ Consumed(other, j, permit)
        /\ Unusable \notin {revoker.rows[i].revoked_at, other.rows[j].verified_at}
        /\ other.rows[j].verified_at >
             revoker.rows[i].revoked_at + ClockUncertaintyTolerance

RevokedAtNoKnownTime(revoker, permit) ==
    /\ \E i \in DOMAIN revoker.rows : Revoked(revoker, i, permit)
    /\ \A i \in DOMAIN revoker.rows :
         Revoked(revoker, i, permit) => revoker.rows[i].revoked_at = Unusable

SharedPermits ==
    {p \in {a.rows[i].permit : i \in DOMAIN a.rows} \ {0} :
        \E j \in DOMAIN b.rows : b.rows[j].permit = p}

Conflicts ==
    {Finding("CROSS_RUNTIME_DUPLICATE_CONSUMPTION", p, "") :
       p \in {q \in SharedPermits :
                /\ \E i \in DOMAIN a.rows : Consumed(a, i, q)
                /\ \E j \in DOMAIN b.rows : Consumed(b, j, q)}}
    \cup
    {Finding("CROSS_RUNTIME_POST_REVOCATION_VALIDITY", p, "A") :
       p \in {q \in SharedPermits : AcceptedAfterRevocation(a, b, q)}}
    \cup
    {Finding("CROSS_RUNTIME_POST_REVOCATION_VALIDITY", p, "B") :
       p \in {q \in SharedPermits : AcceptedAfterRevocation(b, a, q)}}
    \cup
    {Finding("RECONCILIATION_REVOCATION_TIMESTAMP_UNAVAILABLE", p, "A") :
       p \in {q \in SharedPermits : RevokedAtNoKnownTime(a, q)}}
    \cup
    {Finding("RECONCILIATION_REVOCATION_TIMESTAMP_UNAVAILABLE", p, "B") :
       p \in {q \in SharedPermits : RevokedAtNoKnownTime(b, q)}}

(***************************************************************************)
(* The comparison of matching exports reports exactly the conflicts their  *)
(* records show, whichever of several records of a permit shows them and   *)
(* whichever export revoked it; only when there is none does it say that   *)
(* the evidence is incomplete.                                             *)
(***************************************************************************)
FindingsAreTheConflicts ==
    Compared =>
        IF Conflicts # {}
          THEN integrity = "invalid" /\ findings = Conflicts
          ELSE /\ integrity = "unavailable"
               /\ \A f \in findings :
                    f.code = "RECONCILIATION_EVIDENCE_COMPLETENESS_UNAVAILABLE"

(***************************************************************************)
(* No record is ever compared between exports that do not both declare the *)
(* same org and the same deployment: then the one finding is the refusal.  *)
(***************************************************************************)
ScopeGateIsFirst ==
    /\ (\E f \in findings : f.permit # 0) \/ overlap > 0 \/ echo =>
         /\ a.org_id = b.org_id /\ ~Blank(a.org_id)
         /\ NoScope \notin {a.deployment, b.deployment}
         /\ a.deployment = b.deployment /\ ~Blank(a.deployment)
    /\ integrity = "refused" =>
         /\ overlap = 0 /\ ~echo
         /\ findings = {Finding("RECONCILIATION_SCOPE_MISMATCH", 0, "")}

(***************************************************************************)
(* Two exports never reconcile to a pass today, whatever is in them and    *)
(* however well each verifies (the comment on Result.OK); 2 is kept for    *)
(* inputs that are no envelopes.                                           *)
(***************************************************************************)
NeverAPass ==
    /\ exit # 0
    /\ exit = 1 => findings # {} /\ integrity \notin {"verified", "absent"}
    /\ exit = 2 => findings = {} /\ ~echo

=============================================================================
