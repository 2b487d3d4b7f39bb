----------------------------- MODULE MCReconcile -----------------------------
(***************************************************************************)
(* Pairs of exports: up to two permit checks of two permits on each side,  *)
(* with times around the clock tolerance, and pairs that differ in scope   *)
(* or in what envelope.Verify made of them.                                *)
(***************************************************************************)
EXTENDS ReconcileContract

Row(permit, outcome, verified, revoked) ==
    [ permit |-> permit, outcome |-> outcome, verified_at |-> verified,
      revoked_at |-> revoked ]

RowSet ==
    { Row(1, "verified", 60, Unusable), Row(1, "verified", 50, Unusable),
      Row(1, "verified", Unusable, Unusable),
      Row(1, "revoked", 200, 0), Row(1, "revoked", 0, 9),
      Row(1, "revoked", 0, 10), Row(1, "revoked", 0, Unusable),
      Row(2, "verified", 60, Unusable), Row(2, "mismatch", 0, Unusable),
      Row(0, "verified", 60, Unusable) }

Export(verdict, org, deployment, rows) ==
    [verdict |-> verdict, org_id |-> org, deployment |-> deployment, rows |-> rows]

Records == UNION {[1..n -> RowSet] : n \in 0..2}
SomeRows == {<<Row(1, "verified", 60, Unusable)>>, <<Row(1, "revoked", 200, 0)>>}

Matching == {Export("trusted", "org", "dep", rows) : rows \in Records}
Scoped ==
    {Export(verdict, org, deployment, rows) :
       verdict \in {"failed", "ok", "trusted", "error"}, org \in {"org", "other", " "},
       deployment \in {"dep", "dep2", "", NoScope}, rows \in SomeRows}

MCExportsA == Matching \cup Scoped
MCExportsB == Matching \cup Scoped \cup {NotAnEnvelope}
=============================================================================
