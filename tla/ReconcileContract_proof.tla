----------------------- MODULE ReconcileContract_proof -----------------------
(***************************************************************************)
(* Reconciliation for exports of any size and any tolerance: the findings  *)
(* are the conflicts, the scope gate comes first, nothing passes.          *)
(***************************************************************************)
EXTENDS ReconcileContract, FiniteSetTheorems, WellFoundedInduction, TLAPS

(* Of finitely many indices with a time one has the earliest.  The sets of  *)
(* indices no later than a given one are well-ordered by inclusion.         *)
LEMMA EarliestExists ==
    ASSUME NEW n \in Nat, NEW I \in SUBSET (1..n), I # {},
           NEW t, \A i \in I : t[i] \in Int
    PROVE  \E i \in I : \A j \in I : t[i] <= t[j]
<1> DEFINE Upto(i) == {j \in I : t[j] <= t[i]}
           D == {Upto(i) : i \in I}
<1>1. IsFiniteSet(I)
  <2>1. IsFiniteSet(1..n)
    BY FS_Interval
  <2> QED
    BY <2>1, FS_Subset
<1>2. IsWellFoundedOn(StrictSubsetOrdering(I), SUBSET I)
  <2>1. IsWellFoundedOn(StrictSubsetOrdering(I), FiniteSubsetsOf(I))
    BY FS_StrictSubsetOrderingWellFounded
  <2> QED
    BY <1>1, FS_FiniteSubsetsOfFinite, <2>1
<1>3. D \subseteq SUBSET I /\ D # {}
  OBVIOUS
<1>4. \E x \in D : \A y \in D : ~(<<y, x>> \in StrictSubsetOrdering(I))
  <2> HIDE DEF D
  <2> QED
    BY <1>2, <1>3, WFMin
<1>5. PICK i \in I : \A k \in I : ~(<<Upto(k), Upto(i)>> \in StrictSubsetOrdering(I))
  BY <1>4
<1>6. ASSUME NEW k \in I, t[k] < t[i]
      PROVE  FALSE
  <2>1. Upto(k) \subseteq Upto(i) /\ i \in Upto(i) /\ i \notin Upto(k)
    <3>1. t[k] \in Int /\ t[i] \in Int /\ t[k] < t[i] /\ ~(t[i] <= t[k])
      BY <1>6
    <3>2. ASSUME NEW j \in I, t[j] <= t[k]
          PROVE  t[j] <= t[i]
      <4>1. t[j] \in Int
        OBVIOUS
      <4> QED
        BY <4>1, <3>1, <3>2
    <3>3. t[i] <= t[i]
      BY <3>1
    <3> QED
      BY <3>1, <3>2, <3>3
  <2>2. Upto(k) \in SUBSET I /\ Upto(i) \in SUBSET I
    OBVIOUS
  <2> HIDE DEF Upto
  <2>3. <<Upto(k), Upto(i)>> \in StrictSubsetOrdering(I)
    BY <2>1, <2>2 DEF StrictSubsetOrdering
  <2> QED
    BY <2>3, <1>5
<1>7. ASSUME NEW k \in I
      PROVE  t[i] <= t[k]
  <2>1. t[k] \in Int /\ t[i] \in Int
    OBVIOUS
  <2> QED
    BY <2>1, <1>6
<1> QED
  BY <1>7

-----------------------------------------------------------------------------
(* What the checks of one permit find.                                      *)

LEMMA RowTypes ==
    ASSUME NEW v \in Exports, NEW i \in DOMAIN v.rows
    PROVE  /\ DOMAIN v.rows = 1..Len(v.rows) /\ Len(v.rows) \in Nat
           /\ v.rows[i].permit \in Nat
           /\ v.rows[i].verified_at \in Int \cup {Unusable}
           /\ v.rows[i].revoked_at \in Int \cup {Unusable}
<1>1. v.rows \in Seq(PermitRow) /\ v.rows[i] \in PermitRow
  BY ExportsAssumption
<1> QED
  BY <1>1 DEF PermitRow

(* checkDirection takes the earliest usable revocation; some revocation is  *)
(* followed by an acceptance exactly when that one is.                      *)
LEMMA EarliestDecides ==
    ASSUME NEW v \in Exports, NEW w \in Exports, NEW p,
           RevokedTimes(v, p) # {}
    PROVE  ValidAfter(w, p, EarliestRevokedAt(v, p)) <=>
             AcceptedAfterRevocation(v, w, p)
<1> DEFINE T == RevokedTimes(v, p)
           I == {i \in DOMAIN v.rows : Revoked(v, i, p)
                                         /\ v.rows[i].revoked_at # Unusable}
           t == [i \in DOMAIN v.rows |-> v.rows[i].revoked_at]
           first == EarliestRevokedAt(v, p)
<1>1. T = {v.rows[i].revoked_at : i \in I}
  BY DEF RevokedTimes, WithOutcome, RowsOf, Revoked
<1>2. \A i \in I : t[i] \in Int /\ t[i] = v.rows[i].revoked_at
  BY RowTypes
<1>3. v.rows \in Seq(PermitRow)
  BY ExportsAssumption
<1>4. I \in SUBSET (1..Len(v.rows)) /\ Len(v.rows) \in Nat
  BY <1>3
<1>5. I # {}
  BY <1>1
<1>6. \E i \in I : \A j \in I : t[i] <= t[j]
  <2> HIDE DEF I, t
  <2> QED
    BY <1>2, <1>4, <1>5, EarliestExists
<1>7. \E x \in T : \A y \in T : x <= y
  <2> HIDE DEF I, t, T
  <2> QED
    BY <1>1, <1>2, <1>6
<1>8. first \in T /\ \A y \in T : first <= y
  BY <1>7 DEF EarliestRevokedAt
<1>9. T \subseteq Int
  <2> HIDE DEF I, t, T
  <2> QED
    BY <1>1, <1>2
<1>10. ClockUncertaintyTolerance \in Int
  BY ToleranceAssumption
<1>11. ASSUME ValidAfter(w, p, first)
       PROVE  AcceptedAfterRevocation(v, w, p)
  <2>1. PICK j \in DOMAIN w.rows :
          /\ Consumed(w, j, p) /\ w.rows[j].verified_at # Unusable
          /\ w.rows[j].verified_at - first > ClockUncertaintyTolerance
    BY <1>11 DEF ValidAfter, WithOutcome, RowsOf, Consumed
  <2>2. PICK i \in I : first = v.rows[i].revoked_at
    BY <1>1, <1>8
  <2>3. w.rows[j].verified_at \in Int
    BY <2>1, RowTypes
  <2>4. w.rows[j].verified_at > first + ClockUncertaintyTolerance
    <3> HIDE DEF first, T
    <3> QED
      BY <2>1, <2>3, <1>8, <1>9, <1>10
  <2> QED
    BY <2>1, <2>2, <2>4 DEF AcceptedAfterRevocation
<1>12. ASSUME AcceptedAfterRevocation(v, w, p)
       PROVE  ValidAfter(w, p, first)
  <2>1. PICK i \in DOMAIN v.rows, j \in DOMAIN w.rows :
          /\ Revoked(v, i, p) /\ Consumed(w, j, p)
          /\ Unusable \notin {v.rows[i].revoked_at, w.rows[j].verified_at}
          /\ w.rows[j].verified_at >
               v.rows[i].revoked_at + ClockUncertaintyTolerance
    BY <1>12 DEF AcceptedAfterRevocation
  <2>2. v.rows[i].revoked_at \in T
    BY <2>1, <1>1
  <2>3. w.rows[j].verified_at \in Int
    BY <2>1, RowTypes
  <2>4. w.rows[j].verified_at - first > ClockUncertaintyTolerance
    <3> HIDE DEF first, T
    <3>1. first \in Int /\ v.rows[i].revoked_at \in Int
          /\ first <= v.rows[i].revoked_at
      BY <2>2, <1>8, <1>9
    <3>2. w.rows[j].verified_at >
            v.rows[i].revoked_at + ClockUncertaintyTolerance
      BY <2>1
    <3> QED
      BY <3>1, <3>2, <2>3, <1>10
  <2> QED
    BY <2>1, <2>4 DEF ValidAfter, WithOutcome, RowsOf, Consumed
<1> QED
  BY <1>11, <1>12

LEMMA DirectionFinds ==
    ASSUME NEW v \in Exports, NEW w \in Exports, NEW p, NEW side
    PROVE  CheckDirection(p, side, v, w) =
             (IF AcceptedAfterRevocation(v, w, p)
                THEN {Finding("CROSS_RUNTIME_POST_REVOCATION_VALIDITY", p, side)}
                ELSE {})
             \cup
             (IF RevokedAtNoKnownTime(v, p)
                THEN {Finding("RECONCILIATION_REVOCATION_TIMESTAMP_UNAVAILABLE",
                              p, side)}
                ELSE {})
<1>1. WithOutcome(v, p, "revoked") = {i \in DOMAIN v.rows : Revoked(v, i, p)}
  BY DEF WithOutcome, RowsOf, Revoked
<1>2. RevokedTimes(v, p) = {} <=>
        \A i \in DOMAIN v.rows :
          Revoked(v, i, p) => v.rows[i].revoked_at = Unusable
  BY <1>1 DEF RevokedTimes
<1>3. CASE WithOutcome(v, p, "revoked") = {}
  BY <1>1, <1>3 DEF CheckDirection, AcceptedAfterRevocation, RevokedAtNoKnownTime
<1>4. CASE WithOutcome(v, p, "revoked") # {} /\ RevokedTimes(v, p) = {}
  BY <1>1, <1>2, <1>4
     DEF CheckDirection, AcceptedAfterRevocation, RevokedAtNoKnownTime
<1>5. CASE WithOutcome(v, p, "revoked") # {} /\ RevokedTimes(v, p) # {}
  <2>1. ~RevokedAtNoKnownTime(v, p)
    BY <1>2, <1>5 DEF RevokedAtNoKnownTime
  <2>2. ValidAfter(w, p, EarliestRevokedAt(v, p)) <=>
          AcceptedAfterRevocation(v, w, p)
    BY <1>5, EarliestDecides
  <2> QED
    BY <1>5, <2>1, <2>2 DEF CheckDirection
<1> QED
  BY <1>3, <1>4, <1>5

LEMMA DuplicateFinds ==
    ASSUME NEW p
    PROVE  DuplicateConsumption(p) =
             IF /\ \E i \in DOMAIN a.rows : Consumed(a, i, p)
                /\ \E j \in DOMAIN b.rows : Consumed(b, j, p)
               THEN {Finding("CROSS_RUNTIME_DUPLICATE_CONSUMPTION", p, "")}
               ELSE {}
BY DEF DuplicateConsumption, WithOutcome, RowsOf, Consumed

-----------------------------------------------------------------------------
(* All shared permits together.                                             *)

FoundOn(p) ==
    DuplicateConsumption(p) \cup CheckDirection(p, "A", a, b)
                            \cup CheckDirection(p, "B", b, a)

Found(S) == UNION {FoundOn(p) : p \in S}

LEMMA ConflictsFound ==
    ASSUME a \in Exports, b \in Exports
    PROVE  Found(Overlap) = Conflicts
<1>1. SharedPermits = Overlap
  BY DEF SharedPermits, Overlap, Permits
<1> DEFINE
      Dup(q) == /\ \E i \in DOMAIN a.rows : Consumed(a, i, q)
                /\ \E j \in DOMAIN b.rows : Consumed(b, j, q)
      Late(v, w, q) == AcceptedAfterRevocation(v, w, q)
      Undated(v, q) == RevokedAtNoKnownTime(v, q)
      Shows(f, q) ==
        \/ Dup(q) /\ f = Finding("CROSS_RUNTIME_DUPLICATE_CONSUMPTION", q, "")
        \/ Late(a, b, q)
             /\ f = Finding("CROSS_RUNTIME_POST_REVOCATION_VALIDITY", q, "A")
        \/ Late(b, a, q)
             /\ f = Finding("CROSS_RUNTIME_POST_REVOCATION_VALIDITY", q, "B")
        \/ Undated(a, q)
             /\ f = Finding("RECONCILIATION_REVOCATION_TIMESTAMP_UNAVAILABLE",
                            q, "A")
        \/ Undated(b, q)
             /\ f = Finding("RECONCILIATION_REVOCATION_TIMESTAMP_UNAVAILABLE",
                            q, "B")
<1>2. ASSUME NEW q, NEW f
      PROVE  f \in FoundOn(q) <=> Shows(f, q)
  <2>1. f \in DuplicateConsumption(q) <=>
          Dup(q) /\ f = Finding("CROSS_RUNTIME_DUPLICATE_CONSUMPTION", q, "")
    BY DuplicateFinds
  <2>2. f \in CheckDirection(q, "A", a, b) <=>
          \/ Late(a, b, q)
               /\ f = Finding("CROSS_RUNTIME_POST_REVOCATION_VALIDITY", q, "A")
          \/ Undated(a, q)
               /\ f = Finding("RECONCILIATION_REVOCATION_TIMESTAMP_UNAVAILABLE",
                              q, "A")
    BY DirectionFinds
  <2>3. f \in CheckDirection(q, "B", b, a) <=>
          \/ Late(b, a, q)
               /\ f = Finding("CROSS_RUNTIME_POST_REVOCATION_VALIDITY", q, "B")
          \/ Undated(b, q)
               /\ f = Finding("RECONCILIATION_REVOCATION_TIMESTAMP_UNAVAILABLE",
                              q, "B")
    BY DirectionFinds
  <2> HIDE DEF Dup, Late, Undated
  <2> QED
    BY <2>1, <2>2, <2>3 DEF FoundOn
<1>3. ASSUME NEW f
      PROVE  f \in Conflicts <=> \E q \in Overlap : Shows(f, q)
  BY <1>1 DEF Conflicts
<1> HIDE DEF Shows
<1>4. ASSUME NEW f
      PROVE  f \in Found(Overlap) <=> \E q \in Overlap : Shows(f, q)
  BY <1>2 DEF Found
<1> QED
  BY <1>3, <1>4

-----------------------------------------------------------------------------
(* The inductive invariant: how far the run is, and what is known there.    *)

(* Nothing has been compared. *)
Untouched == findings = {} /\ overlap = 0 /\ ~echo /\ integrity = "absent"

Comparing ==
    /\ echo /\ integrity = "absent" /\ exit = 3
    /\ todo \subseteq Overlap
    /\ findings = Found(Overlap \ todo)

Refused ==
    /\ overlap = 0 /\ ~echo /\ integrity = "refused"
    /\ findings = {Finding("RECONCILIATION_SCOPE_MISMATCH", 0, "")}

Reported ==
    /\ echo
    /\ IF Conflicts # {}
         THEN integrity = "invalid" /\ findings = Conflicts
         ELSE /\ integrity = "unavailable"
              /\ findings =
                   {Finding("RECONCILIATION_EVIDENCE_COMPLETENESS_UNAVAILABLE", 0, "")}

RInv ==
    /\ a \in ExportsA /\ b \in ExportsB
    /\ echo => SameScope /\ BothEnvelopes
    /\ phase \in {"load", "scope", "compare", "done", "exited"}
    /\ phase \in {"load", "scope"} => Untouched /\ exit = 3
    /\ phase = "scope" => BothEnvelopes
    /\ phase = "compare" => Comparing
    /\ phase = "done" => exit = 3 /\ (Refused \/ Reported)
    /\ phase = "exited" => \/ exit = 2 /\ Untouched
                           \/ exit = 1 /\ (Refused \/ Reported)

LEMMA InvInit ==
    ASSUME Init
    PROVE  RInv
BY DEF Init, RInv, Untouched

(* Only the exports matter to what is shared and what conflicts.            *)
LEMMA SameInputs ==
    ASSUME UNCHANGED inputs
    PROVE  /\ Overlap' = Overlap /\ Conflicts' = Conflicts
           /\ SameScope' = SameScope /\ BothEnvelopes' = BothEnvelopes
           /\ \A S : Found(S)' = Found(S)
<1>1. a' = a /\ b' = b
  BY DEF inputs
<1>2. Overlap' = Overlap
  BY <1>1 DEF Overlap
<1>3. Conflicts' = Conflicts
  BY <1>1 DEF Conflicts, SharedPermits
<1>4. SameScope' = SameScope /\ BothEnvelopes' = BothEnvelopes
  BY <1>1 DEF SameScope, BothEnvelopes
<1>5. \A S : Found(S)' = Found(S)
  BY <1>1 DEF Found, FoundOn, DuplicateConsumption
<1> QED
  BY <1>2, <1>3, <1>4, <1>5

LEMMA InvStep ==
    ASSUME RInv, [Next]_vars
    PROVE  RInv'
<1>1. CASE UNCHANGED vars
  <2>1. UNCHANGED inputs
    BY <1>1 DEF vars
  <2> QED
    BY <1>1, <2>1, SameInputs
       DEF vars, inputs, RInv, Untouched, Comparing, Refused, Reported
<1>2. CASE FailInput
  BY <1>2 DEF FailInput, inputs, RInv, Untouched
<1>3. CASE VerifyBoth
  <2>1. UNCHANGED inputs
    BY <1>3 DEF VerifyBoth
  <2> QED
    BY <1>3, <2>1, SameInputs DEF VerifyBoth, inputs, RInv, Untouched
<1>4. CASE RefuseScope
  BY <1>4 DEF RefuseScope, inputs, RInv, Untouched, Refused
<1>5. CASE IndexPermits
  <2>1. UNCHANGED inputs
    BY <1>5 DEF IndexPermits
  <2>2. Found(Overlap \ Overlap) = {}
    BY DEF Found
  <2>3. Comparing'
    BY <1>5, <2>1, <2>2, SameInputs DEF IndexPermits, RInv, Untouched, Comparing
  <2> QED
    BY <1>5, <2>1, <2>3, SameInputs DEF IndexPermits, inputs, RInv
<1>6. CASE ComparePermit
  <2>1. UNCHANGED inputs
    BY <1>6 DEF ComparePermit
  <2>2. PICK permit \in todo : /\ todo' = todo \ {permit}
                               /\ findings' = findings \cup FoundOn(permit)
    BY <1>6 DEF ComparePermit, FoundOn
  <2>3. Comparing
    BY <1>6 DEF ComparePermit, RInv
  <2>4. Overlap \ todo' = (Overlap \ todo) \cup {permit} /\ todo' \subseteq Overlap
    BY <2>2, <2>3 DEF Comparing
  <2>5. Found((Overlap \ todo) \cup {permit}) =
          Found(Overlap \ todo) \cup FoundOn(permit)
    BY DEF Found
  <2>6. findings' = Found(Overlap \ todo')
    BY <2>2, <2>3, <2>4, <2>5 DEF Comparing
  <2>7. Comparing'
    BY <1>6, <2>1, <2>3, <2>4, <2>6, SameInputs DEF ComparePermit, Comparing
  <2> QED
    BY <1>6, <2>1, <2>7, SameInputs DEF ComparePermit, inputs, RInv
<1>7. CASE ReportConflict \/ ReportNothingFound
  <2>1. UNCHANGED <<inputs, exit, echo>> /\ phase = "compare" /\ phase' = "done"
        /\ todo = {}
    BY <1>7 DEF ReportConflict, ReportNothingFound
  <2>2. Comparing /\ a \in Exports /\ b \in Exports
    BY <2>1 DEF RInv, Comparing, Exports, BothEnvelopes
  <2>3. findings = Conflicts
    <3>1. findings = Found(Overlap)
      BY <2>1, <2>2 DEF Comparing
    <3> QED
      BY <3>1, <2>2, ConflictsFound
  <2>4. Reported'
    <3>1. CASE ReportConflict
      BY <3>1, <2>1, <2>2, <2>3, SameInputs DEF ReportConflict, Reported, Comparing
    <3>2. CASE ReportNothingFound
      <4>1. findings = {} /\ integrity' = "unavailable"
            /\ findings' =
                 {Finding("RECONCILIATION_EVIDENCE_COMPLETENESS_UNAVAILABLE", 0, "")}
        BY <3>2 DEF ReportNothingFound, EvidenceCompletenessProven
      <4>2. Conflicts' = {} /\ echo'
        BY <4>1, <2>1, <2>2, <2>3, SameInputs DEF Comparing
      <4> QED
        BY <4>1, <4>2 DEF Reported, Finding
    <3> QED
      BY <1>7, <3>1, <3>2
  <2> QED
    BY <2>1, <2>2, <2>4, SameInputs DEF inputs, RInv, Comparing
<1>8. CASE ExitReconcile
  <2>1. UNCHANGED inputs
    BY <1>8 DEF ExitReconcile
  <2>2. Refused \/ Reported
    BY <1>8 DEF ExitReconcile, RInv
  <2>3. ~ReconcileOK
    BY <2>2 DEF Refused, Reported, ReconcileOK
  <2>4. (Refused \/ Reported)'
    BY <1>8, <2>1, <2>2, SameInputs DEF ExitReconcile, Refused, Reported
  <2> QED
    BY <1>8, <2>1, <2>3, <2>4, SameInputs DEF ExitReconcile, inputs, RInv
<1> QED
  BY <1>1, <1>2, <1>3, <1>4, <1>5, <1>6, <1>7, <1>8 DEF Next

LEMMA InvAlways == Spec => []RInv
<1>1. RInv /\ [Next]_vars => RInv'
  BY InvStep
<1> QED
  BY <1>1, InvInit, PTL DEF Spec

-----------------------------------------------------------------------------

(***************************************************************************)
(* Exports of one scope and of any size: exactly the conflicts of their    *)
(* records are reported.                                                   *)
(***************************************************************************)
THEOREM ConflictsAreReported == Spec => []FindingsAreTheConflicts
<1>1. ASSUME RInv
      PROVE  FindingsAreTheConflicts
  <2>1. Compared => Reported
    BY <1>1 DEF RInv, Compared, Refused, Untouched
  <2>2. CASE Compared /\ Conflicts # {}
    BY <2>1, <2>2 DEF Reported, FindingsAreTheConflicts
  <2>3. CASE Compared /\ Conflicts = {}
    <3> DEFINE none ==
                 Finding("RECONCILIATION_EVIDENCE_COMPLETENESS_UNAVAILABLE", 0, "")
    <3>1. none.code = "RECONCILIATION_EVIDENCE_COMPLETENESS_UNAVAILABLE"
      BY DEF Finding
    <3>2. findings = {none}
      BY <2>1, <2>3 DEF Reported
    <3>3. \A f \in findings :
            f.code = "RECONCILIATION_EVIDENCE_COMPLETENESS_UNAVAILABLE"
      <4> HIDE DEF none
      <4> QED
        BY <3>1, <3>2
    <3> QED
      BY <2>1, <2>3, <3>3 DEF Reported, FindingsAreTheConflicts
  <2> QED
    BY <2>2, <2>3 DEF FindingsAreTheConflicts
<1> QED
  BY <1>1, InvAlways, PTL

(***************************************************************************)
(* Records of exports of different or undeclared scope are never compared. *)
(***************************************************************************)
THEOREM ScopeComesFirst == Spec => []ScopeGateIsFirst
<1>1. ASSUME RInv
      PROVE  ScopeGateIsFirst
  <2>1. (\E f \in findings : f.permit # 0) \/ overlap > 0 => echo
    <3>1. Untouched \/ Comparing \/ Refused \/ Reported
      BY <1>1 DEF RInv
    <3>2. Comparing \/ Reported => echo
      BY DEF Comparing, Reported
    <3>3. Finding("RECONCILIATION_SCOPE_MISMATCH", 0, "").permit = 0
      BY DEF Finding
    <3>4. Refused => overlap = 0 /\ \A f \in findings : f.permit = 0
      BY <3>3 DEF Refused
    <3>5. Untouched => overlap = 0 /\ findings = {}
      BY DEF Untouched
    <3> QED
      BY <3>1, <3>2, <3>4, <3>5
  <2>2. integrity = "refused" => Refused
    BY <1>1 DEF RInv, Untouched, Comparing, Refused, Reported
  <2> QED
    BY <1>1, <2>1, <2>2 DEF RInv, SameScope, ScopeGateIsFirst, Refused
<1> QED
  BY <1>1, InvAlways, PTL

(***************************************************************************)
(* No pair of exports, of whatever size and contents, reconciles to exit 0.*)
(***************************************************************************)
THEOREM NothingPasses == Spec => []NeverAPass
<1>1. ASSUME RInv
      PROVE  NeverAPass
  <2>1. exit # 0
    BY <1>1 DEF RInv, Comparing
  <2>2. exit = 2 => Untouched
    BY <1>1 DEF RInv, Comparing
  <2>3. exit = 1 => Refused \/ Reported
    BY <1>1 DEF RInv, Comparing
  <2>4. Refused => findings # {} /\ integrity \notin {"verified", "absent"}
    BY DEF Refused
  <2>5. Reported => findings # {} /\ integrity \notin {"verified", "absent"}
    <3>1. CASE Conflicts # {}
      BY <3>1 DEF Reported
    <3>2. CASE Conflicts = {}
      BY <3>2 DEF Reported
    <3> QED
      BY <3>1, <3>2
  <2> QED
    BY <2>1, <2>2, <2>3, <2>4, <2>5 DEF NeverAPass, Untouched
<1> QED
  BY <1>1, InvAlways, PTL

-----------------------------------------------------------------------------
(* The shared permits are finitely many, which the count of those left to   *)
(* compare needs; the type invariant alone does not say so.                 *)

LEMMA PermitsFinite ==
    ASSUME NEW v \in Exports
    PROVE  IsFiniteSet(Permits(v)) /\ Permits(v) \subseteq Nat \ {0}
<1> DEFINE n == Len(v.rows)
           All == {v.rows[i].permit : i \in DOMAIN v.rows}
           pick == [i \in 1..n |-> v.rows[i].permit]
<1>1. DOMAIN v.rows = 1..n /\ n \in Nat
  BY ExportsAssumption
<1>2. pick \in Surjection(1..n, All)
  BY <1>1 DEF Surjection
<1>3. IsFiniteSet(1..n)
  BY <1>1, FS_Interval
<1>4. IsFiniteSet(All)
  <2> HIDE DEF All, pick, n
  <2> QED
    BY <1>2, <1>3, FS_Surjection
<1>5. Permits(v) \subseteq All
  BY DEF Permits
<1>6. Permits(v) \subseteq Nat \ {0}
  BY RowTypes DEF Permits
<1> HIDE DEF All
<1> QED
  BY <1>4, <1>5, <1>6, FS_Subset

LEMMA TypeInit ==
    ASSUME Init
    PROVE  TypeOK /\ IsFiniteSet(todo)
<1>1. IsFiniteSet({}) /\ Cardinality({}) = 0
  BY FS_EmptySet
<1>2. IsFiniteSet(todo) /\ Cardinality(todo) <= overlap /\ overlap \in Nat
  BY <1>1 DEF Init
<1>3. exit \in 0..3
  BY DEF Init
<1> QED
  BY <1>2, <1>3 DEF Init, TypeOK

LEMMA FindingFields ==
    ASSUME NEW code, NEW permit, NEW side
    PROVE  /\ Finding(code, permit, side).permit = permit
           /\ Finding(code, permit, side).side = side
BY DEF Finding

LEMMA TypeStep ==
    ASSUME TypeOK, IsFiniteSet(todo), [Next]_vars
    PROVE  TypeOK' /\ IsFiniteSet(todo')
<1>1. CASE UNCHANGED vars
  BY <1>1 DEF vars, inputs, TypeOK
<1>2. CASE FailInput
  <2>1. exit' \in 0..3
    BY <1>2 DEF FailInput
  <2> QED
    BY <1>2, <2>1 DEF FailInput, inputs, TypeOK
<1>3. CASE VerifyBoth
  BY <1>3 DEF VerifyBoth, inputs, TypeOK
<1>4. CASE RefuseScope
  <2> DEFINE only == Finding("RECONCILIATION_SCOPE_MISMATCH", 0, "")
  <2>1. findings' = {only}
    BY <1>4 DEF RefuseScope
  <2>2. \A f \in findings' : f.permit \in Nat /\ f.side \in {"", "A", "B"}
    <3>1. only.permit \in Nat
      BY DEF Finding
    <3>2. only.side \in {"", "A", "B"}
      BY Zenon DEF Finding
    <3> HIDE DEF only
    <3> QED
      BY <2>1, <3>1, <3>2
  <2> QED
    BY <1>4, <2>2 DEF RefuseScope, inputs, TypeOK
<1>5. CASE IndexPermits
  <2>1. a \in Exports
    BY DEF TypeOK, Exports
  <2>2. IsFiniteSet(Overlap) /\ Overlap \subseteq Nat \ {0}
    BY <2>1, PermitsFinite, FS_Subset DEF Overlap
  <2>3. Cardinality(Overlap) \in Nat
    BY <2>2, FS_CardinalityType
  <2>4. todo' = Overlap /\ overlap' = Cardinality(Overlap)
    BY <1>5 DEF IndexPermits
  <2>5. overlap' \in Nat /\ Cardinality(todo') <= overlap'
    BY <2>3, <2>4
  <2> QED
    BY <1>5, <2>2, <2>4, <2>5 DEF IndexPermits, inputs, TypeOK
<1>6. CASE ComparePermit
  <2>1. PICK permit \in todo :
          /\ todo' = todo \ {permit}
          /\ findings' = findings \cup DuplicateConsumption(permit)
                           \cup CheckDirection(permit, "A", a, b)
                           \cup CheckDirection(permit, "B", b, a)
    BY <1>6 DEF ComparePermit
  <2>2. IsFiniteSet(todo') /\ Cardinality(todo') = Cardinality(todo) - 1
    BY <2>1, FS_RemoveElement
  <2>3. Cardinality(todo') <= overlap'
    <3>1. Cardinality(todo) \in Nat
      BY FS_CardinalityType
    <3>2. overlap \in Nat /\ Cardinality(todo) <= overlap /\ overlap' = overlap
      BY <1>6 DEF ComparePermit, TypeOK
    <3> QED
      BY <2>2, <3>1, <3>2
  <2>4. permit \in Nat
    BY <2>1 DEF TypeOK
  <2>5. ASSUME NEW f \in DuplicateConsumption(permit)
        PROVE  f.permit = permit /\ f.side = ""
    <3>1. f = Finding("CROSS_RUNTIME_DUPLICATE_CONSUMPTION", permit, "")
      BY <2>5 DEF DuplicateConsumption
    <3> QED
      BY <3>1 DEF Finding
  <2>6. ASSUME NEW side, NEW v, NEW w, NEW f \in CheckDirection(permit, side, v, w)
        PROVE  f.permit = permit /\ f.side = side
    BY <2>6, FindingFields DEF CheckDirection
  <2>7. \A f \in findings' : f.permit \in Nat /\ f.side \in {"", "A", "B"}
    <3>1. \A f \in findings : f.permit \in Nat /\ f.side \in {"", "A", "B"}
      BY DEF TypeOK
    <3>2. \A f \in DuplicateConsumption(permit) :
            f.permit \in Nat /\ f.side \in {"", "A", "B"}
      BY <2>4, <2>5
    <3>3. \A f \in CheckDirection(permit, "A", a, b) :
            f.permit \in Nat /\ f.side = "A"
      BY <2>4, <2>6
    <3>4. \A f \in CheckDirection(permit, "B", b, a) :
            f.permit \in Nat /\ f.side = "B"
      BY <2>4, <2>6
    <3> QED
      BY <2>1, <3>1, <3>2, <3>3, <3>4
  <2> QED
    BY <1>6, <2>1, <2>2, <2>3, <2>7 DEF ComparePermit, inputs, TypeOK
<1>7. CASE ReportConflict
  BY <1>7 DEF ReportConflict, inputs, TypeOK
<1>8. CASE ReportNothingFound
  <2> DEFINE only ==
               Finding("RECONCILIATION_EVIDENCE_COMPLETENESS_UNAVAILABLE", 0, "")
  <2>1. findings' = {only}
    BY <1>8 DEF ReportNothingFound, EvidenceCompletenessProven
  <2>2. \A f \in findings' : f.permit \in Nat /\ f.side \in {"", "A", "B"}
    <3>1. only.permit \in Nat
      BY DEF Finding
    <3>2. only.side \in {"", "A", "B"}
      BY Zenon DEF Finding
    <3> HIDE DEF only
    <3> QED
      BY <2>1, <3>1, <3>2
  <2>3. integrity' = "unavailable"
    BY <1>8 DEF ReportNothingFound, EvidenceCompletenessProven
  <2> QED
    BY <1>8, <2>2, <2>3 DEF ReportNothingFound, inputs, TypeOK
<1>9. CASE ExitReconcile
  <2>1. exit' \in 0..3
    BY <1>9 DEF ExitReconcile
  <2> QED
    BY <1>9, <2>1 DEF ExitReconcile, inputs, TypeOK
<1> QED
  BY <1>1, <1>2, <1>3, <1>4, <1>5, <1>6, <1>7, <1>8, <1>9 DEF Next

(***************************************************************************)
(* Exports of any size: every reachable state of a reconciliation is of    *)
(* its type; the permits left to compare never outnumber the shared ones.  *)
(***************************************************************************)
THEOREM ReconcileTypes == Spec => []TypeOK
<1> DEFINE TInv == TypeOK /\ IsFiniteSet(todo)
<1>1. Init => TInv
  BY TypeInit
<1>2. TInv /\ [Next]_vars => TInv'
  BY TypeStep
<1>3. TInv => TypeOK
  OBVIOUS
<1> HIDE DEF TInv
<1> QED
  BY <1>1, <1>2, <1>3, PTL DEF Spec
=============================================================================
