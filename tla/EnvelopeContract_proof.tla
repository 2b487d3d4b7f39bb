------------------------ MODULE EnvelopeContract_proof ------------------------
(***************************************************************************)
(* Signed envelopes with sections of any length: what exit 0 says of the   *)
(* signature and "valid" of each layer, what is counted in a damaged one,  *)
(* that findings and verdicts agree, and what a certified copy promises.   *)
(***************************************************************************)
EXTENDS EnvelopeContract, FiniteSetTheorems, WellFoundedInduction, TLAPS

Layered == {"ledger", "rows", "correlation", "archive", "certification"}

-----------------------------------------------------------------------------
(* The outer signature.                                                     *)

SignatureInv ==
    /\ phase = "parse" => envelope = "absent" /\ exit = 3
    /\ phase \in Layered => envelope \in {"valid", "untrusted"} /\ exit = 3
    /\ phase = "exit" => envelope # "absent" /\ exit = 3
    /\ envelope \in {"absent", "invalid", "valid", "untrusted"}
    /\ envelope \in {"valid", "untrusted"} =>
         SignatureHolds /\ (keyTrusted <=> TrustedKey)
    /\ exit = 0 => /\ envelope \in {"valid", "untrusted"}
                   /\ requireSigs => keyTrusted

LEMMA SignatureInit ==
    ASSUME Init
    PROVE  SignatureInv
BY DEF Init, SignatureInv, Layered

LEMMA SameSignature ==
    ASSUME UNCHANGED inputVars
    PROVE  /\ SignatureHolds' <=> SignatureHolds
           /\ TrustedKey' <=> TrustedKey
BY DEF inputVars, SignatureHolds, SignatureUsable, TrustedKey, Ed25519Verify

(* The steps between the signature and the exit policy. *)
LayerStep ==
    \/ CheckLedger
    \/ ValidateCorrelations
    \/ ValidateArchive
    \/ CheckCertification

LEMMA LayerFrame ==
    ASSUME LayerStep
    PROVE  /\ phase \in Layered /\ phase' \in Layered \cup {"exit"}
           /\ UNCHANGED <<inputVars, envelope, keyTrusted, exit>>
<1>1. CASE CheckLedger
  <2>1. /\ phase \in {"ledger", "rows"}
        /\ phase' \in {"ledger", "rows", "correlation"}
        /\ UNCHANGED env
    BY <1>1 DEF CheckLedger, LedgerNext, SkipLedger, RejectMalformedRow,
                BeginLedger, RejectRowHash, RejectRowLink, RefuseRow, AcceptRow,
                FinishLedger
  <2>2. UNCHANGED <<keys, requireSigs, envelope, keyTrusted, exit>>
    BY <1>1 DEF CheckLedger
  <2> QED
    BY <2>1, <2>2 DEF inputVars, Layered
<1>2. CASE ValidateCorrelations
  BY <1>2 DEF ValidateCorrelations, Layered
<1>3. CASE ValidateArchive
  BY <1>3 DEF ValidateArchive, Layered
<1>4. CASE CheckCertification
  BY <1>4 DEF CheckCertification, Layered
<1> QED
  BY <1>1, <1>2, <1>3, <1>4 DEF LayerStep

LEMMA SignatureStep ==
    ASSUME SignatureInv, [Next]_vars
    PROVE  SignatureInv'
<1>1. CASE UNCHANGED vars
  <2>1. UNCHANGED <<inputVars, phase, envelope, keyTrusted, exit>>
    BY <1>1 DEF vars
  <2> QED
    BY <2>1, SameSignature DEF SignatureInv, inputVars
<1>2. CASE FailParse
  BY <1>2 DEF FailParse, SignatureInv, Layered
<1>3. CASE RejectVersion \/ RejectCertificationVersion \/ RejectSignature
  <2>1. /\ phase = "parse" /\ phase' = "exit" /\ envelope' = "invalid"
        /\ UNCHANGED exit
    BY <1>3 DEF RejectVersion, RejectCertificationVersion, RejectSignature,
                RejectEnvelope
  <2> QED
    BY <2>1 DEF SignatureInv, Layered
<1>4. CASE AcceptSignature
  <2>1. UNCHANGED inputVars /\ UNCHANGED exit /\ phase = "parse"
        /\ SignatureHolds /\ (keyTrusted' <=> TrustedKey)
        /\ envelope' \in {"valid", "untrusted"} /\ phase' = "ledger"
    BY <1>4 DEF AcceptSignature
  <2> QED
    BY <2>1, SameSignature DEF SignatureInv, Layered
<1>5. CASE LayerStep
  BY <1>5, LayerFrame, SameSignature DEF SignatureInv, inputVars, Layered
<1>6. CASE ExitEnvelope
  <2>1. UNCHANGED <<inputVars, envelope, keyTrusted>> /\ phase = "exit"
        /\ phase' = "exited" /\ exit' \in {0, 1} /\ (exit' = 0 => Accepted)
    BY <1>6 DEF ExitEnvelope
  <2>2. Accepted => envelope # "invalid" /\ (requireSigs => keyTrusted)
    BY DEF Accepted, StrictOK, OK
  <2> QED
    BY <2>1, <2>2, SameSignature DEF SignatureInv, inputVars, Layered
<1> QED
  BY <1>1, <1>2, <1>3, <1>4, <1>5, <1>6 DEF Next, LayerStep

(***************************************************************************)
(* Exit 0 for any envelope and keystore: signed as a whole by the key of   *)
(* the keystore for its key_id, or, if there is none and                   *)
(* --require-signatures is not given, by the embedded key.                 *)
(***************************************************************************)
THEOREM AcceptedIsSigned == Spec => []AcceptedSignatureHolds
<1>1. SignatureInv => AcceptedSignatureHolds
  BY DEF SignatureInv, AcceptedSignatureHolds, SignatureHolds, TrustedKey,
         Ed25519Verify
<1>2. SignatureInv /\ [Next]_vars => SignatureInv'
  BY SignatureStep
<1> QED
  BY <1>1, <1>2, SignatureInit, PTL DEF Spec

-----------------------------------------------------------------------------
(* The ledger: what the loop knows of the rows before `row'.                *)

Checked(n) ==
    \A i \in 1..n : ~RecomputeFails(Rows[i]) /\ (i > 1 => LinksTo(i - 1, i))

Fresh == row = 1 /\ prevEntryHash = "" /\ ~ledgerInvalid /\ ledger = "absent"

InRows ==
    /\ AllDecode /\ HaveCanonical /\ ledger = "absent"
    /\ row \in 1..(Len(Rows) + 1)
    /\ ledgerInvalid => ~Checked(row - 1)
    /\ ~ledgerInvalid =>
         /\ Checked(row - 1)
         /\ row = 1 => prevEntryHash = ""
         /\ row > 1 => prevEntryHash = Rows[row - 1].entry_hash

Judged == ledger = "valid" <=> AllDecode /\ HaveCanonical /\ Checked(Len(Rows))

LedgerInv ==
    /\ env \in Envelopes
    /\ phase \in Layered => env # Unparseable
    /\ phase \in {"parse", "ledger"} => Fresh
    /\ phase = "rows" => InRows
    /\ phase \in {"correlation", "archive", "certification"} => Judged

LEMMA RowsAreAList ==
    ASSUME LedgerInv, phase \in Layered
    PROVE  Len(Rows) \in Nat /\ DOMAIN Rows = 1..Len(Rows)
<1>1. env \in Envelopes \ {Unparseable} /\ "evaluations" \in CountedSections
  BY DEF LedgerInv, CountedSections
<1>2. /\ Len(env["evaluations"]) \in Nat
      /\ DOMAIN env["evaluations"] = 1..Len(env["evaluations"])
  BY <1>1, SectionsAssumption
<1> QED
  BY <1>2 DEF Rows

LEMMA LedgerStart ==
    ASSUME Init
    PROVE  LedgerInv
BY DEF Init, LedgerInit, LedgerInv, Fresh, Layered

LEMMA SameRows ==
    ASSUME UNCHANGED env
    PROVE  /\ Rows' = Rows /\ (AllDecode' <=> AllDecode)
           /\ HaveCanonical' <=> HaveCanonical
           /\ \A n : Checked(n)' <=> Checked(n)
BY DEF Rows, AllDecode, HaveCanonical, Checked, LinksTo

LEMMA CheckedNext ==
    ASSUME NEW n \in Nat
    PROVE  Checked(n + 1) <=>
             /\ Checked(n) /\ ~RecomputeFails(Rows[n + 1])
             /\ n + 1 > 1 => LinksTo(n, n + 1)
<1>1. 1..(n + 1) = (1..n) \cup {n + 1} /\ (n + 1) - 1 = n
  OBVIOUS
<1> QED
  BY <1>1 DEF Checked

(* A row refused or accepted, whatever happened to the rows before it.      *)
LEMMA RowStep ==
    ASSUME LedgerInv, phase = "rows",
           RejectRowHash \/ RejectRowLink \/ AcceptRow
    PROVE  InRows'
<1> DEFINE r == Rows[row]
<1>1. Len(Rows) \in Nat /\ DOMAIN Rows = 1..Len(Rows)
  BY RowsAreAList DEF Layered
<1>2. InRows
  BY DEF LedgerInv
<1>3. /\ row \in 1..Len(Rows) /\ row' = row + 1 /\ UNCHANGED <<env, ledger>>
  <2>1. row <= Len(Rows) /\ row' = row + 1 /\ UNCHANGED <<env, ledger>>
    BY DEF RejectRowHash, RejectRowLink, RefuseRow, AcceptRow
  <2>2. row \in 1..(Len(Rows) + 1)
    BY <1>2 DEF InRows
  <2> QED
    BY <1>1, <2>1, <2>2
<1>4. /\ row - 1 \in Nat /\ (row - 1) + 1 = row /\ row' - 1 = row
      /\ row' \in 1..(Len(Rows) + 1) /\ row' > 1
  BY <1>1, <1>3
<1>5. Checked(row) <=>
        /\ Checked(row - 1) /\ ~RecomputeFails(r)
        /\ row > 1 => LinksTo(row - 1, row)
  BY <1>4, CheckedNext
<1>6. ~ledgerInvalid => (LinkFails(r) <=> row > 1 /\ ~LinksTo(row - 1, row))
  BY <1>2, <1>4 DEF InRows, LinkFails, LinksTo
<1>7. (ledgerInvalid' => ~Checked(row)) /\ (~ledgerInvalid' => Checked(row))
  <2>1. CASE RejectRowHash
    BY <2>1, <1>5 DEF RejectRowHash, RefuseRow
  <2>2. CASE RejectRowLink
    <3>1. ledgerInvalid' /\ LinkFails(r)
      BY <2>2 DEF RejectRowLink, RefuseRow
    <3> QED
      BY <3>1, <1>2, <1>5, <1>6 DEF InRows
  <2>3. CASE AcceptRow
    <3>1. UNCHANGED ledgerInvalid /\ ~RecomputeFails(r) /\ ~LinkFails(r)
      BY <2>3 DEF AcceptRow
    <3> QED
      BY <3>1, <1>2, <1>5, <1>6 DEF InRows
  <2> QED
    BY <2>1, <2>2, <2>3
<1>8. ~ledgerInvalid' => prevEntryHash' = r.entry_hash
  BY DEF RejectRowHash, RejectRowLink, RefuseRow, AcceptRow
<1>9. Rows' = Rows /\ AllDecode' /\ HaveCanonical' /\ ledger' = "absent"
  BY <1>2, <1>3, SameRows DEF InRows
<1>10. Checked(row - 1)' <=> Checked(row)
  BY <1>4, <1>9 DEF Checked, LinksTo
<1>11. ~ledgerInvalid' => prevEntryHash' = Rows'[row' - 1].entry_hash
  BY <1>4, <1>8, <1>9
<1>12. (ledgerInvalid => ~Checked(row - 1))'
  BY <1>7, <1>10
<1>13. (~ledgerInvalid => /\ Checked(row - 1)
                          /\ row = 1 => prevEntryHash = ""
                          /\ row > 1 => prevEntryHash = Rows[row - 1].entry_hash)'
  <2>1. ASSUME ~ledgerInvalid'
        PROVE  Checked(row - 1)'
    BY <2>1, <1>7, <1>10
  <2>2. ~(row = 1)'
    BY <1>4
  <2> QED
    BY <2>1, <2>2, <1>11
<1>14. (row \in 1..(Len(Rows) + 1))'
  BY <1>4, <1>9
<1> QED
  BY <1>9, <1>12, <1>13, <1>14 DEF InRows

LEMMA LedgerStep ==
    ASSUME LedgerInv, [Next]_vars
    PROVE  LedgerInv'
<1>1. CASE UNCHANGED vars
  <2>1. UNCHANGED <<env, phase, ledgerVars>>
    BY <1>1 DEF vars, inputVars
  <2> QED
    BY <2>1, SameRows DEF ledgerVars, LedgerInv, Fresh, InRows, Judged
<1>2. CASE \/ FailParse \/ RejectVersion \/ RejectCertificationVersion
           \/ RejectSignature \/ CheckCertification \/ ExitEnvelope
  <2>1. UNCHANGED env /\ phase' \in {"exit", "exited"}
    BY <1>2 DEF FailParse, RejectVersion, RejectCertificationVersion,
                RejectSignature, RejectEnvelope, CheckCertification,
                ExitEnvelope, inputVars
  <2> QED
    BY <2>1 DEF LedgerInv, Layered
<1>3. CASE AcceptSignature
  <2>1. UNCHANGED <<env, ledgerVars>> /\ phase = "parse" /\ phase' = "ledger"
        /\ env # Unparseable
    BY <1>3 DEF AcceptSignature, inputVars, SupportedShape
  <2> QED
    BY <2>1 DEF LedgerInv, Layered, Fresh, ledgerVars
<1>4. CASE ValidateCorrelations \/ ValidateArchive
  <2>1. /\ UNCHANGED <<env, ledgerVars>>
        /\ phase \in {"correlation", "archive"}
        /\ phase' \in {"archive", "certification"}
    BY <1>4 DEF ValidateCorrelations, ValidateArchive, inputVars
  <2> QED
    BY <2>1, SameRows DEF LedgerInv, Layered, Judged, ledgerVars
<1>5. CASE SkipLedger
  <2>1. UNCHANGED <<env, ledgerVars>> /\ phase = "ledger"
        /\ phase' = "correlation" /\ ~HaveCanonical
    BY <1>5 DEF SkipLedger
  <2> QED
    BY <2>1, SameRows DEF LedgerInv, Layered, Fresh, Judged, ledgerVars
<1>6. CASE RejectMalformedRow
  <2>1. UNCHANGED env /\ phase = "ledger" /\ phase' = "correlation"
        /\ ledger' = "invalid" /\ ~AllDecode
    BY <1>6 DEF RejectMalformedRow, AllDecode
  <2> QED
    BY <2>1, SameRows DEF LedgerInv, Layered, Judged
<1>7. CASE BeginLedger
  <2>1. UNCHANGED <<env, ledgerVars>> /\ phase = "ledger" /\ phase' = "rows"
        /\ AllDecode /\ HaveCanonical /\ Fresh
    BY <1>7 DEF BeginLedger, LedgerInv
  <2>2. Checked(row - 1)'
    <3>1. row' = 1
      BY <2>1 DEF Fresh, ledgerVars
    <3>2. \A i \in 1..(row' - 1) : FALSE
      BY <3>1
    <3> QED
      BY <3>2 DEF Checked
  <2>3. row' = 1 /\ prevEntryHash' = "" /\ ~ledgerInvalid' /\ ledger' = "absent"
    BY <2>1 DEF Fresh, ledgerVars
  <2>4. (row \in 1..(Len(Rows) + 1))'
    <3>1. Len(Rows) \in Nat /\ Rows' = Rows
      BY <2>1, RowsAreAList, SameRows DEF Layered
    <3>2. row' = 1
      BY <2>3
    <3> QED
      BY <3>1, <3>2
  <2>5. AllDecode' /\ HaveCanonical'
    BY <2>1, SameRows
  <2>6. ~(row > 1)'
    <3>1. row' = 1
      BY <2>3
    <3> QED
      BY <3>1
  <2>7. InRows'
    BY <2>2, <2>3, <2>4, <2>5, <2>6 DEF InRows
  <2> QED
    BY <2>1, <2>7 DEF LedgerInv, Layered
<1>8. CASE RejectRowHash \/ RejectRowLink \/ AcceptRow
  <2>1. UNCHANGED <<env, phase>> /\ phase = "rows"
    BY <1>8 DEF RejectRowHash, RejectRowLink, RefuseRow, AcceptRow
  <2>2. InRows'
    BY <1>8, <2>1, RowStep
  <2> QED
    BY <2>1, <2>2 DEF LedgerInv, Layered
<1>9. CASE FinishLedger
  <2>1. UNCHANGED env /\ phase = "rows" /\ phase' = "correlation"
        /\ row > Len(Rows)
        /\ ledger' = IF ledgerInvalid THEN "invalid" ELSE "valid"
    BY <1>9 DEF FinishLedger
  <2>2. InRows /\ row - 1 = Len(Rows)
    <3>1. InRows /\ Len(Rows) \in Nat
      BY <2>1, RowsAreAList DEF LedgerInv, Layered
    <3>2. row \in 1..(Len(Rows) + 1)
      BY <3>1 DEF InRows
    <3> QED
      BY <2>1, <3>1, <3>2
  <2>3. Judged'
    BY <2>1, <2>2, SameRows DEF Judged, InRows
  <2> QED
    BY <2>1, <2>3 DEF LedgerInv, Layered
<1> QED
  BY <1>1, <1>2, <1>3, <1>4, <1>5, <1>6, <1>7, <1>8, <1>9
     DEF Next, CheckLedger, LedgerNext

LEMMA LedgerAlways == Spec => []LedgerInv
<1>1. LedgerInv /\ [Next]_vars => LedgerInv'
  BY LedgerStep
<1> QED
  BY <1>1, LedgerStart, PTL DEF Spec

(***************************************************************************)
(* However many rows: "valid" exactly when some row can be recomputed, all *)
(* that can be were, and all asserted links between neighbours hold.       *)
(***************************************************************************)
THEOREM LedgerVerdict == Spec => []LedgerValidIffLinked
<1>1. ASSUME LedgerInv
      PROVE  LedgerValidIffLinked
  <2> SUFFICES ASSUME phase \in {"correlation", "archive", "certification"}
               PROVE  ledger = "valid" <=>
                        /\ AllDecode /\ HaveCanonical
                        /\ \A i \in DOMAIN Rows : ~RecomputeFails(Rows[i])
                        /\ \A i \in DOMAIN Rows : i > 1 => LinksTo(i - 1, i)
    BY DEF LedgerValidIffLinked
  <2>1. DOMAIN Rows = 1..Len(Rows)
    BY <1>1, RowsAreAList DEF Layered
  <2>2. Judged
    BY <1>1 DEF LedgerInv
  <2> QED
    BY <2>1, <2>2 DEF Judged, Checked
<1> QED
  BY <1>1, LedgerAlways, PTL

-----------------------------------------------------------------------------
(* Damaged ledgers: the rows that passed, and the hash carried along.       *)

Passed == {i \in 1..(row - 1) : Unflagged(i)}

Flagged == \A f \in Family(LedgerCodes) : f.index \in 1..(row - 1)

Carried ==
    /\ Passed = {} => prevEntryHash = ""
    /\ Passed # {} => \E i \in Passed : /\ \A k \in Passed : k <= i
                                        /\ prevEntryHash = Rows[i].entry_hash

Neighbours ==
    \A i, j \in Passed :
        i < j /\ (\A k \in Passed : k <= i \/ j <= k) => LinksTo(i, j)

Chained ==
    /\ row \in Nat \ {0}
    /\ Flagged
    /\ ledgerVerified = Cardinality(Passed)
    /\ Carried
    /\ Neighbours

PassedInv ==
    /\ phase \in {"parse", "ledger"} => findings = {} /\ ledgerVerified = 0
    /\ phase = "rows" => Chained
    /\ phase = "correlation" /\ AllDecode /\ HaveCanonical => Chained

LEMMA RefusedRow ==
    ASSUME Chained, NEW code \in LedgerCodes,
           findings' = findings \cup {Finding(code, "evaluations", row)},
           row' = row + 1
    PROVE  Passed' = Passed /\ Flagged'
<1> DEFINE new == Finding(code, "evaluations", row)
<1>1. new.code = code /\ new.index = row /\ findings' = findings \cup {new}
  BY DEF Finding
<1>2. Family(LedgerCodes)' = Family(LedgerCodes) \cup {new}
  <2> HIDE DEF new
  <2> QED
    BY <1>1 DEF Family
<1>3. row \in Nat \ {0} /\ row' - 1 = row /\ 1..row = (1..(row - 1)) \cup {row}
      /\ \A i \in 1..(row - 1) : i # row
  BY DEF Chained
<1> HIDE DEF new
<1>4. Flagged'
  BY <1>1, <1>2, <1>3 DEF Flagged, Chained
<1>5. Passed' = {i \in 1..row : Unflagged(i)'}
  BY <1>3 DEF Passed
<1>6. \A i : i = row => ~Unflagged(i)'
  BY <1>1, <1>2 DEF Unflagged
<1>7. \A i \in 1..(row - 1) : Unflagged(i)' <=> Unflagged(i)
  BY <1>1, <1>2, <1>3 DEF Unflagged
<1> QED
  BY <1>3, <1>4, <1>5, <1>6, <1>7 DEF Passed

LEMMA PassedRow ==
    ASSUME Chained, UNCHANGED findings, row' = row + 1
    PROVE  Passed' = Passed \cup {row} /\ row \notin Passed /\ Flagged'
<1>1. row \in Nat \ {0} /\ row' - 1 = row /\ 1..row = (1..(row - 1)) \cup {row}
      /\ row \notin 1..(row - 1)
  BY DEF Chained
<1>2. Family(LedgerCodes)' = Family(LedgerCodes)
  BY DEF Family
<1>3. Flagged'
  BY <1>1, <1>2 DEF Flagged, Chained
<1>4. \A i : i = row => Unflagged(i)
  BY <1>1 DEF Unflagged, Flagged, Chained
<1>5. \A i : Unflagged(i)' <=> Unflagged(i)
  BY <1>2 DEF Unflagged
<1>6. Passed' = {i \in 1..row : Unflagged(i)'}
  BY <1>1 DEF Passed
<1> QED
  BY <1>1, <1>3, <1>4, <1>5, <1>6 DEF Passed

LEMMA PassedFinite ==
    ASSUME Chained
    PROVE  IsFiniteSet(Passed) /\ Passed \subseteq 1..(row - 1)
<1>1. row - 1 \in Int /\ Passed \in SUBSET (1..(row - 1))
  BY DEF Chained, Passed
<1>2. IsFiniteSet(1..(row - 1))
  BY <1>1, FS_Interval
<1> QED
  BY <1>1, <1>2, FS_Subset

LEMMA ChainedRow ==
    ASSUME Chained, RejectRowHash \/ RejectRowLink \/ AcceptRow
    PROVE  Chained'
<1>1. UNCHANGED env /\ row' = row + 1
  BY DEF RejectRowHash, RejectRowLink, RefuseRow, AcceptRow
<1>2. Rows' = Rows /\ \A i, j : LinksTo(i, j)' <=> LinksTo(i, j)
  BY <1>1 DEF Rows, LinksTo
<1>3. row \in Nat \ {0} /\ row' \in Nat \ {0}
  BY <1>1 DEF Chained
<1>4. CASE RejectRowHash \/ RejectRowLink
  <2>1. UNCHANGED <<prevEntryHash, ledgerVerified>>
    BY <1>4 DEF RejectRowHash, RejectRowLink, RefuseRow
  <2>2. PICK code \in LedgerCodes :
          findings' = findings \cup {Finding(code, "evaluations", row)}
    BY <1>4 DEF RejectRowHash, RejectRowLink, RefuseRow, LedgerCodes
  <2>3. Passed' = Passed /\ Flagged'
    BY <1>1, <2>2, RefusedRow
  <2>4. Carried'
    BY <1>2, <2>1, <2>3 DEF Carried, Chained
  <2>5. Neighbours'
    BY <1>2, <2>3 DEF Neighbours, Chained
  <2> QED
    BY <1>3, <2>1, <2>3, <2>4, <2>5 DEF Chained
<1>5. CASE AcceptRow
  <2>1. /\ UNCHANGED findings /\ prevEntryHash' = Rows[row].entry_hash
        /\ ledgerVerified' = ledgerVerified + 1 /\ ~LinkFails(Rows[row])
    BY <1>5 DEF AcceptRow
  <2>2. Passed' = Passed \cup {row} /\ row \notin Passed /\ Flagged'
    BY <1>1, <2>1, PassedRow
  <2>3. IsFiniteSet(Passed) /\ \A i \in Passed : i \in Nat /\ i < row
    BY <1>3, PassedFinite
  <2>4. ledgerVerified' = Cardinality(Passed')
    BY <2>1, <2>2, <2>3, FS_AddElement DEF Chained
  <2>5. Carried'
    <3>1. row \in Passed' /\ \A k \in Passed' : k <= row
      BY <1>3, <2>2, <2>3
    <3> QED
      BY <1>2, <2>1, <3>1 DEF Carried
  <2>6. ASSUME NEW i \in Passed, \A k \in Passed : k <= i
        PROVE  LinksTo(i, row)
    <3>1. PICK m \in Passed : /\ \A k \in Passed : k <= m
                              /\ prevEntryHash = Rows[m].entry_hash
      BY DEF Chained, Carried
    <3>2. m = i
      BY <2>3, <2>6, <3>1
    <3>3. row > 1
      BY <1>3, <2>3, PassedFinite
    <3> QED
      BY <2>1, <3>1, <3>2, <3>3 DEF LinkFails, LinksTo
  <2>7. Neighbours'
    <3> SUFFICES ASSUME NEW i \in Passed', NEW j \in Passed', i < j,
                        \A k \in Passed' : k <= i \/ j <= k
                 PROVE  LinksTo(i, j)'
      BY DEF Neighbours
    <3>1. i \in Passed
      BY <1>3, <2>2, <2>3
    <3>2. CASE j \in Passed
      BY <1>2, <2>2, <3>1, <3>2 DEF Neighbours, Chained
    <3>3. CASE j = row
      <4>1. \A k \in Passed : k <= i
        BY <1>3, <2>2, <2>3, <3>3
      <4> QED
        BY <1>2, <2>6, <3>1, <3>3, <4>1
    <3> QED
      BY <2>2, <3>2, <3>3
  <2> QED
    BY <1>3, <2>2, <2>4, <2>5, <2>7 DEF Chained
<1> QED
  BY <1>4, <1>5

LEMMA SameChained ==
    ASSUME UNCHANGED <<env, findings, ledgerVars>>
    PROVE  Chained' <=> Chained
<1>1. /\ UNCHANGED <<findings, row, prevEntryHash, ledgerVerified>>
      /\ Rows' = Rows
  BY DEF ledgerVars, Rows
<1>2. Family(LedgerCodes)' = Family(LedgerCodes)
  BY <1>1 DEF Family
<1>3. Passed' = Passed
  BY <1>1, <1>2 DEF Passed, Unflagged
<1>4. Flagged' <=> Flagged
  BY <1>1, <1>2 DEF Flagged
<1>5. (Carried' <=> Carried) /\ (Neighbours' <=> Neighbours)
  BY <1>1, <1>3 DEF Carried, Neighbours, LinksTo
<1> QED
  BY <1>1, <1>3, <1>4, <1>5 DEF Chained

LEMMA PassedStep ==
    ASSUME LedgerInv, PassedInv, [Next]_vars
    PROVE  PassedInv'
<1>1. CASE UNCHANGED vars
  <2>1. UNCHANGED <<env, phase, findings, ledgerVars>>
    BY <1>1 DEF vars, inputVars
  <2> QED
    BY <2>1, SameChained, SameRows DEF PassedInv, ledgerVars
<1>2. CASE \/ FailParse \/ RejectVersion \/ RejectCertificationVersion
           \/ RejectSignature \/ CheckCertification \/ ExitEnvelope
           \/ ValidateCorrelations \/ ValidateArchive
  <2>1. phase' \in {"archive", "certification", "exit", "exited"}
    BY <1>2 DEF FailParse, RejectVersion, RejectCertificationVersion,
                RejectSignature, RejectEnvelope, CheckCertification,
                ExitEnvelope, ValidateCorrelations, ValidateArchive
  <2> QED
    BY <2>1 DEF PassedInv
<1>3. CASE AcceptSignature
  <2>1. UNCHANGED <<findings, ledgerVars>> /\ phase = "parse" /\ phase' = "ledger"
    BY <1>3 DEF AcceptSignature
  <2> QED
    BY <2>1 DEF PassedInv, ledgerVars
<1>4. CASE SkipLedger \/ RejectMalformedRow
  <2>1. UNCHANGED env /\ phase' = "correlation" /\ ~(AllDecode /\ HaveCanonical)
    BY <1>4 DEF SkipLedger, RejectMalformedRow, AllDecode
  <2> QED
    BY <2>1, SameRows DEF PassedInv
<1>5. CASE BeginLedger
  <2>1. UNCHANGED <<env, findings, ledgerVars>> /\ phase' = "rows"
        /\ findings = {} /\ ledgerVerified = 0 /\ Fresh
    BY <1>5 DEF BeginLedger, LedgerInv, PassedInv
  <2>2. row = 1 /\ prevEntryHash = ""
    BY <2>1 DEF Fresh
  <2>3. Passed = {} /\ Family(LedgerCodes) = {}
    <3>1. \A i \in 1..(row - 1) : FALSE
      <4>1. row = 1
        BY <2>2
      <4> QED
        BY <4>1
    <3> QED
      BY <2>1, <3>1 DEF Passed, Family
  <2>4. Chained
    <3>1. row \in Nat \ {0}
      <4>1. row = 1
        BY <2>2
      <4> QED
        BY <4>1
    <3> QED
      BY <2>1, <2>2, <2>3, <3>1, FS_EmptySet
         DEF Chained, Flagged, Carried, Neighbours
  <2> QED
    BY <2>1, <2>4, SameChained DEF PassedInv
<1>6. CASE RejectRowHash \/ RejectRowLink \/ AcceptRow
  <2>1. UNCHANGED phase /\ phase = "rows"
    BY <1>6 DEF RejectRowHash, RejectRowLink, RefuseRow, AcceptRow
  <2> QED
    BY <1>6, <2>1, ChainedRow DEF PassedInv
<1>7. CASE FinishLedger
  <2>1. /\ UNCHANGED <<env, findings, row, prevEntryHash, ledgerVerified>>
        /\ phase = "rows" /\ phase' = "correlation"
    BY <1>7 DEF FinishLedger
  <2>2. Passed' = Passed /\ Rows' = Rows /\ (Flagged' <=> Flagged)
    BY <2>1 DEF Passed, Unflagged, Family, Rows, Flagged
  <2>3. Chained'
    BY <2>1, <2>2 DEF PassedInv, Chained, Carried, Neighbours, LinksTo
  <2> QED
    BY <2>1, <2>3 DEF PassedInv
<1> QED
  BY <1>1, <1>2, <1>3, <1>4, <1>5, <1>6, <1>7 DEF Next, CheckLedger, LedgerNext

(***************************************************************************)
(* In a ledger damaged in whatever way: the count is that of the rows      *)
(* without a finding, and each of them links to the one counted before it. *)
(***************************************************************************)
THEOREM OnlyPassedRowsCount == Spec => []PassedRowsAreLinked
<1>1. PassedInv => PassedRowsAreLinked
  BY DEF PassedInv, PassedRowsAreLinked, Chained, Neighbours, Passed
<1>2. Init => PassedInv
  BY DEF Init, LedgerInit, PassedInv
<1>3. LedgerInv /\ PassedInv /\ [Next]_vars => PassedInv'
  BY PassedStep
<1> QED
  BY <1>1, <1>2, <1>3, LedgerAlways, PTL DEF Spec

-----------------------------------------------------------------------------
(* The certified copy: whatever is wrong with the manifest has its finding  *)
(* by the time anything is printed.                                         *)

Accounted ==
    Certified =>
        /\ HasBundleHash => bundleChecked
        /\ MiscountedSections # {} => HasCertificationFinding
        /\ HasBundleHash /\ ~BundleMatches => HasCertificationFinding

SignedEnd == phase \in {"exit", "exited"} /\ envelope \in {"valid", "untrusted"}

CertInv ==
    /\ phase = "exited" => env = Unparseable \/ envelope # "absent"
    /\ SignedEnd => Accounted

LEMMA SameManifest ==
    ASSUME UNCHANGED <<env, findings, bundleChecked>>
    PROVE  Accounted' <=> Accounted
BY DEF Accounted, Certified, HasBundleHash, MiscountedSections, BundleMatches,
       HasCertificationFinding

LEMMA ManifestFindings ==
    ASSUME CheckCertification
    PROVE  Accounted'
<1>1. UNCHANGED env /\ bundleChecked' = HasBundleHash
  BY DEF CheckCertification, inputVars
<1>2. /\ Certified' <=> Certified
      /\ HasBundleHash' <=> HasBundleHash
      /\ MiscountedSections' = MiscountedSections
      /\ BundleMatches' <=> BundleMatches
  BY <1>1 DEF Certified, HasBundleHash, MiscountedSections, BundleMatches
<1>3. ASSUME Certified, MiscountedSections # {}
      PROVE  HasCertificationFinding'
  <2>1. PICK s \in MiscountedSections : TRUE
    BY <1>3
  <2> DEFINE f == Finding("CERTIFICATION_COUNT_MISMATCH", s, 0)
  <2>2. f \in findings'
    BY <1>3, <2>1 DEF CheckCertification
  <2>3. f.code = "CERTIFICATION_COUNT_MISMATCH"
    BY DEF Finding
  <2> QED
    BY <2>2, <2>3 DEF HasCertificationFinding
<1>4. ASSUME HasBundleHash, ~BundleMatches
      PROVE  HasCertificationFinding'
  <2> DEFINE f == Finding("CERTIFICATION_BUNDLE_HASH_MISMATCH", "", 0)
  <2>1. f \in findings'
    BY <1>4 DEF CheckCertification
  <2>2. f.code = "CERTIFICATION_BUNDLE_HASH_MISMATCH"
    BY DEF Finding
  <2> QED
    BY <2>1, <2>2 DEF HasCertificationFinding
<1> QED
  BY <1>1, <1>2, <1>3, <1>4 DEF Accounted

LEMMA CertStep ==
    ASSUME SignatureInv, CertInv, [Next]_vars
    PROVE  CertInv'
<1>1. CASE UNCHANGED vars
  <2>1. UNCHANGED <<env, phase, envelope, findings, bundleChecked>>
    BY <1>1 DEF vars, inputVars
  <2> QED
    BY <2>1, SameManifest DEF CertInv, SignedEnd
<1>2. CASE FailParse
  <2>1. /\ phase = "parse" /\ phase' = "exited" /\ env' = Unparseable
        /\ UNCHANGED envelope
    BY <1>2 DEF FailParse, inputVars
  <2> QED
    BY <2>1 DEF SignatureInv, CertInv, SignedEnd
<1>3. CASE RejectVersion \/ RejectCertificationVersion \/ RejectSignature
  <2>1. phase' = "exit" /\ envelope' = "invalid"
    BY <1>3 DEF RejectVersion, RejectCertificationVersion, RejectSignature,
                RejectEnvelope
  <2> QED
    BY <2>1 DEF CertInv, SignedEnd
<1>4. CASE AcceptSignature
  BY <1>4 DEF AcceptSignature, CertInv, SignedEnd
<1>5. CASE CheckLedger \/ ValidateCorrelations \/ ValidateArchive
  <2>1. CASE CheckLedger
    <3>1. phase \in {"ledger", "rows"} /\ phase' \in {phase, "rows", "correlation"}
      BY <2>1 DEF CheckLedger, LedgerNext, SkipLedger, RejectMalformedRow,
                  BeginLedger, RejectRowHash, RejectRowLink, RefuseRow,
                  AcceptRow, FinishLedger
    <3> QED
      BY <3>1 DEF CertInv, SignedEnd
  <2>2. CASE ValidateCorrelations
    BY <2>2 DEF ValidateCorrelations, CertInv, SignedEnd
  <2>3. CASE ValidateArchive
    BY <2>3 DEF ValidateArchive, CertInv, SignedEnd
  <2> QED
    BY <1>5, <2>1, <2>2, <2>3
<1>6. CASE CheckCertification
  <2>1. phase' = "exit"
    BY <1>6 DEF CheckCertification
  <2> QED
    BY <1>6, <2>1, ManifestFindings DEF CertInv
<1>7. CASE ExitEnvelope
  <2>1. /\ phase = "exit" /\ phase' = "exited"
        /\ UNCHANGED <<env, envelope, findings, bundleChecked>>
    BY <1>7 DEF ExitEnvelope, inputVars
  <2> QED
    BY <2>1, SameManifest DEF SignatureInv, CertInv, SignedEnd
<1> QED
  BY <1>1, <1>2, <1>3, <1>4, <1>5, <1>6, <1>7 DEF Next

(***************************************************************************)
(* Envelopes with sections of any length: "[OK] Certified copy" is printed *)
(* only over a signed one whose declared counts and bundle hash, of the    *)
(* sections the manifest's own version binds, are those of what is there.  *)
(***************************************************************************)
THEOREM CertifiedCopies == Spec => []CertifiedCopyIsAccurate
<1>1. ASSUME SignatureInv, LedgerInv, CertInv
      PROVE  CertifiedCopyIsAccurate
  <2> DEFINE m == env.certification
  <2> SUFFICES ASSUME phase = "exited", env # Unparseable,
                      CertificationMark = "OK"
               PROVE  /\ SignatureHolds
                      /\ \A s \in CheckedCounts : m.record_counts[s] = Len(env[s])
                      /\ m.bundle_sha256 # Unclaimed =>
                           /\ bundleChecked
                           /\ m.bundle_sha256 =
                                BundleSha([s \in (CountedSections \cup {"other_sections"})
                                   \ (IF m.version <= 5 THEN {"protection_configurations"}
                                                        ELSE {}) |-> env[s]])
    BY DEF CertifiedCopyIsAccurate
  <2>1. Certified /\ envelope # "invalid" /\ ~HasCertificationFinding
    BY DEF CertificationMark
  <2>2. envelope \in {"valid", "untrusted"}
    BY <1>1, <2>1 DEF CertInv, SignatureInv
  <2>3. Accounted
    BY <1>1, <2>2 DEF CertInv, SignedEnd
  <2>4. SignatureHolds
    BY <1>1, <2>2 DEF SignatureInv
  <2>5. ASSUME NEW s \in CheckedCounts
        PROVE  m.record_counts[s] = Len(env[s])
    BY <2>1, <2>3 DEF Accounted, CheckedCounts, MiscountedSections
  <2>6. ASSUME m.bundle_sha256 # Unclaimed
        PROVE  bundleChecked /\ BundleMatches
    BY <2>1, <2>3, <2>6 DEF Accounted, HasBundleHash
  <2>7. BundleSections(m.version) =
          (CountedSections \cup {"other_sections"})
            \ (IF m.version <= 5 THEN {"protection_configurations"} ELSE {})
    <3>1. m.version \in Int
      BY <1>1, <2>1, VersionAssumption DEF LedgerInv, Certified
    <3>2. m.version >= 6 <=> ~(m.version <= 5)
      BY <3>1
    <3> QED
      BY <3>2 DEF BundleSections
  <2> QED
    BY <2>4, <2>5, <2>6, <2>7 DEF BundleMatches
<1>2. Init => CertInv
  BY DEF Init, CertInv, SignedEnd
<1>3. SignatureInv /\ CertInv /\ [Next]_vars => CertInv'
  BY CertStep
<1>4. SignatureInv /\ [Next]_vars => SignatureInv'
  BY SignatureStep
<1>5. Init => SignatureInv
  BY SignatureInit
<1>6. SignatureInv /\ LedgerInv /\ CertInv => CertifiedCopyIsAccurate
  BY <1>1
<1> QED
  BY <1>2, <1>3, <1>4, <1>5, <1>6, LedgerAlways, PTL DEF Spec

-----------------------------------------------------------------------------
(* What each layer finds, it also says: the sections on their own.          *)

(* Some member of a set of indices comes first.                             *)
LEMMA FirstExists ==
    ASSUME NEW n \in Nat, NEW I \in SUBSET (1..n), I # {}
    PROVE  \E i \in I : \A j \in I : i <= j
<1> DEFINE Upto(i) == {j \in I : j <= i}
           D == {Upto(i) : i \in I}
<1>1. IsFiniteSet(I)
  <2>1. IsFiniteSet(1..n)
    BY FS_Interval
  <2> QED
    BY <2>1, FS_Subset
<1>2. IsWellFoundedOn(StrictSubsetOrdering(I), SUBSET I)
  <2>1. IsWellFoundedOn(StrictSubsetOrdering(I), FiniteSubsetsOf(I))
    BY FS_StrictSubsetOrderingWellFounded
  <2> QED
    BY <1>1, FS_FiniteSubsetsOfFinite, <2>1
<1>3. D \subseteq SUBSET I /\ D # {}
  OBVIOUS
<1>4. \E x \in D : \A y \in D : ~(<<y, x>> \in StrictSubsetOrdering(I))
  <2> HIDE DEF D
  <2> QED
    BY <1>2, <1>3, WFMin
<1>5. PICK i \in I : \A k \in I : ~(<<Upto(k), Upto(i)>> \in StrictSubsetOrdering(I))
  BY <1>4
<1>6. ASSUME NEW k \in I, k < i
      PROVE  FALSE
  <2>1. Upto(k) \subseteq Upto(i) /\ i \in Upto(i) /\ i \notin Upto(k)
    <3>1. k \in Int /\ i \in Int /\ k < i /\ ~(i <= k) /\ i <= i
      BY <1>6
    <3>2. ASSUME NEW j \in I, j <= k
          PROVE  j <= i
      <4>1. j \in Int
        OBVIOUS
      <4> QED
        BY <4>1, <3>1, <3>2
    <3> QED
      BY <3>1, <3>2
  <2>2. Upto(k) \in SUBSET I /\ Upto(i) \in SUBSET I
    OBVIOUS
  <2> HIDE DEF Upto
  <2>3. <<Upto(k), Upto(i)>> \in StrictSubsetOrdering(I)
    BY <2>1, <2>2 DEF StrictSubsetOrdering
  <2> QED
    BY <2>3, <1>5
<1> QED
  BY <1>6

LEMMA SectionsAreLists ==
    ASSUME NEW v \in Envelopes \ {Unparseable}
    PROVE  /\ Len(v.correlation_events) \in Nat
           /\ DOMAIN v.correlation_events = 1..Len(v.correlation_events)
           /\ Len(v.retrieval_events) \in Nat
           /\ DOMAIN v.retrieval_events = 1..Len(v.retrieval_events)
           /\ Len(v.probe_events) \in Nat
           /\ DOMAIN v.probe_events = 1..Len(v.probe_events)
<1>1. \A s \in CountedSections :
        Len(v[s]) \in Nat /\ DOMAIN v[s] = 1..Len(v[s])
  BY SectionsAssumption
<1>2. {"correlation_events", "retrieval_events", "probe_events"}
        \subseteq CountedSections
  BY DEF CountedSections
<1> QED
  BY <1>1, <1>2

(* A record fails exactly when it, or the group it is in, has a finding;    *)
(* that of a group is reported at its first record.                         *)
LEMMA CorrelationsTell ==
    ASSUME NEW v \in Envelopes \ {Unparseable}
    PROVE  Failed(v) = {} <=> CorrelationFindings(v) = {}
<1> DEFINE I == DOMAIN v.correlation_events
           Own(i) == RecordFailure(v, v.correlation_events[i]) = {}
<1>1. CorrelationFindings(v) = {} <=>
        (\A i \in I : RecordFindings(v, i) = {}) /\ GroupHeads(v) = {}
  <2> DEFINE A == UNION {RecordFindings(v, i) : i \in I}
             B == {Finding(GroupCode(v, i), "correlation_events", i) :
                     i \in GroupHeads(v)}
  <2>1. CorrelationFindings(v) = A \cup B
    BY DEF CorrelationFindings
  <2>2. A = {} <=> \A i \in I : RecordFindings(v, i) = {}
    <3> HIDE DEF I
    <3> QED
      OBVIOUS
  <2>3. B = {} <=> GroupHeads(v) = {}
    OBVIOUS
  <2> HIDE DEF A, B, I
  <2> QED
    BY <2>1, <2>2, <2>3
<1>2. \A i \in I : RecordFindings(v, i) = {} <=> Own(i)
  BY DEF RecordFindings
<1>3. GroupHeads(v) = {} <=> \A i \in I : Group(v, i) = {i}
  <2>1. ASSUME NEW i \in I, Group(v, i) # {i}
        PROVE  GroupHeads(v) # {}
    <3>1. i \in Group(v, i) /\ Group(v, i) \subseteq I
      BY DEF Group
    <3>2. I = 1..Len(v.correlation_events) /\ Len(v.correlation_events) \in Nat
      BY SectionsAreLists
    <3>3. PICK k \in Group(v, i) : \A j \in Group(v, i) : k <= j
      <4> HIDE DEF I
      <4> QED
        BY <3>1, <3>2, FirstExists
    <3>4. Group(v, k) = Group(v, i)
      BY <3>3 DEF Group
    <3>5. Group(v, k) # {k}
      BY <2>1, <3>1, <3>4
    <3> QED
      BY <3>1, <3>3, <3>4, <3>5 DEF GroupHeads
  <2>2. ASSUME NEW i \in GroupHeads(v)
        PROVE  i \in I /\ Group(v, i) # {i}
    BY DEF GroupHeads
  <2> HIDE DEF I
  <2> QED
    BY <2>1, <2>2
<1>4. Failed(v) = {} <=> \A i \in I : Own(i) /\ Group(v, i) = {i}
  BY DEF Failed
<1> HIDE DEF Own, I
<1> QED
  BY <1>1, <1>2, <1>3, <1>4

LEMMA CorrelationFamily ==
    ASSUME NEW v, NEW f \in CorrelationFindings(v)
    PROVE  f.code \in CorrelationCodes
<1>1. CASE \E i \in DOMAIN v.correlation_events : f \in RecordFindings(v, i)
  <2>1. PICK i \in DOMAIN v.correlation_events : f \in RecordFindings(v, i)
    BY <1>1
  <2>2. PICK code \in RecordFailure(v, v.correlation_events[i]) : f = Finding(code, "correlation_events", i)
    BY <2>1 DEF RecordFindings
  <2>3. code \in CorrelationCodes
    BY DEF RecordFailure, CorrelationCodes
  <2> QED
    BY <2>2, <2>3 DEF Finding
<1>2. CASE \E i \in GroupHeads(v) :
             f = Finding(GroupCode(v, i), "correlation_events", i)
  <2>1. PICK i : f = Finding(GroupCode(v, i), "correlation_events", i)
    BY <1>2
  <2>2. GroupCode(v, i) \in CorrelationCodes
    BY DEF GroupCode, CorrelationCodes
  <2> QED
    BY <2>1, <2>2 DEF Finding
<1>3. \/ f \in UNION {RecordFindings(v, i) : i \in DOMAIN v.correlation_events}
      \/ f \in {Finding(GroupCode(v, i), "correlation_events", i) : i \in GroupHeads(v)}
  BY DEF CorrelationFindings
<1>4. f \in UNION {RecordFindings(v, i) : i \in DOMAIN v.correlation_events} =>
        \E i \in DOMAIN v.correlation_events : f \in RecordFindings(v, i)
  OBVIOUS
<1> QED
  BY <1>1, <1>2, <1>3, <1>4

(* All records of both sections are good exactly when there is no finding.  *)
LEMMA ArchiveTells ==
    ASSUME NEW v \in Envelopes \ {Unparseable}
    PROVE  Cardinality(GoodRetrievals(v)) + Cardinality(GoodProbes(v))
             = Len(v.retrieval_events) + Len(v.probe_events)
           <=> ArchiveFindings(v) = {}
<1> DEFINE R == DOMAIN v.retrieval_events
           P == DOMAIN v.probe_events
           r == Cardinality(GoodRetrievals(v))
           p == Cardinality(GoodProbes(v))
<1>1. /\ R = 1..Len(v.retrieval_events) /\ Len(v.retrieval_events) \in Nat
      /\ P = 1..Len(v.probe_events) /\ Len(v.probe_events) \in Nat
  BY SectionsAreLists
<1>2. /\ IsFiniteSet(R) /\ Cardinality(R) = Len(v.retrieval_events)
      /\ IsFiniteSet(P) /\ Cardinality(P) = Len(v.probe_events)
  <2> HIDE DEF R, P
  <2>1. \A n \in Nat : IsFiniteSet(1..n) /\ Cardinality(1..n) = n
    BY FS_Interval
  <2> QED
    BY <1>1, <2>1
<1>3. GoodRetrievals(v) \subseteq R /\ GoodProbes(v) \subseteq P
  BY DEF GoodRetrievals, GoodProbes
<1>4. /\ r \in Nat /\ r <= Len(v.retrieval_events)
      /\ r = Len(v.retrieval_events) <=> GoodRetrievals(v) = R
      /\ p \in Nat /\ p <= Len(v.probe_events)
      /\ p = Len(v.probe_events) <=> GoodProbes(v) = P
  <2> HIDE DEF R, P
  <2> QED
    BY <1>2, <1>3, FS_Subset, FS_CardinalityType
<1>5. r + p = Len(v.retrieval_events) + Len(v.probe_events)
        <=> r = Len(v.retrieval_events) /\ p = Len(v.probe_events)
  <2> DEFINE y == Len(v.retrieval_events)
             z == Len(v.probe_events)
  <2>1. r \in Nat /\ p \in Nat /\ y \in Nat /\ z \in Nat /\ r <= y /\ p <= z
    BY <1>1, <1>4
  <2> HIDE DEF r, p, y, z
  <2>2. r + p = y + z <=> r = y /\ p = z
    BY <2>1
  <2> QED
    BY <2>2 DEF y, z
<1>6. GoodRetrievals(v) = R <=> \A i \in R : RetrievalFindings(v, i) = {}
  BY DEF GoodRetrievals, RetrievalFindings
<1>7. GoodProbes(v) = P <=> \A i \in P : ProbeFindings(v, i) = {}
  BY DEF GoodProbes, ProbeFindings
<1>8. ArchiveFindings(v) = {} <=>
        /\ \A i \in R : RetrievalFindings(v, i) = {}
        /\ \A i \in P : ProbeFindings(v, i) = {}
  <2> DEFINE A == UNION {RetrievalFindings(v, i) : i \in R}
             B == UNION {ProbeFindings(v, i) : i \in P}
  <2>1. ArchiveFindings(v) = A \cup B
    BY DEF ArchiveFindings
  <2>2. A = {} <=> \A i \in R : RetrievalFindings(v, i) = {}
    <3> HIDE DEF R
    <3> QED
      OBVIOUS
  <2>3. B = {} <=> \A i \in P : ProbeFindings(v, i) = {}
    <3> HIDE DEF P
    <3> QED
      OBVIOUS
  <2> HIDE DEF A, B, R, P
  <2> QED
    BY <2>1, <2>2, <2>3
<1> HIDE DEF R, P, r, p
<1> QED
  BY <1>4, <1>5, <1>6, <1>7, <1>8 DEF r, p

LEMMA ArchiveFamily ==
    ASSUME NEW v, NEW f \in ArchiveFindings(v)
    PROVE  f.code \in ArchiveCodes
<1>1. CASE \E i \in DOMAIN v.retrieval_events : f \in RetrievalFindings(v, i)
  <2>1. PICK i \in DOMAIN v.retrieval_events : f \in RetrievalFindings(v, i)
    BY <1>1
  <2>2. PICK code \in RetrievalFailures(v, i) : f = Finding(code, "retrieval_events", i)
    BY <2>1 DEF RetrievalFindings
  <2>3. code \in ArchiveCodes
    BY DEF RetrievalFailures, CommonFailures, ArchiveCodes
  <2> QED
    BY <2>2, <2>3 DEF Finding
<1>2. CASE \E i \in DOMAIN v.probe_events : f \in ProbeFindings(v, i)
  <2>1. PICK i \in DOMAIN v.probe_events : f \in ProbeFindings(v, i)
    BY <1>2
  <2>2. PICK code \in ProbeFailures(v, i) : f = Finding(code, "probe_events", i)
    BY <2>1 DEF ProbeFindings
  <2>3. code \in ArchiveCodes
    BY DEF ProbeFailures, CommonFailures, ArchiveCodes
  <2> QED
    BY <2>2, <2>3 DEF Finding
<1>3. \/ f \in UNION {RetrievalFindings(v, i) : i \in DOMAIN v.retrieval_events}
      \/ f \in UNION {ProbeFindings(v, i) : i \in DOMAIN v.probe_events}
  BY DEF ArchiveFindings
<1>4. f \in UNION {RetrievalFindings(v, i) : i \in DOMAIN v.retrieval_events} =>
        \E i \in DOMAIN v.retrieval_events : f \in RetrievalFindings(v, i)
  OBVIOUS
<1>5. f \in UNION {ProbeFindings(v, i) : i \in DOMAIN v.probe_events} =>
        \E i \in DOMAIN v.probe_events : f \in ProbeFindings(v, i)
  OBVIOUS
<1> QED
  BY <1>1, <1>2, <1>3, <1>4, <1>5

-----------------------------------------------------------------------------
(* What each layer finds, it also says: the three of them in one pass.      *)

BeforeLedger == {"parse", "ledger"}
BeforeCorrelation == {"parse", "ledger", "rows", "correlation"}
BeforeArchive == BeforeCorrelation \cup {"archive"}
BeforeCertification == BeforeArchive \cup {"certification"}

Alone ==
    /\ ledger = "absent" /\ correlation = "absent" /\ archive = "absent"
    /\ Cardinality(findings) = 1 /\ ~bundleChecked
    /\ \A f \in findings :
         f.code \notin LedgerCodes \cup CorrelationCodes \cup ArchiveCodes

Told(layer, codes) == layer = "invalid" <=> Family(codes) # {}

LedgerTold ==
    /\ phase \in BeforeLedger =>
         ledger = "absent" /\ ~ledgerInvalid /\ Family(LedgerCodes) = {}
    /\ phase = "rows" =>
         ledger = "absent" /\ (ledgerInvalid <=> Family(LedgerCodes) # {})
    /\ phase \notin BeforeLedger \cup {"rows"} => Told(ledger, LedgerCodes)

LayerInv ==
    /\ phase \in BeforeCertification => ~bundleChecked
    /\ phase = "parse" => findings = {}
    /\ phase \in BeforeCorrelation => correlation = "absent"
    /\ phase \in BeforeArchive => archive = "absent"
    /\ envelope = "invalid" => Alone
    /\ envelope # "invalid" =>
         /\ LedgerTold
         /\ Told(correlation, CorrelationCodes)
         /\ Told(archive, ArchiveCodes)

LEMMA CodesApart ==
    /\ LedgerCodes \cap CorrelationCodes = {}
    /\ LedgerCodes \cap ArchiveCodes = {}
    /\ CorrelationCodes \cap ArchiveCodes = {}
BY DEF LedgerCodes, CorrelationCodes, ArchiveCodes

LEMMA SameLayers ==
    ASSUME UNCHANGED <<findings, ledgerVars, correlation, archive, bundleChecked>>
    PROVE  /\ Alone' <=> Alone
           /\ \A codes : Family(codes)' = Family(codes)
BY DEF Alone, Family, ledgerVars

LEMMA EnvelopeAlone ==
    ASSUME SignatureInv, LayerInv,
           RejectVersion \/ RejectCertificationVersion \/ RejectSignature
    PROVE  LayerInv'
<1>1. PICK code \in {"UNSUPPORTED_ENVELOPE_VERSION", "UNSUPPORTED_CERTIFICATION_VERSION",
                     "ENVELOPE_SIGNATURE_INVALID"} : RejectEnvelope(code)
  BY DEF RejectVersion, RejectCertificationVersion, RejectSignature
<1> DEFINE f == Finding(code, "", 0)
<1>2. phase = "parse"
  BY DEF RejectVersion, RejectCertificationVersion, RejectSignature
<1>3. findings' = {f} /\ envelope' = "invalid" /\ phase' = "exit"
      /\ UNCHANGED <<ledgerVars, corrVars, archVars, bundleChecked>>
  BY <1>1, <1>2 DEF RejectEnvelope, LayerInv
<1>4. f.code \notin LedgerCodes \cup CorrelationCodes \cup ArchiveCodes
  <2>1. code \notin LedgerCodes \cup CorrelationCodes \cup ArchiveCodes
    BY DEF LedgerCodes, CorrelationCodes, ArchiveCodes
  <2> QED
    BY <2>1 DEF Finding
<1>5. Cardinality(findings') = 1
  BY <1>3, FS_Singleton
<1>6. ledger = "absent" /\ correlation = "absent" /\ archive = "absent" /\ ~bundleChecked
  BY <1>2 DEF SignatureInv, LayerInv, LedgerTold, BeforeLedger, BeforeCorrelation,
              BeforeArchive, BeforeCertification
<1>7. Alone'
  <2> HIDE DEF f
  <2> QED
    BY <1>3, <1>4, <1>5, <1>6 DEF Alone, ledgerVars, corrVars, archVars
<1> QED
  BY <1>3, <1>7 DEF LayerInv, BeforeCorrelation, BeforeArchive, BeforeCertification

(* The steps of verifyLedger; the other layers have found nothing yet.      *)
LEMMA LedgerTells ==
    ASSUME SignatureInv, LayerInv, CheckLedger
    PROVE  LayerInv'
<1>1. /\ phase \in {"ledger", "rows"}
      /\ phase' \in {"ledger", "rows", "correlation"}
      /\ envelope # "invalid"
      /\ UNCHANGED <<envelope, correlation, archive, bundleChecked>>
  <2>1. /\ phase \in {"ledger", "rows"}
        /\ phase' \in {"ledger", "rows", "correlation"}
    BY DEF CheckLedger, LedgerNext, SkipLedger, RejectMalformedRow, BeginLedger,
           RejectRowHash, RejectRowLink, RefuseRow, AcceptRow, FinishLedger
  <2>2. UNCHANGED <<envelope, correlation, archive, bundleChecked>>
    BY DEF CheckLedger, corrVars, archVars
  <2> QED
    BY <2>1, <2>2 DEF SignatureInv, Layered
<1>2. LedgerTold /\ Told(correlation, CorrelationCodes) /\ Told(archive, ArchiveCodes)
  BY <1>1 DEF LayerInv
<1>3. correlation = "absent" /\ archive = "absent" /\ ~bundleChecked
  BY <1>1 DEF LayerInv, BeforeCorrelation, BeforeArchive, BeforeCertification
<1>4. Family(CorrelationCodes) = {} /\ Family(ArchiveCodes) = {}
  BY <1>2, <1>3 DEF Told
<1>5. /\ LedgerTold'
      /\ Family(CorrelationCodes)' = {} /\ Family(ArchiveCodes)' = {}
  <2>1. CASE SkipLedger \/ BeginLedger \/ AcceptRow \/ FinishLedger
    <3>1. UNCHANGED findings
      BY <2>1 DEF SkipLedger, BeginLedger, AcceptRow, FinishLedger
    <3>2. /\ Family(LedgerCodes)' = Family(LedgerCodes)
          /\ Family(CorrelationCodes)' = {} /\ Family(ArchiveCodes)' = {}
      BY <1>4, <3>1 DEF Family
    <3>3. LedgerTold'
      <4>1. CASE SkipLedger
        BY <4>1, <1>2, <3>2 DEF SkipLedger, LedgerTold, Told, BeforeLedger, ledgerVars
      <4>2. CASE BeginLedger
        BY <4>2, <1>2, <3>2 DEF BeginLedger, LedgerTold, Told, BeforeLedger, ledgerVars
      <4>3. CASE AcceptRow
        BY <4>3, <1>2, <3>2 DEF AcceptRow, LedgerTold, Told, BeforeLedger
      <4>4. CASE FinishLedger
        BY <4>4, <1>2, <3>2 DEF FinishLedger, LedgerTold, Told, BeforeLedger
      <4> QED
        BY <2>1, <4>1, <4>2, <4>3, <4>4
    <3> QED
      BY <3>2, <3>3
  <2>2. CASE RejectMalformedRow \/ RejectRowHash \/ RejectRowLink
    <3>1. PICK code \in LedgerCodes, i \in Nat \cup {row} \cup DOMAIN Rows :
            findings' = findings \cup {Finding(code, "evaluations", i)}
      BY <2>2 DEF RejectMalformedRow, RejectRowHash, RejectRowLink, RefuseRow,
                  LedgerCodes
    <3> DEFINE f == Finding(code, "evaluations", i)
    <3>2. f.code \in LedgerCodes
      BY DEF Finding
    <3>3. f \in Family(LedgerCodes)'
      BY <3>1, <3>2 DEF Family
    <3>4. /\ Family(CorrelationCodes)' = Family(CorrelationCodes)
          /\ Family(ArchiveCodes)' = Family(ArchiveCodes)
      <4> HIDE DEF f
      <4>1. findings' = findings \cup {f} /\ f.code \notin CorrelationCodes
            /\ f.code \notin ArchiveCodes
        BY <3>1, <3>2, CodesApart DEF f
      <4> QED
        BY <4>1 DEF Family
    <3>5. LedgerTold'
      <4>1. CASE RejectMalformedRow
        <5>1. phase' = "correlation" /\ ledger' = "invalid"
          BY <4>1 DEF RejectMalformedRow
        <5> QED
          BY <5>1, <3>3 DEF LedgerTold, Told, BeforeLedger
      <4>2. CASE RejectRowHash \/ RejectRowLink
        <5>1. phase' = "rows" /\ ledgerInvalid' /\ ledger' = ledger /\ phase = "rows"
          BY <4>2 DEF RejectRowHash, RejectRowLink, RefuseRow
        <5> QED
          BY <5>1, <3>3, <1>2 DEF LedgerTold, BeforeLedger
      <4> QED
        BY <2>2, <4>1, <4>2
    <3> QED
      BY <1>4, <3>4, <3>5
  <2> QED
    BY <2>1, <2>2 DEF CheckLedger, LedgerNext
<1> QED
  BY <1>1, <1>3, <1>5 DEF LayerInv, Told, BeforeLedger, BeforeCorrelation,
                          BeforeArchive, BeforeCertification

LEMMA CorrelationLayerTells ==
    ASSUME SignatureInv, LedgerInv, LayerInv, ValidateCorrelations
    PROVE  LayerInv'
<1>1. /\ phase = "correlation" /\ phase' = "archive" /\ envelope # "invalid"
      /\ env \in Envelopes \ {Unparseable}
      /\ UNCHANGED <<envelope, ledgerVars, archive, bundleChecked>>
  BY DEF ValidateCorrelations, archVars, SignatureInv, LedgerInv, Layered
<1>2. /\ Told(ledger, LedgerCodes)
      /\ correlation = "absent" /\ Family(CorrelationCodes) = {}
      /\ archive = "absent" /\ Family(ArchiveCodes) = {} /\ ~bundleChecked
  BY <1>1 DEF LayerInv, LedgerTold, Told, BeforeLedger, BeforeCorrelation,
              BeforeArchive, BeforeCertification
<1>3. /\ Family(LedgerCodes)' = Family(LedgerCodes)
      /\ Family(ArchiveCodes)' = Family(ArchiveCodes)
      /\ Told(correlation, CorrelationCodes)'
  <2>1. CASE env.correlation_events = <<>>
    <3>1. UNCHANGED <<findings, correlation>>
      BY <2>1 DEF ValidateCorrelations, corrVars
    <3> QED
      BY <3>1, <1>2 DEF Family, Told
  <2>2. CASE env.correlation_events # <<>>
    <3> DEFINE S == CorrelationFindings(env)
    <3>1. /\ findings' = findings \cup S
          /\ correlation' = IF Failed(env) = {} THEN "valid" ELSE "invalid"
      BY <2>2 DEF ValidateCorrelations
    <3>2. \A f \in S : f.code \in CorrelationCodes
      BY CorrelationFamily
    <3>3. Failed(env) = {} <=> S = {}
      BY <1>1, CorrelationsTell
    <3>4. /\ Family(LedgerCodes)' = Family(LedgerCodes)
          /\ Family(ArchiveCodes)' = Family(ArchiveCodes)
          /\ Family(CorrelationCodes)' = S
      <4> HIDE DEF S
      <4>1. \A f \in S : f.code \notin LedgerCodes /\ f.code \notin ArchiveCodes
        BY <3>2, CodesApart
      <4>2. Family(CorrelationCodes)' = Family(CorrelationCodes) \cup S
        BY <3>1, <3>2 DEF Family
      <4> QED
        BY <4>1, <4>2, <1>2, <3>1 DEF Family
    <3> HIDE DEF S
    <3> QED
      BY <3>1, <3>3, <3>4 DEF Told
  <2> QED
    BY <2>1, <2>2
<1>4. LedgerTold'
  BY <1>1, <1>2, <1>3 DEF LedgerTold, Told, BeforeLedger, ledgerVars
<1> QED
  BY <1>1, <1>2, <1>3, <1>4 DEF LayerInv, Told, BeforeCorrelation, BeforeArchive,
                                BeforeCertification

LEMMA ArchiveLayerTells ==
    ASSUME SignatureInv, LedgerInv, LayerInv, ValidateArchive
    PROVE  LayerInv'
<1>1. /\ phase = "archive" /\ phase' = "certification" /\ envelope # "invalid"
      /\ env \in Envelopes \ {Unparseable}
      /\ UNCHANGED <<envelope, ledgerVars, correlation, bundleChecked>>
  BY DEF ValidateArchive, corrVars, SignatureInv, LedgerInv, Layered
<1>2. /\ Told(ledger, LedgerCodes) /\ Told(correlation, CorrelationCodes)
      /\ archive = "absent" /\ Family(ArchiveCodes) = {} /\ ~bundleChecked
  BY <1>1 DEF LayerInv, LedgerTold, Told, BeforeLedger, BeforeCorrelation,
              BeforeArchive, BeforeCertification
<1>3. /\ Family(LedgerCodes)' = Family(LedgerCodes)
      /\ Family(CorrelationCodes)' = Family(CorrelationCodes)
      /\ Told(archive, ArchiveCodes)'
  <2>1. CASE ArchiveTotal = 0
    <3>1. UNCHANGED <<findings, archive>>
      BY <2>1 DEF ValidateArchive, archVars
    <3> QED
      BY <3>1, <1>2 DEF Family, Told
  <2>2. CASE ArchiveTotal # 0
    <3> DEFINE S == ArchiveFindings(env)
               good == Cardinality(GoodRetrievals(env)) + Cardinality(GoodProbes(env))
    <3>1. /\ findings' = findings \cup S
          /\ archive' = IF good = ArchiveTotal THEN "valid" ELSE "invalid"
      BY <2>2 DEF ValidateArchive
    <3>2. \A f \in S : f.code \in ArchiveCodes
      BY ArchiveFamily
    <3>3. good = ArchiveTotal <=> S = {}
      BY <1>1, ArchiveTells DEF ArchiveTotal
    <3>4. /\ Family(LedgerCodes)' = Family(LedgerCodes)
          /\ Family(CorrelationCodes)' = Family(CorrelationCodes)
          /\ Family(ArchiveCodes)' = S
      <4> HIDE DEF S
      <4>1. \A f \in S : f.code \notin LedgerCodes /\ f.code \notin CorrelationCodes
        BY <3>2, CodesApart
      <4>2. Family(ArchiveCodes)' = Family(ArchiveCodes) \cup S
        BY <3>1, <3>2 DEF Family
      <4> QED
        BY <4>1, <4>2, <1>2, <3>1 DEF Family
    <3> HIDE DEF S, good
    <3> QED
      BY <3>1, <3>3, <3>4 DEF Told
  <2> QED
    BY <2>1, <2>2
<1>4. LedgerTold'
  BY <1>1, <1>2, <1>3 DEF LedgerTold, Told, BeforeLedger, ledgerVars
<1> QED
  BY <1>1, <1>2, <1>3, <1>4 DEF LayerInv, Told, BeforeCorrelation, BeforeArchive,
                                BeforeCertification

LEMMA CertificationKeepsLayers ==
    ASSUME SignatureInv, LayerInv, CheckCertification
    PROVE  LayerInv'
<1>1. /\ phase = "certification" /\ phase' = "exit" /\ envelope # "invalid"
      /\ UNCHANGED <<envelope, ledgerVars, correlation, archive>>
  BY DEF CheckCertification, corrVars, archVars, SignatureInv, Layered
<1>2. /\ Told(ledger, LedgerCodes) /\ Told(correlation, CorrelationCodes)
      /\ Told(archive, ArchiveCodes)
  BY <1>1 DEF LayerInv, LedgerTold, BeforeLedger
<1> DEFINE S == findings' \ findings
           Others == LedgerCodes \cup CorrelationCodes \cup ArchiveCodes
<1>3. findings \subseteq findings'
  BY DEF CheckCertification
<1>4. \A f \in S : f.code \notin Others
  <2> TAKE f \in S
  <2>1. CASE \E s \in MiscountedSections :
                 f = Finding("CERTIFICATION_COUNT_MISMATCH", s, 0)
    <3>1. f.code = "CERTIFICATION_COUNT_MISMATCH"
      BY <2>1 DEF Finding
    <3> QED
      BY <3>1 DEF LedgerCodes, CorrelationCodes, ArchiveCodes
  <2>2. CASE f = Finding("CERTIFICATION_BUNDLE_HASH_MISMATCH", "", 0)
    <3>1. f.code = "CERTIFICATION_BUNDLE_HASH_MISMATCH"
      BY <2>2 DEF Finding
    <3> QED
      BY <3>1 DEF LedgerCodes, CorrelationCodes, ArchiveCodes
  <2> QED
    BY <2>1, <2>2 DEF CheckCertification
<1>5. ASSUME NEW C \in {LedgerCodes, CorrelationCodes, ArchiveCodes}
      PROVE  Family(C)' = Family(C)
  BY <1>3, <1>4 DEF Family
<1>6. /\ Told(ledger, LedgerCodes)' /\ Told(correlation, CorrelationCodes)'
      /\ Told(archive, ArchiveCodes)'
  BY <1>1, <1>2, <1>5 DEF Told, ledgerVars
<1> QED
  BY <1>1, <1>6 DEF LayerInv, LedgerTold, BeforeLedger, BeforeCorrelation,
                    BeforeArchive, BeforeCertification

LEMMA LayerInvStep ==
    ASSUME SignatureInv, LedgerInv, LayerInv, [Next]_vars
    PROVE  LayerInv'
<1>1. CASE UNCHANGED vars
  <2>1. UNCHANGED <<phase, envelope, findings, ledgerVars, correlation, archive,
                    bundleChecked>>
    BY <1>1 DEF vars, corrVars, archVars
  <2> QED
    BY <2>1, SameLayers DEF LayerInv, LedgerTold, Told, ledgerVars
<1>2. CASE FailParse
  <2>1. /\ phase = "parse" /\ phase' = "exited"
        /\ UNCHANGED <<envelope, findings, ledgerVars, correlation, archive,
                       bundleChecked>>
    BY <1>2 DEF FailParse, corrVars, archVars
  <2>2. envelope # "invalid" /\ LedgerTold
    BY <2>1 DEF SignatureInv, LayerInv
  <2>3. Told(ledger, LedgerCodes)
    BY <2>1, <2>2 DEF LedgerTold, Told, BeforeLedger
  <2> QED
    BY <2>1, <2>2, <2>3, SameLayers
       DEF LayerInv, LedgerTold, Told, ledgerVars, BeforeLedger, BeforeCorrelation,
           BeforeArchive, BeforeCertification
<1>3. CASE RejectVersion \/ RejectCertificationVersion \/ RejectSignature
  BY <1>3, EnvelopeAlone
<1>4. CASE AcceptSignature
  <2>1. /\ phase = "parse" /\ phase' = "ledger"
        /\ envelope' \in {"valid", "untrusted"} /\ envelope = "absent"
        /\ UNCHANGED <<findings, ledgerVars, correlation, archive, bundleChecked>>
    BY <1>4 DEF AcceptSignature, corrVars, archVars, SignatureInv
  <2> QED
    BY <2>1, SameLayers
       DEF LayerInv, LedgerTold, Told, ledgerVars, BeforeLedger, BeforeCorrelation,
           BeforeArchive, BeforeCertification
<1>5. CASE CheckLedger
  BY <1>5, LedgerTells
<1>6. CASE ValidateCorrelations
  BY <1>6, CorrelationLayerTells
<1>7. CASE ValidateArchive
  BY <1>7, ArchiveLayerTells
<1>8. CASE CheckCertification
  BY <1>8, CertificationKeepsLayers
<1>9. CASE ExitEnvelope
  <2>1. /\ phase = "exit" /\ phase' = "exited"
        /\ UNCHANGED <<envelope, findings, ledgerVars, correlation, archive,
                       bundleChecked>>
    BY <1>9 DEF ExitEnvelope, corrVars, archVars
  <2> QED
    BY <2>1, SameLayers
       DEF LayerInv, LedgerTold, Told, ledgerVars, BeforeLedger, BeforeCorrelation,
           BeforeArchive, BeforeCertification
<1> QED
  BY <1>1, <1>2, <1>3, <1>4, <1>5, <1>6, <1>7, <1>8, <1>9 DEF Next

(***************************************************************************)
(* Sections of any length: when all is checked each layer is "invalid"     *)
(* exactly when a finding of its own family says why, and a refused        *)
(* envelope has one finding and nothing else.                              *)
(***************************************************************************)
THEOREM LayersAreExplained == Spec => []LayersMatchFindings
<1>1. ASSUME LayerInv
      PROVE  LayersMatchFindings
  <2>1. CASE envelope = "invalid"
    <3>1. Alone
      BY <1>1, <2>1 DEF LayerInv
    <3>2. /\ Family(LedgerCodes) = {} /\ Family(CorrelationCodes) = {}
          /\ Family(ArchiveCodes) = {}
      BY <3>1 DEF Alone, Family
    <3> QED
      BY <3>1, <3>2 DEF Alone, LayersMatchFindings
  <2>2. CASE envelope # "invalid"
    BY <1>1, <2>2 DEF LayerInv, LedgerTold, Told, BeforeLedger, LayersMatchFindings
  <2> QED
    BY <2>1, <2>2
<1>2. Init => LayerInv
  BY DEF Init, LedgerInit, LayerInv, LedgerTold, Told, Family, BeforeLedger
<1>3. SignatureInv /\ LedgerInv /\ LayerInv /\ [Next]_vars => LayerInv'
  BY LayerInvStep
<1>4. SignatureInv /\ [Next]_vars => SignatureInv'
  BY SignatureStep
<1>5. Init => SignatureInv
  BY SignatureInit
<1> QED
  BY <1>1, <1>2, <1>3, <1>4, <1>5, LedgerAlways, PTL DEF Spec

-----------------------------------------------------------------------------
(* What a "valid" correlation layer says.                                   *)

LEMMA LastExists ==
    ASSUME NEW n \in Nat, NEW I \in SUBSET (1..n), I # {}
    PROVE  LastIn(I) \in I /\ \A j \in I : j <= LastIn(I)
<1> DEFINE J == {k \in 1..n : n + 1 - k \in I}
<1>1. J \in SUBSET (1..n) /\ J # {}
  <2>1. PICK i \in I : i \in 1..n
    OBVIOUS
  <2>2. n + 1 - i \in 1..n /\ n + 1 - (n + 1 - i) = i
    BY <2>1
  <2> QED
    BY <2>1, <2>2
<1>2. PICK k \in J : \A j \in J : k <= j
  <2> HIDE DEF J
  <2> QED
    BY <1>1, FirstExists
<1> DEFINE last == n + 1 - k
<1>3. last \in I
  OBVIOUS
<1>4. ASSUME NEW i \in I
      PROVE  i <= last
  <2>1. i \in 1..n /\ k \in 1..n
    OBVIOUS
  <2>2. n + 1 - i \in 1..n /\ n + 1 - (n + 1 - i) = i
    BY <2>1
  <2>3. n + 1 - i \in J
    BY <2>2
  <2>4. k <= n + 1 - i
    BY <1>2, <2>3
  <2> QED
    BY <2>1, <2>4
<1> HIDE DEF last
<1> QED
  BY <1>3, <1>4 DEF LastIn

(* A record without a failure and alone with its identity is anchored.      *)
LEMMA UnfailedIsAnchored ==
    ASSUME NEW v \in Envelopes \ {Unparseable}, Failed(v) = {},
           NEW i \in DOMAIN v.correlation_events
    PROVE  LET c == v.correlation_events[i] IN
           /\ \A j \in DOMAIN v.correlation_events :
                i # j => Identity(v.correlation_events[i])
                           # Identity(v.correlation_events[j])
           /\ \/ \E k \in DOMAIN v.evaluations : AllowedBy(v.evaluations[k], c)
              \/ \E k \in DOMAIN v.verification_events :
                   AdmittedBy(v.verification_events[k], c)
           /\ v.org_id # "" => c.organization_id \in {"", v.org_id}
<1> DEFINE c == v.correlation_events[i]
<1>1. RecordFailure(v, c) = {} /\ Group(v, i) = {i}
  BY DEF Failed
<1>2. /\ ~OutsideExport(v, c) /\ ~DecisionMismatch(v, c) /\ ~LifecycleInvalid(v, c)
      /\ ~OrgMismatch(v, c)
  <2> HIDE DEF c
  <2> QED
    BY <1>1 DEF RecordFailure
<1>3. \A j \in DOMAIN v.correlation_events :
        i # j => Identity(v.correlation_events[i]) # Identity(v.correlation_events[j])
  BY <1>1 DEF Group
<1>4. /\ Len(v.evaluations) \in Nat
      /\ DOMAIN v.evaluations = 1..Len(v.evaluations)
      /\ Len(v.verification_events) \in Nat
      /\ DOMAIN v.verification_events = 1..Len(v.verification_events)
  <2>1. "evaluations" \in CountedSections /\ "verification_events" \in CountedSections
    BY DEF CountedSections
  <2>2. \A s \in CountedSections :
          Len(v[s]) \in Nat /\ DOMAIN v[s] = 1..Len(v[s])
    BY SectionsAssumption
  <2> QED
    BY <2>1, <2>2
<1>5. ASSUME HasDec(v, c)
      PROVE  \E k \in DOMAIN v.evaluations : AllowedBy(v.evaluations[k], c)
  <2> DEFINE k == LastIn(DecisionRows(v, c))
             d == v.evaluations[k]
  <2>1. k \in DecisionRows(v, c)
    <3>1. DecisionRows(v, c) \in SUBSET (1..Len(v.evaluations))
      BY <1>4 DEF DecisionRows
    <3> HIDE DEF c
    <3> QED
      BY <1>4, <1>5, <3>1, LastExists DEF HasDec
  <2>2. k \in DOMAIN v.evaluations /\ d.lite_ok
        /\ d.permit_token_hash = c.permit_token_hash
    BY <2>1 DEF DecisionRows
  <2>3. Dec(v, c) = d
    BY DEF Dec
  <2>4. d.decision = "allow" /\ (c.decision_id = "" \/ d.id \in {"", c.decision_id})
    <3> HIDE DEF c, d
    <3> QED
      BY <1>2, <1>5, <2>3 DEF LifecycleInvalid, DecisionMismatch
  <2>5. AllowedBy(d, c)
    BY <2>2, <2>4 DEF AllowedBy
  <2>6. k \in DOMAIN v.evaluations /\ AllowedBy(v.evaluations[k], c)
    BY <2>2, <2>5
  <2> HIDE DEF k, c
  <2> QED
    BY <2>6
<1>6. ASSUME ~HasDec(v, c)
      PROVE  \E k \in DOMAIN v.verification_events :
               AdmittedBy(v.verification_events[k], c)
  <2> DEFINE k == LastIn(VerificationRows(v, c))
             w == v.verification_events[k]
  <2>1. k \in VerificationRows(v, c)
    <3>1. VerificationRows(v, c) \in SUBSET (1..Len(v.verification_events))
      BY <1>4 DEF VerificationRows
    <3>2. VerificationRows(v, c) # {}
      BY <1>2, <1>6 DEF OutsideExport, HasVer
    <3> HIDE DEF c
    <3> QED
      BY <1>4, <3>1, <3>2, LastExists
  <2>2. /\ k \in DOMAIN v.verification_events
        /\ \/ c.permit_token_hash # "" /\ w.permit_token_hash = c.permit_token_hash
           \/ c.decision_id # "" /\ w.decision_id = c.decision_id
    BY <2>1 DEF VerificationRows
  <2>3. Ver(v, c) = w
    BY DEF Ver
  <2>4. w.outcome \in {"verified", "mismatch", ""}
        /\ (c.decision_id = "" \/ w.decision_id \in {"", c.decision_id})
    <3> HIDE DEF c, w
    <3> QED
      BY <1>2, <1>6, <2>3 DEF LifecycleInvalid, DecisionMismatch,
                              VerificationOutcomeAdmitsExecution
  <2>5. AdmittedBy(w, c)
    BY <2>2, <2>4 DEF AdmittedBy
  <2>6. k \in DOMAIN v.verification_events /\ AdmittedBy(v.verification_events[k], c)
    BY <2>2, <2>5
  <2> HIDE DEF k, c
  <2> QED
    BY <2>6
<1>7. v.org_id # "" => c.organization_id \in {"", v.org_id}
  BY <1>2 DEF OrgMismatch, BindingAgrees
<1>8. \/ \E k \in DOMAIN v.evaluations : AllowedBy(v.evaluations[k], c)
      \/ \E k \in DOMAIN v.verification_events : AdmittedBy(v.verification_events[k], c)
  BY <1>5, <1>6
<1> QED
  BY <1>3, <1>7, <1>8

(* The printed counts, once and for all records.                            *)

LEMMA PartsOf ==
    ASSUME NEW V, IsFiniteSet(V), NEW A \in SUBSET V, NEW B \in SUBSET V,
           A \cap B = {}
    PROVE  /\ Cardinality(A) \in Nat /\ Cardinality(B) \in Nat
           /\ Cardinality(V) \in Nat
           /\ Cardinality(A) + Cardinality(B) <= Cardinality(V)
           /\ A \cup B = V => Cardinality(A) + Cardinality(B) = Cardinality(V)
<1>1. IsFiniteSet(A) /\ IsFiniteSet(B)
  BY FS_Subset
<1>2. Cardinality(A \cup B) = Cardinality(A) + Cardinality(B)
  <2>1. Cardinality(A \cup B)
          = Cardinality(A) + Cardinality(B) - Cardinality(A \cap B)
    BY <1>1, FS_Union
  <2>2. Cardinality(A \cap B) = 0
    BY FS_EmptySet
  <2> QED
    BY <1>1, <2>1, <2>2, FS_CardinalityType
<1>3. Cardinality(A \cup B) <= Cardinality(V)
  BY FS_Subset
<1> QED
  BY <1>1, <1>2, <1>3, FS_CardinalityType

LEMMA CorrelationStagesAddUp ==
    ASSUME NEW v \in Envelopes \ {Unparseable}
    PROVE  /\ IsFiniteSet(VerifiedCorrelations(v))
           /\ CorrelationStages(v).permit_resolved = Cardinality(VerifiedCorrelations(v))
           /\ CorrelationStages(v).observed + CorrelationStages(v).not_observed
                <= Cardinality(VerifiedCorrelations(v))
<1> DEFINE V == VerifiedCorrelations(v)
           A == {i \in V : v.correlation_events[i].correlation_status
                              \in {"MATCH", "MISMATCH"}}
           B == {i \in V : v.correlation_events[i].correlation_status
                              \in {"NOT_OBSERVED"}}
<1>1. IsFiniteSet(V)
  <2>1. IsFiniteSet(1..Len(v.correlation_events))
    BY SectionsAreLists, FS_Interval
  <2>2. V \in SUBSET (1..Len(v.correlation_events))
    BY SectionsAreLists DEF VerifiedCorrelations
  <2> QED
    BY <2>1, <2>2, FS_Subset
<1>2. A \in SUBSET V /\ B \in SUBSET V /\ A \cap B = {}
  OBVIOUS
<1>3. Cardinality(A) + Cardinality(B) <= Cardinality(V)
  <2> HIDE DEF A, B, V
  <2> QED
    BY <1>1, <1>2, PartsOf
<1>4. /\ CorrelationStages(v).permit_resolved = Cardinality(V)
      /\ CorrelationStages(v).observed = Cardinality(A)
      /\ CorrelationStages(v).not_observed = Cardinality(B)
  BY DEF CorrelationStages, WithStatus
<1> HIDE DEF A, B, V
<1> QED
  BY <1>1, <1>3, <1>4 DEF V

(* A record without a failure has a status of the vocabulary.               *)
LEMMA GoodStatus ==
    ASSUME NEW v
    PROVE  /\ \A i \in GoodRetrievals(v) :
                v.retrieval_events[i].retrieval_status \in {"retrieved", "denied"}
           /\ \A i \in GoodProbes(v) : v.probe_events[i].probe_status \in ProbeStatuses
<1>1. ASSUME NEW rows, NEW i, NEW status, NEW known,
             CommonFailures(v, rows, i, status, known) = {}
      PROVE  status \in known
  <2>1. /\ "ARCHIVE_REFERENCE_MISSING" \notin CommonFailures(v, rows, i, status, known)
        /\ "ARCHIVE_OUTCOME_UNKNOWN" \notin CommonFailures(v, rows, i, status, known)
    BY <1>1
  <2>2. ~BlankText(status)
    BY <2>1 DEF CommonFailures
  <2>3. ~OutcomeUnknown(status, known)
    BY <2>1 DEF CommonFailures
  <2> QED
    BY <2>2, <2>3 DEF BlankText, OutcomeUnknown
<1>2. ASSUME NEW i \in GoodRetrievals(v)
      PROVE  v.retrieval_events[i].retrieval_status \in {"retrieved", "denied"}
  <2>1. CommonFailures(v, v.retrieval_events, i,
                       v.retrieval_events[i].retrieval_status,
                       {"retrieved", "denied"}) = {}
    BY DEF GoodRetrievals, RetrievalFailures
  <2> QED
    BY <2>1, <1>1
<1>3. ASSUME NEW i \in GoodProbes(v)
      PROVE  v.probe_events[i].probe_status \in ProbeStatuses
  <2>1. CommonFailures(v, v.probe_events, i, v.probe_events[i].probe_status,
                       ProbeStatuses) = {}
    BY DEF GoodProbes, ProbeFailures
  <2> QED
    BY <2>1, <1>1
<1> QED
  BY <1>2, <1>3

LEMMA GoodIsFinite ==
    ASSUME NEW v \in Envelopes \ {Unparseable}
    PROVE  IsFiniteSet(GoodRetrievals(v)) /\ IsFiniteSet(GoodProbes(v))
<1>1. /\ IsFiniteSet(1..Len(v.retrieval_events))
      /\ IsFiniteSet(1..Len(v.probe_events))
  BY SectionsAreLists, FS_Interval
<1>2. /\ GoodRetrievals(v) \in SUBSET (1..Len(v.retrieval_events))
      /\ GoodProbes(v) \in SUBSET (1..Len(v.probe_events))
  BY SectionsAreLists DEF GoodRetrievals, GoodProbes
<1> QED
  BY <1>1, <1>2, FS_Subset

LEMMA ArchiveStagesAddUp ==
    ASSUME NEW v \in Envelopes \ {Unparseable}
    PROVE  LET s == ArchiveStages(v) IN
           /\ s.retrieval_attempted = Cardinality(GoodRetrievals(v))
           /\ s.retrieval_succeeded + s.retrieval_failed = s.retrieval_attempted
           /\ s.probe_executed = Cardinality(GoodProbes(v))
           /\ s.integrity_confirmed + s.integrity_failed + s.integrity_inconclusive
                = s.probe_executed
<1> DEFINE R == GoodRetrievals(v)
           P == GoodProbes(v)
           As(x) == {i \in R : v.retrieval_events[i].retrieval_status = x}
           In(S) == {i \in P : v.probe_events[i].probe_status \in S}
           s == ArchiveStages(v)
<1>1. /\ s.retrieval_attempted = Cardinality(R)
      /\ s.retrieval_succeeded = Cardinality(As("retrieved"))
      /\ s.retrieval_failed = Cardinality(As("denied"))
      /\ s.probe_executed = Cardinality(P)
      /\ s.integrity_confirmed = Cardinality(In({"verified"}))
      /\ s.integrity_failed = Cardinality(In({"mismatch", "unreadable"}))
      /\ s.integrity_inconclusive = Cardinality(In({"inconclusive"}))
  BY DEF ArchiveStages, RetrievalsAs, ProbesIn
<1>2. Cardinality(As("retrieved")) + Cardinality(As("denied")) = Cardinality(R)
  <2>1. /\ As("retrieved") \in SUBSET R /\ As("denied") \in SUBSET R
        /\ As("retrieved") \cap As("denied") = {}
    OBVIOUS
  <2>2. As("retrieved") \cup As("denied") = R
    BY GoodStatus
  <2>3. IsFiniteSet(R)
    BY GoodIsFinite
  <2> HIDE DEF As, R
  <2> QED
    BY <2>1, <2>2, <2>3, PartsOf
<1>3. Cardinality(In({"verified"})) + Cardinality(In({"mismatch", "unreadable"}))
        + Cardinality(In({"inconclusive"})) = Cardinality(P)
  <2> DEFINE A == In({"verified"})
             B == In({"mismatch", "unreadable"})
             C == In({"inconclusive"})
  <2>1. /\ A \in SUBSET P /\ B \in SUBSET P /\ C \in SUBSET P /\ A \cap B = {}
        /\ (A \cup B) \cap C = {}
    OBVIOUS
  <2>2. (A \cup B) \cup C = P
    BY GoodStatus DEF ProbeStatuses
  <2>3. IsFiniteSet(P)
    BY GoodIsFinite
  <2> HIDE DEF A, B, C, P
  <2>4. A \cup B \in SUBSET P /\ IsFiniteSet(A \cup B) /\ A \in SUBSET (A \cup B)
        /\ B \in SUBSET (A \cup B)
    BY <2>1, <2>3, FS_Subset
  <2>5. Cardinality(A) + Cardinality(B) = Cardinality(A \cup B)
    BY <2>1, <2>4, PartsOf
  <2>6. Cardinality(A \cup B) + Cardinality(C) = Cardinality(P)
    BY <2>1, <2>2, <2>3, <2>4, PartsOf
  <2>7. Cardinality(A) + Cardinality(B) + Cardinality(C) = Cardinality(P)
    BY <2>5, <2>6
  <2> QED
    BY <2>7 DEF A, B, C
<1> HIDE DEF R, P, As, In, s
<1> QED
  BY <1>1, <1>2, <1>3 DEF R, P, s

(* Of two records with one id at most the first is good.                    *)
LEMMA GoodIdsDiffer ==
    ASSUME NEW v \in Envelopes \ {Unparseable}
    PROVE  Cardinality(GoodRetrievals(v)) <=
             Cardinality({v.retrieval_events[i].id :
                            i \in DOMAIN v.retrieval_events} \ {"", " "})
<1> DEFINE R == GoodRetrievals(v)
           rows == v.retrieval_events
           All == {rows[i].id : i \in DOMAIN rows}
           Ids == All \ {"", " "}
           id == [i \in R |-> rows[i].id]
           any == [i \in 1..Len(rows) |-> rows[i].id]
<1>1. Len(rows) \in Nat /\ DOMAIN rows = 1..Len(rows)
  BY SectionsAreLists
<1>2. R \subseteq DOMAIN rows
  BY DEF GoodRetrievals
<1>3. ASSUME NEW i \in R
      PROVE  ~BlankText(rows[i].id) /\ ~Repeated(rows, i)
  <2> DEFINE F == CommonFailures(v, rows, i, rows[i].retrieval_status,
                                 {"retrieved", "denied"})
  <2>1. F = {}
    BY DEF GoodRetrievals, RetrievalFailures
  <2>2. "ARCHIVE_REFERENCE_MISSING" \notin F /\ "ARCHIVE_DUPLICATE" \notin F
    BY <2>1
  <2> QED
    BY <2>2 DEF CommonFailures
<1>4. ASSUME NEW i \in R, NEW j \in R, i < j
      PROVE  rows[i].id # rows[j].id
  <2>1. i \in 1..(j - 1)
    BY <1>1, <1>2, <1>4
  <2> QED
    BY <2>1, <1>3 DEF Repeated, BlankText
<1>5. id \in Injection(R, Ids)
  <2>1. \A i \in R : rows[i].id \in Ids
    BY <1>2, <1>3 DEF BlankText
  <2>2. \A i, j \in R : rows[i].id = rows[j].id => i = j
    BY <1>1, <1>2, <1>4
  <2> HIDE DEF R, Ids
  <2>3. id \in [R -> Ids]
    BY <2>1
  <2>4. \A i, j \in R : id[i] = id[j] => i = j
    BY <2>2
  <2> HIDE DEF id
  <2> QED
    BY <2>3, <2>4 DEF Injection, IsInjective
<1>6. IsFiniteSet(Ids)
  <2>1. any \in Surjection(1..Len(rows), All)
    BY <1>1 DEF Surjection
  <2>2. IsFiniteSet(1..Len(rows))
    BY <1>1, FS_Interval
  <2>3. IsFiniteSet(All)
    <3> HIDE DEF any, All
    <3> QED
      BY <2>1, <2>2, FS_Surjection
  <2> HIDE DEF All
  <2> QED
    BY <2>3, FS_Subset
<1> HIDE DEF R, Ids, id
<1>7. Cardinality(R) <= Cardinality(Ids)
  BY <1>5, <1>6, FS_Injection
<1> QED
  BY <1>7 DEF R, Ids

(* Each section is judged as a whole in one step: its results are those it  *)
(* began with, or those of all its records.                                 *)

CorrelationsOpen ==
    correlation = "absent" /\ corrVerified = 0 /\ stages = NoStages

CorrelationsJudged ==
    /\ env \in Envelopes \ {Unparseable}
    /\ correlation = "valid" => Failed(env) = {}
    /\ corrVerified = Cardinality(VerifiedCorrelations(env))
    /\ stages = CorrelationStages(env)

ArchiveOpen == archVerified = 0 /\ archStages = NoArchiveStages

ArchiveJudged ==
    /\ env \in Envelopes \ {Unparseable}
    /\ archVerified = Cardinality(GoodRetrievals(env)) + Cardinality(GoodProbes(env))
    /\ archStages = ArchiveStages(env)

CountInv ==
    /\ CorrelationsOpen \/ CorrelationsJudged
    /\ ArchiveOpen \/ ArchiveJudged

LEMMA CountStep ==
    ASSUME LedgerInv, CountInv, [Next]_vars
    PROVE  CountInv'
<1>1. CASE UNCHANGED <<env, corrVars, archVars>>
  BY <1>1 DEF CountInv, CorrelationsOpen, CorrelationsJudged, ArchiveOpen,
              ArchiveJudged, corrVars, archVars
<1>2. CASE ValidateCorrelations
  <2>1. env \in Envelopes \ {Unparseable} /\ UNCHANGED <<env, archVars>>
    BY <1>2 DEF ValidateCorrelations, inputVars, LedgerInv, Layered
  <2>2. CorrelationsOpen' \/ CorrelationsJudged'
    <3>1. CASE UNCHANGED corrVars
      BY <2>1, <3>1 DEF CountInv, CorrelationsOpen, CorrelationsJudged, corrVars
    <3>2. CASE ~UNCHANGED corrVars
      BY <1>2, <2>1, <3>2 DEF ValidateCorrelations, CorrelationsJudged, corrVars
    <3> QED
      BY <3>1, <3>2
  <2> QED
    BY <2>1, <2>2 DEF CountInv, ArchiveOpen, ArchiveJudged, archVars
<1>3. CASE ValidateArchive
  <2>1. env \in Envelopes \ {Unparseable} /\ UNCHANGED <<env, corrVars>>
    BY <1>3 DEF ValidateArchive, inputVars, LedgerInv, Layered
  <2>2. ArchiveOpen' \/ ArchiveJudged'
    <3>1. CASE UNCHANGED archVars
      BY <2>1, <3>1 DEF CountInv, ArchiveOpen, ArchiveJudged, archVars
    <3>2. CASE ~UNCHANGED archVars
      BY <1>3, <2>1, <3>2 DEF ValidateArchive, ArchiveJudged, archVars
    <3> QED
      BY <3>1, <3>2
  <2> QED
    BY <2>1, <2>2 DEF CountInv, CorrelationsOpen, CorrelationsJudged, corrVars
<1>4. CASE UNCHANGED vars
  BY <1>1, <1>4 DEF vars, inputVars
<1>5. CASE FailParse \/ AcceptSignature \/ CheckCertification \/ ExitEnvelope
  BY <1>1, <1>5 DEF FailParse, AcceptSignature, CheckCertification, ExitEnvelope,
                    inputVars
<1>6. CASE RejectVersion \/ RejectCertificationVersion \/ RejectSignature
  BY <1>1, <1>6 DEF RejectVersion, RejectCertificationVersion, RejectSignature,
                    RejectEnvelope, inputVars
<1>7. CASE CheckLedger
  <2>1. UNCHANGED env
    BY <1>7 DEF CheckLedger, LedgerNext, SkipLedger, RejectMalformedRow, BeginLedger,
                RejectRowHash, RejectRowLink, RefuseRow, AcceptRow, FinishLedger
  <2> QED
    BY <1>1, <1>7, <2>1 DEF CheckLedger
<1> QED
  BY <1>2, <1>3, <1>4, <1>5, <1>6, <1>7 DEF Next

LEMMA CountAlways == Spec => []CountInv
<1>1. Init => CountInv
  BY DEF Init, CountInv, CorrelationsOpen, ArchiveOpen
<1>2. LedgerInv /\ CountInv /\ [Next]_vars => CountInv'
  BY CountStep
<1> QED
  BY <1>1, <1>2, LedgerAlways, PTL DEF Spec

(***************************************************************************)
(* Sections of any length: each record of a "valid" correlation layer has  *)
(* in this export its decision or its permit check, and an identity of its *)
(* own.                                                                    *)
(***************************************************************************)
THEOREM CorrelationsHaveAnchors == Spec => []CorrelationsAreAnchored
<1>1. ASSUME CountInv
      PROVE  CorrelationsAreAnchored
  <2> SUFFICES ASSUME correlation = "valid", NEW i \in DOMAIN Corrs
               PROVE
                 /\ \A j \in DOMAIN Corrs :
                      i # j => \/ Corrs[i].decision_id # Corrs[j].decision_id
                               \/ Corrs[i].permit_token_hash # Corrs[j].permit_token_hash
                               \/ Corrs[i].provider_request_id # Corrs[j].provider_request_id
                 /\ \/ \E k \in DOMAIN Rows : AllowedBy(Rows[k], Corrs[i])
                    \/ \E k \in DOMAIN env.verification_events :
                         AdmittedBy(env.verification_events[k], Corrs[i])
                 /\ env.org_id # "" => Corrs[i].organization_id \in {"", env.org_id}
    BY DEF CorrelationsAreAnchored
  <2>1. env \in Envelopes \ {Unparseable} /\ Failed(env) = {}
    BY <1>1 DEF CountInv, CorrelationsOpen, CorrelationsJudged
  <2>2. i \in DOMAIN env.correlation_events
    BY DEF Corrs
  <2> QED
    BY <2>1, <2>2, UnfailedIsAnchored DEF Corrs, Rows, Identity
<1> QED
  BY <1>1, CountAlways, PTL

(***************************************************************************)
(* Sections of any length: the printed breakdowns are partitions of what   *)
(* was verified.                                                           *)
(***************************************************************************)
THEOREM BreakdownsArePartitions == Spec => []StagesAddUp
<1>1. ASSUME CountInv
      PROVE  StagesAddUp
  <2>1. /\ stages.permit_resolved = corrVerified
        /\ stages.observed + stages.not_observed <= corrVerified
    <3>1. CASE CorrelationsOpen
      BY <3>1 DEF CorrelationsOpen, NoStages
    <3>2. CASE CorrelationsJudged
      BY <3>2, CorrelationStagesAddUp DEF CorrelationsJudged
    <3> QED
      BY <1>1, <3>1, <3>2 DEF CountInv
  <2>2. /\ archStages.retrieval_succeeded + archStages.retrieval_failed
             = archStages.retrieval_attempted
        /\ archStages.integrity_confirmed + archStages.integrity_failed
             + archStages.integrity_inconclusive = archStages.probe_executed
        /\ archStages.retrieval_attempted + archStages.probe_executed = archVerified
    <3>1. CASE ArchiveOpen
      BY <3>1 DEF ArchiveOpen, NoArchiveStages
    <3>2. CASE ArchiveJudged
      BY <3>2, ArchiveStagesAddUp DEF ArchiveJudged
    <3> QED
      BY <1>1, <3>1, <3>2 DEF CountInv
  <2> QED
    BY <2>1, <2>2 DEF StagesAddUp
<1> QED
  BY <1>1, CountAlways, PTL

(***************************************************************************)
(* An archive section of any length, damaged or not: no more disclosures   *)
(* are counted than there are ids.                                         *)
(***************************************************************************)
THEOREM DisclosuresAreDistinct == Spec => []DisclosuresCountedOnce
<1>1. ASSUME LedgerInv, CountInv
      PROVE  DisclosuresCountedOnce
  <2> DEFINE All == {env.retrieval_events[i].id : i \in DOMAIN env.retrieval_events}
             rows == env.retrieval_events
             any == [i \in 1..Len(rows) |-> rows[i].id]
  <2> SUFFICES ASSUME phase = "certification"
               PROVE  archStages.retrieval_attempted <= Cardinality(All \ {"", " "})
    BY DEF DisclosuresCountedOnce
  <2>1. env \in Envelopes \ {Unparseable}
    BY <1>1 DEF LedgerInv, Layered
  <2>2. CASE ArchiveOpen
    <3>1. Len(rows) \in Nat /\ DOMAIN rows = 1..Len(rows)
      BY <2>1, SectionsAreLists
    <3>2. any \in Surjection(1..Len(rows), All)
      BY <3>1 DEF Surjection
    <3>3. IsFiniteSet(1..Len(rows))
      <4>1. \A n \in Nat : IsFiniteSet(1..n)
        BY FS_Interval
      <4> HIDE DEF rows
      <4> QED
        BY <3>1, <4>1
    <3>4. IsFiniteSet(All \ {"", " "})
      <4> HIDE DEF any, All
      <4>1. IsFiniteSet(All)
        BY <3>2, <3>3, FS_Surjection
      <4> QED
        BY <4>1, FS_Subset
    <3>5. Cardinality(All \ {"", " "}) \in Nat
      <4> HIDE DEF All
      <4> QED
        BY <3>4, FS_CardinalityType
    <3>6. archStages.retrieval_attempted = 0
      BY <2>2 DEF ArchiveOpen, NoArchiveStages
    <3> DEFINE ids == Cardinality(All \ {"", " "})
    <3>7. \A n \in Nat : 0 <= n
      OBVIOUS
    <3>8. archStages.retrieval_attempted <= ids
      <4> HIDE DEF ids, All
      <4> QED
        BY <3>5, <3>6, <3>7 DEF ids
    <3> QED
      BY <3>8
  <2>3. CASE ArchiveJudged
    <3>1. archStages.retrieval_attempted = Cardinality(GoodRetrievals(env))
      BY <2>3 DEF ArchiveJudged, ArchiveStages
    <3> QED
      BY <2>1, <3>1, GoodIdsDiffer
  <2> QED
    BY <1>1, <2>2, <2>3 DEF CountInv
<1> QED
  BY <1>1, LedgerAlways, CountAlways, PTL

-----------------------------------------------------------------------------
(* No false alarm.                                                          *)

LEMMA GenuineUnfailed ==
    ASSUME env \in Envelopes \ {Unparseable}, Genuine
    PROVE  Failed(env) = {}
<1> DEFINE V == env.verification_events
<1>1. ASSUME NEW i \in DOMAIN Corrs
      PROVE  RecordFailure(env, Corrs[i]) = {} /\ Group(env, i) = {i}
  <2> DEFINE c == Corrs[i]
  <2>1. PICK k \in DOMAIN Rows :
          /\ Rows[k].permit_token_hash = c.permit_token_hash
          /\ Rows[k].id = c.decision_id
          /\ Rows[k].decision = "allow"
          /\ Rows[k].organization_id \in {"", env.org_id}
    BY DEF Genuine
  <2>2. PICK w \in DOMAIN V :
          /\ V[w].permit_token_hash = c.permit_token_hash
          /\ V[w].presented_action_type = c.presented_action_type
          /\ V[w].presented_payload_hash = c.presented_payload_hash
    BY DEF Genuine
  <2>3. /\ c.permit_token_hash # "" /\ c.organization_id \in {"", env.org_id}
        /\ Rows[k].lite_ok
    BY <2>1 DEF Genuine
  <2>4. /\ Len(Rows) \in Nat /\ DOMAIN Rows = 1..Len(Rows)
        /\ Len(V) \in Nat /\ DOMAIN V = 1..Len(V)
    <3>1. "evaluations" \in CountedSections /\ "verification_events" \in CountedSections
      BY DEF CountedSections
    <3>2. \A s \in CountedSections :
            Len(env[s]) \in Nat /\ DOMAIN env[s] = 1..Len(env[s])
      BY SectionsAssumption
    <3> QED
      BY <3>1, <3>2 DEF Rows
  <2>5. DecisionRows(env, c) = {k}
    <3>1. k \in DecisionRows(env, c)
      BY <2>1, <2>3 DEF DecisionRows, Rows
    <3>2. ASSUME NEW j \in DecisionRows(env, c)
          PROVE  j = k
      <4>1. \A x, y \in DOMAIN Rows :
              x # y => Rows[x].permit_token_hash # Rows[y].permit_token_hash
        BY DEF Genuine, Unambiguous
      <4>2. j \in DOMAIN Rows
            /\ Rows[j].permit_token_hash = Rows[k].permit_token_hash
        BY <2>1 DEF DecisionRows, Rows
      <4> QED
        BY <4>1, <4>2
    <3> QED
      BY <3>1, <3>2
  <2>6. VerificationRows(env, c) = {w}
    <3> DEFINE at == {j \in DOMAIN V : c.permit_token_hash # ""
                                        /\ V[j].permit_token_hash = c.permit_token_hash}
    <3>1. w \in at
      BY <2>2, <2>3
    <3>2. ASSUME NEW j \in at
          PROVE  j = w
      <4>1. \A x, y \in DOMAIN V :
              x # y => V[x].permit_token_hash # V[y].permit_token_hash
        BY DEF Genuine, Unambiguous
      <4>2. j \in DOMAIN V /\ V[j].permit_token_hash = V[w].permit_token_hash
        BY <2>2
      <4> QED
        BY <4>1, <4>2
    <3>3. at = {w}
      BY <3>1, <3>2
    <3> QED
      BY <3>3 DEF VerificationRows
  <2>7. LastIn({k}) = k /\ LastIn({w}) = w
    <3>1. LastIn({k}) \in {k}
      BY <2>4, LastExists
    <3>2. LastIn({w}) \in {w}
      BY <2>4, LastExists
    <3> QED
      BY <3>1, <3>2
  <2>8. /\ HasDec(env, c) /\ Dec(env, c) = Rows[k]
        /\ HasVer(env, c) /\ Ver(env, c) = V[w]
    BY <2>5, <2>6, <2>7 DEF HasDec, HasVer, Dec, Ver, Rows
  <2> HIDE DEF c
  <2>9. /\ ~ReferenceMissing(c) /\ ~OutsideExport(env, c)
        /\ ~DecisionMismatch(env, c) /\ ~LifecycleInvalid(env, c)
    BY <2>1, <2>3, <2>8 DEF ReferenceMissing, OutsideExport, DecisionMismatch,
                            LifecycleInvalid
  <2>10. ~ActionMismatch(env, c) /\ ~TargetMismatch(env, c)
    BY <2>2, <2>8 DEF ActionMismatch, TargetMismatch, BindingAgrees
  <2>11. ~OrgMismatch(env, c)
    BY <2>1, <2>3, <2>8 DEF OrgMismatch, AnchorOrg, BindingAgrees
  <2>12. RecordFailure(env, c) = {}
    BY <2>9, <2>10, <2>11 DEF RecordFailure
  <2>13. Group(env, i) = {i}
    BY DEF Group, Genuine, Unambiguous, Corrs
  <2> QED
    BY <2>12, <2>13 DEF c
<1> QED
  BY <1>1 DEF Failed, Corrs

Spotless ==
    /\ findings = {} /\ ~ledgerInvalid
    /\ ledger # "invalid" /\ correlation # "invalid" /\ archive # "invalid"

PolicyInv ==
    /\ phase = "exit" => env # Unparseable
    /\ phase = "exited" /\ exit # 2 => env # Unparseable
    /\ envelope = "untrusted" => ~keyTrusted
    /\ phase = "exited" /\ exit = 1 /\ OK => requireSigs /\ ~keyTrusted

GenuineInv ==
    /\ PolicyInv
    /\ envelope # "invalid" /\ env # Unparseable /\ Genuine => Spotless

LEMMA SameGenuine ==
    ASSUME UNCHANGED env
    PROVE  Genuine' <=> Genuine
BY DEF Genuine, Unambiguous, Rows, Corrs

LEMMA PolicyStep ==
    ASSUME SignatureInv, LedgerInv, PolicyInv, [Next]_vars
    PROVE  PolicyInv'
<1>1. CASE UNCHANGED vars
  BY <1>1 DEF vars, inputVars, ledgerVars, corrVars, archVars, PolicyInv, OK
<1>2. CASE FailParse
  BY <1>2 DEF FailParse, inputVars, PolicyInv
<1>3. CASE RejectVersion \/ RejectCertificationVersion \/ RejectSignature
  <2>1. /\ phase' = "exit" /\ envelope' = "invalid" /\ env' # Unparseable
    BY <1>3 DEF RejectVersion, RejectCertificationVersion, RejectSignature,
                RejectEnvelope, SupportedShape, inputVars
  <2> QED
    BY <2>1 DEF PolicyInv
<1>4. CASE AcceptSignature
  BY <1>4 DEF AcceptSignature, PolicyInv
<1>5. CASE LayerStep
  <2>1. /\ phase \in Layered /\ phase' \in Layered \cup {"exit"}
        /\ UNCHANGED <<env, envelope, keyTrusted>>
    BY <1>5, LayerFrame DEF inputVars
  <2>2. env # Unparseable
    BY <2>1 DEF LedgerInv
  <2> QED
    BY <2>1, <2>2 DEF PolicyInv, Layered
<1>6. CASE ExitEnvelope
  <2>1. /\ phase = "exit" /\ phase' = "exited"
        /\ exit' = IF Accepted THEN 0 ELSE 1
        /\ UNCHANGED <<env, requireSigs, envelope, keyTrusted>> /\ (OK' <=> OK)
    BY <1>6 DEF ExitEnvelope, inputVars, ledgerVars, corrVars, archVars, OK
  <2>2. OK /\ ~Accepted => requireSigs /\ ~keyTrusted
    BY DEF PolicyInv, Accepted, StrictOK
  <2> QED
    BY <2>1, <2>2 DEF PolicyInv
<1> QED
  BY <1>1, <1>2, <1>3, <1>4, <1>5, <1>6 DEF Next, LayerStep

LEMMA SpotlessStep ==
    ASSUME LedgerInv, [Next]_vars, Genuine, Spotless, env # Unparseable,
           envelope' # "invalid"
    PROVE  Spotless'
<1>1. CASE \/ UNCHANGED vars \/ FailParse \/ AcceptSignature \/ ExitEnvelope
  <2>1. UNCHANGED <<findings, ledgerVars, correlation, archive>>
    BY <1>1 DEF vars, FailParse, AcceptSignature, ExitEnvelope, corrVars, archVars
  <2> QED
    BY <2>1 DEF Spotless, ledgerVars
<1>2. CASE RejectVersion \/ RejectCertificationVersion \/ RejectSignature
  BY <1>2 DEF RejectVersion, RejectCertificationVersion, RejectSignature,
              RejectEnvelope
<1>3. CASE CheckLedger
  <2>1. UNCHANGED <<correlation, archive>>
    BY <1>3 DEF CheckLedger, corrVars, archVars
  <2>2. ~RejectMalformedRow /\ ~RejectRowHash
    <3>1. ~RejectMalformedRow
      BY DEF RejectMalformedRow, Genuine
    <3>2. ASSUME RejectRowHash
          PROVE  FALSE
      <4>1. InRows /\ Len(Rows) \in Nat /\ DOMAIN Rows = 1..Len(Rows)
            /\ row <= Len(Rows) /\ RecomputeFails(Rows[row])
        BY <3>2, RowsAreAList DEF RejectRowHash, LedgerInv, Layered
      <4>2. row \in DOMAIN Rows
        <5>1. row \in 1..(Len(Rows) + 1)
          BY <4>1 DEF InRows
        <5> QED
          BY <4>1, <5>1
      <4> QED
        BY <4>1, <4>2 DEF RecomputeFails, Genuine
    <3> QED
      BY <3>1, <3>2
  <2>3. ~RejectRowLink
    <3> SUFFICES ASSUME RejectRowLink
                 PROVE  FALSE
      OBVIOUS
    <3>1. InRows /\ Len(Rows) \in Nat /\ DOMAIN Rows = 1..Len(Rows)
          /\ row <= Len(Rows) /\ LinkFails(Rows[row])
      BY RowsAreAList DEF RejectRowLink, LedgerInv, Layered
    <3>2. row \in DOMAIN Rows
      <4>1. row \in 1..(Len(Rows) + 1)
        BY <3>1 DEF InRows
      <4> QED
        BY <3>1, <4>1
    <3>3. row > 1 /\ Rows[row].prev_hash # prevEntryHash
      BY <3>1 DEF LinkFails
    <3>4. prevEntryHash = Rows[row - 1].entry_hash
      BY <3>1, <3>3 DEF InRows, Spotless
    <3>5. Rows[row].prev_hash = Rows[row - 1].entry_hash
      BY <3>2, <3>3 DEF Genuine
    <3> QED
      BY <3>3, <3>4, <3>5
  <2>4. SkipLedger \/ BeginLedger \/ AcceptRow \/ FinishLedger
    BY <1>3, <2>2, <2>3 DEF CheckLedger, LedgerNext
  <2>5. UNCHANGED <<findings, ledgerInvalid>> /\ ledger' \in {ledger, "valid"}
    BY <2>4 DEF SkipLedger, BeginLedger, AcceptRow, FinishLedger, ledgerVars, Spotless
  <2> QED
    BY <2>1, <2>5 DEF Spotless
<1>4. CASE ValidateCorrelations
  <2>1. env \in Envelopes \ {Unparseable}
    BY DEF LedgerInv
  <2>2. Failed(env) = {} /\ CorrelationFindings(env) = {}
    BY <2>1, GenuineUnfailed, CorrelationsTell
  <2>3. UNCHANGED <<findings, ledgerVars, archive>> /\ correlation' \in {correlation, "valid"}
    <3>1. CASE env.correlation_events = <<>>
      BY <1>4, <3>1 DEF ValidateCorrelations, corrVars, archVars
    <3>2. CASE env.correlation_events # <<>>
      BY <1>4, <2>2, <3>2 DEF ValidateCorrelations, archVars
    <3> QED
      BY <3>1, <3>2
  <2> QED
    BY <2>3 DEF Spotless, ledgerVars
<1>5. CASE ValidateArchive
  <2>1. ArchiveTotal = 0
    <3>1. env.retrieval_events = <<>> /\ env.probe_events = <<>>
      BY DEF Genuine
    <3>2. Len(env.retrieval_events) = 0 /\ Len(env.probe_events) = 0
      BY <3>1
    <3> QED
      BY <3>2 DEF ArchiveTotal
  <2> QED
    BY <1>5, <2>1 DEF ValidateArchive, Spotless, ledgerVars, corrVars, archVars
<1>6. CASE CheckCertification
  <2>1. ~Certified /\ ~HasBundleHash
    BY DEF Certified, HasBundleHash, Genuine
  <2> QED
    BY <1>6, <2>1 DEF CheckCertification, Spotless, ledgerVars, corrVars, archVars
<1> QED
  BY <1>1, <1>2, <1>3, <1>4, <1>5, <1>6 DEF Next

LEMMA GenuineStep ==
    ASSUME SignatureInv, LedgerInv, GenuineInv, [Next]_vars
    PROVE  GenuineInv'
<1>1. PolicyInv'
  BY PolicyStep DEF GenuineInv
<1>2. UNCHANGED env
  BY DEF Next, vars, inputVars, FailParse, RejectVersion, RejectCertificationVersion,
         RejectSignature, RejectEnvelope, AcceptSignature, CheckLedger, LedgerNext,
         SkipLedger, RejectMalformedRow, BeginLedger, RejectRowHash, RejectRowLink,
         RefuseRow, AcceptRow, FinishLedger, ValidateCorrelations, ValidateArchive,
         CheckCertification, ExitEnvelope
<1>3. envelope = "invalid" => envelope' = "invalid"
  <2>1. CASE UNCHANGED envelope
    BY <2>1
  <2>2. CASE ~UNCHANGED envelope
    <3>1. RejectVersion \/ RejectCertificationVersion \/ RejectSignature \/ AcceptSignature
      BY <2>2 DEF Next, vars, FailParse, CheckLedger, ValidateCorrelations,
                  ValidateArchive, CheckCertification, ExitEnvelope
    <3>2. phase = "parse"
      BY <3>1 DEF RejectVersion, RejectCertificationVersion, RejectSignature,
                  AcceptSignature
    <3> QED
      BY <3>2 DEF SignatureInv
  <2> QED
    BY <2>1, <2>2
<1>4. ASSUME envelope' # "invalid", env' # Unparseable, Genuine'
      PROVE  Spotless'
  <2>1. Genuine /\ Spotless
    BY <1>2, <1>3, <1>4, SameGenuine DEF GenuineInv
  <2> QED
    BY <1>2, <1>4, <2>1, SpotlessStep
<1> QED
  BY <1>1, <1>4 DEF GenuineInv

(***************************************************************************)
(* No false alarm, for sections of any length: a genuine signed envelope   *)
(* has no finding, and only --require-signatures without the key refuses   *)
(* it.                                                                     *)
(***************************************************************************)
THEOREM GenuineAreAccepted == Spec => []GenuineIsAccepted
<1>1. ASSUME SignatureInv, GenuineInv
      PROVE  GenuineIsAccepted
  <2> SUFFICES ASSUME phase \in {"exit", "exited"}, exit # 2, envelope # "invalid",
                      Genuine
               PROVE  findings = {} /\ (exit = 1 => requireSigs /\ ~keyTrusted)
    BY DEF GenuineIsAccepted
  <2>1. env # Unparseable
    BY <1>1 DEF GenuineInv, PolicyInv
  <2>2. Spotless
    BY <1>1, <2>1 DEF GenuineInv
  <2>3. OK
    BY <2>2 DEF Spotless, OK
  <2>4. exit = 1 => phase = "exited"
    BY <1>1 DEF SignatureInv
  <2> QED
    BY <1>1, <2>2, <2>3, <2>4 DEF GenuineInv, PolicyInv, Spotless
<1>2. Init => GenuineInv
  BY DEF Init, LedgerInit, GenuineInv, PolicyInv, Spotless
<1>3. SignatureInv /\ LedgerInv /\ GenuineInv /\ [Next]_vars => GenuineInv'
  BY GenuineStep
<1>4. SignatureInv /\ [Next]_vars => SignatureInv'
  BY SignatureStep
<1>5. Init => SignatureInv
  BY SignatureInit
<1> QED
  BY <1>1, <1>2, <1>3, <1>4, <1>5, LedgerAlways, PTL DEF Spec

-----------------------------------------------------------------------------
(* Types.  The counts are natural numbers because the sections are finite.  *)

LEMMA TypeInit ==
    ASSUME Init
    PROVE  TypeOK
<1>1. ledgerVerified \in 0..(row - 1) /\ row \in Nat \ {0}
  <2>1. ledgerVerified = 0 /\ row = 1
    BY DEF Init, LedgerInit
  <2> QED
    BY <2>1
<1>2. exit \in 0..3
  BY DEF Init
<1>3. prevEntryHash \in Text
  BY TextAssumption DEF Init, LedgerInit
<1> QED
  BY <1>1, <1>2, <1>3 DEF Init, LedgerInit, TypeOK, LayerVerdict

LedgerTypes ==
    /\ \A f \in findings : f.index \in Nat
    /\ row \in Nat \ {0} /\ prevEntryHash \in Text /\ ledgerInvalid \in BOOLEAN
    /\ ledgerVerified \in 0..(row - 1)
    /\ ledger \in LayerVerdict

LEMMA LedgerTypesStep ==
    ASSUME LedgerInv, TypeOK, CheckLedger
    PROVE  LedgerTypes'
<1>1. LedgerTypes
  BY DEF TypeOK, LedgerTypes
<1>2. /\ phase \in {"ledger", "rows"} /\ Len(Rows) \in Nat
      /\ DOMAIN Rows = 1..Len(Rows)
  BY RowsAreAList
     DEF CheckLedger, LedgerNext, SkipLedger, RejectMalformedRow, BeginLedger,
         RejectRowHash, RejectRowLink, RefuseRow, AcceptRow, FinishLedger, Layered
<1>3. CASE SkipLedger \/ BeginLedger
  BY <1>1, <1>3 DEF SkipLedger, BeginLedger, ledgerVars, LedgerTypes
<1>4. CASE FinishLedger
  BY <1>1, <1>4 DEF FinishLedger, LedgerTypes, LayerVerdict
<1>5. CASE RejectMalformedRow
  <2>1. PICK i \in DOMAIN Rows :
          findings' = findings \cup {Finding("LEDGER_MALFORMED", "evaluations", i)}
    BY <1>5 DEF RejectMalformedRow
  <2> DEFINE new == Finding("LEDGER_MALFORMED", "evaluations", i)
  <2>2. i \in Nat
    BY <1>2
  <2>3. new.index \in Nat
    BY <2>2 DEF Finding
  <2> HIDE DEF new
  <2>4. \A f \in findings' : f.index \in Nat
    BY <1>1, <2>1, <2>3 DEF LedgerTypes, new
  <2> QED
    BY <1>1, <1>5, <2>4 DEF RejectMalformedRow, LedgerTypes, LayerVerdict
<1>6. CASE RejectRowHash \/ RejectRowLink
  <2>1. PICK code : RefuseRow(code)
    BY <1>6 DEF RejectRowHash, RejectRowLink
  <2> DEFINE new == Finding(code, "evaluations", row)
  <2>2. new.index \in Nat
    BY <1>1 DEF Finding, LedgerTypes
  <2> HIDE DEF new
  <2>3. \A f \in findings' : f.index \in Nat
    BY <1>1, <2>1, <2>2 DEF RefuseRow, LedgerTypes, new
  <2>4. row' \in Nat \ {0} /\ ledgerVerified' \in 0..(row' - 1)
    BY <1>1, <2>1 DEF RefuseRow, LedgerTypes
  <2> QED
    BY <1>1, <2>1, <2>3, <2>4 DEF RefuseRow, LedgerTypes
<1>7. CASE AcceptRow
  <2>1. row' \in Nat \ {0} /\ ledgerVerified' \in 0..(row' - 1)
    BY <1>1, <1>7 DEF AcceptRow, LedgerTypes
  <2>2. prevEntryHash' \in Text
    <3>1. row \in Nat \ {0} /\ row <= Len(Rows)
      BY <1>1, <1>7 DEF AcceptRow, LedgerTypes
    <3>2. row \in DOMAIN Rows
      BY <1>2, <3>1
    <3>3. Rows \in Seq(EvaluationRow)
      BY <1>2, RowsAssumption DEF Rows, LedgerInv, Layered
    <3>4. Rows[row] \in EvaluationRow
      BY <3>2, <3>3
    <3>5. Rows[row].entry_hash \in Text
      BY <3>4 DEF EvaluationRow
    <3> QED
      BY <1>7, <3>5 DEF AcceptRow
  <2> QED
    BY <1>1, <1>7, <2>1, <2>2 DEF AcceptRow, LedgerTypes
<1> QED
  BY <1>3, <1>4, <1>5, <1>6, <1>7 DEF CheckLedger, LedgerNext

LEMMA CorrelationIndices ==
    ASSUME NEW v \in Envelopes \ {Unparseable}, NEW f \in CorrelationFindings(v)
    PROVE  f.index \in Nat
<1> DEFINE I == DOMAIN v.correlation_events
<1>1. \A i \in I : i \in Nat
  BY SectionsAreLists
<1>2. \/ f \in UNION {RecordFindings(v, i) : i \in I}
      \/ f \in {Finding(GroupCode(v, i), "correlation_events", i) : i \in GroupHeads(v)}
  BY DEF CorrelationFindings
<1>3. CASE f \in UNION {RecordFindings(v, i) : i \in I}
  <2>1. PICK i \in I : f \in RecordFindings(v, i)
    BY <1>3
  <2>2. PICK code : f = Finding(code, "correlation_events", i)
    BY <2>1 DEF RecordFindings
  <2> QED
    BY <1>1, <2>2 DEF Finding
<1>4. CASE f \in {Finding(GroupCode(v, i), "correlation_events", i) : i \in GroupHeads(v)}
  <2>1. PICK i \in GroupHeads(v) : f = Finding(GroupCode(v, i), "correlation_events", i)
    BY <1>4
  <2>2. i \in I
    BY DEF GroupHeads
  <2> QED
    BY <1>1, <2>1, <2>2 DEF Finding
<1> QED
  BY <1>2, <1>3, <1>4

LEMMA ArchiveIndices ==
    ASSUME NEW v \in Envelopes \ {Unparseable}, NEW f \in ArchiveFindings(v)
    PROVE  f.index \in Nat
<1>1. /\ \A i \in DOMAIN v.retrieval_events : i \in Nat
      /\ \A i \in DOMAIN v.probe_events : i \in Nat
  BY SectionsAreLists
<1>2. \/ f \in UNION {RetrievalFindings(v, i) : i \in DOMAIN v.retrieval_events}
      \/ f \in UNION {ProbeFindings(v, i) : i \in DOMAIN v.probe_events}
  BY DEF ArchiveFindings
<1>3. CASE f \in UNION {RetrievalFindings(v, i) : i \in DOMAIN v.retrieval_events}
  <2>1. PICK i \in DOMAIN v.retrieval_events : f \in RetrievalFindings(v, i)
    BY <1>3
  <2>2. PICK code : f = Finding(code, "retrieval_events", i)
    BY <2>1 DEF RetrievalFindings
  <2> QED
    BY <1>1, <2>2 DEF Finding
<1>4. CASE f \in UNION {ProbeFindings(v, i) : i \in DOMAIN v.probe_events}
  <2>1. PICK i \in DOMAIN v.probe_events : f \in ProbeFindings(v, i)
    BY <1>4
  <2>2. PICK code : f = Finding(code, "probe_events", i)
    BY <2>1 DEF ProbeFindings
  <2> QED
    BY <1>1, <2>2 DEF Finding
<1> QED
  BY <1>2, <1>3, <1>4

(* TypeOK, layer by layer.                                                  *)

InputTypes ==
    /\ keys \in KeyStores /\ requireSigs \in BOOLEAN
    /\ phase \in {"parse", "ledger", "rows", "correlation", "archive",
                  "certification", "exit", "exited"}
    /\ envelope \in LayerVerdict \cup {"untrusted"}
    /\ keyTrusted \in BOOLEAN /\ bundleChecked \in BOOLEAN
    /\ exit \in 0..3

Binding == {"not_applicable", "not_present_in_export", "checked"}

CorrelationTypes ==
    correlation \in LayerVerdict /\ corrVerified \in Nat /\ orgBinding \in Binding

ArchiveTypes ==
    /\ archive \in LayerVerdict /\ archVerified \in Nat /\ archBinding \in Binding
    /\ retention \in
         {"not_applicable", "not_recorded", "recorded_not_verified_offline"}

LEMMA TypesByLayer ==
    TypeOK <=> InputTypes /\ LedgerTypes /\ CorrelationTypes /\ ArchiveTypes
BY DEF TypeOK, InputTypes, LedgerTypes, CorrelationTypes, ArchiveTypes, Binding

LEMMA TypesByLayerNext ==
    ASSUME InputTypes', LedgerTypes', CorrelationTypes', ArchiveTypes'
    PROVE  TypeOK'
BY DEF TypeOK, InputTypes, LedgerTypes, CorrelationTypes, ArchiveTypes, Binding

LEMMA TypeStep ==
    ASSUME LedgerInv, TypeOK, [Next]_vars
    PROVE  TypeOK'
<1>1. InputTypes /\ LedgerTypes /\ CorrelationTypes /\ ArchiveTypes
  BY TypesByLayer
<1>2. UNCHANGED <<findings, ledgerVars>> => LedgerTypes'
  BY <1>1 DEF LedgerTypes, ledgerVars
<1>3. UNCHANGED corrVars => CorrelationTypes'
  BY <1>1 DEF CorrelationTypes, corrVars
<1>4. UNCHANGED archVars => ArchiveTypes'
  BY <1>1 DEF ArchiveTypes, archVars
<1>5. CASE UNCHANGED vars
  <2>1. InputTypes'
    BY <1>1, <1>5 DEF InputTypes, vars, inputVars
  <2> QED
    BY <1>2, <1>3, <1>4, <1>5, <2>1, TypesByLayerNext DEF vars
<1>6. CASE FailParse \/ ExitEnvelope
  <2>1. InputTypes'
    <3>1. exit' \in 0..3
      BY <1>6 DEF FailParse, ExitEnvelope
    <3> QED
      BY <1>1, <1>6, <3>1 DEF InputTypes, FailParse, ExitEnvelope, inputVars
  <2>2. UNCHANGED <<findings, ledgerVars, corrVars, archVars>>
    BY <1>6 DEF FailParse, ExitEnvelope
  <2> QED
    BY <1>2, <1>3, <1>4, <2>1, <2>2, TypesByLayerNext
<1>7. CASE RejectVersion \/ RejectCertificationVersion \/ RejectSignature
  <2>1. PICK code : RejectEnvelope(code)
    BY <1>7 DEF RejectVersion, RejectCertificationVersion, RejectSignature
  <2>2. InputTypes'
    BY <1>1, <2>1 DEF InputTypes, RejectEnvelope, inputVars, LayerVerdict
  <2>3. LedgerTypes'
    <3> DEFINE new == Finding(code, "", 0)
    <3>1. new.index \in Nat
      BY DEF Finding
    <3>2. findings' = findings \cup {new}
      BY <2>1 DEF RejectEnvelope
    <3> HIDE DEF new
    <3>3. \A f \in findings' : f.index \in Nat
      BY <1>1, <3>1, <3>2 DEF LedgerTypes
    <3> QED
      BY <1>1, <2>1, <3>3 DEF RejectEnvelope, LedgerTypes, ledgerVars
  <2>4. UNCHANGED <<corrVars, archVars>>
    BY <2>1 DEF RejectEnvelope
  <2> QED
    BY <1>3, <1>4, <2>2, <2>3, <2>4, TypesByLayerNext
<1>8. CASE AcceptSignature
  <2>1. InputTypes'
    <3>1. TrustedKey \in BOOLEAN
      BY DEF TrustedKey
    <3> QED
      BY <1>1, <1>8, <3>1 DEF InputTypes, AcceptSignature, inputVars, LayerVerdict
  <2>2. UNCHANGED <<findings, ledgerVars, corrVars, archVars>>
    BY <1>8 DEF AcceptSignature
  <2> QED
    BY <1>2, <1>3, <1>4, <2>1, <2>2, TypesByLayerNext
<1>9. CASE CheckLedger
  <2>1. InputTypes'
    <3>1. phase' \in {"ledger", "rows", "correlation"}
      BY <1>9 DEF CheckLedger, LedgerNext, SkipLedger, RejectMalformedRow,
                  BeginLedger, RejectRowHash, RejectRowLink, RefuseRow, AcceptRow,
                  FinishLedger
    <3>2. UNCHANGED <<keys, requireSigs, envelope, keyTrusted, bundleChecked, exit>>
      BY <1>9 DEF CheckLedger
    <3> QED
      BY <1>1, <3>1, <3>2 DEF InputTypes
  <2>2. UNCHANGED <<corrVars, archVars>>
    BY <1>9 DEF CheckLedger
  <2>3. LedgerTypes'
    BY <1>9, LedgerTypesStep
  <2> QED
    BY <1>3, <1>4, <2>1, <2>2, <2>3, TypesByLayerNext
<1>10. CASE ValidateCorrelations
  <2>1. InputTypes' /\ UNCHANGED <<ledgerVars, archVars>>
    BY <1>1, <1>10 DEF InputTypes, ValidateCorrelations, inputVars
  <2>2. env \in Envelopes \ {Unparseable}
    BY <1>10 DEF ValidateCorrelations, LedgerInv, Layered
  <2>3. CASE env.correlation_events = <<>>
    BY <1>2, <1>3, <1>4, <1>10, <2>1, <2>3, TypesByLayerNext DEF ValidateCorrelations
  <2>4. CASE env.correlation_events # <<>>
    <3>1. /\ findings' = findings \cup CorrelationFindings(env)
          /\ corrVerified' = Cardinality(VerifiedCorrelations(env))
          /\ correlation' \in {"valid", "invalid"}
          /\ orgBinding' \in {"checked", "not_present_in_export"}
      BY <1>10, <2>4 DEF ValidateCorrelations
    <3>2. corrVerified' \in Nat
      BY <2>2, <3>1, CorrelationStagesAddUp, FS_CardinalityType
    <3>3. CorrelationTypes'
      BY <3>1, <3>2 DEF CorrelationTypes, LayerVerdict, Binding
    <3>4. \A f \in findings' : f.index \in Nat
      BY <1>1, <2>2, <3>1, CorrelationIndices DEF LedgerTypes
    <3>5. LedgerTypes'
      BY <1>1, <2>1, <3>4 DEF LedgerTypes, ledgerVars
    <3> QED
      BY <1>4, <2>1, <3>3, <3>5, TypesByLayerNext
  <2> QED
    BY <2>3, <2>4
<1>11. CASE ValidateArchive
  <2>1. InputTypes' /\ UNCHANGED <<ledgerVars, corrVars>>
    BY <1>1, <1>11 DEF InputTypes, ValidateArchive, inputVars
  <2>2. env \in Envelopes \ {Unparseable}
    BY <1>11 DEF ValidateArchive, LedgerInv, Layered
  <2>3. CASE ArchiveTotal = 0
    BY <1>2, <1>3, <1>4, <1>11, <2>1, <2>3, TypesByLayerNext DEF ValidateArchive
  <2>4. CASE ArchiveTotal # 0
    <3>1. /\ findings' = findings \cup ArchiveFindings(env)
          /\ archVerified' = Cardinality(GoodRetrievals(env)) + Cardinality(GoodProbes(env))
          /\ archive' \in {"valid", "invalid"}
          /\ archBinding' = ArchiveOrgBinding(env)
          /\ retention' \in {"recorded_not_verified_offline", "not_recorded"}
      BY <1>11, <2>4 DEF ValidateArchive
    <3>2. archVerified' \in Nat
      <4>1. Cardinality(GoodRetrievals(env)) \in Nat /\ Cardinality(GoodProbes(env)) \in Nat
        BY <2>2, GoodIsFinite, FS_CardinalityType
      <4> QED
        BY <3>1, <4>1
    <3>3. archBinding' \in Binding
      BY <3>1 DEF ArchiveOrgBinding, Binding
    <3>4. ArchiveTypes'
      BY <3>1, <3>2, <3>3 DEF ArchiveTypes, LayerVerdict
    <3>5. \A f \in findings' : f.index \in Nat
      BY <1>1, <2>2, <3>1, ArchiveIndices DEF LedgerTypes
    <3>6. LedgerTypes'
      BY <1>1, <2>1, <3>5 DEF LedgerTypes, ledgerVars
    <3> QED
      BY <1>3, <2>1, <3>4, <3>6, TypesByLayerNext
  <2> QED
    BY <2>3, <2>4
<1>12. CASE CheckCertification
  <2>1. InputTypes'
    <3>1. HasBundleHash \in BOOLEAN
      BY DEF HasBundleHash
    <3>2. bundleChecked' \in BOOLEAN
      BY <1>12, <3>1 DEF CheckCertification
    <3> QED
      BY <1>1, <1>12, <3>2 DEF InputTypes, CheckCertification, inputVars
  <2>2. LedgerTypes'
    <3>1. ASSUME NEW f \in findings'
          PROVE  f.index \in Nat
      <4>1. CASE f \in findings
        BY <1>1, <4>1 DEF LedgerTypes
      <4>2. CASE \E s \in MiscountedSections :
                   f = Finding("CERTIFICATION_COUNT_MISMATCH", s, 0)
        BY <4>2 DEF Finding
      <4>3. CASE f = Finding("CERTIFICATION_BUNDLE_HASH_MISMATCH", "", 0)
        BY <4>3 DEF Finding
      <4> QED
        BY <1>12, <4>1, <4>2, <4>3 DEF CheckCertification
    <3> QED
      BY <1>1, <1>12, <3>1 DEF CheckCertification, LedgerTypes, ledgerVars
  <2>3. UNCHANGED <<corrVars, archVars>>
    BY <1>12 DEF CheckCertification
  <2> QED
    BY <1>3, <1>4, <2>1, <2>2, <2>3, TypesByLayerNext
<1> QED
  BY <1>5, <1>6, <1>7, <1>8, <1>9, <1>10, <1>11, <1>12 DEF Next

(***************************************************************************)
(* Sections of any length: every reachable state of envelope.Verify is of  *)
(* its type, and never more rows are counted than were looked at.          *)
(***************************************************************************)
THEOREM EnvelopeTypes == Spec => []TypeOK
<1>1. Init => TypeOK
  BY TypeInit
<1>2. LedgerInv /\ TypeOK /\ [Next]_vars => TypeOK'
  BY TypeStep
<1> QED
  BY <1>1, <1>2, LedgerAlways, PTL DEF Spec
=============================================================================
