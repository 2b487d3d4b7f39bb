----------------------------- MODULE LedgerLayer -----------------------------
(***************************************************************************)
(* verifyLedger (internal/envelope/ledger.go): the entry-hash chain of the *)
(* evaluations of a signed envelope, row by row.  A row that fails is      *)
(* passed over: the next one is compared with the last row that did not.   *)
(***************************************************************************)
EXTENDS EnvelopeData

VARIABLES
    env,             \* the decoded envelope
    phase,           \* where envelope.Verify stands
    findings,        \* res.Findings: code and record
    row,             \* index of the evaluation to be checked next
    prevEntryHash,   \* entry_hash of the last row that passed
    ledgerInvalid,   \* some row failed
    ledger,          \* res.LedgerIntegrity
    ledgerVerified   \* res.LedgerEntriesVerified

ledgerVars == <<row, prevEntryHash, ledgerInvalid, ledger, ledgerVerified>>

Rows == env.evaluations

(* Mutation: the loop starts one row early. *)
LedgerInitFromZero ==
    /\ row = 0
    /\ prevEntryHash = ""
    /\ ledgerInvalid = FALSE
    /\ ledger = "absent"
    /\ ledgerVerified = 0

LedgerInit ==
    /\ row = 1
    /\ prevEntryHash = ""
    /\ ledgerInvalid = FALSE
    /\ ledger = "absent"
    /\ ledgerVerified = 0

AllDecode == \A i \in DOMAIN Rows : Rows[i].ledger_ok

HaveCanonical == \E i \in DOMAIN Rows : Rows[i].canonical_payload # ""

(* No rows, or none with a canonical_payload: the layer stays "absent". *)
SkipLedger ==
    /\ phase = "ledger"
    /\ AllDecode /\ ~HaveCanonical
    /\ phase' = "correlation"
    /\ UNCHANGED <<env, findings, ledgerVars>>

RejectMalformedRow ==
    /\ phase = "ledger"
    /\ \E i \in DOMAIN Rows :
         /\ ~Rows[i].ledger_ok
         /\ \A j \in 1..(i - 1) : Rows[j].ledger_ok
         /\ findings' = findings \cup {Finding("LEDGER_MALFORMED", "evaluations", i)}
    /\ ledger' = "invalid"
    /\ phase' = "correlation"
    /\ UNCHANGED <<env, row, prevEntryHash, ledgerInvalid, ledgerVerified>>

BeginLedger ==
    /\ phase = "ledger"
    /\ AllDecode /\ HaveCanonical
    /\ phase' = "rows"
    /\ UNCHANGED <<env, findings, ledgerVars>>

-----------------------------------------------------------------------------

RecomputeFails(r) ==
    /\ r.canonical_payload # "" /\ r.entry_hash # ""
    /\ Sha(r.canonical_payload) # r.entry_hash

(* Mutation: the first row of the window is compared with genesis. *)
LinkFailsFromGenesis(r) == r.prev_hash # "" /\ r.prev_hash # prevEntryHash

LinkFails(r) ==
    /\ row > 1 /\ r.prev_hash # "" /\ prevEntryHash # ""
    /\ r.prev_hash # prevEntryHash

RefuseRow(code) ==
    /\ findings' = findings \cup {Finding(code, "evaluations", row)}
    /\ ledgerInvalid' = TRUE
    /\ row' = row + 1
    /\ UNCHANGED <<env, phase, prevEntryHash, ledger, ledgerVerified>>

RejectRowHash ==
    /\ phase = "rows" /\ row <= Len(Rows)
    /\ RecomputeFails(Rows[row])
    /\ RefuseRow("LEDGER_HASH_MISMATCH")

RejectRowLink ==
    /\ phase = "rows" /\ row <= Len(Rows)
    /\ ~RecomputeFails(Rows[row]) /\ LinkFails(Rows[row])
    /\ RefuseRow("LEDGER_CHAIN_BROKEN")

(* Mutation: the hash of the row before is carried along, not this one's. *)
AcceptRowKeepingLink ==
    /\ phase = "rows" /\ row <= Len(Rows)
    /\ ~RecomputeFails(Rows[row]) /\ ~LinkFails(Rows[row])
    /\ prevEntryHash' = IF prevEntryHash = "" THEN Rows[row].entry_hash
                                              ELSE prevEntryHash
    /\ ledgerVerified' = ledgerVerified + 1
    /\ row' = row + 1
    /\ UNCHANGED <<env, phase, findings, ledgerInvalid, ledger>>

AcceptRow ==
    /\ phase = "rows" /\ row <= Len(Rows)
    /\ ~RecomputeFails(Rows[row]) /\ ~LinkFails(Rows[row])
    /\ prevEntryHash' = Rows[row].entry_hash
    /\ ledgerVerified' = ledgerVerified + 1
    /\ row' = row + 1
    /\ UNCHANGED <<env, phase, findings, ledgerInvalid, ledger>>

FinishLedger ==
    /\ phase = "rows" /\ row > Len(Rows)
    /\ ledger' = IF ledgerInvalid THEN "invalid" ELSE "valid"
    /\ phase' = "correlation"
    /\ UNCHANGED <<env, findings, row, prevEntryHash, ledgerInvalid,
                   ledgerVerified>>

LedgerNext ==
    \/ SkipLedger
    \/ RejectMalformedRow
    \/ BeginLedger
    \/ RejectRowHash
    \/ RejectRowLink
    \/ AcceptRow
    \/ FinishLedger
=============================================================================
