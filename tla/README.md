# Verification of atlasent-audit-verify

TLA+ modules of the offline verifier `atlasent-audit-verify`: what it does with
an NDJSON audit-chain export, with a signed export envelope, and with a pair of
envelopes to be reconciled, from the flags, the key file and the JSON tokens to
the exit code. TLC checks the modules on small instances and TLAPS proves the
central results for every instance. Paths below are those of the repository.

The program is sequential: one process reads one or two files, prints a report
and exits. Nothing is persisted, nothing runs concurrently, nothing is retried.
What is hard here is not interleaving but *long inputs*: verdicts that depend on
state carried from line to line, on several records of one export at once, and
on counters and markers that must mean what the report says of them. The
"environment" of every module is therefore the input, which is arbitrary.

## 1. Inventory

| Component | Source | State it keeps | Operations |
| --- | --- | --- | --- |
| Audit chain verifier | `internal/chain/entry.go`, `chain_base64.go` | per org: previous hash, next sequence; findings, warnings, heads, counters | one pass over the lines, `Verify`; per-line checks with early `continue`s |
| Head anchors | `internal/chain/anchor.go` | none of its own; appends findings to the chain result | `ParseAnchors`, `CheckAnchors`, `AnchoredOrgs` |
| NDJSON run | `cmd/atlasent-audit-verify/main.go` (`main`, `runNDJSON`) | flags, exit code | argument checks, scan, anchors, `StrictSignatureAcceptance`, exit |
| Envelope signature and version gates | `internal/envelope/verify.go`, `model.go` | `Result.EnvelopeIntegrity`, `KeyTrusted` | decode, version gates, key selection, Ed25519 |
| Ledger layer | `internal/envelope/ledger.go` | `prevEntryHash`, invalid flag, count | `verifyLedger`, row by row |
| Correlation layer | `internal/envelope/correlation.go` | maps by permit and decision | `validateCorrelations` |
| Evidence archive layer | `internal/envelope/archive.go` | ids seen, stage counters | `validateArchiveEvents` |
| Certified-copy manifest | `internal/envelope/verify.go`, `model.go` | findings, `CertificationBundleHashChecked` | record counts, bundle hash |
| Envelope run and report | `cmd/.../main.go` (`runEnvelope`, `printEnvelopeHuman`) | exit code | exit policy, markers |
| Reconciliation | `internal/reconcile/reconcile.go`, `runEnvelopeReconcile` | indexes by permit, findings, integrity | scope gate, per-permit checks, exit |
| Keystore loader | `internal/keys/pem.go` | id -> Ed25519 key | `Parse`, lookup |
| Canonical JSON (chain) | `internal/canonical/canonical.go` | a stack of levels, while it scans | `CheckNoDuplicateKeys`, `encode` |
| JCS (envelope) | `internal/jcs/*.go` | none | `encodeValue`, `lessUTF16`, `esNumber` |
| NDJSON-as-envelope adapter | `internal/envelope/verify.go` (`VerifyNDJSONLedgerOnly`) | none | maps a chain result; has no caller |
| Input detection and flags | `main.go`, `LooksLikeEnvelope` | none | dispatch to one of the three runs |
| Fixture generators | `testdata/*/gen` | none | write golden files |
| Stacked-PR guard | `.github/` | none | continuous integration |

How they interact: `main` reads the flags, loads the keystore and sniffs the
input. An NDJSON input goes to `chain.Verify`, then through `CheckAnchors` when
`--head` is given, then to the exit policy. An envelope goes to
`envelope.Verify`, which runs the outer signature, ledger, correlation, archive
and certification checks in this order, each appending to one `Result`; the
report and the exit policy read that `Result`. With `--reconcile-with` both
envelopes are verified, then `reconcile.Reconcile` compares their permit checks.
All calls are synchronous; what components share is the result they append to.

What is hard, by component (the full list, with lines, is in `PROJECT.json`
under `hazards`):

* **Chain.** An entry is checked against the state the *previous accepted* entry
  of its org left. Eleven ways round the loop differ in which of state, head,
  counters and findings they update; a finding on an opening entry does not stop
  its hash check, others do; `chain_break` forgets the org. Orgs interleave.
  Correct when: an org is clean exactly when its own entries form a valid chain;
  the head is the tail of a clean org and backed by checked entries in a damaged
  one; every scanned entry of a clean export was signature-checked or announced
  as skipped.
* **Anchors and the NDJSON run.** The anchor is compared to the head the pass
  left, so the pass's bookkeeping decides whether truncation is noticed. Correct
  when: the exit code is the verdict on export, anchors and flags; a genuine
  anchor pins the whole history before it.
* **Envelope.** Five layers write one result; layers stop at different points,
  some records fail alone, others in groups; the trust of the outer signature
  depends on which key was asked; counters must be partitions. Correct when: a
  layer's verdict, its findings and its counts agree with the records, and
  nothing genuine is refused.
* **Trust root and dispatch.** `pem.Decode` passes over what it does not
  understand and keeps one of two equal headers, so the parser has to look at the
  raw bytes it consumed. Flags, files and detection can each end the run, in an
  order of their own. Correct when: a key file loads exactly when all of it is
  keys; the exit code is a function of flags and files that can be said in one
  sentence; strict acceptance rests on a key the whole file binds.
* **Canonical JSON.** A scan with its own stack follows a decoder whose state it
  cannot see; keys are compared decoded; two writers order members differently
  and take them from maps walked in any order; floats change form at two
  magnitudes. Correct when: no duplicate escapes, whatever its spelling and
  depth; an object has one canonical text and it loses nothing; members and
  numbers come out as the producers write them.
* **Reconciliation.** Several records per permit on both sides, a clock
  tolerance, unusable times, a scope gate that must come first. Correct when:
  exactly the conflicts are reported and nothing is ever a pass.

## 2. Modules

    ChainEntry --> ChainVerify --> ChainContract --> NdjsonRun --> NdjsonContract
                                        |                               |
                                        |                          MCNdjson
                          ChainRefinement, LedgerOnly
                                  |              |
                        ChainContract_proof   MCChain
                                  |
                        NdjsonContract_proof (with NdjsonContract)

    EnvelopeData --> LedgerLayer --+
                 \-> Correlation --+--> EnvelopeVerify --> EnvelopeReport
                 \-> Archive ------+                            |
                                                        EnvelopeContract
                                                         |            |
                                              EnvelopeContract_proof  MCEnvelope

    Reconcile --> ReconcileContract --> MCReconcile
                                   \--> ReconcileContract_proof

    OrgLog <==implements== ChainRefinement (of ChainContract)

    Keystore --> CommandLine --> CommandLineContract --> MCCommandLine
                                                    \--> CommandLine_proof

    JsonScan --> JsonScanContract --+--> JsonContract --> MCJson
      |     \--> JsonCanonical -----+         |
      |                              JsonCanonical_proof
    JsonScan_proof --------------------------+--> JsonContract_proof

| Module | Models | Correspondence |
| --- | --- | --- |
| `ChainEntry` | one export line, its canonical content, hash forms, key lookup, signature | an entry is a record with the wire fields the code tests; `body` stands for the rest |
| `ChainVerify` | `chain.Verify` | one action per way round the loop; `file` is the history of lines read; `state`, `findings`, `warnings`, `scanned`, `sigVerified`, `sigSkipped`, `head` are the local map and the `Result` fields of those names |
| `ChainContract` | what the pass promises, on the export alone | properties only |
| `NdjsonRun` | `runNDJSON` around `ChainVerify`, `--head`, `--require-signatures` | phases `start`, `verify`, `anchors`, `report`, `exited`; `exit` is the process exit code |
| `NdjsonContract` | what exit code, summary and anchors mean | properties, the producer's log and the collision-freedom assumption |
| `EnvelopeData` | the decoded envelope, rows and records, signing | field sets of `model.go` |
| `LedgerLayer` | `verifyLedger` | an action per row outcome; `row` is the loop index |
| `Correlation` | `validateCorrelations` | pure operators: each record's first failing check, groups of equal identity |
| `Archive` | `validateArchiveEvents` | pure operators: all failures of each record, stages |
| `EnvelopeVerify` | `envelope.Verify` and `runEnvelope` | composes the three layers; an action per gate, per layer, and for the exit |
| `EnvelopeReport` | the report lines derived from several fields | `ObservationMark`, `CertificationMark` |
| `EnvelopeContract` | what a verified envelope means | properties only |
| `Reconcile` | `runEnvelopeReconcile` and `Reconcile` | phases `load`, `scope`, `compare`, `done`, `exited`; one shared permit at a time |
| `ReconcileContract` | what reconciliation promises | properties, `Conflicts` as a declarative reference |
| `OrgLog` | the abstract specification of a chain's reader: one log per org, extended entry by entry, refused for good | `Extend(o)`, `Refuse(o)` |
| `ChainRefinement` | `ChainVerify` as an implementation of `OrgLog` | `Tips` (the heads of orgs without a finding), `RefusedOrgs` (the others) |
| `LedgerOnly` | `VerifyNDJSONLedgerOnly` | operators on the result of the chain pass |
| `Keystore` | `keys.LoadFile`, `keys.Parse` | `next` is the start of `remaining`, `store` the map; one action per refusal of the loop |
| `CommandLine` | `main`: flags, input, keys, `LooksLikeEnvelope`, dispatch | phases `flags`, `input`, `keys`, `detect`, `exited`; composes `Keystore` |
| `CommandLineContract` | what an exit code says of flags and files | properties only |
| `JsonScan` | `CheckNoDuplicateKeys` over the tokens of `json.Decoder` | `stack` and its levels are those of the code; `open` is the decoder's state |
| `JsonScanContract` | what the scan promises | properties only |
| `JsonCanonical` | `canonical.encode`, `jcs.encodeValue`, `canonicalizeForHash`, the message of the outer signature | `written` holds the three texts of a scanned object |
| `JsonContract` | what the texts promise | properties; meanings of values as recursive functions over the text's tokens |
| `*_proof` | theorems | see section 5 |
| `MC*` | constants for TLC | small, concrete inputs |

The contract modules are the abstract specifications of the project: they state,
on the *input alone*, what the result has to be (`ValidOrgChain`, `Acceptable`,
`Conflicts`, `Genuine`), in the form of quantified conditions over records,
while the component modules compute it in passes with early exits.

### Abstractions

* Hashing is a constant operator (`Hash`, `Sha`, `BundleSha`). Nothing but
  well-typedness is assumed of it, except in `AnchorPinsHistory`, which assumes
  injectivity on what is hashed (`CollisionResistance`). An Ed25519 signature is
  the pair of the key and the bytes it covers.
* An entry's hashed content is its opaque `body` with `engine_version`, because
  the legacy hash form (which drops `engine_version`) is the one thing about the
  content the pass distinguishes. `canonical = FALSE` is a line that decodes but
  cannot be canonicalized.
* Hash fields are digests, or `NotHex`; the code compares decoded bytes there,
  and strings in the anchor check, hence `UpperHex` in anchors.
* `head` merges `HeadByOrg` and `HeadHashByOrg`, which are always written
  together. Findings and warnings are sets of (line, kind); their texts are left
  out.
* Strings of the envelope are members of a small set with `""` (missing) and
  `" "` (blank); values compared without regard to case hold their folded form.
  Fields treated alike share one (`presented_action_type` also stands for the
  environment; `verdict` for confidence, observed hash and bypass flag;
  `complete`, `retention`, `explained` for conjunctions of presence tests).
* Between `correlation` and `certification` the envelope module takes one step
  per layer: the loops inside carry nothing that an intermediate state would
  show, and each operator stands for the whole loop.
* In `Reconcile` what `envelope.Verify` made of each export is an input, since
  reconciliation reads only its verdict; permits are numbers in the sort order of
  the hashes, times are milliseconds.
* A key file is a sequence of sections: a block that decodes, a broken block,
  other text. What `encoding/pem` does with it is modelled by `Decodes` (it
  returns the first block that decodes and passes over what stands before) and
  `LastHeader` (of two headers of a name it keeps the last). A header named
  `-----BEGIN ` stands for a line that begins like a block.
* `CommandLine` knows of an input what detection and dispatch test: its shape,
  top-level keys, who signed it and whether it verifies but for the keys
  (`sound`). The verdict of each run is what its own module establishes. `--head`
  is in `NdjsonRun` (and is ignored for an envelope, as in the code).
* A JSON text is a sequence of tokens as `json.Decoder` delivers them, so its
  grammar is that decoder's. Names are sequences of code points; the escapes
  *inside* a written string are left out (both writers have the same). Written
  bytes are kept as the tree they spell. A text is a nondeterministic result
  where Go's map order is: `Sorted` has every order the sort may leave.
* A literal is its digits and exponent, a float its shortest digits and decimal
  point. This is exact for literals of at most 15 digits away from the limits of
  float64, which is what the run uses; longer ones would need rounding.

### Fairness and deadlock

Only `CommandLine` states fairness, `WF_vars(Next)`: the program is one goroutine
that waits for nothing but its files, and those end, so as long as it has a step
to take it takes one. No single action needs fairness of its own, because in
every state at most one action is enabled. Under it `EveryRunEnds` says that
every run exits; what could go wrong is the key file loop, which has to consume a
block or refuse the file each time round. The other modules claim no liveness:
their passes go over a list of lines, rows or permits and the length of the list
is the only measure. `CHECK_DEADLOCK FALSE` is set because each run really stops,
at process exit or, for `MCChain` and `MCJson`, at the bound on the input.

## 3. Runs

| Run | What it asks | Distinct states |
| --- | --- | --- |
| `chain` | is an org without findings exactly a valid chain; heads, counters; does the pass implement `OrgLog`; is the adapter's count cautious | 353,684 |
| `ndjson` | is the exit code the verdict; is the summary true; what does an anchor pin | 425,642 |
| `envelope` | do verdicts, findings, counts and markers of the layers agree with the records | 301,974 |
| `reconcile` | are the findings exactly the conflicts; scope gate; never a pass | 350,542 |
| `command_line` | is the trust root exactly the key file; is the exit code the verdict on flags and files; does every run end | 183,638 |
| `json` | are duplicates found; are the hashed and signed texts complete, unique, ordered, numbered as the producers' | 1,070,858 |
| `chain_newer_version`, `chain_break_resumes`, `chain_ledger_only`, `envelope_stage_mark`, `envelope_ledger_valid`, `envelope_decision` | documented behaviour the code does not have | violated |

Bounds, and why they are enough:

* `chain`, `ndjson`: `MaxLines` = 4 lines of two orgs. Every
  transition of the pass depends on one org's previous state and the line, so
  three entries of one org with a line of another between them reach every
  branch from every kind of state; a fourth line lets a break be followed by a
  reopening and a continuation. `MaxInt64` is 1000 so that the sequence number
  wraps inside the run (an entry numbered `MaxInt64` is among the lines). The
  theorems of section 5 lift the results to every length.
* `envelope`: ledgers of up to three rows (first, accepted parent, row after a
  rejected row), up to two correlations over eight lists of permit checks and
  seven of evaluations, up to three retrievals, manifests of versions 0, 5, 6
  and 7 with right and wrong counts and hashes, and each combination of key,
  embedded key and damage for the signature. Layers read disjoint sections
  except for evaluations and permit checks, so each family varies the sections
  one layer reads.
* `reconcile`: up to two permit checks per export from ten, with times at, below
  and above the tolerance (50), an unusable time, a blank permit, two permits;
  and all pairs of scopes and verdicts.
* `command_line`: key files of up to three sections with every kind of refusal,
  alone and after a good block; inputs of every shape with matching, foreign and
  unknown signers; all combinations of the flags. The loop's state is the store
  and the position, so a second good block is enough to meet repeated ids and a
  third to have one hidden between two.
* `json`: every text of up to `MaxTokens` = 7 tokens, over names that are equal
  but spelled differently, prefixes of one another, or on either side of the
  surrogates in UTF-16. Seven tokens hold two members with a container between,
  or an object in an array in an object. A number may stand as the third or the
  fourth token only (`NumbersAt`), directly in the object or one level down,
  which keeps the literals from multiplying the texts: a number is written alike
  wherever it stands, and the literals are chosen at and around the magnitudes
  where the form changes. All of it is proved for every length, every set of
  literals and every `NumbersAt`.

Every property of a passing run is paired in `PROJECT.json` with a mutant: a
plausible mistake in the code it guards against (a dropped guard, an off-by-one,
the wrong previous hash), under which the run finds the property violated. The
mutated operators stand in the modules just above the operator they replace and
are marked `Mutation:`; nothing else uses them.

## 4. Where documents and code differ

Six statements of the repository do not describe the code. Each has a run that
shows it; the models follow the code.

1. `NewerVersionNotVerified`: `chain_version` above 5 is verified under the
   version 5 rules (`internal/chain/entry.go:169`); the documents say a newer
   version must fail closed or be reported.
2. `BreakStopsOrg`: after `chain_break` a sequence-1 entry reopens the org and
   moves the reported head (`entry.go:226`); the comment and the test say the
   org's processing stops. The export still exits 1, because the break itself is
   a finding.
3. `StageOKMeansEvery`: the Observation line is `OK` with a record not observed,
   as soon as one was (`main.go:335`).
4. `LedgerValidMeansRecomputed`: rows without `canonical_payload` or `entry_hash`
   are counted as verified (`ledger.go:70`).
5. `EitherDecisionMismatchFails`: a permit check's decision is not compared when
   a decision row was found (`correlation.go:130`).
6. `LedgerIsTheVerdict`: of an export in which no line decodes,
   `VerifyNDJSONLedgerOnly` reports an absent ledger, no finding and OK, though
   `chain.Verify` has a finding for every line (`internal/envelope/verify.go:352`).
   Nothing calls the function yet, and the command line exits 1 on such a file.

Not divergences but worth knowing:

* In reconciliation a revoked row whose `revoked_at` does not parse is passed over
  when another row of the permit has a usable one, and a permit is reported as
  undatable only when none has.
* No reconciliation exits 0, since completeness of the evidence is never proven.
  `--bundle` forces the first file only: the second has to look like an envelope.
* `--head` is silently ignored for an envelope.
* The chain's form keeps an integer literal as written, so `0` and `-0` are two
  texts, while the envelope's form writes one; its branch for a malformed number
  is unreachable from JSON.
* `LedgerEntriesVerified` of the adapter may fall below the number of good
  entries, and below zero, but never exceeds it (`LedgerCountIsCautious`).

## 5. Proofs

| Theorem | Module | Says |
| --- | --- | --- |
| `TypeCorrect` | `ChainContract_proof` | the chain pass is type correct |
| `VerdictSoundAndComplete` | `ChainContract_proof` | an org has a finding iff its entries are no valid chain |
| `HeadIsTheTail` | `ChainContract_proof` | a clean org's head is its last entry |
| `SignaturesAccounted` | `ChainContract_proof` | in a clean export scanned = verified + skipped, each skip with its warning |
| `NothingSkippedAllSigned` | `ChainContract_proof` | nothing skipped means everything signed by known keys |
| `HeadMovesForward` | `ChainContract_proof` | without a break a head moves only to the next chained entry |
| `HeadHasBacking` | `ChainContract_proof` | any reported head, in a damaged export too, is an entry that passed its checks and hangs on genesis or an earlier entry |
| `LedgerCountTheorem` | `ChainContract_proof` | the adapter's count never exceeds the number of entries without a finding |
| `ExitCodeTheorem` | `NdjsonContract_proof` | the exit code of an NDJSON run is the verdict |
| `SummaryTheorem` | `NdjsonContract_proof` | what a clean run prints of its counts is true |
| `AnchorPinsTheorem` | `NdjsonContract_proof` | a clean run against a genuine anchor has the producer's whole history |
| `RunTypesTheorem` | `NdjsonContract_proof` | the NDJSON run is type correct |
| `AcceptedIsSigned` | `EnvelopeContract_proof` | exit 0 on an envelope means a signature over all of it by the right key |
| `LedgerVerdict` | `EnvelopeContract_proof` | the ledger is valid iff every recomputable row recomputes and every asserted link holds |
| `OnlyPassedRowsCount` | `EnvelopeContract_proof` | the count of verified rows is that of the rows without a finding, each linked to the one counted before |
| `LayersAreExplained` | `EnvelopeContract_proof` | a layer is invalid iff a finding of its own family says why; a refused envelope has one finding and no layers |
| `CorrelationsHaveAnchors` | `EnvelopeContract_proof` | each record of a valid correlation layer has its decision or permit check in the export, and an identity of its own |
| `BreakdownsArePartitions` | `EnvelopeContract_proof` | the printed breakdowns are partitions of the records counted |
| `DisclosuresAreDistinct` | `EnvelopeContract_proof` | no more disclosures are counted than there are ids, in a damaged archive too |
| `CertifiedCopies` | `EnvelopeContract_proof` | the certified-copy line is OK only over a signature, true counts and the bundle hash of the bound sections |
| `GenuineAreAccepted` | `EnvelopeContract_proof` | a genuine envelope has no finding, and is refused only by `--require-signatures` without its key |
| `EnvelopeTypes` | `EnvelopeContract_proof` | the envelope run is type correct |
| `ConflictsAreReported` | `ReconcileContract_proof` | the findings of a reconciliation are exactly the conflicts of the two records |
| `ScopeComesFirst` | `ReconcileContract_proof` | exports of different or undeclared scope are never compared |
| `NothingPasses` | `ReconcileContract_proof` | no reconciliation exits with 0 |
| `ReconcileTypes` | `ReconcileContract_proof` | the reconciliation is type correct |
| `PassRefinesLogs` | `ChainContract_proof` | the chain pass implements `OrgLog`: each line extends one org's log, refuses one, or changes none |
| `TrustRootTheorem` | `CommandLine_proof` | a key file of any length loads iff all of it is keys with distinct ids, and is then the store |
| `ExitTheorem` | `CommandLine_proof` | the exit code is the verdict on flags and files |
| `StrictAcceptanceTheorem` | `CommandLine_proof` | strict exit 0 means every signature is by a key the whole key file binds |
| `TypesTheorem` | `CommandLine_proof` | the command line run is type correct |
| `DuplicateTheorem` | `JsonScan_proof` | the scan fails iff some object has two members of one name, at any depth |
| `InStepTheorem` | `JsonScan_proof` | the scanner's stack follows the decoder's |
| `ScanTypesTheorem` | `JsonScan_proof` | the scan is type correct |
| `MeaningTheorem` | `JsonContract_proof` | reading the hashed or signed bytes back gives the object, but for the fields left out |
| `OneTextTheorem` | `JsonContract_proof` | an object has at most one canonical text in each form, however Go walks its maps |
| `OrderTheorem` | `JsonContract_proof` | at every depth the members stand in the order of the form |
| `NumbersTheorem` | `JsonContract_proof` | an envelope's numbers are JavaScript's, and an object is refused for an unwritable number in it and for nothing else |
| `WritersOrderNames` | `JsonCanonical_proof` | both comparisons (bytes of UTF-8, units of UTF-16) are the order on code points that the documents state |
| `OneSortedOrder` | `JsonCanonical_proof` | sorting a finite set of names leaves exactly one sequence |
| `WrittenNumberIsRead` | `JsonCanonical_proof` | what `esNumber` writes is read back as the same float |

Assumptions: the named `ASSUME`s of the modules. They type the constants and say
that sentinels (`Unseen`, `NotHex`, `NoHead`, ...) are not data. Two are of
substance: `CollisionResistance` (used by `AnchorPinsTheorem` alone) and
`FileSizeAssumption`, that an export has no more lines than an int64 can number
(a sequence number that wraps would otherwise let history repeat). The envelope and
the reconciliation need that their inputs are lists of records
(`SectionsAssumption`, `RowsAssumption`, `ExportsAssumption`), of any length, and
that a certified copy states its version as a number (`VersionAssumption`). The
canonical texts need that unquoted names are sequences of code points without
surrogates (`UnquoteAssumption`; a Go string decoded from JSON holds no others)
and that a literal is a well-formed JSON number with at most 15 significant
digits (`LiteralsAreNumbers`, `LiteralsFitFloats`), so that a float is its digits.

The argument for the chain. `OrgCleanIffValid` relates findings to all pairs of
consecutive entries and is not inductive: nothing in it says that `state` holds
what the next entry is compared with. The invariant `SoundInv` adds that, per
org: as long as the org has no finding, `state` is `Unseen` exactly when the org
has no entry, and otherwise it and `head` are those of the org's last entry.
A step reads one line. For every org but that of the line nothing changes
(`OtherLine`); for its org the line becomes the last entry (`EntryLine`), the
valid chain grows by it exactly when it is well formed and succeeds the last one
(`TrackedExtends`), and each of the eleven actions adds a finding exactly when
that fails (`Verdict`). Signatures are counted by `CountInv`
(the counters against cardinalities of the entry and warning sets) and `SigInv`.

The argument for the run combines these with the anchor phase: `RunInv` carries
the chain invariant through the phases, `AnchorChecked` shows that an anchor has
no finding iff it names the last entry of its org, and `StrictMeansAllSigned`
turns the counters into `AllSigned`. For `AnchorPinsHistory`, `PinInv` says of
every clean org that its entries are numbered 1, 2, ... in file order, and that
behind each entry whose hash is one of the producer's log (`Genuine`) all entries
up to it are the log's (`Same`: equal body, and equal `engine_version` or the
warning that the older hash form was taken). A step adds an entry whose hash is
injective in the previous hash and the content, so a genuine entry has a genuine
predecessor, to which the invariant applies.

`HeadIsBacked` holds in damaged exports, where `SoundInv` says nothing. Its
invariant `BackedInv` adds that what the next entry will be hashed after
(`state`) is itself genesis or the hash of an earlier entry of the org.
`LedgerCountIsCautious` follows from `CountInv`: an entry with a finding has one
of its own line, so the entries with findings inject into the findings.

The argument for the envelope. `SignatureInv` ties the status and
`keyTrusted` to the signature in every phase after parsing. `LedgerInv` describes
the row loop: while no row has failed, the rows before `row` are `Checked`
(recomputed and linked) and `prevEntryHash` is that of the row before; once one
has failed they are not, and no later row can repair that. `PassedInv` follows
the loop past a failure, where `LedgerInv` is silent: the count is the
cardinality of the rows passed so far, and `prevEntryHash` is carried from the
last of them (`Carried`), to which the next passed one links.

That findings and verdicts agree (`LayersMatchFindings`) is first said of each
section alone: `CorrelationsTell` and `ArchiveTells` show that a section yields a
finding exactly when one of its records fails. A failing record may be
reported by the first of its group only; `FirstExists` supplies that record.
`LayerInv` then carries "invalid iff told" (`Told`) from layer to layer, each
step adding findings of one family, and in the row loop ties the flag
`ledgerInvalid` to the findings so far. The counts are set in one step for a
whole section, so `CountInv` needs two cases per section, open and judged; that
a judged section's counts are partitions (`PartsOf`) and that of the records
with one id at most the first is good (`GoodIdsDiffer`) are facts about finite
sets. `CertInv` says that by the time anything is printed each fault of the
manifest has its finding (`Accounted`). For `GenuineIsAccepted`, `GenuineUnfailed`
shows that no record of a genuine envelope can fail, and `GenuineInv` that the
rows leave no finding either (`Spotless`). `TypeStep` takes the steps one by one,
from a type for each layer.

The argument for reconciliation. Permits shared by both exports are compared one
by one in the sorted order of their hashes; `RInv` says that the findings so far
are exactly those of the permits no longer in `todo`, whatever the order. `ConflictsFound` shows that what
the comparison finds on all shared permits is what `Conflicts` defines from the
two records; the earliest dated revocation, which the comparison picks, exists by
`EarliestExists`, from the well-foundedness of the subset order on finite sets.

The argument for the refinement. Under `Tips` and `RefusedOrgs` a line is at most
one step of the log: a line of an org that has no finding and gets none extends
that org's log, since by `SoundInv` the state it was compared with is the tip; a
first finding refuses it; a line of an org already refused, or of none, changes
nothing. What has to be shown beyond `SoundInv` is that findings are never taken
back and that no line touches another org's tip.

The argument for the command line. `LoadInv` says that the sections before
`next` are the blocks consumed so far, each naming one key, with distinct ids,
and that the store is exactly their function; each refusal exhibits what makes
the whole file ill-formed, so the two halves of `TrustRootIsExact` follow.
`PhaseInv` ties the phase to what has been checked by then (no phase after
`keys` without a loaded store when a key file is given), and `RunInv` adds that
the exit code is the verdict. The order in which `main` finds faults disappears
in this step: whichever it meets first, `Verdict` is 2.

The argument for the scan. `DuplicatesAreFound` is proved by lock-step: the
invariant has the decoder's containers properly nested in the text (`Nesting`),
the scanner's stack in step with them level by level, and each level's keys equal
to those read in that container. A key is then a duplicate exactly when it
repeats one in its container, and since the container of a token never changes,
no earlier pair can appear later.

The argument for the canonical texts. The contract speaks of a tree of objects
and arrays, the scan only of a sequence of tokens with the container of each. The
invariant `Structure` says that the two agree: a key and its value stand together
(`WellPlaced`, `LastKey`), a container opens before what is in it, and what is
read while it is open lies inside it (`Containers`, `Nested`). `WrittenInv` adds
that once an object is written, each of its three texts is one that `FormTexts`
allows, or `Refused` when there is none; and a text is only written when the
object is complete, so that every key has its value and every container its end.

On such a text the recursive functions of the writers (`Encode`, `EncodeValue`,
`ItemsOf`) and of the contract (`Meaning`, `Parts`, `ReadBack`) have a value,
since each part opens after the one it lies in: from the last token to the first,
a function that solves the equations from one position on is extended to the
position before (`TextsExist`, `MeaningsExist`, `ReadsExist`). A claim about every
part goes the same way over a *set* of positions, those where it holds: a greatest
position outside it, or a least one, contradicts the step (`DownwardInduction`,
`UpwardInduction`). Stated on sets these need no operator parameter.

* Meaning: what an object's texts read back to is the meaning of its tokens,
  given that of its parts; the members are a set, and since the scan found no
  duplicate, sorting them by name loses none.
* One text: by `OneSortedOrder` there is one sequence of names, given one text
  for each value there is one text of the object. The order is total
  (`WritersOrderNames`): two names with one encoding are equal, and where the
  encodings first differ, in UTF-8 or in UTF-16, the code points differ in the
  same direction, but that UTF-16 puts the supplementary planes before U+E000.
* Numbers: the forms of `esNumber` are taken by the digits and the place of the
  point; each is JavaScript's and each is read back as the float it came from.
  A number that a form cannot write leaves no text to anything around it up to
  the member it is in, and, when that member is not left out, none to the object.
  Conversely an object without text has a part without text that is not a
  container, and only a number can be that.

The converse direction showed an earlier form of this property to be wrong: a
number which the entry form cannot write does not refuse an object when it is in
a member that is left out (`signature`, `entry_hash`), because
`canonicalizeForHash` deletes these before encoding. TLC had missed it, as no
number could stand that deep in its texts; `InLeftOut` says it, and `NumbersAt`
now has the fourth token too.

What stays with TLC: liveness. `EveryRunEnds`, that every run of the command line
reaches its exit, rests on weak fairness of its steps, and is out of the provers'
reach. Every invariant and every action property that a passing run checks is a
theorem for all values of the constants. The project declares no `RECURSIVE` operator:
recursion is written as recursive functions, in the modules that are proved about
as in the others.

## 6. Not modelled

* The escapes inside a JSON string and the bytes of the canonical texts; floats
  that need more than 15 digits. These are formatting of one value, not state.
* `canonical.FromJSON` and `jcs.CanonicalizeRaw`, which only tests and generators
  call. `FromJSON` tests for trailing data with `dec.More()`, which does not see
  a trailing `]` or `}`.
* The JSON report, and the printed lines that show one field each.
* The fixture generators and continuous integration, which are not part of the
  verifier.

I/O errors appear only as the outcomes the code distinguishes; one that strikes
while a file is being read ends the run as a file that cannot be opened does.

## 7. Plan

Written in this order: the chain pass, its contract and proofs; the NDJSON run
around it; the envelope layers; reconciliation; then the log each org owns and
its refinement, the key file, the command line, the duplicate-key scan and the
canonical texts. What is left:

1. The detail of the certified-copy line (`certificationSummaryDetail`) beside
   its marker.
2. What a reader of several results may conclude together, as corollaries: for
   instance that a strict NDJSON acceptance against a genuine anchor leaves the
   producer's history signed entry by entry.
