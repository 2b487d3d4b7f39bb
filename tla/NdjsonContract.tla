--------------------------- MODULE NdjsonContract ---------------------------
(***************************************************************************)
(* What the exit code of an NDJSON run means, stated on the export, the    *)
(* keystore and the anchors alone, and what a trusted anchor pins down     *)
(* about the entries before it (README.md, docs/verification-contract.md). *)
(***************************************************************************)
EXTENDS NdjsonRun

CONSTANT ProducerLog    \* org -> the chain its producer really wrote

(* The producer's own chains start at genesis, are numbered from 1 and      *)
(* hash-linked in the current form.                                         *)
IsProducerLog(log) ==
    /\ \A s \in DOMAIN log : log[s].sequence = s /\ log[s].entry_hash \in Digest
    /\ 1 \in DOMAIN log =>
         log[1].entry_hash = PrimaryHash(GenesisHash, log[1])
    /\ \A s \in DOMAIN log :
         s > 1 => log[s].entry_hash = PrimaryHash(log[s - 1].entry_hash, log[s])

ASSUME ProducerLogAssumption ==
    /\ ProducerLog \in [Org -> Seq(Entry)]
    /\ \A o \in Org : IsProducerLog(ProducerLog[o])

(* Collision resistance, taken as injectivity on what is ever hashed. *)
ASSUME CollisionResistance ==
    \A d1, d2 \in Digest, c1, c2 \in Content :
        Hash(d1, c1) = Hash(d2, c2) => d1 = d2 /\ c1 = c2

(* An export has fewer lines than an int64 can number. *)
ASSUME FileSizeAssumption == MaxLines <= MaxInt64

Entries == {i \in DOMAIN file : file[i].kind = "entry"}

ValidExport ==
    /\ \A i \in DOMAIN file : file[i] \notin {MalformedLine, OversizeLine}
    /\ \A o \in Org : ValidOrgChain(keys, file, o)

AnchorHolds(a) ==
    \E i \in DOMAIN file : /\ LastOf(file, i, a.org_id)
                           /\ file[i].sequence = a.sequence
                           /\ file[i].entry_hash = a.entry_hash

AllSigned ==
    /\ Entries # {}
    /\ \A i \in Entries :
         KeyKnown(keys, file[i]) /\ SignatureVerifies(keys, file[i])

Acceptable ==
    /\ ValidExport
    /\ headFile # NoHead => \A i \in DOMAIN headFile : AnchorHolds(headFile[i])
    /\ requireSigs => AllSigned

-----------------------------------------------------------------------------

(***************************************************************************)
(* A run that reaches a verdict exits 0 exactly when every org's chain is  *)
(* valid, every anchor names the last entry of its org and, under          *)
(* --require-signatures, every entry is signed by a key in the keystore.   *)
(***************************************************************************)
ExitCodeIsVerdict == exit \in {0, 1} => (exit = 0 <=> Acceptable)

(***************************************************************************)
(* What the summary printed with exit 0 says: every anchored head matches, *)
(* and under --require-signatures every entry scanned was verified.        *)
(***************************************************************************)
SummaryIsTrue ==
    exit = 0 =>
        /\ headFile # NoHead => AnchoredOrgs(headFile) = Len(headFile)
        /\ requireSigs => sigVerified = Cardinality(Entries)

(***************************************************************************)
(* A genuine anchor pins the whole history before it: with exit 0 and an   *)
(* anchor taken from entry n of the producer's chain, the export holds     *)
(* exactly the producer's entries 1..n of that org, in order, and where    *)
(* no legacy-form warning was given their engine_version as well.          *)
(***************************************************************************)
AnchorPinsHistory ==
    exit = 0 /\ headFile # NoHead =>
        \A a \in {headFile[i] : i \in DOMAIN headFile} :
            LET log == ProducerLog[a.org_id] IN
            /\ a.sequence \in DOMAIN log
            /\ a.entry_hash = log[a.sequence].entry_hash
            =>
            /\ \A s \in 1..a.sequence :
                 \E i \in DOMAIN file :
                     EntryAt(file, i, a.org_id) /\ file[i].sequence = s
            /\ \A i \in DOMAIN file : EntryAt(file, i, a.org_id) =>
                 /\ file[i].sequence \in 1..a.sequence
                 /\ file[i].body = log[file[i].sequence].body
                 /\ \/ file[i].engine_version =
                         log[file[i].sequence].engine_version
                    \/ [line |-> i, kind |-> "engine_version_legacy_hash_form"]
                         \in warnings
=============================================================================
