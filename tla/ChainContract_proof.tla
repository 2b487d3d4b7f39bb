------------------------ MODULE ChainContract_proof ------------------------
(***************************************************************************)
(* Proofs about chain.Verify for every set of lines, keystore, hash        *)
(* function, number of orgs and length of export: what its findings and    *)
(* heads say of the file, that it implements OrgLog, and the counters it   *)
(* reports with the count the ledger-only adapter derives from them.       *)
(***************************************************************************)
EXTENDS ChainRefinement, LedgerOnly, FiniteSetTheorems, TLAPS

LEMMA EntryLines ==
    ASSUME NEW e \in Lines, e.kind = "entry"
    PROVE  e \in Entry
BY LinesAssumption DEF Line, BlankLine, MalformedLine, OversizeLine

LEMMA CanonicalType ==
    ASSUME NEW e \in Entry, NEW b \in BOOLEAN
    PROVE  CanonicalizeForHash(e, b) \in Content
BY DEF Entry, Content, CanonicalizeForHash

(* An entry_hash that verifies is a digest. *)
LEMMA MatchedHash ==
    ASSUME NEW e \in Entry, NEW d \in Digest, HashMatches(d, e)
    PROVE  e.entry_hash \in Digest
<1>1. Hash(d, CanonicalizeForHash(e, TRUE)) # NotHex
  BY CanonicalType, HashAssumption
<1>2. Hash(d, CanonicalizeForHash(e, FALSE)) # NotHex
  BY CanonicalType, HashAssumption
<1>3. e.entry_hash # NotHex
  BY <1>1, <1>2 DEF HashMatches, PrimaryHash, LegacyHash
<1> QED
  BY <1>3 DEF Entry

LEMMA NextSequenceType ==
    ASSUME NEW s \in Int
    PROVE  NextSequence(s) \in Int
BY MaxInt64Assumption DEF NextSequence

LEMMA CurrentType ==
    ASSUME TypeOK, NEW e \in Entry
    PROVE  Current(e) \in OrgState
BY GenesisAssumption DEF TypeOK, Current, Opens, OrgState, Entry

-----------------------------------------------------------------------------
(* Type correctness. *)

LEMMA AppendLine ==
    ASSUME TypeOK, NEW l \in Lines, Read(l)
    PROVE  /\ file' \in Seq(Lines) /\ Len(file') <= MaxLines
           /\ Len(file') = Len(file) + 1
           /\ keys' \in KeyStores
           /\ 1..Len(file) \subseteq 1..Len(file')
           /\ Len(file) + 1 \in 1..Len(file')
BY MaxLinesAssumption DEF TypeOK, Read

(* The parts of TypeOK that every entry step preserves in the same way. *)
LEMMA EntryFindingsType ==
    ASSUME TypeOK, NEW l \in Lines, Read(l),
           NEW N, N \subseteq [line : {Len(file) + 1}, kind : FindingKind]
    PROVE  findings \cup N \subseteq [line : 1..Len(file'), kind : FindingKind]
BY AppendLine DEF TypeOK

LEMMA EntryWarningsType ==
    ASSUME TypeOK, NEW l \in Lines, Read(l),
           NEW N, N \subseteq [line : {Len(file) + 1}, kind : WarningKind]
    PROVE  warnings \cup N \subseteq [line : 1..Len(file'), kind : WarningKind]
BY AppendLine DEF TypeOK

LEMMA OpeningFindingsType ==
    ASSUME NEW e
    PROVE  OpeningFindings(e) \subseteq
             [line : {Len(file) + 1}, kind : FindingKind]
BY DEF OpeningFindings, Here, FindingKind

LEMMA LegacyWarningType ==
    ASSUME NEW e
    PROVE  LegacyWarning(e) \subseteq
             [line : {Len(file) + 1}, kind : WarningKind]
BY DEF LegacyWarning, Here, WarningKind

LEMMA RefuseHashedType ==
    ASSUME TypeOK, NEW e \in Entry, e \in Lines, NEW k \in FindingKind,
           RefuseHashed(e, k),
           \/ warnings' = warnings
           \/ warnings' = warnings \cup LegacyWarning(e)
    PROVE  TypeOK'
<1> USE DEF RefuseHashed, ReadEntry
<1>1. findings' \subseteq [line : 1..Len(file'), kind : FindingKind]
  <2>1. OpeningFindings(e) \cup {Here(k)}
          \subseteq [line : {Len(file) + 1}, kind : FindingKind]
    BY OpeningFindingsType DEF Here
  <2> QED
    BY <2>1, EntryFindingsType
<1>2. warnings' \subseteq [line : 1..Len(file'), kind : WarningKind]
  BY LegacyWarningType, EntryWarningsType, AppendLine DEF TypeOK
<1>3. state' \in [Org -> OrgState \cup {Unseen}]
  BY CurrentType DEF TypeOK
<1> QED
  BY <1>1, <1>2, <1>3, AppendLine DEF TypeOK

LEMMA AdvanceType ==
    ASSUME TypeOK, NEW e \in Entry, e \in Lines, HashVerified(e), Advance(e),
           sigVerified' \in Nat, sigSkipped' \in Nat,
           NEW W, W \subseteq [line : {Len(file) + 1}, kind : WarningKind],
           warnings' = warnings \cup W
    PROVE  TypeOK'
<1> USE DEF Advance, ReadEntry
<1>1. findings' \subseteq [line : 1..Len(file'), kind : FindingKind]
  BY OpeningFindingsType, EntryFindingsType
<1>2. warnings' \subseteq [line : 1..Len(file'), kind : WarningKind]
  BY EntryWarningsType
<1>3. e.entry_hash \in Digest
  BY CurrentType, MatchedHash DEF HashVerified, OrgState
<1>4. state' \in [Org -> OrgState \cup {Unseen}]
  BY <1>3, NextSequenceType DEF TypeOK, OrgState, Entry
<1>5. head' \in [Org -> OrgHead \cup {Unseen}]
  BY <1>3 DEF TypeOK, OrgHead, Entry
<1> QED
  BY <1>1, <1>2, <1>4, <1>5, AppendLine DEF TypeOK

LEMMA TypeStep ==
    ASSUME TypeOK, [Next]_chainVars
    PROVE  TypeOK'
<1>1. CASE SkipBlankLine
  <2>1. /\ findings' \subseteq [line : 1..Len(file'), kind : FindingKind]
        /\ warnings' \subseteq [line : 1..Len(file'), kind : WarningKind]
    BY <1>1, AppendLine DEF SkipBlankLine, TypeOK
  <2> QED
    BY <1>1, <2>1, AppendLine DEF SkipBlankLine, TypeOK
<1>2. CASE RejectMalformedLine
  <2>1. /\ findings' \subseteq [line : 1..Len(file'), kind : FindingKind]
        /\ warnings' \subseteq [line : 1..Len(file'), kind : WarningKind]
    BY <1>2, AppendLine DEF RejectMalformedLine, TypeOK, Here, FindingKind
  <2> QED
    BY <1>2, <2>1, AppendLine DEF RejectMalformedLine, TypeOK
<1>3. CASE FailOnOversizeLine
  <2>1. /\ findings' \subseteq [line : 1..Len(file'), kind : FindingKind]
        /\ warnings' \subseteq [line : 1..Len(file'), kind : WarningKind]
    BY <1>3, AppendLine DEF FailOnOversizeLine, TypeOK
  <2> QED
    BY <1>3, <2>1, AppendLine DEF FailOnOversizeLine, TypeOK
<1>4. ASSUME NEW e \in Lines, e.kind = "entry", ReadSomeEntry(e)
      PROVE  TypeOK'
  <2> e \in Entry
    BY <1>4, EntryLines
  <2>0. ASSUME NEW k \in FindingKind, Refuse(e, k),
               state' \in [Org -> OrgState \cup {Unseen}]
        PROVE  TypeOK'
    <3>1. {Here(k)} \subseteq [line : {Len(file) + 1}, kind : FindingKind]
      BY DEF Here
    <3>2. findings' \subseteq [line : 1..Len(file'), kind : FindingKind]
      BY <2>0, <3>1, EntryFindingsType DEF Refuse, ReadEntry
    <3>3. warnings' \subseteq [line : 1..Len(file'), kind : WarningKind]
      BY <2>0, AppendLine DEF Refuse, ReadEntry, TypeOK
    <3> QED
      BY <2>0, <3>2, <3>3, AppendLine DEF Refuse, ReadEntry, TypeOK
  <2>1. CASE RejectVersion(e)
    BY <2>0, <2>1 DEF RejectVersion, FindingKind, TypeOK
  <2>2. CASE RejectOutOfOrder(e)
    BY <2>0, <2>2 DEF RejectOutOfOrder, FindingKind, TypeOK
  <2>3. CASE RejectMalformedPrevious(e)
    BY <2>0, <2>3 DEF RejectMalformedPrevious, FindingKind, TypeOK
  <2>4. CASE BreakChain(e)
    BY <2>0, <2>4 DEF BreakChain, FindingKind, TypeOK
  <2>5. CASE RejectCanonicalForm(e)
    BY <2>5, RefuseHashedType DEF RejectCanonicalForm, FindingKind
  <2>6. CASE RejectHash(e)
    BY <2>6, RefuseHashedType DEF RejectHash, FindingKind
  <2>7. CASE RejectSignatureEncoding(e)
    BY <2>7, RefuseHashedType DEF RejectSignatureEncoding, FindingKind
  <2>8. CASE RejectSignature(e)
    BY <2>8, RefuseHashedType DEF RejectSignature, FindingKind
  <2>9. CASE AcceptWithoutKeys(e)
    BY <2>9, AdvanceType, LegacyWarningType DEF AcceptWithoutKeys, TypeOK
  <2>10. CASE AcceptUnknownKey(e)
    <3> DEFINE W == LegacyWarning(e) \cup {Here("unknown_key_version")}
    <3>1. W \subseteq [line : {Len(file) + 1}, kind : WarningKind]
      BY LegacyWarningType DEF Here, WarningKind
    <3>2. warnings' = warnings \cup W
      BY <2>10 DEF AcceptUnknownKey
    <3>3. /\ HashVerified(e) /\ Advance(e)
          /\ sigVerified' \in Nat /\ sigSkipped' \in Nat
      BY <2>10 DEF AcceptUnknownKey, TypeOK
    <3> HIDE DEF W
    <3> QED
      BY <3>1, <3>2, <3>3, AdvanceType
  <2>11. CASE AcceptSigned(e)
    <3>1. /\ HashVerified(e) /\ Advance(e)
          /\ sigVerified' \in Nat /\ sigSkipped' \in Nat
          /\ warnings' = warnings \cup LegacyWarning(e)
      BY <2>11 DEF AcceptSigned, TypeOK
    <3> QED
      BY <3>1, AdvanceType, LegacyWarningType
  <2> QED
    BY <1>4, <2>1, <2>2, <2>3, <2>4, <2>5, <2>6, <2>7, <2>8, <2>9, <2>10,
       <2>11 DEF ReadSomeEntry
<1>5. CASE UNCHANGED chainVars
  BY <1>5 DEF chainVars, TypeOK
<1> QED
  BY <1>1, <1>2, <1>3, <1>4, <1>5 DEF Next

LEMMA TypeInit ==
    ASSUME Init
    PROVE  TypeOK
<1>1. file \in Seq(Lines) /\ Len(file) = 0
  BY DEF Init
<1>2. Len(file) <= MaxLines
  BY <1>1, MaxLinesAssumption
<1> QED
  BY <1>1, <1>2 DEF Init, TypeOK

(* Every state of the pass has the types the code declares. *)
THEOREM TypeCorrect == Spec => []TypeOK
<1>1. Init => TypeOK
  BY TypeInit
<1>2. TypeOK /\ [Next]_chainVars => TypeOK'
  BY TypeStep
<1> QED
  BY <1>1, <1>2, PTL DEF Spec

-----------------------------------------------------------------------------
(* Valid chains, one line longer. *)

NoEntryOf(f, o) == \A i \in DOMAIN f : ~EntryAt(f, i, o)

(* Entry e may follow the entries of org o in f. *)
Extends(ks, f, o, e) ==
    /\ WellFormed(ks, e)
    /\ NoEntryOf(f, o) => IsGenesis(e)
    /\ \A j \in DOMAIN f : LastOf(f, j, o) => Succeeds(f[j], e)

LEMMA AppendFacts ==
    ASSUME NEW f \in Seq(Lines), NEW l \in Lines, NEW o
    PROVE  LET g == Append(f, l)
               n == Len(f) + 1
           IN  /\ DOMAIN f = 1..Len(f) /\ DOMAIN g = 1..n
               /\ Len(f) \in Nat /\ Len(g) = n
               /\ \A i \in 1..Len(f) : g[i] = f[i]
               /\ g[n] = l
               /\ \A i \in 1..Len(f) : EntryAt(g, i, o) <=> EntryAt(f, i, o)
               /\ EntryAt(g, n, o) <=> l.kind = "entry" /\ l.org_id = o
BY DEF EntryAt

(* A line that is no entry of org o changes nothing for it. *)
LEMMA OtherLine ==
    ASSUME NEW f \in Seq(Lines), NEW l \in Lines, NEW o, NEW ks,
           ~(l.kind = "entry" /\ l.org_id = o)
    PROVE  LET g == Append(f, l)
           IN  /\ NoEntryOf(g, o) <=> NoEntryOf(f, o)
               /\ \A i \in DOMAIN f : LastOf(f, i, o) => LastOf(g, i, o)
               /\ ValidOrgChain(ks, g, o) <=> ValidOrgChain(ks, f, o)
<1> DEFINE g == Append(f, l)
           n == Len(f) + 1
<1>1. /\ DOMAIN f = 1..Len(f) /\ DOMAIN g = 1..n /\ Len(f) \in Nat
      /\ \A i \in 1..Len(f) : g[i] = f[i]
      /\ \A i \in 1..Len(f) : EntryAt(g, i, o) <=> EntryAt(f, i, o)
      /\ ~EntryAt(g, n, o)
  BY AppendFacts
<1> HIDE DEF g
<1>2. NoEntryOf(g, o) <=> NoEntryOf(f, o)
  BY <1>1 DEF NoEntryOf
<1>3. \A i \in 1..Len(f) : LastOf(g, i, o) <=> LastOf(f, i, o)
  BY <1>1 DEF LastOf
<1>4. \A i \in 1..Len(f) : FirstOf(g, i, o) <=> FirstOf(f, i, o)
  BY <1>1 DEF FirstOf
<1>5. \A i, j \in 1..Len(f) : Consecutive(g, j, i, o) <=> Consecutive(f, j, i, o)
  BY <1>1 DEF Consecutive
<1>6. \A i \in 1..n : EntryAt(g, i, o) => i \in 1..Len(f)
  BY <1>1
<1>7. \A i, j \in 1..n : Consecutive(g, j, i, o) => j \in 1..Len(f)
  BY <1>6 DEF Consecutive
<1>8. ValidOrgChain(ks, g, o) <=> ValidOrgChain(ks, f, o)
  BY <1>1, <1>4, <1>5, <1>6, <1>7 DEF ValidOrgChain
<1> QED
  BY <1>1, <1>2, <1>3, <1>8 DEF g

(* An entry of org o keeps the chain valid exactly when it extends it. *)
LEMMA EntryLine ==
    ASSUME NEW f \in Seq(Lines), NEW e \in Lines, NEW o, NEW ks,
           e.kind = "entry", e.org_id = o
    PROVE  LET g == Append(f, e)
           IN  /\ LastOf(g, Len(f) + 1, o)
               /\ ~NoEntryOf(g, o)
               /\ ValidOrgChain(ks, g, o) <=>
                    ValidOrgChain(ks, f, o) /\ Extends(ks, f, o, e)
<1> DEFINE g == Append(f, e)
           n == Len(f) + 1
<1>1. /\ DOMAIN f = 1..Len(f) /\ DOMAIN g = 1..n /\ Len(f) \in Nat
      /\ \A i \in 1..Len(f) : g[i] = f[i]
      /\ g[n] = e
      /\ \A i \in 1..Len(f) : EntryAt(g, i, o) <=> EntryAt(f, i, o)
      /\ EntryAt(g, n, o)
  BY AppendFacts
<1> HIDE DEF g
<1>2. LastOf(g, n, o)
  BY <1>1 DEF LastOf
<1>3. ~NoEntryOf(g, o)
  BY <1>1 DEF NoEntryOf
<1>4. \A i \in 1..Len(f) : FirstOf(g, i, o) <=> FirstOf(f, i, o)
  BY <1>1 DEF FirstOf
<1>5. \A i, j \in 1..Len(f) : Consecutive(g, j, i, o) <=> Consecutive(f, j, i, o)
  BY <1>1 DEF Consecutive
<1>6. FirstOf(g, n, o) <=> NoEntryOf(f, o)
  BY <1>1 DEF FirstOf, NoEntryOf
<1>7. \A j \in 1..Len(f) : Consecutive(g, j, n, o) <=> LastOf(f, j, o)
  BY <1>1 DEF Consecutive, LastOf
<1>8. \A i \in 1..n, j \in 1..n : Consecutive(g, j, i, o) => j \in 1..Len(f)
  BY <1>1 DEF Consecutive
<1>9. ValidOrgChain(ks, g, o) =>
        ValidOrgChain(ks, f, o) /\ Extends(ks, f, o, e)
  <2> SUFFICES ASSUME ValidOrgChain(ks, g, o)
               PROVE  ValidOrgChain(ks, f, o) /\ Extends(ks, f, o, e)
    OBVIOUS
  <2>1. ValidOrgChain(ks, f, o)
    BY <1>1, <1>4, <1>5 DEF ValidOrgChain
  <2>2. Extends(ks, f, o, e)
    BY <1>1, <1>6, <1>7 DEF ValidOrgChain, Extends
  <2> QED
    BY <2>1, <2>2
<1>10. ASSUME ValidOrgChain(ks, f, o), Extends(ks, f, o, e)
       PROVE  ValidOrgChain(ks, g, o)
  <2> SUFFICES ASSUME NEW i \in 1..n, EntryAt(g, i, o)
               PROVE  /\ WellFormed(ks, g[i])
                      /\ FirstOf(g, i, o) => IsGenesis(g[i])
                      /\ \A j \in 1..n :
                           Consecutive(g, j, i, o) => Succeeds(g[j], g[i])
    BY <1>1 DEF ValidOrgChain
  <2>1. CASE i = n
    BY <2>1, <1>1, <1>6, <1>7, <1>8, <1>10 DEF Extends
  <2>2. CASE i \in 1..Len(f)
    BY <2>2, <1>1, <1>4, <1>5, <1>8, <1>10 DEF ValidOrgChain
  <2> QED
    BY <2>1, <2>2, <1>1
<1> QED
  BY <1>2, <1>3, <1>9, <1>10 DEF g

-----------------------------------------------------------------------------
(* The inductive invariant: an org without findings has a valid chain, and  *)
(* `state' and the head stand at that chain's last entry.                   *)

Clean(o) == FindingsOf(o) = {}

Tracks(o) ==
    /\ NoEntryOf(file, o) => state[o] = Unseen /\ head[o] = Unseen
    /\ ~NoEntryOf(file, o) =>
         /\ state[o] # Unseen
         /\ \E i \in DOMAIN file :
              /\ LastOf(file, i, o)
              /\ state[o].prev = file[i].entry_hash
              /\ state[o].nextSeq = NextSequence(file[i].sequence)
              /\ head[o] = [sequence   |-> file[i].sequence,
                            entry_hash |-> file[i].entry_hash]

SoundInv ==
    \A o \in Org : /\ Clean(o) <=> ValidOrgChain(keys, file, o)
                   /\ Clean(o) => Tracks(o)

LEMMA UniqueLast ==
    ASSUME NEW f \in Seq(Lines), NEW o, NEW i, NEW j,
           LastOf(f, i, o), LastOf(f, j, o)
    PROVE  i = j
BY DEF LastOf, EntryAt

(* What the checks of the pass ask of an entry of a tracked org. *)
LEMMA TrackedExtends ==
    ASSUME TypeOK, NEW e \in Entry, Tracks(e.org_id)
    PROVE  Extends(keys, file, e.org_id, e) <=>
             /\ Continues(e) /\ OpeningFindings(e) = {}
             /\ HashMatches(Current(e).prev, e)
             /\ e.canonical /\ SignatureAccepted(keys, e)
<1> DEFINE o == e.org_id
<1>0. o \in Org /\ file \in Seq(Lines)
  BY DEF Entry, TypeOK
<1>1. SupportedVersion(e) <=> e.chain_version >= 5
  BY DEF SupportedVersion, MinChainVersion
<1>2. CASE NoEntryOf(file, o)
  <2>1. Opens(e)
    BY <1>2 DEF Tracks, Opens
  <2>2. \A j \in DOMAIN file : ~LastOf(file, j, o)
    BY <1>2 DEF NoEntryOf, LastOf
  <2>3. Extends(keys, file, o, e) <=> WellFormed(keys, e) /\ IsGenesis(e)
    BY <1>2, <2>2 DEF Extends
  <2>4. OpeningFindings(e) = {} <=> e.sequence = 1 /\ e.previous_hash = GenesisHash
    <3>1. Here("ordering") \in OpeningFindings(e) <=> e.sequence # 1
      BY <2>1 DEF OpeningFindings, Here
    <3>2. Here("genesis_previous_hash") \in OpeningFindings(e)
            <=> e.previous_hash # GenesisHash
      BY <2>1 DEF OpeningFindings, Here
    <3>3. OpeningFindings(e) \subseteq
            {Here("ordering"), Here("genesis_previous_hash")}
      BY <2>1 DEF OpeningFindings
    <3> QED
      BY <3>1, <3>2, <3>3
  <2>5. Current(e).prev = GenesisHash
    BY <2>1 DEF Current
  <2> QED
    BY <1>1, <2>1, <2>3, <2>4, <2>5 DEF WellFormed, IsGenesis, Continues
<1>3. CASE ~NoEntryOf(file, o)
  <2>1. ~Opens(e)
    BY <1>3 DEF Tracks, Opens
  <2>2. PICK i \in DOMAIN file :
          /\ LastOf(file, i, o)
          /\ state[o].prev = file[i].entry_hash
          /\ state[o].nextSeq = NextSequence(file[i].sequence)
    BY <1>3 DEF Tracks
  <2>3. Extends(keys, file, o, e) <=>
          WellFormed(keys, e) /\ Succeeds(file[i], e)
    BY <1>0, <1>3, <2>2, UniqueLast DEF Extends
  <2>4. OpeningFindings(e) = {}
    BY <2>1 DEF OpeningFindings
  <2>5. Current(e).prev = file[i].entry_hash
    BY <2>1, <2>2 DEF Current
  <2> QED
    BY <1>1, <2>1, <2>2, <2>3, <2>4, <2>5 DEF WellFormed, Succeeds, Continues
<1> QED
  BY <1>2, <1>3

(* The current line gets a finding. *)
Flagged == \E x \in findings' : x.line = Len(file) + 1

LEMMA EntryStep ==
    ASSUME TypeOK, NEW e \in Lines, e \in Entry, ReadSomeEntry(e)
    PROVE  /\ file' = Append(file, e) /\ keys' = keys
           /\ findings \subseteq findings'
           /\ \A x \in findings' : x \in findings \/ x.line = Len(file) + 1
           /\ \A o \in Org \ {e.org_id} : state'[o] = state[o] /\ head'[o] = head[o]
<1> USE DEF ReadEntry, Read, Here, OpeningFindings
<1>1. CASE \E k : Refuse(e, k) /\ (state' = state \/ BreakChain(e))
  BY <1>1 DEF Refuse, BreakChain, TypeOK
<1>2. CASE \E k : RefuseHashed(e, k)
  BY <1>2 DEF RefuseHashed, TypeOK
<1>3. CASE Advance(e)
  BY <1>3 DEF Advance, TypeOK
<1> QED
  BY <1>1, <1>2, <1>3 DEF ReadSomeEntry, RejectVersion, RejectOutOfOrder,
     RejectMalformedPrevious, BreakChain, RejectCanonicalForm, RejectHash,
     RejectSignatureEncoding, RejectSignature, AcceptWithoutKeys,
     AcceptUnknownKey, AcceptSigned

(* In a tracked org the line is flagged exactly when the entry may not      *)
(* follow, and otherwise the org's state and head move to it.               *)
LEMMA Verdict ==
    ASSUME TypeOK, NEW e \in Lines, e \in Entry, ReadSomeEntry(e),
           Tracks(e.org_id)
    PROVE  /\ Flagged <=> ~Extends(keys, file, e.org_id, e)
           /\ Extends(keys, file, e.org_id, e) =>
                /\ state'[e.org_id] = [prev    |-> e.entry_hash,
                                       nextSeq |-> NextSequence(e.sequence)]
                /\ head'[e.org_id]  = [sequence   |-> e.sequence,
                                       entry_hash |-> e.entry_hash]
<1> DEFINE n == Len(file) + 1
           X == Extends(keys, file, e.org_id, e)
<1>0. /\ X <=> /\ Continues(e) /\ OpeningFindings(e) = {}
               /\ HashMatches(Current(e).prev, e)
               /\ e.canonical /\ SignatureAccepted(keys, e)
      /\ e.org_id \in Org
      /\ \A x \in findings : x.line # n
      /\ \A k : Here(k).line = n
  BY TrackedExtends DEF TypeOK, Entry, Here
<1>1. ASSUME NEW k, Here(k) \in findings', ~X
      PROVE  Flagged /\ ~X
  BY <1>0, <1>1 DEF Flagged
<1>2. CASE RejectVersion(e)
  BY <1>0, <1>1, <1>2 DEF RejectVersion, Refuse, Continues
<1>3. CASE RejectOutOfOrder(e)
  BY <1>0, <1>1, <1>3 DEF RejectOutOfOrder, Refuse, Continues
<1>4. CASE RejectMalformedPrevious(e)
  <2>1. state[e.org_id].prev # NotHex
    BY <1>0, <1>4, GenesisAssumption
       DEF RejectMalformedPrevious, Opens, TypeOK, OrgState
  <2> QED
    BY <1>0, <1>1, <1>4, <2>1 DEF RejectMalformedPrevious, Refuse, Continues
<1>5. CASE BreakChain(e)
  BY <1>0, <1>1, <1>5 DEF BreakChain, Refuse, Continues
<1>6. CASE RejectCanonicalForm(e)
  BY <1>0, <1>1, <1>6 DEF RejectCanonicalForm, RefuseHashed
<1>7. CASE RejectHash(e)
  BY <1>0, <1>1, <1>7 DEF RejectHash, RefuseHashed
<1>8. CASE RejectSignatureEncoding(e)
  BY <1>0, <1>1, <1>8 DEF RejectSignatureEncoding, RefuseHashed,
     SignatureAccepted, SignatureVerifies
<1>9. CASE RejectSignature(e)
  BY <1>0, <1>1, <1>9 DEF RejectSignature, RefuseHashed, SignatureAccepted
<1>10. ASSUME HashVerified(e), Advance(e), SignatureAccepted(keys, e)
       PROVE  /\ Flagged <=> ~X
              /\ X => /\ state'[e.org_id] = [prev    |-> e.entry_hash,
                                       nextSeq |-> NextSequence(e.sequence)]
                      /\ head'[e.org_id]  = [sequence   |-> e.sequence,
                                       entry_hash |-> e.entry_hash]
  <2>1. X <=> OpeningFindings(e) = {}
    BY <1>0, <1>10 DEF HashVerified, Hashable
  <2>2. \A x \in OpeningFindings(e) : x.line = n
    BY <1>0 DEF OpeningFindings
  <2>3. Flagged <=> OpeningFindings(e) # {}
    BY <1>0, <1>10, <2>2 DEF Flagged, Advance
  <2>4. /\ state'[e.org_id] = [prev    |-> e.entry_hash,
                               nextSeq |-> NextSequence(e.sequence)]
        /\ head'[e.org_id]  = [sequence   |-> e.sequence,
                               entry_hash |-> e.entry_hash]
    BY <1>0, <1>10 DEF Advance, TypeOK
  <2> QED
    BY <2>1, <2>3, <2>4
<1>11. CASE AcceptWithoutKeys(e)
  BY <1>10, <1>11 DEF AcceptWithoutKeys, SignatureAccepted, KeyKnown
<1>12. CASE AcceptUnknownKey(e)
  BY <1>10, <1>12 DEF AcceptUnknownKey, SignatureAccepted
<1>13. CASE AcceptSigned(e)
  BY <1>10, <1>13 DEF AcceptSigned, SignatureAccepted
<1> QED
  BY <1>2, <1>3, <1>4, <1>5, <1>6, <1>7, <1>8, <1>9, <1>11, <1>12, <1>13
     DEF ReadSomeEntry

LEMMA SoundEntryStep ==
    ASSUME TypeOK, SoundInv, NEW e \in Lines, e \in Entry, ReadSomeEntry(e)
    PROVE  SoundInv'
<1>0. /\ file \in Seq(Lines) /\ e.org_id \in Org /\ e.kind = "entry"
      /\ \A x \in findings : x.line \in DOMAIN file
      /\ Len(file) \in Nat
  BY DEF TypeOK, Entry
<1>1. /\ file' = Append(file, e) /\ keys' = keys
      /\ findings \subseteq findings'
      /\ \A x \in findings' : x \in findings \/ x.line = Len(file) + 1
      /\ \A o \in Org \ {e.org_id} : state'[o] = state[o] /\ head'[o] = head[o]
  BY EntryStep
<1> SUFFICES ASSUME NEW o \in Org
             PROVE  /\ Clean(o)' <=> ValidOrgChain(keys, file, o)'
                    /\ Clean(o)' => Tracks(o)'
  BY DEF SoundInv
<1>2. \A i \in DOMAIN file : /\ i \in DOMAIN file'
                             /\ file'[i] = file[i]
                             /\ EntryAt(file', i, o) <=> EntryAt(file, i, o)
  BY <1>0, <1>1 DEF EntryAt
<1>3. EntryAt(file', Len(file) + 1, o) <=> o = e.org_id
  BY <1>0, <1>1 DEF EntryAt
<1>4. ValidOrgChain(keys, file, o)' <=> ValidOrgChain(keys, file', o)
  BY <1>1 DEF ValidOrgChain, WellFormed, SignatureAccepted
<1>5. CASE o # e.org_id
  <2>1. Clean(o)' <=> Clean(o)
    BY <1>0, <1>1, <1>2, <1>3, <1>5 DEF Clean, FindingsOf
  <2>2. /\ ValidOrgChain(keys, file', o) <=> ValidOrgChain(keys, file, o)
        /\ NoEntryOf(file', o) <=> NoEntryOf(file, o)
        /\ \A i \in DOMAIN file : LastOf(file, i, o) => LastOf(file', i, o)
    BY <1>0, <1>1, <1>5, OtherLine
  <2>3. Tracks(o) => Tracks(o)'
    BY <1>1, <1>2, <1>5, <2>2 DEF Tracks
  <2> QED
    BY <1>4, <2>1, <2>2, <2>3 DEF SoundInv
<1>6. CASE o = e.org_id
  <2>1. Clean(o)' <=> Clean(o) /\ ~Flagged
    BY <1>0, <1>1, <1>2, <1>3, <1>6 DEF Clean, FindingsOf, Flagged
  <2>2. /\ LastOf(file', Len(file) + 1, o) /\ ~NoEntryOf(file', o)
        /\ ValidOrgChain(keys, file', o) <=>
             ValidOrgChain(keys, file, o) /\ Extends(keys, file, o, e)
    BY <1>0, <1>1, <1>6, EntryLine
  <2>3. CASE ~Clean(o)
    BY <1>4, <2>1, <2>2, <2>3 DEF SoundInv
  <2>4. CASE Clean(o)
    <3>1. /\ Flagged <=> ~Extends(keys, file, o, e)
          /\ Extends(keys, file, o, e) =>
                /\ state'[o] = [prev    |-> e.entry_hash,
                                nextSeq |-> NextSequence(e.sequence)]
                /\ head'[o]  = [sequence   |-> e.sequence,
                                entry_hash |-> e.entry_hash]
      BY <1>6, <2>4, Verdict DEF SoundInv
    <3>2. Clean(o)' <=> ValidOrgChain(keys, file, o)'
      BY <1>4, <2>1, <2>2, <2>4, <3>1 DEF SoundInv
    <3>3. ASSUME Clean(o)' PROVE Tracks(o)'
      <4>1. Len(file) + 1 \in DOMAIN file' /\ file'[Len(file) + 1] = e
        BY <1>0, <1>1, AppendFacts
      <4>2. state'[o] # Unseen
        <5>1. Current(e).prev \in Digest /\ HashMatches(Current(e).prev, e)
          BY <1>6, <2>1, <2>4, <3>1, <3>3, CurrentType, TrackedExtends
             DEF SoundInv, OrgState
        <5>2. e.entry_hash \in Digest /\ NextSequence(e.sequence) \in Int
          BY <5>1, MatchedHash, NextSequenceType DEF Entry
        <5> QED
          BY <2>1, <3>1, <3>3, <5>2, UnseenAssumption DEF OrgState
      <4> QED
        BY <2>1, <2>2, <3>1, <3>3, <4>1, <4>2 DEF Tracks
    <3> QED
      BY <3>2, <3>3
  <2> QED
    BY <2>3, <2>4
<1> QED
  BY <1>5, <1>6

LEMMA SoundStep ==
    ASSUME TypeOK, SoundInv, [Next]_chainVars
    PROVE  SoundInv'
<1>1. ASSUME NEW l \in {BlankLine, MalformedLine, OversizeLine}, l \in Lines,
             Read(l), state' = state, head' = head, findings \subseteq findings',
             \A x \in findings' : x \in findings \/ x.line = Len(file) + 1
      PROVE  SoundInv'
  <2>1. /\ file \in Seq(Lines) /\ Len(file) \in Nat
        /\ \A x \in findings : x.line \in DOMAIN file
        /\ l.kind # "entry"
    BY <1>1 DEF TypeOK, BlankLine, MalformedLine, OversizeLine
  <2>2. file' = Append(file, l) /\ keys' = keys
    BY <1>1 DEF Read
  <2> SUFFICES ASSUME NEW o \in Org
               PROVE  /\ Clean(o)' <=> ValidOrgChain(keys, file, o)'
                      /\ Clean(o)' => Tracks(o)'
    BY DEF SoundInv
  <2>3. \A i \in DOMAIN file : /\ i \in DOMAIN file'
                               /\ file'[i] = file[i]
                               /\ EntryAt(file', i, o) <=> EntryAt(file, i, o)
    BY <1>1, <2>1, <2>2 DEF EntryAt
  <2>4. ~EntryAt(file', Len(file) + 1, o)
    BY <1>1, <2>1, <2>2 DEF EntryAt
  <2>5. Clean(o)' <=> Clean(o)
    BY <1>1, <2>1, <2>3, <2>4 DEF Clean, FindingsOf
  <2>6. /\ ValidOrgChain(keys, file', o) <=> ValidOrgChain(keys, file, o)
        /\ NoEntryOf(file', o) <=> NoEntryOf(file, o)
        /\ \A i \in DOMAIN file : LastOf(file, i, o) => LastOf(file', i, o)
    BY <1>1, <2>1, <2>2, OtherLine
  <2>7. ValidOrgChain(keys, file, o)' <=> ValidOrgChain(keys, file', o)
    BY <2>2 DEF ValidOrgChain, WellFormed, SignatureAccepted
  <2>8. Tracks(o) => Tracks(o)'
    BY <1>1, <2>2, <2>3, <2>6 DEF Tracks
  <2> QED
    BY <2>5, <2>6, <2>7, <2>8 DEF SoundInv
<1>2. CASE SkipBlankLine
  BY <1>1, <1>2 DEF SkipBlankLine
<1>3. CASE RejectMalformedLine
  BY <1>1, <1>3 DEF RejectMalformedLine, Here
<1>4. CASE FailOnOversizeLine
  BY <1>1, <1>4 DEF FailOnOversizeLine
<1>5. ASSUME NEW e \in Lines, e.kind = "entry", ReadSomeEntry(e)
      PROVE  SoundInv'
  BY <1>5, EntryLines, SoundEntryStep
<1>6. CASE UNCHANGED chainVars
  BY <1>6 DEF chainVars, SoundInv, Clean, FindingsOf, Tracks, NoEntryOf,
     EntryAt, LastOf, ValidOrgChain, WellFormed, SignatureAccepted, FirstOf,
     Consecutive
<1> QED
  BY <1>2, <1>3, <1>4, <1>5, <1>6 DEF Next

LEMMA SoundInit ==
    ASSUME Init
    PROVE  SoundInv
<1>1. DOMAIN file = {}
  BY DEF Init
<1> QED
  BY <1>1 DEF Init, SoundInv, Clean, FindingsOf, ValidOrgChain, Tracks, NoEntryOf

LEMMA SoundAlways == Spec => [](TypeOK /\ SoundInv)
<1>1. Init => SoundInv
  BY SoundInit
<1>2. TypeOK /\ SoundInv /\ [Next]_chainVars => SoundInv'
  BY SoundStep
<1> QED
  BY <1>1, <1>2, TypeCorrect, PTL DEF Spec

(* For every export, keystore and hash function: an org has no finding      *)
(* exactly when its entries, taken alone, are a valid chain.                *)
THEOREM VerdictSoundAndComplete == Spec => []OrgCleanIffValid
<1>1. SoundInv => OrgCleanIffValid
  BY DEF SoundInv, OrgCleanIffValid, Clean
<1> QED
  BY <1>1, SoundAlways, PTL

(* For every export: the head reported for an org without findings is the   *)
(* org's last entry.                                                        *)
THEOREM HeadIsTheTail == Spec => []HeadIsTail
<1>1. ASSUME TypeOK, SoundInv PROVE HeadIsTail
  <2> SUFFICES ASSUME NEW o \in Org, Clean(o),
                      NEW i \in DOMAIN file, LastOf(file, i, o)
               PROVE  head[o] = [sequence   |-> file[i].sequence,
                                 entry_hash |-> file[i].entry_hash]
    BY DEF HeadIsTail, Clean
  <2>1. ~NoEntryOf(file, o)
    BY DEF NoEntryOf, LastOf
  <2>2. PICK j \in DOMAIN file :
          /\ LastOf(file, j, o)
          /\ head[o] = [sequence   |-> file[j].sequence,
                        entry_hash |-> file[j].entry_hash]
    BY <1>1, <2>1 DEF SoundInv, Tracks
  <2> QED
    BY <1>1, <2>2, UniqueLast DEF TypeOK
<1> QED
  BY <1>1, SoundAlways, PTL

-----------------------------------------------------------------------------
(* chain.Verify implements OrgLog: initial states map to initial states,   *)
(* and every line of the export to one step of one log or to no step.      *)

LEMMA RefinesInit ==
    ASSUME Init
    PROVE  Log!Init
BY DEF Init, Log!Init, Tips, RefusedOrgs, FindingsOf

(* An entry of org o leaves every other log alone. *)
LEMMA OneLogAtATime ==
    ASSUME TypeOK, NEW e \in Lines, e \in Entry, ReadSomeEntry(e),
           NEW o \in Org
    PROVE  /\ o # e.org_id =>
                /\ o \in RefusedOrgs' <=> o \in RefusedOrgs
                /\ Tips'[o] = Tips[o]
           /\ o = e.org_id =>
                (o \in RefusedOrgs' <=> o \in RefusedOrgs \/ Flagged)
<1>0. /\ file \in Seq(Lines) /\ Len(file) \in Nat /\ e.kind = "entry"
      /\ \A x \in findings : x.line \in DOMAIN file
  BY DEF TypeOK, Entry
<1>1. /\ file' = Append(file, e)
      /\ findings \subseteq findings'
      /\ \A x \in findings' : x \in findings \/ x.line = Len(file) + 1
      /\ \A p \in Org \ {e.org_id} : head'[p] = head[p]
  BY EntryStep
<1>2. \A i \in DOMAIN file : EntryAt(file', i, o) <=> EntryAt(file, i, o)
  BY <1>0, <1>1 DEF EntryAt
<1>3. EntryAt(file', Len(file) + 1, o) <=> o = e.org_id
  BY <1>0, <1>1 DEF EntryAt
<1>4. ASSUME o # e.org_id
      PROVE  /\ o \in RefusedOrgs' <=> o \in RefusedOrgs
             /\ Tips'[o] = Tips[o]
  <2>1. FindingsOf(o)' = FindingsOf(o)
    BY <1>0, <1>1, <1>2, <1>3, <1>4 DEF FindingsOf
  <2> QED
    BY <1>1, <1>4, <2>1 DEF RefusedOrgs, Tips
<1>5. ASSUME o = e.org_id
      PROVE  o \in RefusedOrgs' <=> o \in RefusedOrgs \/ Flagged
  BY <1>0, <1>1, <1>2, <1>3, <1>5 DEF RefusedOrgs, FindingsOf, Flagged
<1> QED
  BY <1>4, <1>5

(* What an extending entry seals. *)
LEMMA ExtendingEntry ==
    ASSUME TypeOK, NEW e \in Entry, Tracks(e.org_id),
           e.org_id \notin RefusedOrgs, Extends(keys, file, e.org_id, e)
    PROVE  /\ e.entry_hash \in Digest
           /\ e.sequence = Log!NextNumber(e.org_id)
           /\ HashedOver(Log!LastHash(e.org_id), e.entry_hash)
<1> DEFINE o == e.org_id
<1>0. o \in Org /\ file \in Seq(Lines) /\ Tips[o] = head[o]
  BY DEF Entry, TypeOK, Tips
<1>1. ASSUME NEW d \in Digest, HashMatches(d, e)
      PROVE  e.entry_hash \in Digest /\ HashedOver(d, e.entry_hash)
  BY <1>1, MatchedHash, CanonicalType
     DEF HashMatches, PrimaryHash, LegacyHash, HashedOver
<1>2. CASE NoEntryOf(file, o)
  <2>1. head[o] = Unseen /\ IsGenesis(e)
    BY <1>2 DEF Tracks, Extends
  <2> QED
    BY <1>0, <1>1, <2>1, GenesisAssumption
       DEF IsGenesis, Log!NextNumber, Log!LastHash
<1>3. CASE ~NoEntryOf(file, o)
  <2>1. PICK i \in DOMAIN file :
          /\ LastOf(file, i, o)
          /\ head[o] = [sequence   |-> file[i].sequence,
                        entry_hash |-> file[i].entry_hash]
    BY <1>3 DEF Tracks
  <2>2. Succeeds(file[i], e)
    BY <2>1 DEF Extends
  <2>3. /\ head[o] # Unseen
        /\ file[i].entry_hash \in Digest
    <3>1. head[o] \in OrgHead \cup {Unseen}
      BY <1>0 DEF TypeOK
    <3>2. state[o] # Unseen /\ state[o] \in OrgState /\ state[o].prev \in Digest
      BY <1>0, <1>3 DEF Tracks, TypeOK, OrgState
    <3>3. PICK j \in DOMAIN file : /\ LastOf(file, j, o)
                                   /\ state[o].prev = file[j].entry_hash
      BY <1>3 DEF Tracks
    <3>4. file[i].entry_hash \in Digest
      BY <1>0, <2>1, <3>2, <3>3, UniqueLast
    <3>5. file[i].kind = "entry" /\ file[i] \in Lines
      BY <1>0, <2>1 DEF LastOf, EntryAt
    <3>6. file[i].sequence \in Int
      BY <3>5, EntryLines DEF Entry
    <3>7. head[o] \in OrgHead
      BY <2>1, <3>4, <3>6 DEF OrgHead
    <3> QED
      BY <3>4, <3>7, UnseenAssumption
  <2> QED
    BY <1>0, <1>1, <2>1, <2>2, <2>3
       DEF Succeeds, Log!NextNumber, Log!LastHash
<1> QED
  BY <1>2, <1>3

LEMMA RefinesEntry ==
    ASSUME TypeOK, SoundInv, NEW e \in Lines, e \in Entry, ReadSomeEntry(e)
    PROVE  Log!Next \/ UNCHANGED Log!logVars
<1> DEFINE o == e.org_id
<1>0. o \in Org
  BY DEF Entry
<1>1. /\ \A p \in Org \ {o} : /\ p \in RefusedOrgs' <=> p \in RefusedOrgs
                              /\ Tips'[p] = Tips[p]
      /\ o \in RefusedOrgs' <=> o \in RefusedOrgs \/ Flagged
  BY <1>0, OneLogAtATime
<1>2. /\ RefusedOrgs \subseteq Org /\ RefusedOrgs' \subseteq Org
      /\ Tips = [p \in Org |-> Tips[p]] /\ Tips' = [p \in Org |-> Tips'[p]]
      /\ o \in RefusedOrgs => Tips[o] = Unseen
      /\ o \in RefusedOrgs' => Tips'[o] = Unseen
      /\ o \notin RefusedOrgs' => Tips'[o] = head'[o]
  BY <1>0 DEF Tips, RefusedOrgs
<1>3. CASE o \in RefusedOrgs
  <2>1. RefusedOrgs' = RefusedOrgs
    BY <1>1, <1>2, <1>3
  <2>2. \A p \in Org : Tips'[p] = Tips[p]
    BY <1>1, <1>2, <1>3
  <2>3. Tips' = Tips
    BY <1>2, <2>2
  <2> QED
    BY <2>1, <2>3 DEF Log!logVars
<1>4. CASE o \notin RefusedOrgs
  <2>1. Clean(o) /\ Tracks(o)
    BY <1>0, <1>4 DEF SoundInv, Clean, RefusedOrgs
  <2>2. /\ Flagged <=> ~Extends(keys, file, o, e)
        /\ Extends(keys, file, o, e) =>
             head'[o] = [sequence |-> e.sequence, entry_hash |-> e.entry_hash]
    BY <2>1, Verdict
  <2>3. CASE Flagged
    <3>1. RefusedOrgs' = RefusedOrgs \cup {o}
      BY <1>0, <1>1, <1>2, <2>3
    <3>2. Tips' = [Tips EXCEPT ![o] = Unseen]
      BY <1>0, <1>1, <1>2, <2>3
    <3> QED
      BY <1>0, <1>4, <3>1, <3>2 DEF Log!Next, Log!Refuse
  <2>4. CASE ~Flagged
    <3>1. RefusedOrgs' = RefusedOrgs
      BY <1>1, <1>2, <1>4, <2>4
    <3>2. /\ e.entry_hash \in Digest
          /\ e.sequence = Log!NextNumber(o)
          /\ HashedOver(Log!LastHash(o), e.entry_hash)
      BY <1>4, <2>1, <2>2, <2>4, ExtendingEntry
    <3>3. Tips'[o] = [sequence |-> Log!NextNumber(o),
                      entry_hash |-> e.entry_hash]
      BY <1>1, <1>2, <1>4, <2>2, <2>4, <3>2
    <3>4. Tips' = [Tips EXCEPT ![o] = [sequence   |-> Log!NextNumber(o),
                                       entry_hash |-> e.entry_hash]]
      BY <1>0, <1>1, <1>2, <3>3
    <3>5. Log!Extend(o)
      BY <1>4, <3>1, <3>2, <3>4 DEF Log!Extend
    <3> QED
      BY <1>0, <3>5 DEF Log!Next
  <2> QED
    BY <2>3, <2>4
<1> QED
  BY <1>3, <1>4

(* A line that is no entry touches no log. *)
LEMMA RefinesOther ==
    ASSUME TypeOK, NEW l \in {BlankLine, MalformedLine, OversizeLine},
           l \in Lines, Read(l), head' = head, findings \subseteq findings',
           \A x \in findings' : x \in findings \/ x.line = Len(file) + 1
    PROVE  UNCHANGED Log!logVars
<1>1. /\ file \in Seq(Lines) /\ Len(file) \in Nat
      /\ \A x \in findings : x.line \in DOMAIN file
      /\ l.kind # "entry" /\ file' = Append(file, l)
  BY DEF TypeOK, BlankLine, MalformedLine, OversizeLine, Read
<1>2. \A o, i : i \in DOMAIN file =>
                  (EntryAt(file', i, o) <=> EntryAt(file, i, o))
  BY <1>1 DEF EntryAt
<1>3. \A o : ~EntryAt(file', Len(file) + 1, o)
  BY <1>1 DEF EntryAt
<1>4. \A o \in Org : FindingsOf(o)' = FindingsOf(o)
  <2> TAKE o \in Org
  <2>1. \A x \in findings' : EntryAt(file', x.line, o) =>
          x \in findings /\ EntryAt(file, x.line, o)
    BY <1>1, <1>2, <1>3
  <2>2. \A x \in findings : EntryAt(file, x.line, o) =>
          x \in findings' /\ EntryAt(file', x.line, o)
    BY <1>1, <1>2
  <2> QED
    BY <2>1, <2>2 DEF FindingsOf
<1>5. RefusedOrgs' = RefusedOrgs
  BY <1>4 DEF RefusedOrgs
<1>6. Tips' = Tips
  BY <1>5 DEF Tips
<1> QED
  BY <1>5, <1>6 DEF Log!logVars

LEMMA RefinesStep ==
    ASSUME TypeOK, SoundInv, [Next]_chainVars
    PROVE  [Log!Next]_Log!logVars
<1>1. CASE SkipBlankLine
  BY <1>1, RefinesOther DEF SkipBlankLine
<1>2. CASE RejectMalformedLine
  BY <1>2, RefinesOther DEF RejectMalformedLine, Here
<1>3. CASE FailOnOversizeLine
  BY <1>3, RefinesOther DEF FailOnOversizeLine
<1>4. ASSUME NEW e \in Lines, e.kind = "entry", ReadSomeEntry(e)
      PROVE  [Log!Next]_Log!logVars
  BY <1>4, EntryLines, RefinesEntry
<1>5. CASE UNCHANGED chainVars
  <2>1. \A o \in Org : FindingsOf(o)' = FindingsOf(o)
    BY <1>5 DEF chainVars, FindingsOf, EntryAt
  <2>2. RefusedOrgs' = RefusedOrgs /\ Tips' = Tips
    BY <1>5, <2>1 DEF chainVars, RefusedOrgs, Tips
  <2> QED
    BY <2>2 DEF Log!logVars
<1> QED
  BY <1>1, <1>2, <1>3, <1>4, <1>5 DEF Next

(* The pass over any export is a behaviour of the per-org logs: it extends  *)
(* or refuses one log at a time, and what it refused stays refused.         *)
THEOREM PassRefinesLogs == Spec => ImplementsOrgLog
<1>1. Init => Log!Init
  BY RefinesInit
<1>2. TypeOK /\ SoundInv /\ [Next]_chainVars => [Log!Next]_Log!logVars
  BY RefinesStep
<1> QED
  BY <1>1, <1>2, SoundAlways, PTL DEF Spec, ImplementsOrgLog, Log!Spec

-----------------------------------------------------------------------------
(* The counters and the heads: the signature accounting behind              *)
(* StrictSignatureAcceptance, and how a head may move.                      *)

EntryLinesOf(f) == {i \in DOMAIN f : f[i].kind = "entry"}

UnknownKeyWarnings == {w \in warnings : w.kind = "unknown_key_version"}

(* An entry of this file whose key the verifier holds is signed by it. *)
Signed(i) == KeyKnown(keys, file[i]) /\ SignatureVerifies(keys, file[i])

CountInv ==
    /\ IsFiniteSet(UnknownKeyWarnings)
    /\ sigSkipped = Cardinality(UnknownKeyWarnings)
    /\ IsFiniteSet(EntryLinesOf(file))
    /\ scanned = Cardinality(EntryLinesOf(file))

SigInv ==
    /\ keys = NoKeys => sigVerified = 0 /\ sigSkipped = 0
    /\ findings = {} /\ keys # NoKeys =>
         /\ sigVerified + sigSkipped = scanned
         /\ sigSkipped = 0 => \A i \in EntryLinesOf(file) : Signed(i)
         /\ sigSkipped > 0 => \E i \in EntryLinesOf(file) : ~KeyKnown(keys, file[i])

LEMMA CountInit ==
    ASSUME Init
    PROVE  CountInv /\ SigInv
<1>1. UnknownKeyWarnings = {} /\ EntryLinesOf(file) = {}
  BY DEF Init, UnknownKeyWarnings, EntryLinesOf
<1> QED
  BY <1>1, FS_EmptySet DEF Init, CountInv, SigInv

(* Which counters a step on an entry moves. *)
LEMMA EntryCounters ==
    ASSUME TypeOK, NEW e \in Lines, e \in Entry, ReadSomeEntry(e)
    PROVE  /\ scanned' = scanned + 1
           /\ \/ /\ AcceptUnknownKey(e)
                 /\ sigSkipped' = sigSkipped + 1 /\ sigVerified' = sigVerified
                 /\ UnknownKeyWarnings' =
                      UnknownKeyWarnings \cup {Here("unknown_key_version")}
              \/ /\ ~AcceptUnknownKey(e)
                 /\ sigSkipped' = sigSkipped
                 /\ UnknownKeyWarnings' = UnknownKeyWarnings
<1>0. \A w \in LegacyWarning(e) : w.kind # "unknown_key_version"
  BY DEF LegacyWarning, Here
<1>1. CASE \E k : Refuse(e, k)
  <2>1. ~AcceptUnknownKey(e)
    BY <1>1 DEF AcceptUnknownKey, Refuse, TypeOK
  <2> QED
    BY <1>1, <2>1 DEF Refuse, ReadEntry, UnknownKeyWarnings
<1>2. CASE /\ \E k : RefuseHashed(e, k)
           /\ warnings' = warnings \/ warnings' = warnings \cup LegacyWarning(e)
  <2>1. ~AcceptUnknownKey(e)
    BY <1>2 DEF AcceptUnknownKey, RefuseHashed, TypeOK
  <2> QED
    BY <1>0, <1>2, <2>1 DEF RefuseHashed, ReadEntry, UnknownKeyWarnings
<1>3. CASE AcceptWithoutKeys(e)
  BY <1>0, <1>3 DEF AcceptWithoutKeys, AcceptUnknownKey, Advance, ReadEntry,
     UnknownKeyWarnings
<1>4. CASE AcceptUnknownKey(e)
  <2>1. Here("unknown_key_version").kind = "unknown_key_version"
    BY DEF Here
  <2> QED
    BY <1>0, <1>4, <2>1 DEF AcceptUnknownKey, Advance, ReadEntry,
       UnknownKeyWarnings
<1>5. CASE AcceptSigned(e)
  BY <1>0, <1>5 DEF AcceptSigned, AcceptUnknownKey, Advance, ReadEntry,
     UnknownKeyWarnings
<1> QED
  BY <1>1, <1>2, <1>3, <1>4, <1>5 DEF ReadSomeEntry, RejectVersion,
     RejectOutOfOrder, RejectMalformedPrevious, BreakChain,
     RejectCanonicalForm, RejectHash, RejectSignatureEncoding, RejectSignature

(* A step that leaves no finding accepted its entry. *)
LEMMA CleanEntryStep ==
    ASSUME TypeOK, NEW e \in Lines, e \in Entry, ReadSomeEntry(e),
           findings' = {}
    PROVE  /\ findings = {}
           /\ \/ AcceptWithoutKeys(e)
              \/ AcceptUnknownKey(e)
              \/ AcceptSigned(e)
BY DEF ReadSomeEntry, RejectVersion, RejectOutOfOrder,
   RejectMalformedPrevious, BreakChain, RejectCanonicalForm, RejectHash,
   RejectSignatureEncoding, RejectSignature, Refuse, RefuseHashed, Advance,
   AcceptWithoutKeys, AcceptUnknownKey, AcceptSigned

LEMMA AppendEntryLines ==
    ASSUME NEW f \in Seq(Lines), NEW l \in Lines
    PROVE  /\ l.kind = "entry" =>
                 EntryLinesOf(Append(f, l)) = EntryLinesOf(f) \cup {Len(f) + 1}
           /\ l.kind # "entry" => EntryLinesOf(Append(f, l)) = EntryLinesOf(f)
           /\ Len(f) + 1 \notin EntryLinesOf(f)
BY DEF EntryLinesOf

LEMMA CountEntryStep ==
    ASSUME TypeOK, CountInv, NEW e \in Lines, e \in Entry, ReadSomeEntry(e)
    PROVE  CountInv'
<1>1. file' = Append(file, e) /\ file \in Seq(Lines) /\ e.kind = "entry"
  BY EntryStep DEF TypeOK, Entry
<1>2. EntryLinesOf(file') = EntryLinesOf(file) \cup {Len(file) + 1}
      /\ Len(file) + 1 \notin EntryLinesOf(file)
  BY <1>1, AppendEntryLines
<1>3. IsFiniteSet(EntryLinesOf(file')) /\ scanned' = Cardinality(EntryLinesOf(file'))
  BY <1>2, EntryCounters, FS_AddElement DEF CountInv
<1>4. Here("unknown_key_version") \notin UnknownKeyWarnings
  BY DEF Here, UnknownKeyWarnings, TypeOK
<1>5. IsFiniteSet(UnknownKeyWarnings') /\ sigSkipped' = Cardinality(UnknownKeyWarnings')
  BY <1>4, EntryCounters, FS_AddElement DEF CountInv
<1> QED
  BY <1>3, <1>5 DEF CountInv

LEMMA SigEntryStep ==
    ASSUME TypeOK, SigInv, NEW e \in Lines, e \in Entry, ReadSomeEntry(e)
    PROVE  SigInv'
<1>1. /\ file' = Append(file, e) /\ file \in Seq(Lines) /\ e.kind = "entry"
      /\ keys' = keys /\ scanned \in Nat /\ sigVerified \in Nat /\ sigSkipped \in Nat
  BY EntryStep DEF TypeOK, Entry
<1>2. /\ EntryLinesOf(file') = EntryLinesOf(file) \cup {Len(file) + 1}
      /\ \A i \in EntryLinesOf(file) : file'[i] = file[i]
      /\ file'[Len(file) + 1] = e
  BY <1>1, AppendEntryLines DEF EntryLinesOf
<1>3. keys = NoKeys => sigVerified' = 0 /\ sigSkipped' = 0
  BY DEF SigInv, ReadSomeEntry, RejectVersion, RejectOutOfOrder,
     RejectMalformedPrevious, BreakChain, RejectCanonicalForm, RejectHash,
     RejectSignatureEncoding, RejectSignature, Refuse, RefuseHashed,
     AcceptWithoutKeys, AcceptUnknownKey, AcceptSigned, KeyKnown
<1>4. ASSUME findings' = {}, keys # NoKeys
      PROVE  /\ sigVerified' + sigSkipped' = scanned'
             /\ sigSkipped' = 0 => \A i \in EntryLinesOf(file') : Signed(i)'
             /\ sigSkipped' > 0 =>
                  \E i \in EntryLinesOf(file') : ~KeyKnown(keys, file'[i])
  <2>1. findings = {} /\ scanned' = scanned + 1
    BY <1>4, CleanEntryStep, EntryCounters
  <2>2. CASE AcceptUnknownKey(e)
    BY <1>1, <1>2, <1>4, <2>1, <2>2 DEF SigInv, AcceptUnknownKey
  <2>3. CASE AcceptSigned(e)
    <3>1. /\ sigSkipped' = sigSkipped /\ sigVerified' = sigVerified + 1
          /\ KeyKnown(keys, e) /\ SignatureVerifies(keys, e)
      BY <2>3 DEF AcceptSigned
    <3>2. /\ sigVerified + sigSkipped = scanned
          /\ sigSkipped = 0 => \A i \in EntryLinesOf(file) : Signed(i)
          /\ sigSkipped > 0 =>
               \E i \in EntryLinesOf(file) : ~KeyKnown(keys, file[i])
      BY <1>4, <2>1 DEF SigInv
    <3>3. sigVerified' + sigSkipped' = scanned'
      BY <1>1, <2>1, <3>1, <3>2
    <3>4. sigSkipped' = 0 => \A i \in EntryLinesOf(file') : Signed(i)'
      BY <1>1, <1>2, <3>1, <3>2 DEF Signed
    <3>5. sigSkipped' > 0 =>
            \E i \in EntryLinesOf(file') : ~KeyKnown(keys, file'[i])
      BY <1>2, <3>1, <3>2
    <3> QED
      BY <3>3, <3>4, <3>5
  <2> QED
    BY <1>4, <2>2, <2>3, CleanEntryStep DEF AcceptWithoutKeys
<1> QED
  BY <1>1, <1>3, <1>4 DEF SigInv

LEMMA CountStep ==
    ASSUME TypeOK, CountInv, SigInv, [Next]_chainVars
    PROVE  CountInv' /\ SigInv'
<1>1. ASSUME NEW l \in Lines, l.kind # "entry", Read(l),
             findings \subseteq findings',
             UNCHANGED <<warnings, scanned, sigVerified, sigSkipped>>
      PROVE  CountInv' /\ SigInv'
  <2>1. file' = Append(file, l) /\ file \in Seq(Lines) /\ keys' = keys
    BY <1>1 DEF Read, TypeOK
  <2>2. /\ EntryLinesOf(file') = EntryLinesOf(file)
        /\ \A i \in EntryLinesOf(file) : file'[i] = file[i]
    BY <1>1, <2>1, AppendEntryLines DEF EntryLinesOf
  <2> QED
    BY <1>1, <2>1, <2>2 DEF CountInv, SigInv, Signed, UnknownKeyWarnings
<1>2. CASE SkipBlankLine
  BY <1>1, <1>2 DEF SkipBlankLine, BlankLine
<1>3. CASE RejectMalformedLine
  BY <1>1, <1>3 DEF RejectMalformedLine, MalformedLine
<1>4. CASE FailOnOversizeLine
  BY <1>1, <1>4 DEF FailOnOversizeLine, OversizeLine
<1>5. ASSUME NEW e \in Lines, e.kind = "entry", ReadSomeEntry(e)
      PROVE  CountInv' /\ SigInv'
  BY <1>5, EntryLines, CountEntryStep, SigEntryStep
<1>6. CASE UNCHANGED chainVars
  BY <1>6 DEF chainVars, CountInv, SigInv, Signed, UnknownKeyWarnings, EntryLinesOf
<1> QED
  BY <1>2, <1>3, <1>4, <1>5, <1>6 DEF Next

LEMMA CountAlways == Spec => [](TypeOK /\ CountInv /\ SigInv)
<1>1. Init => CountInv /\ SigInv
  BY CountInit
<1>2. TypeOK /\ CountInv /\ SigInv /\ [Next]_chainVars => CountInv' /\ SigInv'
  BY CountStep
<1> QED
  BY <1>1, <1>2, TypeCorrect, PTL DEF Spec

(* For every export and keystore: without findings, every scanned entry was *)
(* either signature-verified or skipped with one warning.                   *)
THEOREM SignaturesAccounted == Spec => []SignatureAccounting
<1>1. CountInv /\ SigInv => SignatureAccounting
  BY DEF CountInv, SigInv, SignatureAccounting, UnknownKeyWarnings
<1> QED
  BY <1>1, CountAlways, PTL

(* For every export and keystore: no finding and nothing skipped means      *)
(* every entry carries a valid signature of a key in the keystore.          *)
THEOREM NothingSkippedAllSigned == Spec => []NothingSkippedMeansAllSigned
<1>1. SigInv => NothingSkippedMeansAllSigned
  BY DEF SigInv, NothingSkippedMeansAllSigned, Signed, EntryLinesOf
<1> QED
  BY <1>1, CountAlways, PTL

-----------------------------------------------------------------------------
(* How a head moves. *)

(* Until a chain_break is reported for an org, `state' follows its head.    *)
HeadInv ==
    \A o \in Org : head[o] # Unseen /\ ~ChainBroken(o) =>
        /\ state[o] # Unseen
        /\ state[o].prev = head[o].entry_hash
        /\ state[o].nextSeq = NextSequence(head[o].sequence)

LEMMA ChainBrokenGrows ==
    ASSUME TypeOK, NEW l \in Lines, file' = Append(file, l),
           findings \subseteq findings', NEW o \in Org, ChainBroken(o)
    PROVE  ChainBroken(o)'
BY DEF ChainBroken, FindingsOf, EntryAt, TypeOK

(* An accepted entry follows the head of an unbroken org. *)
LEMMA AdvanceFollowsHead ==
    ASSUME TypeOK, HeadInv, NEW e \in Lines, e \in Entry, HashVerified(e),
           Advance(e), NEW o \in Org
    PROVE  /\ head[o] # Unseen /\ head'[o] # head[o] /\ ~ChainBroken(o) =>
                /\ head'[o].sequence = NextSequence(head[o].sequence)
                /\ file'[Len(file')].previous_hash = head[o].entry_hash
           /\ head'[o] # Unseen /\ ~ChainBroken(o) =>
                /\ state'[o] # Unseen
                /\ state'[o].prev = head'[o].entry_hash
                /\ state'[o].nextSeq = NextSequence(head'[o].sequence)
<1>0. e.org_id \in Org /\ Len(file) \in Nat /\ file \in Seq(Lines)
  BY DEF Entry, TypeOK
<1>1. CASE o # e.org_id
  BY <1>0, <1>1 DEF Advance, TypeOK, HeadInv
<1>2. CASE o = e.org_id
  <2>1. /\ state'[o] = [prev    |-> e.entry_hash,
                        nextSeq |-> NextSequence(e.sequence)]
        /\ head'[o]  = [sequence |-> e.sequence, entry_hash |-> e.entry_hash]
    BY <1>0, <1>2 DEF Advance, TypeOK
  <2>2. state'[o] # Unseen
    <3>1. e.entry_hash \in Digest
      BY CurrentType, MatchedHash DEF HashVerified, OrgState
    <3> QED
      BY <2>1, <3>1, NextSequenceType, UnseenAssumption DEF OrgState, Entry
  <2>3. ASSUME head[o] # Unseen, ~ChainBroken(o)
        PROVE  /\ e.sequence = NextSequence(head[o].sequence)
               /\ e.previous_hash = head[o].entry_hash
    BY <1>2, <2>3 DEF HeadInv, HashVerified, Hashable, Continues, Opens
  <2>4. file'[Len(file')] = e
    BY <1>0 DEF Advance, ReadEntry, Read
  <2> QED
    BY <2>1, <2>2, <2>3, <2>4
<1> QED
  BY <1>1, <1>2

LEMMA HeadStep ==
    ASSUME TypeOK, HeadInv, [Next]_chainVars
    PROVE  /\ HeadInv'
           /\ \A o \in Org :
                head[o] # Unseen /\ head'[o] # head[o] /\ ~ChainBroken(o) =>
                  /\ head'[o].sequence = NextSequence(head[o].sequence)
                  /\ file'[Len(file')].previous_hash = head[o].entry_hash
<1>1. ASSUME NEW l \in Lines, file' = Append(file, l), head' = head,
             findings \subseteq findings',
             \A o \in Org : head[o] # Unseen /\ ~ChainBroken(o)'
                            => state'[o] = state[o]
      PROVE  HeadInv'
  BY <1>1, ChainBrokenGrows DEF HeadInv
<1>2. CASE SkipBlankLine
  BY <1>1, <1>2 DEF SkipBlankLine, Read
<1>3. CASE RejectMalformedLine
  BY <1>1, <1>3 DEF RejectMalformedLine, Read
<1>4. CASE FailOnOversizeLine
  BY <1>1, <1>4 DEF FailOnOversizeLine, Read
<1>5. ASSUME NEW e \in Lines, e \in Entry, ReadSomeEntry(e)
      PROVE  /\ HeadInv'
             /\ \A o \in Org :
                  head[o] # Unseen /\ head'[o] # head[o] /\ ~ChainBroken(o) =>
                    /\ head'[o].sequence = NextSequence(head[o].sequence)
                    /\ file'[Len(file')].previous_hash = head[o].entry_hash
  <2>0. /\ file' = Append(file, e) /\ findings \subseteq findings'
        /\ e.org_id \in Org /\ e.kind = "entry" /\ file \in Seq(Lines)
    BY <1>5, EntryStep DEF Entry, TypeOK
  <2>1. CASE \E k : Refuse(e, k) /\ state' = state
    BY <1>1, <2>0, <2>1 DEF Refuse
  <2>2. CASE BreakChain(e)
    <3>1. ChainBroken(e.org_id)'
      <4>1. Here("chain_break") \in findings' /\ head' = head
        BY <2>2 DEF BreakChain, Refuse
      <4>2. EntryAt(file', Len(file) + 1, e.org_id)
        BY <2>0 DEF EntryAt
      <4> QED
        BY <4>1, <4>2 DEF ChainBroken, FindingsOf, Here
    <3>2. \A o \in Org \ {e.org_id} : state'[o] = state[o]
      BY <2>2 DEF BreakChain, TypeOK
    <3> QED
      BY <1>1, <2>0, <2>2, <3>1, <3>2 DEF BreakChain, Refuse
  <2>3. CASE (\E k : RefuseHashed(e, k)) /\ Continues(e)
    <3>1. \A o \in Org : head[o] # Unseen /\ ~ChainBroken(o)'
                           => state'[o] = state[o]
      <4> SUFFICES ASSUME NEW o \in Org, head[o] # Unseen, ~ChainBroken(o)'
                   PROVE  state'[o] = state[o]
        OBVIOUS
      <4>1. state[o] # Unseen
        BY <2>0, ChainBrokenGrows DEF HeadInv
      <4> QED
        BY <2>3, <4>1 DEF RefuseHashed, Current, Opens, TypeOK
    <3> QED
      BY <1>1, <2>0, <2>3, <3>1 DEF RefuseHashed
  <2>4. CASE HashVerified(e) /\ Advance(e)
    <3>1. \A o \in Org : ~ChainBroken(o)' => ~ChainBroken(o)
      BY <2>0, ChainBrokenGrows
    <3>2. HeadInv'
      BY <1>5, <2>4, <3>1, AdvanceFollowsHead DEF HeadInv
    <3>3. \A o \in Org :
            head[o] # Unseen /\ head'[o] # head[o] /\ ~ChainBroken(o) =>
              /\ head'[o].sequence = NextSequence(head[o].sequence)
              /\ file'[Len(file')].previous_hash = head[o].entry_hash
      BY <1>5, <2>4, AdvanceFollowsHead
    <3> QED
      BY <3>2, <3>3
  <2> QED
    BY <1>5, <2>1, <2>2, <2>3, <2>4 DEF ReadSomeEntry, RejectVersion,
       RejectOutOfOrder, RejectMalformedPrevious, RejectCanonicalForm,
       RejectHash, RejectSignatureEncoding, RejectSignature,
       AcceptWithoutKeys, AcceptUnknownKey, AcceptSigned, HashVerified, Hashable
<1>6. CASE UNCHANGED chainVars
  BY <1>6 DEF chainVars, HeadInv, ChainBroken, FindingsOf, EntryAt
<1>7. CASE SkipBlankLine \/ RejectMalformedLine \/ FailOnOversizeLine
  BY <1>2, <1>3, <1>4, <1>7 DEF SkipBlankLine, RejectMalformedLine, FailOnOversizeLine
<1> QED
  BY <1>5, <1>6, <1>7, EntryLines DEF Next, chainVars

(* For every export: until a chain_break is reported for an org, its head   *)
(* moves only to the entry numbered next and chained to it.                 *)
THEOREM HeadMovesForward == Spec => HeadAdvancesByOne
<1>1. Init => HeadInv
  BY DEF Init, HeadInv
<1>2. TypeOK /\ HeadInv /\ [Next]_chainVars => HeadInv'
  BY HeadStep
<1>3. TypeOK /\ HeadInv /\ [Next]_chainVars =>
        [\A o \in Org :
          head[o] # Unseen /\ head'[o] # head[o] /\ ~ChainBroken(o) =>
            /\ head'[o].sequence = NextSequence(head[o].sequence)
            /\ file'[Len(file')].previous_hash = head[o].entry_hash]_chainVars
  BY HeadStep
<1> QED
  BY <1>1, <1>2, <1>3, TypeCorrect, PTL DEF Spec, HeadAdvancesByOne

-----------------------------------------------------------------------------
(* What stands behind a head, in a damaged export too.                      *)

Backed(o, h) ==
    \E i \in DOMAIN file :
        /\ EntryAt(file, i, o)
        /\ h = [sequence   |-> file[i].sequence,
                entry_hash |-> file[i].entry_hash]
        /\ WellFormed(keys, file[i])
        /\ \/ HashMatches(GenesisHash, file[i])
           \/ \E j \in 1..(i - 1) : /\ EntryAt(file, j, o)
                                    /\ HashMatches(file[j].entry_hash, file[i])

(* What the next entry is hashed after is genesis or an entry of its org.   *)
Anchored(o, p) ==
    p = GenesisHash \/ \E i \in DOMAIN file : /\ EntryAt(file, i, o)
                                             /\ p = file[i].entry_hash

BackedInv ==
    \A o \in Org : /\ head[o] # Unseen => Backed(o, head[o])
                   /\ state[o] # Unseen => Anchored(o, state[o].prev)

LEMMA BackedGrows ==
    ASSUME TypeOK, NEW l \in Lines, file' = Append(file, l), keys' = keys,
           NEW o
    PROVE  /\ \A h : Backed(o, h) => Backed(o, h)'
           /\ \A p : Anchored(o, p) => Anchored(o, p)'
<1>1. /\ file \in Seq(Lines) /\ DOMAIN file = 1..Len(file) /\ Len(file) \in Nat
      /\ DOMAIN file' = 1..(Len(file) + 1)
      /\ \A i \in 1..Len(file) :
           file'[i] = file[i] /\ (EntryAt(file', i, o) <=> EntryAt(file, i, o))
  <2>1. file \in Seq(Lines)
    BY DEF TypeOK
  <2> QED
    BY <2>1 DEF EntryAt
<1>2. \A i \in 1..Len(file) : i \in 1..(Len(file) + 1)
                              /\ 1..(i - 1) \subseteq 1..Len(file)
  BY <1>1
<1>3. ASSUME NEW h, Backed(o, h)
      PROVE  Backed(o, h)'
  BY <1>1, <1>2, <1>3 DEF Backed
<1>4. ASSUME NEW p, Anchored(o, p)
      PROVE  Anchored(o, p)'
  BY <1>1, <1>2, <1>4 DEF Anchored
<1> QED
  BY <1>3, <1>4

LEMMA BackedAdvance ==
    ASSUME TypeOK, BackedInv, NEW e \in Lines, e \in Entry, HashVerified(e),
           Advance(e), SignatureAccepted(keys, e)
    PROVE  BackedInv'
<1> DEFINE n == Len(file) + 1
           o == e.org_id
<1>1. /\ file \in Seq(Lines) /\ Len(file) \in Nat /\ o \in Org /\ e.kind = "entry"
      /\ file' = Append(file, e) /\ keys' = keys
  BY DEF TypeOK, Entry, Advance, ReadEntry, Read
<1>2. /\ n \in DOMAIN file' /\ file'[n] = e /\ EntryAt(file', n, o)
      /\ DOMAIN file = 1..(n - 1)
      /\ \A i \in 1..(n - 1) :
           file'[i] = file[i] /\ (EntryAt(file', i, o) <=> EntryAt(file, i, o))
  <2>1. n \in Nat /\ n - 1 = Len(file) /\ DOMAIN file' = 1..n
    BY <1>1
  <2>2. DOMAIN file = 1..(n - 1) /\ n \in DOMAIN file' /\ file'[n] = e
    BY <1>1, <2>1
  <2>3. \A i \in 1..(n - 1) : /\ i \in DOMAIN file /\ i \in DOMAIN file'
                              /\ file'[i] = file[i]
    BY <1>1, <2>1, <2>2
  <2> QED
    BY <1>1, <2>2, <2>3 DEF EntryAt
<1>3. WellFormed(keys', e)
  BY <1>1 DEF HashVerified, Hashable, Continues, SupportedVersion,
              MinChainVersion, WellFormed
<1>4. Anchored(o, Current(e).prev) /\ HashMatches(Current(e).prev, e)
  BY <1>1 DEF BackedInv, HashVerified, Current, Opens, Anchored
<1>5. \/ HashMatches(GenesisHash, e)
      \/ \E j \in 1..(n - 1) : /\ EntryAt(file', j, o)
                               /\ HashMatches(file'[j].entry_hash, e)
  BY <1>2, <1>4 DEF Anchored
<1>6. /\ head' = [head EXCEPT ![o] = [sequence   |-> e.sequence,
                                      entry_hash |-> e.entry_hash]]
      /\ state' = [state EXCEPT ![o] = [prev    |-> e.entry_hash,
                                        nextSeq |-> NextSequence(e.sequence)]]
  BY DEF Advance
<1>7. DOMAIN head = Org /\ DOMAIN state = Org
  BY DEF TypeOK
<1> HIDE DEF n, o
<1>8. ASSUME NEW q \in Org
      PROVE  /\ head'[q] # Unseen => Backed(q, head[q])'
             /\ state'[q] # Unseen => Anchored(q, state[q].prev)'
  <2>1. CASE q = o
    <3>1. /\ head'[q] = [sequence |-> e.sequence, entry_hash |-> e.entry_hash]
          /\ state'[q].prev = e.entry_hash
      BY <1>6, <1>7, <2>1
    <3> QED
      BY <1>2, <1>3, <1>5, <2>1, <3>1 DEF Backed, Anchored
  <2>2. CASE q # o
    <3>1. head'[q] = head[q] /\ state'[q] = state[q]
      BY <1>6, <1>7, <2>2
    <3>2. /\ \A h : Backed(q, h) => Backed(q, h)'
          /\ \A p : Anchored(q, p) => Anchored(q, p)'
      BY <1>1, BackedGrows
    <3>3. (head[q] # Unseen => Backed(q, head[q]))
          /\ (state[q] # Unseen => Anchored(q, state[q].prev))
      BY DEF BackedInv
    <3> QED
      BY <3>1, <3>2, <3>3
  <2> QED
    BY <2>1, <2>2
<1> QED
  BY <1>8 DEF BackedInv

LEMMA BackedStep ==
    ASSUME TypeOK, BackedInv, [Next]_chainVars
    PROVE  BackedInv'
<1>1. ASSUME NEW l \in Lines, file' = Append(file, l), keys' = keys, head' = head,
             \A o \in Org : \/ state'[o] \in {state[o], Unseen}
                            \/ state'[o].prev = GenesisHash
      PROVE  BackedInv'
  <2> SUFFICES ASSUME NEW o \in Org
               PROVE  /\ head'[o] # Unseen => Backed(o, head[o])'
                      /\ state'[o] # Unseen => Anchored(o, state[o].prev)'
    BY DEF BackedInv
  <2>1. /\ \A h : Backed(o, h) => Backed(o, h)'
        /\ \A p : Anchored(o, p) => Anchored(o, p)'
    BY <1>1, BackedGrows
  <2>2. (head[o] # Unseen => Backed(o, head[o]))
        /\ (state[o] # Unseen => Anchored(o, state[o].prev))
    BY DEF BackedInv
  <2>3. \A p : p = GenesisHash => Anchored(o, p)'
    BY DEF Anchored
  <2>4. head'[o] # Unseen => Backed(o, head[o])'
    BY <1>1, <2>1, <2>2
  <2>5. state'[o] # Unseen => Anchored(o, state[o].prev)'
    BY <1>1, <2>1, <2>2, <2>3
  <2> QED
    BY <2>4, <2>5
<1>2. CASE SkipBlankLine \/ RejectMalformedLine \/ FailOnOversizeLine
  BY <1>1, <1>2 DEF SkipBlankLine, RejectMalformedLine, FailOnOversizeLine, Read
<1>3. ASSUME NEW e \in Lines, e \in Entry, ReadSomeEntry(e)
      PROVE  BackedInv'
  <2>0. file' = Append(file, e) /\ keys' = keys /\ e.org_id \in Org
    BY <1>3, EntryStep DEF Entry, ReadSomeEntry, RejectVersion, RejectOutOfOrder,
       RejectMalformedPrevious, BreakChain, RejectCanonicalForm, RejectHash,
       RejectSignatureEncoding, RejectSignature, AcceptWithoutKeys,
       AcceptUnknownKey, AcceptSigned, Refuse, RefuseHashed, Advance, ReadEntry, Read
  <2>1. CASE \E k : Refuse(e, k) /\ state' = state
    BY <1>1, <2>0, <2>1 DEF Refuse
  <2>2. CASE BreakChain(e)
    <3>1. \A o \in Org : state'[o] \in {state[o], Unseen}
      BY <2>2 DEF BreakChain, TypeOK
    <3> QED
      BY <1>1, <2>0, <2>2, <3>1 DEF BreakChain, Refuse
  <2>3. CASE \E k : RefuseHashed(e, k)
    <3>1. /\ state' = [state EXCEPT ![e.org_id] = Current(e)] /\ head' = head
          /\ DOMAIN state = Org
      BY <2>3 DEF RefuseHashed, TypeOK
    <3>2. Current(e) = state[e.org_id] \/ Current(e).prev = GenesisHash
      BY DEF Current
    <3>3. \A o \in Org : state'[o] = state[o] \/ state'[o].prev = GenesisHash
      BY <3>1, <3>2
    <3> QED
      BY <1>1, <2>0, <3>1, <3>3
  <2>4. CASE HashVerified(e) /\ Advance(e) /\ SignatureAccepted(keys, e)
    BY <1>3, <2>4, BackedAdvance
  <2>5. CASE AcceptWithoutKeys(e) \/ AcceptUnknownKey(e) \/ AcceptSigned(e)
    <3>1. SignatureAccepted(keys, e)
      BY <2>5 DEF AcceptWithoutKeys, AcceptUnknownKey, AcceptSigned,
                  SignatureAccepted, KeyKnown
    <3> QED
      BY <2>4, <2>5, <3>1 DEF AcceptWithoutKeys, AcceptUnknownKey, AcceptSigned
  <2> QED
    BY <1>3, <2>1, <2>2, <2>3, <2>5 DEF ReadSomeEntry, RejectVersion,
       RejectOutOfOrder, RejectMalformedPrevious, RejectCanonicalForm,
       RejectHash, RejectSignatureEncoding, RejectSignature
<1>4. CASE UNCHANGED chainVars
  BY <1>4 DEF chainVars, BackedInv, Backed, Anchored
<1> QED
  BY <1>2, <1>3, <1>4, EntryLines DEF Next

(* For every export, damaged or not: a reported head is an entry that       *)
(* passed its own checks and is linked to genesis or an earlier entry.      *)
THEOREM HeadHasBacking == Spec => []HeadIsBacked
<1>1. Init => BackedInv
  BY DEF Init, BackedInv
<1>2. TypeOK /\ BackedInv /\ [Next]_chainVars => BackedInv'
  BY BackedStep
<1>3. BackedInv => HeadIsBacked
  BY DEF BackedInv, Backed, HeadIsBacked
<1> QED
  BY <1>1, <1>2, <1>3, TypeCorrect, PTL DEF Spec
-----------------------------------------------------------------------------
(* The count of the ledger-only adapter. *)

LEMMA FindingKindsFinite == IsFiniteSet(FindingKind)
<1> DEFINE A == {"parse_error", "chain_version_unsupported", "ordering",
                 "genesis_previous_hash", "malformed_previous_hash"}
           B == {"chain_break", "canonical_form", "hash_mismatch",
                 "signature_decode", "signature_invalid"}
<1>1. ASSUME NEW a, NEW b, NEW c, NEW d, NEW e
      PROVE  IsFiniteSet({a, b, c, d, e})
  <2>1. IsFiniteSet({a}) /\ IsFiniteSet({b}) /\ IsFiniteSet({c})
        /\ IsFiniteSet({d}) /\ IsFiniteSet({e})
    BY FS_Singleton
  <2>2. IsFiniteSet({a} \cup {b}) /\ IsFiniteSet({c} \cup {d})
    BY <2>1, FS_Union
  <2>3. IsFiniteSet(({a} \cup {b}) \cup ({c} \cup {d}))
    BY <2>2, FS_Union
  <2>4. IsFiniteSet((({a} \cup {b}) \cup ({c} \cup {d})) \cup {e})
    BY <2>1, <2>3, FS_Union
  <2>5. (({a} \cup {b}) \cup ({c} \cup {d})) \cup {e} = {a, b, c, d, e}
    OBVIOUS
  <2> QED
    BY <2>4, <2>5
<1>2. IsFiniteSet(A) /\ IsFiniteSet(B)
  BY <1>1
<1>3. IsFiniteSet(A \cup B)
  BY <1>2, FS_Union
<1>4. A \cup B = FindingKind
  BY DEF FindingKind
<1> QED
  BY <1>3, <1>4

LEMMA FindingsFinite ==
    ASSUME TypeOK
    PROVE  IsFiniteSet(findings)
<1> DEFINE P == (1..Len(file)) \X FindingKind
           R == [line : 1..Len(file), kind : FindingKind]
           g == [p \in P |-> [line |-> p[1], kind |-> p[2]]]
<1>1. IsFiniteSet(P)
  <2>1. IsFiniteSet(1..Len(file))
    BY FS_Interval DEF TypeOK
  <2> QED
    BY <2>1, FindingKindsFinite, FS_Product
<1>2. g \in Surjection(P, R)
  <2>1. g \in [P -> R]
    OBVIOUS
  <2>2. ASSUME NEW r \in R
        PROVE  \E p \in P : g[p] = r
    <3>1. <<r.line, r.kind>> \in P /\ g[<<r.line, r.kind>>] = r
      OBVIOUS
    <3> QED
      BY <3>1
  <2> QED
    BY <2>1, <2>2 DEF Surjection
<1>3. IsFiniteSet(R)
  <2> HIDE DEF P, R, g
  <2> QED
    BY <1>1, <1>2, FS_Surjection
<1> QED
  BY <1>3, FS_Subset DEF TypeOK

(* Every export: the adapter never counts an entry that has a finding.      *)
(* Each entry with a finding has a finding of its own line, so there are at *)
(* least as many findings as such entries.                                  *)
THEOREM LedgerCountTheorem == Spec => []LedgerCountIsCautious
<1>1. ASSUME TypeOK, CountInv
      PROVE  LedgerCountIsCautious
  <2> DEFINE E == EntryLinesOf(file)
             Bad == {i \in E : \E f \in findings : f.line = i}
             Good == {i \in DOMAIN file :
                        file[i].kind = "entry" /\ \A f \in findings : f.line # i}
             g == [i \in Bad |-> CHOOSE f \in findings : f.line = i]
  <2>1. IsFiniteSet(E) /\ scanned = Cardinality(E)
    BY <1>1 DEF CountInv
  <2>2. /\ E = Good \cup Bad /\ Good \cap Bad = {}
        /\ Good \in SUBSET E /\ Bad \in SUBSET E
    BY DEF EntryLinesOf
  <2>3. IsFiniteSet(Good) /\ IsFiniteSet(Bad) /\ IsFiniteSet(findings)
    BY <1>1, <2>1, <2>2, FS_Subset, FindingsFinite
  <2>4. Cardinality(E) = Cardinality(Good) + Cardinality(Bad)
    <3>1. Cardinality(Good \cup Bad)
            = Cardinality(Good) + Cardinality(Bad) - Cardinality(Good \cap Bad)
      BY <2>3, FS_Union
    <3>2. Cardinality(Good \cap Bad) = 0
      BY <2>2, FS_EmptySet
    <3>3. Cardinality(Good) \in Nat /\ Cardinality(Bad) \in Nat
      BY <2>3, FS_CardinalityType
    <3> HIDE DEF E, Good, Bad
    <3> QED
      BY <2>2, <3>1, <3>2, <3>3
  <2>5. g \in Injection(Bad, findings)
    <3>1. ASSUME NEW i \in Bad
          PROVE  g[i] \in findings /\ g[i].line = i
      OBVIOUS
    <3>2. g \in [Bad -> findings]
      BY <3>1
    <3>3. ASSUME NEW i \in Bad, NEW j \in Bad, g[i] = g[j]
          PROVE  i = j
      BY <3>1, <3>3
    <3> HIDE DEF g
    <3> QED
      BY <3>2, <3>3 DEF Injection, IsInjective
  <2>6. Cardinality(Bad) <= Cardinality(findings)
    <3> HIDE DEF g, Bad
    <3> QED
      BY <2>3, <2>5, FS_Injection
  <2>7. LedgerEntriesVerified <= Cardinality(Good)
    BY <2>1, <2>3, <2>4, <2>6, FS_CardinalityType DEF LedgerEntriesVerified
  <2> QED
    BY <2>7 DEF LedgerCountIsCautious
<1> QED
  BY <1>1, CountAlways, PTL
=============================================================================
