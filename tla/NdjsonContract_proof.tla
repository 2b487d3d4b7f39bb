------------------------ MODULE NdjsonContract_proof ------------------------
(***************************************************************************)
(* Proofs about a whole NDJSON run: what its exit code means, and what an  *)
(* anchor pins down, for every export, keystore, anchor file and hash      *)
(* function.                                                               *)
(***************************************************************************)
EXTENDS NdjsonContract, ChainContract_proof

(* Findings sit on entries and malformed lines; an oversize line fails.     *)
LineInv ==
    /\ \A x \in findings : \/ file[x.line] = MalformedLine
                           \/ \E o \in Org : EntryAt(file, x.line, o)
    /\ \A i \in DOMAIN file :
         file[i] = MalformedLine => \E x \in findings : x.line = i
    /\ failed <=> \E i \in DOMAIN file : file[i] = OversizeLine

LEMMA LineStep ==
    ASSUME TypeOK, LineInv, [Next]_chainVars
    PROVE  LineInv'
<1> USE DEF Read, TypeOK
<1>0. /\ BlankLine # MalformedLine /\ BlankLine # OversizeLine
      /\ MalformedLine # OversizeLine
      /\ \A e \in Entry : e # MalformedLine /\ e # OversizeLine
  BY DEF BlankLine, MalformedLine, OversizeLine, Entry
<1>1. ASSUME NEW l \in Lines, file' = Append(file, l),
             findings \subseteq findings',
             \A x \in findings' : x \in findings \/ x.line = Len(file) + 1,
             l = MalformedLine <=> (l.kind # "entry"
                    /\ \E x \in findings' : x.line = Len(file) + 1),
             l.kind = "entry" => l \in Entry,
             failed' <=> failed \/ l = OversizeLine
      PROVE  LineInv'
  <2>1. /\ \A i \in DOMAIN file : i \in DOMAIN file' /\ file'[i] = file[i]
        /\ DOMAIN file' = DOMAIN file \cup {Len(file) + 1}
        /\ file'[Len(file) + 1] = l
    BY <1>1
  <2>2. \A x \in findings' : \/ file'[x.line] = MalformedLine
                             \/ \E o \in Org : EntryAt(file', x.line, o)
    <3> SUFFICES ASSUME NEW x \in findings'
                 PROVE  \/ file'[x.line] = MalformedLine
                        \/ \E o \in Org : EntryAt(file', x.line, o)
      OBVIOUS
    <3>1. CASE x \in findings
      BY <2>1, <3>1 DEF LineInv, EntryAt
    <3>2. CASE x.line = Len(file) + 1 /\ l.kind = "entry"
      BY <1>1, <2>1, <3>2 DEF EntryAt, Entry
    <3>3. CASE x.line = Len(file) + 1 /\ l.kind # "entry"
      BY <1>1, <2>1, <3>3
    <3> QED
      BY <1>1, <3>1, <3>2, <3>3
  <2>3. \A i \in DOMAIN file' :
          file'[i] = MalformedLine => \E x \in findings' : x.line = i
    BY <1>1, <2>1 DEF LineInv
  <2>4. failed' <=> \E i \in DOMAIN file' : file'[i] = OversizeLine
    BY <1>1, <2>1 DEF LineInv
  <2> QED
    BY <2>2, <2>3, <2>4 DEF LineInv
<1>2. CASE SkipBlankLine
  BY <1>0, <1>1, <1>2 DEF SkipBlankLine, BlankLine
<1>3. CASE RejectMalformedLine
  <2>1. /\ MalformedLine \in Lines /\ file' = Append(file, MalformedLine)
        /\ failed' = failed /\ findings' = findings \cup {Here("parse_error")}
    BY <1>3 DEF RejectMalformedLine
  <2>2. Here("parse_error").line = Len(file) + 1
    BY DEF Here
  <2>3. MalformedLine.kind # "entry"
    BY DEF MalformedLine
  <2> QED
    BY <1>0, <1>1, <2>1, <2>2, <2>3
<1>4. CASE FailOnOversizeLine
  BY <1>0, <1>1, <1>4 DEF FailOnOversizeLine, OversizeLine
<1>5. ASSUME NEW e \in Lines, e \in Entry, ReadSomeEntry(e)
      PROVE  LineInv'
  <2>1. failed' = failed /\ e.kind = "entry"
    BY <1>5 DEF Entry, ReadSomeEntry, RejectVersion, RejectOutOfOrder,
       RejectMalformedPrevious, BreakChain, RejectCanonicalForm, RejectHash,
       RejectSignatureEncoding, RejectSignature, Refuse, RefuseHashed,
       Advance, ReadEntry, AcceptWithoutKeys, AcceptUnknownKey, AcceptSigned
  <2> QED
    BY <1>0, <1>1, <1>5, <2>1, EntryStep
<1>6. CASE UNCHANGED chainVars
  BY <1>6 DEF chainVars, LineInv, EntryAt
<1> QED
  BY <1>2, <1>3, <1>4, <1>5, <1>6, EntryLines DEF Next

(* The invariant of the chain pass, whole. *)
ChainInv == TypeOK /\ SoundInv /\ CountInv /\ SigInv /\ LineInv

LEMMA ChainInvInit ==
    ASSUME Init
    PROVE  ChainInv
<1>1. LineInv
  BY DEF Init, LineInv
<1>2. TypeOK
  BY TypeInit
<1> QED
  BY <1>1, <1>2, SoundInit, CountInit DEF ChainInv

LEMMA ChainInvStep ==
    ASSUME ChainInv, [Next]_chainVars
    PROVE  ChainInv'
BY TypeStep, SoundStep, CountStep, LineStep DEF ChainInv

(* No finding and no scanner error: exactly the valid exports. *)
LEMMA CleanIsValid ==
    ASSUME ChainInv
    PROVE  ValidExport <=> findings = {} /\ ~failed
<1>1. ASSUME findings = {}, ~failed PROVE ValidExport
  BY <1>1 DEF ChainInv, LineInv, SoundInv, Clean, FindingsOf, ValidExport
<1>2. ASSUME ValidExport PROVE findings = {} /\ ~failed
  <2>1. ~failed
    BY <1>2 DEF ValidExport, ChainInv, LineInv
  <2>2. ASSUME NEW x \in findings PROVE FALSE
    <3>1. x.line \in DOMAIN file
      BY DEF ChainInv, TypeOK
    <3>2. file[x.line] # MalformedLine
      BY <1>2, <3>1 DEF ValidExport
    <3>3. PICK o \in Org : EntryAt(file, x.line, o)
      BY <3>2 DEF ChainInv, LineInv
    <3>4. Clean(o)
      BY <1>2 DEF ValidExport, ChainInv, SoundInv
    <3> QED
      BY <3>3, <3>4 DEF Clean, FindingsOf
  <2> QED
    BY <2>1, <2>2
<1> QED
  BY <1>1, <1>2

-----------------------------------------------------------------------------
(* Anchors. *)

(* In a valid export an anchor draws a finding unless it names the org's    *)
(* last entry.                                                              *)
LEMMA AnchorChecked ==
    ASSUME ChainInv, findings = {}, NEW a \in HeadAnchor, a.org_id \in Org,
           a.entry_hash # NotHex
    PROVE  /\ AnchorFinding(a) = {} <=> AnchorHolds(a)
           /\ AnchorHolds(a) <=>
                head[a.org_id] = [sequence   |-> a.sequence,
                                  entry_hash |-> a.entry_hash]
<1> DEFINE o == a.org_id
           r == [sequence |-> a.sequence, entry_hash |-> a.entry_hash]
<1>0. /\ Tracks(o) /\ file \in Seq(Lines)
      /\ head[o] \in OrgHead \cup {Unseen} /\ a.sequence \in Int
      /\ Unseen # r
  BY AnchorFilesAssumption
     DEF ChainInv, SoundInv, Clean, FindingsOf, TypeOK, HeadAnchor
<1>1. CASE NoEntryOf(file, o)
  <2>1. head[o] = Unseen /\ ~AnchorHolds(a)
    BY <1>0, <1>1 DEF Tracks, AnchorHolds, NoEntryOf, LastOf
  <2>2. AnchorFinding(a) = {"anchor_org_missing"}
    BY <2>1 DEF AnchorFinding
  <2> QED
    BY <1>0, <2>1, <2>2
<1>2. CASE ~NoEntryOf(file, o)
  <2>1. PICK i \in DOMAIN file :
          /\ LastOf(file, i, o)
          /\ head[o] = [sequence   |-> file[i].sequence,
                        entry_hash |-> file[i].entry_hash]
    BY <1>0, <1>2 DEF Tracks
  <2>2. AnchorHolds(a) <=> head[o] = r
    BY <1>0, <2>1, UniqueLast DEF AnchorHolds
  <2>3. head[o] # Unseen
    <3>1. file[i].entry_hash \in Digest /\ file[i].sequence \in Int
      <4>1. state[o] \in OrgState /\ state[o].prev = file[i].entry_hash
        BY <1>0, <1>2, <2>1, UniqueLast DEF Tracks, ChainInv, TypeOK
      <4>2. file[i] \in Entry
        BY <1>0, <2>1, EntryLines DEF LastOf, EntryAt
      <4> QED
        BY <4>1, <4>2 DEF OrgState, Entry
    <3> QED
      BY <2>1, <3>1, UnseenAssumption DEF OrgHead
  <2>4. head[o].sequence \in Int
    BY <1>0, <2>3 DEF OrgHead
  <2>5. AnchorFinding(a) = {} <=> /\ head[o].sequence = a.sequence
                                 /\ head[o].entry_hash = a.entry_hash
    <3>1. head[o].sequence = a.sequence <=>
            ~(head[o].sequence < a.sequence) /\ ~(head[o].sequence > a.sequence)
      BY <1>0, <2>4
    <3>2. /\ {"truncation"} # {} /\ {"anchor_behind"} # {}
          /\ {"head_hash_mismatch"} # {}
      OBVIOUS
    <3> QED
      BY <2>3, <3>1, <3>2, Zenon DEF AnchorFinding
  <2> QED
    BY <2>1, <2>2, <2>5
<1> QED
  BY <1>1, <1>2

AnchorFindingsOf(doc) ==
    UNION {[org_id : {doc[i].org_id}, kind : AnchorFinding(doc[i])] :
             i \in DOMAIN doc}

LEMMA ParsedAnchors ==
    ASSUME NEW doc \in AnchorFiles, doc # NoHead, Parses(doc)
    PROVE  /\ doc \in Seq(HeadAnchor) /\ Len(doc) > 0
           /\ \A i \in DOMAIN doc : /\ doc[i] \in HeadAnchor
                                    /\ doc[i].org_id \in Org
                                    /\ doc[i].entry_hash # NotHex
<1>1. doc \in Seq(HeadAnchor)
  BY AnchorFilesAssumption DEF Parses
<1>2. \A i \in DOMAIN doc : doc[i] \in HeadAnchor
  BY <1>1
<1>3. \A i \in DOMAIN doc : doc[i].org_id # EmptyOrg /\ doc[i].entry_hash # NotHex
  BY DEF Parses
<1>4. \A a \in HeadAnchor : a.org_id # EmptyOrg => a.org_id \in Org
  BY DEF HeadAnchor
<1> QED
  BY <1>1, <1>2, <1>3, <1>4 DEF Parses

LEMMA AnchorsChecked ==
    ASSUME ChainInv, findings = {}, NEW doc \in AnchorFiles, doc # NoHead,
           Parses(doc)
    PROVE  /\ AnchorFindingsOf(doc) = {} <=>
                \A i \in DOMAIN doc : AnchorHolds(doc[i])
           /\ AnchorFindingsOf(doc) = {} => AnchoredOrgs(doc) = Len(doc)
<1>1. AnchorFindingsOf(doc) = {} <=>
        \A i \in DOMAIN doc : AnchorFinding(doc[i]) = {}
  <2>1. ASSUME NEW i \in DOMAIN doc, NEW k \in AnchorFinding(doc[i])
        PROVE  [org_id |-> doc[i].org_id, kind |-> k] \in AnchorFindingsOf(doc)
    BY DEF AnchorFindingsOf
  <2>2. ASSUME NEW x \in AnchorFindingsOf(doc)
        PROVE  \E i \in DOMAIN doc : AnchorFinding(doc[i]) # {}
    BY DEF AnchorFindingsOf
  <2> QED
    BY <2>1, <2>2
<1>2. \A i \in DOMAIN doc :
        /\ AnchorFinding(doc[i]) = {} <=> AnchorHolds(doc[i])
        /\ AnchorHolds(doc[i]) <=>
             head[doc[i].org_id] = [sequence   |-> doc[i].sequence,
                                    entry_hash |-> doc[i].entry_hash]
  BY ParsedAnchors, AnchorChecked
<1>3. ASSUME AnchorFindingsOf(doc) = {}
      PROVE  AnchoredOrgs(doc) = Len(doc)
  <2>1. {i \in DOMAIN doc :
          head[doc[i].org_id] = [sequence   |-> doc[i].sequence,
                                 entry_hash |-> doc[i].entry_hash]} = 1..Len(doc)
    BY <1>1, <1>2, <1>3, ParsedAnchors
  <2>2. Cardinality(1..Len(doc)) = Len(doc)
    BY ParsedAnchors, FS_Interval
  <2> QED
    BY <2>1, <2>2 DEF AnchoredOrgs
<1> QED
  BY <1>1, <1>2, <1>3

LEMMA StrictMeansAllSigned ==
    ASSUME ChainInv, findings = {}, keys # NoKeys
    PROVE  sigSkipped = 0 /\ sigVerified > 0 <=> AllSigned
<1>1. /\ sigVerified + sigSkipped = Cardinality(Entries)
      /\ sigSkipped = 0 => \A i \in Entries : Signed(i)
      /\ sigSkipped > 0 => \E i \in Entries : ~KeyKnown(keys, file[i])
      /\ sigVerified \in Nat /\ sigSkipped \in Nat
      /\ IsFiniteSet(Entries)
  BY DEF ChainInv, CountInv, SigInv, TypeOK, Entries, EntryLinesOf
<1>2. Cardinality(Entries) = 0 <=> Entries = {}
  BY <1>1, FS_EmptySet
<1> QED
  BY <1>1, <1>2 DEF AllSigned, Signed

(* What runNDJSON knows when it reports, and when it prints ok.             *)
Reported ==
    /\ ~failed
    /\ requireSigs => keys # NoKeys
    /\ \/ headFile = NoHead /\ anchorFindings = {}
       \/ /\ headFile \in AnchorFiles /\ headFile # NoHead /\ Parses(headFile)
          /\ anchorFindings = AnchorFindingsOf(headFile)

Passed ==
    /\ findings = {} /\ anchorFindings = {}
    /\ requireSigs => StrictSignatureAcceptance

LEMMA PassedIsAcceptable ==
    ASSUME ChainInv, Reported
    PROVE  Passed <=> Acceptable
<1>1. ValidExport <=> findings = {}
  BY CleanIsValid DEF Reported
<1>2. CASE findings # {}
  BY <1>1, <1>2 DEF Passed, Acceptable
<1>3. CASE findings = {}
  <2>1. anchorFindings = {} <=>
          (headFile # NoHead => \A i \in DOMAIN headFile : AnchorHolds(headFile[i]))
    BY <1>3, AnchorsChecked DEF Reported
  <2>2. anchorFindings = {} =>
          ((requireSigs => StrictSignatureAcceptance) <=> (requireSigs => AllSigned))
    BY <1>3, StrictMeansAllSigned DEF StrictSignatureAcceptance, Reported
  <2> QED
    BY <1>1, <1>3, <2>1, <2>2 DEF Passed, Acceptable
<1> QED
  BY <1>2, <1>3

RunInv ==
    /\ ChainInv
    /\ phase \in {"start", "verify", "anchors", "report", "exited"}
    /\ phase \notin {"start", "exited"} => (requireSigs => keys # NoKeys)
    /\ phase \in {"anchors", "report"} => ~failed
    /\ phase \in {"start", "verify", "anchors"} => anchorFindings = {}
    /\ phase = "report" => Reported
    /\ phase # "exited" => exit = 3
    /\ exit \in {0, 1} => Reported /\ (exit = 0 <=> Passed)

LEMMA RunStep ==
    ASSUME RunInv, [RunNext]_vars
    PROVE  RunInv'
<1>1. CASE ReadLine
  <2>1. ChainInv'
    BY <1>1, ChainInvStep DEF RunInv, ReadLine
  <2>2. keys' = keys
    BY <1>1, EntryLines, EntryStep DEF ReadLine, Next, SkipBlankLine,
       RejectMalformedLine, FailOnOversizeLine, Read, RunInv, ChainInv
  <2> QED
    BY <1>1, <2>1, <2>2 DEF RunInv, ReadLine, runVars
<1>2. ASSUME UNCHANGED chainVars PROVE ChainInv'
  BY <1>2, ChainInvStep DEF RunInv
<1> USE DEF RunInv, Exit
<1>3. CASE RejectArguments \/ Start \/ FailScan \/ FinishVerify
  BY <1>2, <1>3 DEF RejectArguments, Start, FailScan, FinishVerify, chainVars
<1>4. CASE SkipAnchors
  BY <1>2, <1>4 DEF SkipAnchors, Reported, chainVars
<1>5. ASSUME NEW doc \in AnchorFiles \ {NoHead}, RejectAnchors(doc)
      PROVE  RunInv'
  BY <1>2, <1>5 DEF RejectAnchors, chainVars
<1>6. ASSUME NEW doc \in AnchorFiles \ {NoHead}, CheckAnchors(doc)
      PROVE  RunInv'
  <2>1. AnchorFindingsOf(doc)' = AnchorFindingsOf(doc) /\ (Parses(doc)' <=> Parses(doc))
    BY <1>6 DEF CheckAnchors, chainVars, AnchorFindingsOf, AnchorFinding, Parses
  <2>2. anchorFindings' = AnchorFindingsOf(doc)
    BY <1>6 DEF CheckAnchors, AnchorFindingsOf
  <2>3. Reported'
    BY <1>6, <2>1, <2>2 DEF CheckAnchors, Reported, chainVars
  <2> QED
    BY <1>2, <1>6, <2>3 DEF CheckAnchors, chainVars
<1>7. ASSUME UNCHANGED <<chainVars, requireSigs, headFile, anchorFindings>>
      PROVE  (Reported' <=> Reported) /\ (Passed' <=> Passed)
  BY <1>7 DEF chainVars, Reported, Passed, StrictSignatureAcceptance,
     AnchorFindingsOf, AnchorFinding, Parses
<1>8. CASE ReportFindings
  BY <1>2, <1>7, <1>8 DEF ReportFindings, Passed
<1>9. CASE ReportNotAccepted
  BY <1>2, <1>7, <1>9 DEF ReportNotAccepted, Passed
<1>10. CASE ReportOk
  BY <1>2, <1>7, <1>10 DEF ReportOk, Passed
<1>11. CASE UNCHANGED vars
  BY <1>2, <1>7, <1>11 DEF vars, runVars, chainVars
<1> QED
  BY <1>1, <1>3, <1>4, <1>5, <1>6, <1>8, <1>9, <1>10, <1>11 DEF RunNext

LEMMA RunAlways == RunSpec => []RunInv
<1>1. RunInit => RunInv
  BY ChainInvInit DEF RunInit, RunInv
<1>2. RunInv /\ [RunNext]_vars => RunInv'
  BY RunStep
<1> QED
  BY <1>1, <1>2, PTL DEF RunSpec

LEMMA RunTypeStep ==
    ASSUME RunTypeOK, RunInv, RunInv', [RunNext]_vars
    PROVE  RunTypeOK'
<1>1. TypeOK' /\ phase' \in {"start", "verify", "anchors", "report", "exited"}
  BY DEF RunInv, ChainInv
<1>2. requireSigs' = requireSigs /\ exit' \in 0..3
  BY DEF RunNext, RunTypeOK, RejectArguments, Start, ReadLine, FailScan,
     FinishVerify, SkipAnchors, RejectAnchors, CheckAnchors, ReportFindings,
     ReportNotAccepted, ReportOk, Exit, vars, runVars
<1>3. headFile' \in AnchorFiles \cup {NoHead}
  BY DEF RunNext, RunTypeOK, RejectArguments, Start, ReadLine, FailScan,
     FinishVerify, SkipAnchors, RejectAnchors, CheckAnchors, ReportFindings,
     ReportNotAccepted, ReportOk, vars, runVars
<1>4. anchorFindings' \subseteq [org_id : Org, kind : AnchorFindingKind]
  <2>1. ASSUME NEW doc \in AnchorFiles \ {NoHead}, CheckAnchors(doc)
        PROVE  anchorFindings' \subseteq [org_id : Org, kind : AnchorFindingKind]
    <3>1. \A i \in DOMAIN doc : doc[i].org_id \in Org
      BY <2>1, ParsedAnchors DEF CheckAnchors
    <3>2. \A i \in DOMAIN doc : AnchorFinding(doc[i]) \subseteq AnchorFindingKind
      BY DEF AnchorFinding, AnchorFindingKind
    <3>3. \A i \in DOMAIN doc :
            [org_id : {doc[i].org_id}, kind : AnchorFinding(doc[i])]
              \subseteq [org_id : Org, kind : AnchorFindingKind]
      BY <3>1, <3>2
    <3> QED
      BY <2>1, <3>3 DEF CheckAnchors
  <2>2. CASE anchorFindings' = anchorFindings
    BY <2>2 DEF RunTypeOK
  <2> QED
    BY <2>1, <2>2 DEF RunNext, RejectArguments, Start, ReadLine, FailScan,
       FinishVerify, SkipAnchors, RejectAnchors, ReportFindings,
       ReportNotAccepted, ReportOk, vars, runVars
<1> QED
  BY <1>1, <1>2, <1>3, <1>4 DEF RunTypeOK

(* A whole run is type correct, with any anchor file and any flags.         *)
THEOREM RunTypesTheorem == RunSpec => []RunTypeOK
<1>1. RunInit => RunTypeOK
  BY TypeInit DEF RunInit, RunTypeOK
<1>2. RunTypeOK /\ RunInv /\ RunInv' /\ [RunNext]_vars => RunTypeOK'
  BY RunTypeStep
<1> QED
  BY <1>1, <1>2, RunAlways, PTL DEF RunSpec

(* For every export, keystore, anchor file and hash function: exit 0 means  *)
(* valid chains, matching anchors and, when demanded, only known signers;   *)
(* exit 1 means that one of these fails.                                    *)
THEOREM ExitCodeTheorem == RunSpec => []ExitCodeIsVerdict
<1>1. RunInv => ExitCodeIsVerdict
  BY PassedIsAcceptable DEF RunInv, ExitCodeIsVerdict
<1> QED
  BY <1>1, RunAlways, PTL

(* For every run: the summary printed with exit 0 counts what it claims.    *)
THEOREM SummaryTheorem == RunSpec => []SummaryIsTrue
<1>1. ASSUME RunInv PROVE SummaryIsTrue
  <2> SUFFICES ASSUME exit = 0
               PROVE  /\ headFile # NoHead => AnchoredOrgs(headFile) = Len(headFile)
                      /\ requireSigs => sigVerified = Cardinality(Entries)
    BY DEF SummaryIsTrue
  <2>1. Reported /\ Passed /\ ChainInv
    BY <1>1 DEF RunInv
  <2>2. headFile # NoHead => AnchoredOrgs(headFile) = Len(headFile)
    BY <2>1, AnchorsChecked DEF Reported, Passed
  <2>3. requireSigs => sigVerified = Cardinality(Entries)
    BY <2>1 DEF Reported, Passed, StrictSignatureAcceptance, ChainInv, CountInv,
       SigInv, TypeOK, Entries, EntryLinesOf
  <2> QED
    BY <2>2, <2>3
<1> QED
  BY <1>1, RunAlways, PTL

-----------------------------------------------------------------------------
(* A genuine head pins the entries before it. *)

Lasting(i) == [line |-> i, kind |-> "engine_version_legacy_hash_form"]

(* Entry e, read at line i, is the producer's entry of its number. *)
Same(log, e, i, ws) ==
    /\ e.body = log[e.sequence].body
    /\ \/ e.engine_version = log[e.sequence].engine_version
       \/ Lasting(i) \in ws

Genuine(log, e) ==
    /\ e.sequence \in DOMAIN log
    /\ e.entry_hash = log[e.sequence].entry_hash

(* The entries of a clean org are numbered 1, 2, ... in file order.         *)
Numbered(f, o) ==
    \A i \in DOMAIN f : EntryAt(f, i, o) =>
        /\ f[i].sequence \in Nat \ {0} /\ f[i].sequence <= i
        /\ \A j \in DOMAIN f : EntryAt(f, j, o) /\ j < i =>
                                  f[j].sequence < f[i].sequence
        /\ \A s \in 1..f[i].sequence :
             \E j \in DOMAIN f : j <= i /\ EntryAt(f, j, o) /\ f[j].sequence = s

Pinned(f, o, ws) ==
    \A i \in DOMAIN f : EntryAt(f, i, o) /\ Genuine(ProducerLog[o], f[i]) =>
        \A j \in DOMAIN f : EntryAt(f, j, o) /\ j <= i =>
                                Same(ProducerLog[o], f[j], j, ws)

PinInv ==
    \A o \in Org : Clean(o) => Numbered(file, o) /\ Pinned(file, o, warnings)

LEMMA Injective ==
    ASSUME NEW d1 \in Digest, NEW d2 \in Digest,
           NEW c1 \in Content, NEW c2 \in Content, Hash(d1, c1) = Hash(d2, c2)
    PROVE  d1 = d2 /\ c1 = c2
BY CollisionResistance

(* Equal hashes: equal bodies, and equal engine_version or a warning.       *)
LEMMA SameContent ==
    ASSUME NEW e \in Entry, NEW d \in Entry, NEW p \in Digest, NEW q \in Digest,
           HashMatches(p, e), d.entry_hash = PrimaryHash(q, d),
           e.entry_hash = d.entry_hash
    PROVE  /\ p = q /\ e.body = d.body
           /\ e.engine_version = d.engine_version \/ UsesLegacyForm(p, e)
<1>1. \A b \in BOOLEAN : /\ CanonicalizeForHash(e, b) \in Content
                         /\ CanonicalizeForHash(d, b) \in Content
  BY CanonicalType
<1>2. CASE e.entry_hash = PrimaryHash(p, e)
  <2>1. p = q /\ CanonicalizeForHash(e, TRUE) = CanonicalizeForHash(d, TRUE)
    BY <1>1, <1>2, CollisionResistance DEF PrimaryHash
  <2> QED
    BY <2>1 DEF CanonicalizeForHash
<1>3. CASE e.entry_hash = LegacyHash(p, e) /\ e.entry_hash # PrimaryHash(p, e)
  <2>1. p = q /\ CanonicalizeForHash(e, FALSE) = CanonicalizeForHash(d, TRUE)
    <3> DEFINE ce == CanonicalizeForHash(e, FALSE)
               cd == CanonicalizeForHash(d, TRUE)
    <3>1. Hash(p, ce) = Hash(q, cd)
      BY <1>3 DEF PrimaryHash, LegacyHash
    <3>2. ce \in Content /\ cd \in Content
      BY <1>1
    <3> HIDE DEF ce, cd
    <3>3. p = q /\ ce = cd
      BY <3>1, <3>2, Injective
    <3> QED
      BY <3>3 DEF ce, cd
  <2> QED
    BY <1>3, <2>1 DEF CanonicalizeForHash, UsesLegacyForm
<1> QED
  BY <1>2, <1>3 DEF HashMatches

LEMMA ProducerFacts ==
    ASSUME NEW o \in Org, NEW s \in DOMAIN ProducerLog[o]
    PROVE  LET log == ProducerLog[o] IN
           /\ log \in Seq(Entry) /\ s \in 1..Len(log) /\ log[s] \in Entry
           /\ log[s].entry_hash \in Digest
           /\ s = 1 => log[s].entry_hash = PrimaryHash(GenesisHash, log[s])
           /\ s > 1 => /\ s - 1 \in DOMAIN log
                       /\ log[s].entry_hash =
                            PrimaryHash(log[s - 1].entry_hash, log[s])
BY ProducerLogAssumption DEF IsProducerLog

(* An entry accepted without a finding, and the warning it may leave.       *)
LEMMA UnflaggedStep ==
    ASSUME ChainInv, NEW e \in Lines, e \in Entry, ReadSomeEntry(e), ~Flagged,
           Clean(e.org_id)
    PROVE  /\ Extends(keys, file, e.org_id, e)
           /\ UsesLegacyForm(Current(e).prev, e) =>
                Lasting(Len(file) + 1) \in warnings'
<1>1. Extends(keys, file, e.org_id, e)
  BY Verdict DEF ChainInv, SoundInv, Entry
<1>2. \A k : Here(k) \notin findings'
  BY DEF Flagged, Here
<1>3. LegacyWarning(e) \subseteq warnings'
  BY <1>2 DEF ReadSomeEntry, RejectVersion, RejectOutOfOrder,
     RejectMalformedPrevious, BreakChain, RejectCanonicalForm, RejectHash,
     RejectSignatureEncoding, RejectSignature, Refuse, RefuseHashed,
     AcceptWithoutKeys, AcceptUnknownKey, AcceptSigned
<1> QED
  BY <1>1, <1>3 DEF LegacyWarning, Here, Lasting

LEMMA WarningsGrow ==
    ASSUME NEW e \in Lines, ReadSomeEntry(e)
    PROVE  warnings \subseteq warnings'
BY DEF ReadSomeEntry, RejectVersion, RejectOutOfOrder,
   RejectMalformedPrevious, BreakChain, RejectCanonicalForm, RejectHash,
   RejectSignatureEncoding, RejectSignature, Refuse, RefuseHashed,
   AcceptWithoutKeys, AcceptUnknownKey, AcceptSigned

(* The step that matters: a clean org gets its next entry.                  *)
LEMMA PinEntryStep ==
    ASSUME ChainInv, PinInv, NEW e \in Lines, e \in Entry, ReadSomeEntry(e),
           ~Flagged, Clean(e.org_id)
    PROVE  Numbered(file', e.org_id) /\ Pinned(file', e.org_id, warnings')
<1> DEFINE o == e.org_id
           n == Len(file) + 1
           log == ProducerLog[o]
<1>0. /\ file' = Append(file, e) /\ file \in Seq(Lines) /\ o \in Org
      /\ e.kind = "entry" /\ Len(file) \in Nat /\ n <= MaxLines
      /\ Current(e).prev \in Digest /\ warnings \subseteq warnings'
  <2>1. TypeOK
    BY DEF ChainInv
  <2>2. o \in Org /\ e.kind = "entry"
    BY DEF Entry
  <2>3. file \in Seq(Lines) /\ Len(file) \in Nat
    BY <2>1 DEF TypeOK
  <2>4. file' = Append(file, e)
    BY <2>1, EntryStep
  <2>5. Len(file') <= MaxLines
    <3>1. [Next]_chainVars
      BY <2>2 DEF Next
    <3>2. TypeOK'
      BY <2>1, <3>1, TypeStep
    <3> QED
      BY <3>2 DEF TypeOK
  <2>6. n <= MaxLines
    <3>1. Len(Append(file, e)) = Len(file) + 1
      BY <2>3
    <3> QED
      BY <2>4, <2>5, <3>1
  <2>7. Current(e).prev \in Digest
    <3>1. Current(e) \in OrgState
      BY <2>1, CurrentType
    <3> QED
      BY <3>1 DEF OrgState
  <2>8. warnings \subseteq warnings'
    BY WarningsGrow
  <2> QED
    BY <2>2, <2>3, <2>4, <2>6, <2>7, <2>8
<1>1. /\ DOMAIN file = 1..Len(file) /\ DOMAIN file' = 1..n
      /\ \A i \in 1..Len(file) : file'[i] = file[i]
      /\ \A i \in 1..Len(file) : EntryAt(file', i, o) <=> EntryAt(file, i, o)
      /\ file'[n] = e /\ EntryAt(file', n, o)
  BY <1>0 DEF EntryAt
<1>2. /\ Extends(keys, file, o, e)
      /\ UsesLegacyForm(Current(e).prev, e) => Lasting(n) \in warnings'
      /\ HashMatches(Current(e).prev, e)
  <2>1. Tracks(o)
    BY <1>0 DEF ChainInv, SoundInv
  <2> QED
    BY <2>1, UnflaggedStep, TrackedExtends DEF ChainInv
<1>3. Numbered(file, o) /\ Pinned(file, o, warnings) /\ Tracks(o)
  BY <1>0 DEF PinInv, ChainInv, SoundInv
<1>4. CASE NoEntryOf(file, o)
  <2>1. \A i \in 1..n : EntryAt(file', i, o) => i = n
    BY <1>1, <1>4 DEF NoEntryOf
  <2>2. e.sequence = 1 /\ Current(e).prev = GenesisHash
    BY <1>2, <1>3, <1>4 DEF Extends, IsGenesis, Tracks, Current, Opens
  <2>3. Numbered(file', o)
    BY <1>0, <1>1, <2>1, <2>2 DEF Numbered
  <2>4. ASSUME Genuine(log, e) PROVE Same(log, e, n, warnings')
    <3>1. /\ log[1] \in Entry /\ e.entry_hash = log[1].entry_hash
          /\ log[1].entry_hash = PrimaryHash(GenesisHash, log[1])
      BY <1>0, <2>2, <2>4, ProducerFacts DEF Genuine
    <3> QED
      BY <1>2, <2>2, <3>1, SameContent, GenesisAssumption DEF Same
  <2> QED
    BY <1>1, <2>1, <2>3, <2>4 DEF Pinned
<1>5. CASE ~NoEntryOf(file, o)
  <2>1. PICK i \in DOMAIN file :
          LastOf(file, i, o) /\ state[o].prev = file[i].entry_hash
    BY <1>3, <1>5 DEF Tracks
  <2>2. /\ e.sequence = NextSequence(file[i].sequence)
        /\ Current(e).prev = file[i].entry_hash
        /\ EntryAt(file, i, o)
    BY <1>2, <1>3, <1>5, <2>1 DEF Extends, Succeeds, Tracks, Current, Opens, LastOf
  <2>3. /\ file[i].sequence \in Nat \ {0} /\ file[i].sequence <= i
        /\ \A j \in DOMAIN file : EntryAt(file, j, o) /\ j < i =>
                                  file[j].sequence < file[i].sequence
        /\ \A s \in 1..file[i].sequence :
             \E j \in DOMAIN file : j <= i /\ EntryAt(file, j, o) /\ file[j].sequence = s
    BY <1>3, <2>1, <2>2 DEF Numbered
  <2>4. e.sequence = file[i].sequence + 1 /\ e.sequence <= n
    BY <1>0, <1>1, <2>1, <2>2, <2>3, FileSizeAssumption, MaxInt64Assumption,
       MaxLinesAssumption DEF NextSequence
  <2>5. \A j \in 1..Len(file) : EntryAt(file, j, o) =>
          j <= i /\ file[j].sequence \in Nat \ {0} /\ file[j].sequence <= file[i].sequence
    BY <1>1, <1>3, <2>1, <2>3 DEF LastOf, Numbered
  <2>6. Numbered(file', o)
    <3> SUFFICES ASSUME NEW k \in 1..n, EntryAt(file', k, o)
                 PROVE  /\ file'[k].sequence \in Nat \ {0} /\ file'[k].sequence <= k
                        /\ \A j \in 1..n : EntryAt(file', j, o) /\ j < k =>
                                            file'[j].sequence < file'[k].sequence
                        /\ \A s \in 1..file'[k].sequence :
                             \E j \in 1..n : /\ j <= k /\ EntryAt(file', j, o)
                                            /\ file'[j].sequence = s
      BY <1>1 DEF Numbered
    <3>1. CASE k \in 1..Len(file)
      BY <1>0, <1>1, <1>3, <3>1 DEF Numbered
    <3>2. CASE k = n
      <4>1. e.sequence \in Nat \ {0} /\ e.sequence <= n
        BY <2>3, <2>4
      <4>2. \A j \in 1..n : EntryAt(file', j, o) /\ j < n =>
              file'[j].sequence < e.sequence
        BY <1>0, <1>1, <2>3, <2>4, <2>5
      <4>3. ASSUME NEW s \in 1..e.sequence
            PROVE  \E j \in 1..n : j <= n /\ EntryAt(file', j, o) /\ file'[j].sequence = s
        <5>1. CASE s = e.sequence
          BY <1>0, <1>1, <5>1
        <5>2. CASE s \in 1..file[i].sequence
          BY <1>0, <1>1, <2>3, <5>2
        <5> QED
          BY <2>3, <2>4, <5>1, <5>2
      <4> QED
        BY <1>1, <3>2, <4>1, <4>2, <4>3
    <3> QED
      BY <1>0, <3>1, <3>2
  <2>7. ASSUME Genuine(log, e)
        PROVE  Genuine(log, file[i]) /\ Same(log, e, n, warnings')
    <3>1. /\ log[e.sequence] \in Entry /\ e.sequence - 1 \in DOMAIN log
          /\ log[e.sequence - 1].entry_hash \in Digest
          /\ e.entry_hash = log[e.sequence].entry_hash
          /\ log[e.sequence].entry_hash =
               PrimaryHash(log[e.sequence - 1].entry_hash, log[e.sequence])
      <4>1. e.sequence \in DOMAIN log /\ e.entry_hash = log[e.sequence].entry_hash
        BY <2>7 DEF Genuine
      <4>2. e.sequence > 1
        BY <2>3, <2>4
      <4>3. /\ log[e.sequence] \in Entry /\ e.sequence - 1 \in DOMAIN log
            /\ log[e.sequence].entry_hash =
                 PrimaryHash(log[e.sequence - 1].entry_hash, log[e.sequence])
        BY <1>0, <4>1, <4>2, ProducerFacts
      <4> QED
        BY <1>0, <4>1, <4>3, ProducerFacts
    <3>2. /\ file[i].entry_hash = log[e.sequence - 1].entry_hash
          /\ e.body = log[e.sequence].body
          /\ \/ e.engine_version = log[e.sequence].engine_version
             \/ UsesLegacyForm(Current(e).prev, e)
      BY <1>0, <1>2, <2>2, <3>1, SameContent
    <3>3. file[i].sequence = e.sequence - 1
      BY <2>3, <2>4
    <3> QED
      BY <1>2, <3>1, <3>2, <3>3 DEF Genuine, Same
  <2>8. Pinned(file', o, warnings')
    <3> SUFFICES ASSUME NEW k \in 1..n, EntryAt(file', k, o), Genuine(log, file'[k]),
                        NEW j \in 1..n, EntryAt(file', j, o), j <= k
                 PROVE  Same(log, file'[j], j, warnings')
      BY <1>1 DEF Pinned
    <3>1. ASSUME NEW x \in 1..Len(file), EntryAt(file, x, o), Genuine(log, file[x]),
                 j \in 1..Len(file), j <= x
          PROVE  Same(log, file'[j], j, warnings')
      <4>1. Same(log, file[j], j, warnings)
        BY <1>1, <1>3, <3>1 DEF Pinned
      <4> QED
        BY <1>0, <1>1, <3>1, <4>1 DEF Same
    <3>2. CASE k \in 1..Len(file)
      BY <1>0, <1>1, <3>1, <3>2
    <3>3. CASE k = n /\ j = n
      BY <1>1, <2>7, <3>3
    <3>4. CASE k = n /\ j # n
      BY <1>0, <1>1, <2>2, <2>5, <2>7, <3>1, <3>4
    <3> QED
      BY <1>0, <3>2, <3>3, <3>4
  <2> QED
    BY <2>6, <2>8
<1> QED
  BY <1>4, <1>5

(* An org whose entries did not change keeps its numbering and its pins.    *)
LEMMA PinFrame ==
    ASSUME NEW o, NEW l \in Lines, file \in Seq(Lines),
           file' = Append(file, l), ~EntryAt(file', Len(file) + 1, o),
           warnings \subseteq warnings',
           Numbered(file, o), Pinned(file, o, warnings)
    PROVE  Numbered(file', o) /\ Pinned(file', o, warnings')
<1>1. /\ DOMAIN file = 1..Len(file) /\ DOMAIN file' = 1..(Len(file) + 1)
      /\ \A i \in 1..Len(file) : file'[i] = file[i]
      /\ \A i \in 1..Len(file) : EntryAt(file', i, o) <=> EntryAt(file, i, o)
      /\ Len(file) \in Nat
  BY DEF EntryAt
<1>2. \A i \in DOMAIN file' : EntryAt(file', i, o) => i \in DOMAIN file
  BY <1>1
<1>3. Numbered(file', o)
  <2> SUFFICES ASSUME NEW k \in DOMAIN file, EntryAt(file, k, o)
               PROVE  /\ file[k].sequence \in Nat \ {0} /\ file[k].sequence <= k
                      /\ \A j \in DOMAIN file : EntryAt(file, j, o) /\ j < k =>
                                          file[j].sequence < file[k].sequence
                      /\ \A s \in 1..file[k].sequence :
                           \E j \in DOMAIN file : /\ j <= k /\ EntryAt(file, j, o)
                                                 /\ file[j].sequence = s
    BY <1>1, <1>2 DEF Numbered
  <2> QED
    BY DEF Numbered
<1>4. Pinned(file', o, warnings')
  <2>1. \A j \in DOMAIN file : Same(ProducerLog[o], file[j], j, warnings)
                             => Same(ProducerLog[o], file'[j], j, warnings')
    BY <1>1 DEF Same
  <2> QED
    BY <1>1, <1>2, <2>1 DEF Pinned
<1> QED
  BY <1>3, <1>4

LEMMA PinStep ==
    ASSUME ChainInv, PinInv, [Next]_chainVars
    PROVE  PinInv'
<1>1. ASSUME NEW l \in Lines, file' = Append(file, l), l.kind # "entry",
             findings \subseteq findings', warnings' = warnings
      PROVE  PinInv'
  <2> SUFFICES ASSUME NEW o \in Org, Clean(o)'
               PROVE  (Numbered(file, o) /\ Pinned(file, o, warnings))'
    BY DEF PinInv
  <2>1. file \in Seq(Lines) /\ ~EntryAt(file', Len(file) + 1, o)
    BY <1>1 DEF ChainInv, TypeOK, EntryAt
  <2>2. Clean(o)
    BY <1>1 DEF Clean, FindingsOf, ChainInv, TypeOK, EntryAt
  <2>3. Numbered(file, o) /\ Pinned(file, o, warnings)
    BY <2>2 DEF PinInv
  <2> QED
    BY <1>1, <2>1, <2>3, PinFrame
<1>2. CASE SkipBlankLine
  BY <1>1, <1>2 DEF SkipBlankLine, Read, BlankLine
<1>3. CASE RejectMalformedLine
  BY <1>1, <1>3 DEF RejectMalformedLine, Read, MalformedLine
<1>4. CASE FailOnOversizeLine
  BY <1>1, <1>4 DEF FailOnOversizeLine, Read, OversizeLine
<1>5. ASSUME NEW e \in Lines, e \in Entry, ReadSomeEntry(e)
      PROVE  PinInv'
  <2> SUFFICES ASSUME NEW o \in Org, Clean(o)'
               PROVE  (Numbered(file, o) /\ Pinned(file, o, warnings))'
    BY DEF PinInv
  <2>0. /\ file' = Append(file, e) /\ file \in Seq(Lines)
        /\ findings \subseteq findings' /\ warnings \subseteq warnings'
        /\ \A x \in findings : x.line \in 1..Len(file)
    BY <1>5, EntryStep, WarningsGrow DEF ChainInv, TypeOK
  <2>1. Clean(o)
    BY <2>0 DEF Clean, FindingsOf, EntryAt
  <2>2. Numbered(file, o) /\ Pinned(file, o, warnings)
    BY <2>1 DEF PinInv
  <2>3. CASE o # e.org_id
    <3>1. ~EntryAt(file', Len(file) + 1, o)
      BY <2>0, <2>3 DEF EntryAt
    <3> QED
      BY <2>0, <2>2, <3>1, PinFrame
  <2>4. CASE o = e.org_id
    <3>0. e.kind = "entry"
      BY <1>5 DEF Entry
    <3>1. EntryAt(file', Len(file) + 1, o)
      BY <2>0, <2>4, <3>0 DEF EntryAt
    <3>2. ~Flagged
      BY <3>1 DEF Flagged, Clean, FindingsOf
    <3> QED
      BY <1>5, <2>1, <2>4, <3>2, PinEntryStep
  <2> QED
    BY <2>3, <2>4
<1>6. CASE UNCHANGED chainVars
  BY <1>6 DEF chainVars, PinInv, Clean, FindingsOf
<1> QED
  BY <1>2, <1>3, <1>4, <1>5, <1>6, EntryLines DEF Next

LEMMA PinAlways == RunSpec => []PinInv
<1>1. RunInit => PinInv
  BY DEF RunInit, Init, PinInv, Numbered, Pinned
<1>2. RunInv /\ PinInv /\ [RunNext]_vars => PinInv'
  <2> SUFFICES ASSUME RunInv, PinInv, [RunNext]_vars PROVE PinInv'
    OBVIOUS
  <2>1. [Next]_chainVars
    BY DEF RunNext, RejectArguments, Start, ReadLine, FailScan, FinishVerify,
       SkipAnchors, RejectAnchors, CheckAnchors, ReportFindings,
       ReportNotAccepted, ReportOk, vars, chainVars
  <2> QED
    BY <2>1, PinStep DEF RunInv
<1> QED
  BY <1>1, <1>2, RunAlways, PTL DEF RunSpec

(* For every export: exit 0 with an anchor taken from entry n of the        *)
(* producer's chain means the export holds the producer's entries 1..n of   *)
(* that org and no other, if the hash is injective.                         *)
THEOREM AnchorPinsTheorem == RunSpec => []AnchorPinsHistory
<1>1. ASSUME RunInv, PinInv PROVE AnchorPinsHistory
  <2> SUFFICES ASSUME exit = 0, headFile # NoHead, NEW h \in DOMAIN headFile,
                      Genuine(ProducerLog[headFile[h].org_id], headFile[h])
               PROVE  LET a   == headFile[h]
                          log == ProducerLog[a.org_id]
                      IN  /\ \A s \in 1..a.sequence :
                               \E i \in DOMAIN file :
                                 EntryAt(file, i, a.org_id) /\ file[i].sequence = s
                          /\ \A i \in DOMAIN file : EntryAt(file, i, a.org_id) =>
                               /\ file[i].sequence \in 1..a.sequence
                               /\ Same(log, file[i], i, warnings)
    BY DEF AnchorPinsHistory, Genuine, Same, Lasting
  <2> DEFINE a == headFile[h]
             o == a.org_id
             log == ProducerLog[o]
  <2>1. Reported /\ Passed /\ ChainInv /\ Acceptable
    BY <1>1, PassedIsAcceptable DEF RunInv
  <2>2. o \in Org /\ AnchorHolds(a)
    BY <2>1, ParsedAnchors DEF Reported, Acceptable
  <2>3. PICK k \in DOMAIN file : /\ LastOf(file, k, o)
                                /\ file[k].sequence = a.sequence
                                /\ file[k].entry_hash = a.entry_hash
    BY <2>2 DEF AnchorHolds
  <2>4. Numbered(file, o) /\ Pinned(file, o, warnings)
    BY <1>1, <2>1, <2>2 DEF Passed, PinInv, Clean, FindingsOf
  <2>5. EntryAt(file, k, o) /\ Genuine(log, file[k])
    BY <2>3 DEF LastOf, Genuine
  <2>6. file \in Seq(Lines) /\ DOMAIN file = 1..Len(file)
    BY <2>1 DEF ChainInv, TypeOK
  <2>7. \A i \in DOMAIN file : EntryAt(file, i, o) => i <= k
    BY <2>3, <2>6 DEF LastOf
  <2>8. \A s \in 1..a.sequence :
          \E i \in DOMAIN file : EntryAt(file, i, o) /\ file[i].sequence = s
    BY <2>3, <2>4, <2>5 DEF Numbered
  <2>9. ASSUME NEW i \in DOMAIN file, EntryAt(file, i, o)
        PROVE  file[i].sequence \in 1..a.sequence /\ Same(log, file[i], i, warnings)
    <3>1. Same(log, file[i], i, warnings)
      BY <2>4, <2>5, <2>7, <2>9 DEF Pinned
    <3>2. /\ file[i].sequence \in Nat \ {0} /\ file[k].sequence \in Nat \ {0}
          /\ i < k => file[i].sequence < file[k].sequence
      BY <2>4, <2>5, <2>9 DEF Numbered
    <3> QED
      BY <2>3, <2>6, <2>7, <2>9, <3>1, <3>2
  <2> QED
    BY <2>8, <2>9
<1> QED
  BY <1>1, RunAlways, PinAlways, PTL
=============================================================================
