----------------------------- MODULE NdjsonRun -----------------------------
(***************************************************************************)
(* A whole run of the CLI on an NDJSON export                              *)
(* (cmd/atlasent-audit-verify/main.go: main, runNDJSON) with the trusted   *)
(* head anchors of --head (internal/chain/anchor.go) and the strict        *)
(* acceptance of --require-signatures, down to the exit code.              *)
(***************************************************************************)
EXTENDS ChainContract

CONSTANTS
    AnchorFiles,    \* what --head may name; NoHead when the flag is absent
    NoHead,
    Unreadable,     \* no such file
    BadDocument,    \* not the anchor JSON: bad syntax, duplicate, unknown or
                    \* case-folded fields, trailing data
    UpperHex,       \* 64 hex digits that are not the lower-case spelling
    EmptyOrg        \* org_id missing or ""

(* An anchor document is the list of its anchors, in file order. *)
HeadAnchor ==
    [ org_id     : Org \cup {EmptyOrg},
      sequence   : Int,
      entry_hash : Digest \cup {NotHex, UpperHex} ]

ASSUME AnchorFilesAssumption ==
    /\ AnchorFiles \subseteq
         {NoHead, Unreadable, BadDocument} \cup Seq(HeadAnchor)
    /\ {NoHead, Unreadable, BadDocument} \cap Seq(HeadAnchor) = {}
    /\ NoHead \notin {Unreadable, BadDocument}
    /\ UpperHex \notin Digest /\ EmptyOrg \notin Org
    /\ Unseen \notin [sequence : Int, entry_hash : Digest \cup {UpperHex}]

VARIABLES
    requireSigs,     \* --require-signatures
    phase,           \* where runNDJSON stands
    headFile,        \* the --head file once it has been opened
    anchorFindings,  \* what CheckAnchors appended to res.Findings
    exit             \* the process exit code, 3 while running

runVars == <<requireSigs, phase, headFile, anchorFindings, exit>>
vars == <<chainVars, runVars>>

AnchorFindingKind ==
    {"anchor_org_missing", "truncation", "anchor_behind", "head_hash_mismatch"}

RunTypeOK ==
    /\ TypeOK
    /\ requireSigs \in BOOLEAN
    /\ phase \in {"start", "verify", "anchors", "report", "exited"}
    /\ headFile \in AnchorFiles \cup {NoHead}
    /\ anchorFindings \subseteq [org_id : Org, kind : AnchorFindingKind]
    /\ exit \in 0..3

RunInit ==
    /\ Init
    /\ requireSigs \in BOOLEAN
    /\ phase = "start"
    /\ headFile = NoHead
    /\ anchorFindings = {}
    /\ exit = 3

Exit(code) == phase' = "exited" /\ exit' = code

-----------------------------------------------------------------------------
(* ParseAnchors and CheckAnchors. *)

(* os.Open succeeds and ParseAnchors returns no error. *)
Parses(doc) ==
    /\ doc \notin {Unreadable, BadDocument} /\ Len(doc) > 0
    /\ \A i \in DOMAIN doc :
         /\ doc[i].org_id # EmptyOrg
         /\ doc[i].sequence >= 1
         /\ doc[i].entry_hash # NotHex
         /\ \A j \in 1..(i - 1) : doc[j].org_id # doc[i].org_id

(* Mutation: an org without a verified entry is passed over. *)
AnchorFindingIfSeen(a) ==
    LET h == head[a.org_id] IN
    IF h = Unseen                        THEN {}
    ELSE IF h.sequence < a.sequence      THEN {"truncation"}
    ELSE IF h.sequence > a.sequence      THEN {"anchor_behind"}
    ELSE IF h.entry_hash # a.entry_hash  THEN {"head_hash_mismatch"}
    ELSE {}

(* Mutation: an export that stops short of the anchor is accepted. *)
AnchorFindingIfPast(a) ==
    LET h == head[a.org_id] IN
    IF h = Unseen                        THEN {"anchor_org_missing"}
    ELSE IF h.sequence < a.sequence      THEN {}
    ELSE IF h.sequence > a.sequence      THEN {"anchor_behind"}
    ELSE IF h.entry_hash # a.entry_hash  THEN {"head_hash_mismatch"}
    ELSE {}

(* The finding CheckAnchors raises for one anchor, if any. *)
AnchorFinding(a) ==
    LET h == head[a.org_id] IN
    IF h = Unseen                        THEN {"anchor_org_missing"}
    ELSE IF h.sequence < a.sequence      THEN {"truncation"}
    ELSE IF h.sequence > a.sequence      THEN {"anchor_behind"}
    ELSE IF h.entry_hash # a.entry_hash  THEN {"head_hash_mismatch"}
    ELSE {}

(* The count printed as "n/n anchored head(s) match". *)
AnchoredOrgs(doc) ==
    Cardinality({i \in DOMAIN doc :
        head[doc[i].org_id] = [sequence   |-> doc[i].sequence,
                               entry_hash |-> doc[i].entry_hash]})

-----------------------------------------------------------------------------

(* --require-signatures without --keys. *)
RejectArguments ==
    /\ phase = "start"
    /\ requireSigs /\ keys = NoKeys
    /\ Exit(2)
    /\ UNCHANGED <<chainVars, requireSigs, headFile, anchorFindings>>

Start ==
    /\ phase = "start"
    /\ requireSigs => keys # NoKeys
    /\ phase' = "verify"
    /\ UNCHANGED <<chainVars, requireSigs, headFile, anchorFindings, exit>>

ReadLine ==
    /\ phase = "verify"
    /\ Next
    /\ UNCHANGED runVars

FailScan ==
    /\ phase = "verify"
    /\ failed
    /\ Exit(2)
    /\ UNCHANGED <<chainVars, requireSigs, headFile, anchorFindings>>

(* End of the export. *)
FinishVerify ==
    /\ phase = "verify"
    /\ ~failed
    /\ phase' = "anchors"
    /\ UNCHANGED <<chainVars, requireSigs, headFile, anchorFindings, exit>>

SkipAnchors ==
    /\ phase = "anchors"
    /\ NoHead \in AnchorFiles
    /\ headFile' = NoHead
    /\ phase' = "report"
    /\ UNCHANGED <<chainVars, requireSigs, anchorFindings, exit>>

RejectAnchors(doc) ==
    /\ phase = "anchors"
    /\ headFile' = doc
    /\ ~Parses(doc)
    /\ Exit(2)
    /\ UNCHANGED <<chainVars, requireSigs, anchorFindings>>

CheckAnchors(doc) ==
    /\ phase = "anchors"
    /\ headFile' = doc
    /\ Parses(doc)
    /\ anchorFindings' =
         UNION {[org_id : {doc[i].org_id}, kind : AnchorFinding(doc[i])] :
                  i \in DOMAIN doc}
    /\ phase' = "report"
    /\ UNCHANGED <<chainVars, requireSigs, exit>>

(* Mutation: one verified signature is enough. *)
SomeSignatureAcceptance == keys # NoKeys /\ findings = {} /\ sigVerified > 0

StrictSignatureAcceptance ==
    /\ keys # NoKeys
    /\ findings \cup anchorFindings = {}
    /\ sigSkipped = 0
    /\ sigVerified > 0

ReportFindings ==
    /\ phase = "report"
    /\ findings # {} \/ anchorFindings # {}
    /\ Exit(1)
    /\ UNCHANGED <<chainVars, requireSigs, headFile, anchorFindings>>

ReportNotAccepted ==
    /\ phase = "report"
    /\ findings = {} /\ anchorFindings = {}
    /\ requireSigs /\ ~StrictSignatureAcceptance
    /\ Exit(1)
    /\ UNCHANGED <<chainVars, requireSigs, headFile, anchorFindings>>

ReportOk ==
    /\ phase = "report"
    /\ findings = {} /\ anchorFindings = {}
    /\ requireSigs => StrictSignatureAcceptance
    /\ Exit(0)
    /\ UNCHANGED <<chainVars, requireSigs, headFile, anchorFindings>>

RunNext ==
    \/ RejectArguments
    \/ Start
    \/ ReadLine
    \/ FailScan
    \/ FinishVerify
    \/ SkipAnchors
    \/ \E doc \in AnchorFiles \ {NoHead} : RejectAnchors(doc) \/ CheckAnchors(doc)
    \/ ReportFindings
    \/ ReportNotAccepted
    \/ ReportOk

RunSpec == RunInit /\ [][RunNext]_vars
=============================================================================
