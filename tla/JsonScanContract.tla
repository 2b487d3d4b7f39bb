-------------------------- MODULE JsonScanContract --------------------------
(***************************************************************************)
(* What the scan for duplicate keys promises, stated on the text alone.    *)
(***************************************************************************)
EXTENDS JsonScan

TypeOK ==
    /\ text \in Seq(Token)
    /\ open \in Seq(Container)
    /\ stack \in Seq(Level)
    /\ \A d \in DOMAIN stack : ~stack[d].isObj => stack[d].keys = {} /\ ~stack[d].needKey
    /\ scan \in {"reading", "ended", "malformed", "duplicate"}

SameKey(i, j) ==
    /\ i # j
    /\ text[i].is = "key" /\ text[j].is = "key"
    /\ text[i].in = text[j].in
    /\ Unquote[text[i].what] = Unquote[text[j].what]

(***************************************************************************)
(* The scan fails exactly when two members of one object have the same     *)
(* name, however they are written, however deep the object lies and        *)
(* whatever stands between them; equal names in different objects, and     *)
(* strings that are values, are no duplicates.                             *)
(***************************************************************************)
DuplicatesAreFound ==
    scan = "duplicate" <=> \E i, j \in DOMAIN text : SameKey(i, j)

(* Keys read in the container opened by token c. *)
KeysRead(c) ==
    {Unquote[text[i].what] : i \in {j \in DOMAIN text : text[j].is = "key" /\ text[j].in = c}}

(***************************************************************************)
(* The scanner's stack follows the decoder's, which it cannot see: it has  *)
(* the same containers (so that it never pops an empty stack), expects a   *)
(* key where the decoder does, and holds the keys of each open object.     *)
(***************************************************************************)
ScannerInStep ==
    scan # "duplicate" =>
        /\ Len(stack) = Len(open)
        /\ \A d \in DOMAIN open :
             LET object == open[d].kind = "object" IN
             /\ stack[d].isObj = object
             /\ stack[d].needKey = (object /\ open[d].wants = "key")
             /\ stack[d].keys = KeysRead(open[d].at)
=============================================================================
