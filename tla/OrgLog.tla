------------------------------- MODULE OrgLog -------------------------------
(***************************************************************************)
(* What an audit chain is to its reader, whatever the format of the        *)
(* export: every organization owns a log that grows one sealed entry at a  *)
(* time, and one that is refused stays refused.  chain.Verify is shown to  *)
(* implement it in ChainRefinement.                                        *)
(***************************************************************************)
EXTENDS Integers

CONSTANTS
    Org,            \* the organizations
    Digest,         \* entry hashes
    Origin,         \* the digest a log starts from
    None,           \* the tip of a log without entries, or refused
    After(_),       \* the sequence number that follows another
    Seals(_, _)     \* Seals(p, d): d is the hash of some entry over p

VARIABLES
    tip,            \* org -> last entry, or None
    refused         \* the orgs whose log is not to be believed

logVars == <<tip, refused>>

Init ==
    /\ tip = [o \in Org |-> None]
    /\ refused = {}

(* The number the next entry of org o carries, and the digest it seals. *)
NextNumber(o) == IF tip[o] = None THEN 1 ELSE After(tip[o].sequence)
LastHash(o)   == IF tip[o] = None THEN Origin ELSE tip[o].entry_hash

Extend(o) ==
    /\ o \notin refused
    /\ UNCHANGED refused
    /\ \E d \in Digest :
         /\ tip' = [tip EXCEPT ![o] = [sequence   |-> NextNumber(o),
                                      entry_hash |-> d]]
         /\ Seals(LastHash(o), d)

Refuse(o) ==
    /\ o \notin refused
    /\ refused' = refused \cup {o}
    /\ tip' = [tip EXCEPT ![o] = None]

Next == \E o \in Org : Extend(o) \/ Refuse(o)

Spec == Init /\ [][Next]_logVars
=============================================================================
