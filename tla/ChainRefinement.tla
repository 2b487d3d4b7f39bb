--------------------------- MODULE ChainRefinement ---------------------------
(***************************************************************************)
(* chain.Verify as an implementation of OrgLog: an org is refused once it  *)
(* has a finding, and the tip of any other is its reported head.           *)
(***************************************************************************)
EXTENDS ChainContract

RefusedOrgs == {o \in Org : FindingsOf(o) # {}}

Tips == [o \in Org |-> IF o \in RefusedOrgs THEN Unseen ELSE head[o]]

(* The digest d is the hash of some content over p. *)
HashedOver(p, d) == \E c \in Content : Hash(p, c) = d

Log == INSTANCE OrgLog
         WITH Origin <- GenesisHash, None <- Unseen, After <- NextSequence,
              Seals <- HashedOver, tip <- Tips, refused <- RefusedOrgs

(***************************************************************************)
(* Line by line the pass does what a set of per-org logs does: it extends  *)
(* one log by the entry sealed over its tip, refuses one log for good, or  *)
(* leaves every log alone; no line touches the log of another org, and no  *)
(* later line brings a refused org back (entry.go: state is dropped on     *)
(* chain_break and rebuilt by the next entry, findings are not).           *)
(***************************************************************************)
ImplementsOrgLog == Log!Spec
=============================================================================
