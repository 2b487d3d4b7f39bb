------------------------- MODULE CommandLineContract -------------------------
(***************************************************************************)
(* What an exit code of the tool means, stated on its files alone.         *)
(***************************************************************************)
EXTENDS CommandLine

TypeOK ==
    /\ keyFile \in KeyFiles
    /\ keyLoad \in {"idle", "reading", "loaded", "refused"}
    /\ next \in Nat \ {0}
    /\ DOMAIN store \subseteq Kid /\ \A k \in DOMAIN store : store[k] \in PublicKey
    /\ flags \in Flags
    /\ phase \in {"flags", "input", "keys", "detect", "exited"}
    /\ exit \in 0..3

-----------------------------------------------------------------------------
(* The trust root. *)

(* A block that names one key id, plainly, and holds an Ed25519 key. *)
NamesOneKey(s) ==
    /\ s.kind = "block"
    /\ s.type \in {"PUBLIC KEY", "ATLASENT PUBLIC KEY"}
    /\ s.body \in PublicKey
    /\ \E k \in Kid :
         s.headers = <<[name |-> "kid", padded |-> FALSE, value |-> k]>>

KidIn(s) == s.headers[1].value

(* A trust root is such blocks and nothing else, no two with one id. *)
WellFormedRoot(f) ==
    /\ f # Unopenable /\ f # <<>>
    /\ \A i \in DOMAIN f : NamesOneKey(f[i])
    /\ \A i, j \in DOMAIN f : KidIn(f[i]) = KidIn(f[j]) => i = j

(***************************************************************************)
(* A key file loads exactly when every byte of it belongs to a block that  *)
(* names one key, and the store then holds those keys and no others: no    *)
(* block is passed over, no header overrides another, no file is used in   *)
(* part (keys.Parse looks at the raw text, pem.Decode would lose it).      *)
(***************************************************************************)
TrustRootIsExact ==
    /\ keyLoad = "refused" => ~WellFormedRoot(keyFile)
    /\ keyLoad = "loaded" =>
         /\ WellFormedRoot(keyFile)
         /\ DOMAIN store = {KidIn(keyFile[i]) : i \in DOMAIN keyFile}
         /\ \A i \in DOMAIN keyFile : store[KidIn(keyFile[i])] = keyFile[i].body

-----------------------------------------------------------------------------
(* Exit codes. *)

(* Read as an envelope: on demand, or because the file is one JSON object   *)
(* with a key only envelopes have and none that chain entries have.         *)
EnvelopeFile(d) ==
    /\ Objects(d) = 1
    /\ \E f \in d.fields : f \in {"public_key_pem", "evaluations"}
    /\ \A f \in d.fields : f \notin {"chain_version", "entry_hash"}

EnvelopeMode == flags.bundle \/ EnvelopeFile(flags.chain)

(* The key a trust root binds to the signer's id is the one that signed. *)
Anchored(x) ==
    \E i \in DOMAIN keyFile :
        /\ KidIn(keyFile[i]) = x.kid /\ keyFile[i].body = x.key
        /\ \A j \in DOMAIN keyFile : KidIn(keyFile[j]) = x.kid => j = i

(***************************************************************************)
(* Exit 0 under --require-signatures: the file is what it was read as, it  *)
(* is not empty, and each of its signatures was made by the key that the   *)
(* whole of a well-formed key file binds to the id it names.               *)
(***************************************************************************)
StrictAcceptanceIsAnchored ==
    exit = 0 /\ flags.requireSigs /\ ~flags.version =>
        /\ WellFormedRoot(keyFile)
        /\ flags.chain.sound
        /\ flags.chain.shape = (IF EnvelopeMode THEN "envelope" ELSE "chain")
        /\ flags.chain.signers # <<>>
        /\ \A i \in DOMAIN flags.chain.signers : Anchored(flags.chain.signers[i])

(* Something the user must mend before anything can be said of the export. *)
UsageError ==
    \/ flags.chain \in {NoFlag, Unreadable}
    \/ flags.requireSigs /\ ~flags.keys
    \/ flags.keys /\ ~WellFormedRoot(keyFile)
    \/ flags.second \in {Stdin, Unreadable}
    \/ flags.second # NoFlag /\ ~EnvelopeMode
    \/ flags.second \in Inputs /\ ~EnvelopeFile(flags.second)

(* The file that was to be read as this is not even that. *)
Unreadables ==
    IF EnvelopeMode
      THEN {d \in {flags.chain, flags.second} \ {NoFlag} : ~ParsesAsEnvelope(d)}
      ELSE {d \in {flags.chain} : d.shape = "oversize"}

Named(x) == flags.keys /\ \E i \in DOMAIN keyFile : KidIn(keyFile[i]) = x.kid

(* A signature by a key nobody vouches for passes as long as nobody asked. *)
SignerAccepted(x) ==
    IF Named(x) THEN Anchored(x)
    ELSE ~flags.requireSigs /\ (EnvelopeMode => "public_key_pem" \in flags.chain.fields)

Acceptable ==
    /\ flags.second = NoFlag
    /\ flags.chain.sound
    /\ flags.chain.shape = (IF EnvelopeMode THEN "envelope" ELSE "chain")
    /\ \A i \in DOMAIN flags.chain.signers : SignerAccepted(flags.chain.signers[i])
    /\ flags.requireSigs => flags.chain.signers # <<>>

Verdict ==
    IF flags.version                        THEN 0
    ELSE IF UsageError \/ Unreadables # {}  THEN 2
    ELSE IF Acceptable                      THEN 0
    ELSE 1

(***************************************************************************)
(* The exit code is 2 exactly when flags or files do not allow a verdict,  *)
(* and otherwise 0 exactly when the export is acceptable, in whatever      *)
(* order the code comes to see this (README.md, "Exit codes"); an export   *)
(* read as the other kind is never accepted.                               *)
(***************************************************************************)
ExitIsTheVerdict == phase = "exited" => exit = Verdict

(***************************************************************************)
(* Whatever the flags and files, the program comes to an exit: each pass   *)
(* of the key file loop consumes a block or refuses the file.              *)
(***************************************************************************)
EveryRunEnds == <>(phase = "exited")
=============================================================================
