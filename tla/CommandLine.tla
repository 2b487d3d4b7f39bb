---------------------------- MODULE CommandLine ----------------------------
(***************************************************************************)
(* main() of cmd/atlasent-audit-verify: flags, the input file, the trust   *)
(* root, detection of the input's shape, and the exit code of the run it   *)
(* is given to.  The three runs are modelled in NdjsonRun, EnvelopeVerify  *)
(* and Reconcile; here each is the verdict their theorems establish.       *)
(***************************************************************************)
EXTENDS Keystore

CONSTANTS
    Inputs,        \* the files --chain may name
    Seconds,       \* those --reconcile-with may name
    NoFlag,        \* the flag is not given
    Stdin,         \* "-"
    Unreadable     \* a path that cannot be read

(* Top-level keys the detection looks at, of the first JSON object.  Only   *)
(* the last two tell an envelope, only the first two a chain entry.         *)
FieldName == {"chain_version", "entry_hash", "public_key_pem", "evaluations"}

Signer == [kid : Kid \cup {EmptyKid}, key : PublicKey]

(* What a file holds: an envelope, an object that only looks like one       *)
(* ("mistyped": a section is no list), chain entries, one entry on a line   *)
(* longer than the scanner takes, or something that is not JSON.  `sound':  *)
(* all of it verifies in its own format, but for whose the keys are.        *)
Input ==
    [ shape   : {"envelope", "mistyped", "chain", "oversize", "text"},
      fields  : SUBSET FieldName,
      signers : Seq(Signer),
      sound   : BOOLEAN ]

ASSUME InputsAssumption ==
    /\ Inputs \subseteq Input /\ Seconds \subseteq Inputs
    /\ \A d \in Inputs : d.shape = "envelope" => Len(d.signers) = 1
    /\ {NoFlag, Stdin, Unreadable} \cap Inputs = {}
    /\ NoFlag \notin {Stdin, Unreadable} /\ Stdin # Unreadable

VARIABLES
    flags,      \* the command line; --keys is given when flags.keys
    phase,      \* where main() stands
    exit        \* the process exit code, 3 while running

vars == <<keyVars, flags, phase, exit>>

Flags ==
    [ version     : BOOLEAN,
      keys        : BOOLEAN,
      requireSigs : BOOLEAN,
      bundle      : BOOLEAN,
      chain       : Inputs \cup {NoFlag, Unreadable},
      second      : Seconds \cup {NoFlag, Stdin, Unreadable} ]

Init ==
    /\ KeyInit
    /\ flags \in Flags
    /\ ~flags.keys => keyFile = Unopenable
    /\ phase = "flags"
    /\ exit = 3

Exit(code) ==
    /\ phase' = "exited"
    /\ exit' = code
    /\ UNCHANGED <<keyVars, flags>>

Goto(p) ==
    /\ phase' = p
    /\ UNCHANGED <<keyVars, flags, exit>>

-----------------------------------------------------------------------------
(* envelope.LooksLikeEnvelope. *)

(* JSON values in the file. *)
Objects(d) ==
    CASE d.shape \in {"envelope", "mistyped", "oversize"} -> 1
      [] d.shape = "chain"                               -> Len(d.signers)
      [] d.shape = "text"                                -> 0

(* Mutation: the keys of a chain entry are not looked for. *)
HasEnvelopeKey(d) ==
    Objects(d) = 1 /\ {"public_key_pem", "evaluations"} \cap d.fields # {}

LooksLikeEnvelope(d) ==
    /\ Objects(d) = 1
    /\ {"chain_version", "entry_hash"} \cap d.fields = {}
    /\ {"public_key_pem", "evaluations"} \cap d.fields # {}

-----------------------------------------------------------------------------
(* The three runs.  ks is the store main() hands over, empty for nil. *)

Keys == IF flags.keys THEN store ELSE EmptyStore

KnownSigner(ks, x) == x.kid \in DOMAIN ks

SignerMatches(ks, x) == KnownSigner(ks, x) /\ ks[x.kid] = x.key

(* chain.Verify without a scanner error finds nothing. *)
ChainPasses(d, ks) ==
    /\ d.shape = "chain" /\ d.sound
    /\ \A i \in DOMAIN d.signers :
         KnownSigner(ks, d.signers[i]) => SignerMatches(ks, d.signers[i])

(* Result.StrictSignatureAcceptance. *)
ChainStrict(d, ks) ==
    /\ ChainPasses(d, ks)
    /\ d.signers # <<>>
    /\ \A i \in DOMAIN d.signers : KnownSigner(ks, d.signers[i])

(* envelope.ParseEnvelope: one JSON object, sections of the right types. *)
ParsesAsEnvelope(d) == Objects(d) = 1 /\ d.shape # "mistyped"

(* VerificationResult.OK: the trusted key of its key_id, or its own key. *)
EnvelopePasses(d, ks) ==
    /\ d.shape = "envelope" /\ d.sound
    /\ IF KnownSigner(ks, d.signers[1])
         THEN SignerMatches(ks, d.signers[1])
         ELSE "public_key_pem" \in d.fields

(* VerificationResult.StrictOK. *)
EnvelopeStrict(d, ks) ==
    EnvelopePasses(d, ks) /\ KnownSigner(ks, d.signers[1])

-----------------------------------------------------------------------------

ShowVersion ==
    /\ phase = "flags"
    /\ flags.version
    /\ Exit(0)

RejectFlags ==
    /\ phase = "flags"
    /\ ~flags.version
    /\ \/ flags.chain = NoFlag
       \/ flags.requireSigs /\ ~flags.keys
       \/ flags.second = Stdin
    /\ Exit(2)

AcceptFlags ==
    /\ phase = "flags"
    /\ ~flags.version
    /\ flags.chain # NoFlag
    /\ flags.requireSigs => flags.keys
    /\ flags.second # Stdin
    /\ Goto("input")

FailReadInput ==
    /\ phase = "input"
    /\ flags.chain = Unreadable
    /\ Exit(2)

ReadInput ==
    /\ phase = "input"
    /\ flags.chain # Unreadable
    /\ Goto(IF flags.keys THEN "keys" ELSE "detect")

(* keys.LoadFile. *)
LoadKeys ==
    /\ phase = "keys"
    /\ OpenKeys \/ FailOpenKeys \/ ParseKeys
    /\ UNCHANGED <<flags, phase, exit>>

(* Mutation: a file that fails to load leaves what was read of it. *)
UseAnyKeys ==
    /\ phase = "keys"
    /\ keyLoad \in {"loaded", "refused"}
    /\ Goto("detect")

FailKeys ==
    /\ phase = "keys"
    /\ keyLoad = "refused"
    /\ Exit(2)

UseKeys ==
    /\ phase = "keys"
    /\ keyLoad = "loaded"
    /\ Goto("detect")

AsEnvelope == flags.bundle \/ LooksLikeEnvelope(flags.chain)

(* runEnvelope. *)
RunEnvelope ==
    /\ phase = "detect"
    /\ AsEnvelope /\ flags.second = NoFlag
    /\ Exit(IF ~ParsesAsEnvelope(flags.chain)             THEN 2
            ELSE IF IF flags.requireSigs
                      THEN EnvelopeStrict(flags.chain, Keys)
                      ELSE EnvelopePasses(flags.chain, Keys) THEN 0
            ELSE 1)

(* runEnvelopeReconcile: --bundle forces the first file only, and the       *)
(* reconciliation itself never passes.                                      *)
RunReconcile ==
    /\ phase = "detect"
    /\ AsEnvelope /\ flags.second # NoFlag
    /\ Exit(IF /\ ParsesAsEnvelope(flags.chain)
               /\ flags.second # Unreadable
               /\ LooksLikeEnvelope(flags.second)
               /\ ParsesAsEnvelope(flags.second)
              THEN 1 ELSE 2)

RejectReconcile ==
    /\ phase = "detect"
    /\ ~AsEnvelope /\ flags.second # NoFlag
    /\ Exit(2)

(* runNDJSON without --head. *)
RunNdjson ==
    /\ phase = "detect"
    /\ ~AsEnvelope /\ flags.second = NoFlag
    /\ Exit(IF flags.chain.shape = "oversize"              THEN 2
            ELSE IF IF flags.requireSigs
                      THEN ChainStrict(flags.chain, Keys)
                      ELSE ChainPasses(flags.chain, Keys) THEN 0
            ELSE 1)

Next ==
    \/ ShowVersion
    \/ RejectFlags
    \/ AcceptFlags
    \/ FailReadInput
    \/ ReadInput
    \/ LoadKeys
    \/ FailKeys
    \/ UseKeys
    \/ RunEnvelope
    \/ RunReconcile
    \/ RejectReconcile
    \/ RunNdjson

(* One goroutine, no waiting but for its files, which end: as long as the   *)
(* program has a step to take, it takes one.                                *)
Spec == Init /\ [][Next]_vars /\ WF_vars(Next)
=============================================================================
