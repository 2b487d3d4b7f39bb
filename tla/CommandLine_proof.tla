-------------------------- MODULE CommandLine_proof --------------------------
(***************************************************************************)
(* Proofs about the trust root and the exit code, for every key file,      *)
(* input and set of flags.                                                 *)
(***************************************************************************)
EXTENDS CommandLineContract, TLAPS

-----------------------------------------------------------------------------
(* Blocks. *)

LEMMA FileSections ==
    ASSUME NEW f \in KeyFiles, f # Unopenable
    PROVE  f \in Seq(Section)
BY KeyFilesAssumption

LEMMA BlockType ==
    ASSUME NEW f \in Seq(Section), NEW i \in DOMAIN f, f[i].kind = "block"
    PROVE  f[i] \in Block
<1>1. f[i] \in Section
  OBVIOUS
<1> QED
  BY <1>1 DEF Section, Broken, Junk

(* What the checks of the loop ask of a block is what a trust root needs. *)
LEMMA AcceptedBlock ==
    ASSUME NEW b \in Block, OneKidLine(b), SupportedBlock(b),
           b.body \in PublicKey
    PROVE  NamesOneKey(b) /\ KidOf(b) = KidIn(b)
<1>1. b.headers \in Seq(Header)
  BY DEF Block
<1>2. PICK h \in DOMAIN b.headers :
        /\ b.headers[h].name = "kid"
        /\ \A g \in DOMAIN b.headers : b.headers[g].name = "kid" => g = h
  BY DEF OneKidLine
<1>3. \A g \in DOMAIN b.headers : b.headers[g].name = "kid"
  BY DEF SupportedBlock, Names
<1>4. \A g \in DOMAIN b.headers : g = h
  BY <1>2, <1>3
<1>5. Len(b.headers) = 1 /\ DOMAIN b.headers = {1} /\ h = 1
  <2>1. /\ Len(b.headers) \in Nat /\ DOMAIN b.headers = 1..Len(b.headers)
        /\ h \in 1..Len(b.headers)
    BY <1>1, <1>2
  <2>2. 1 \in DOMAIN b.headers /\ Len(b.headers) \in DOMAIN b.headers
    BY <2>1
  <2>3. h = 1 /\ h = Len(b.headers)
    BY <1>4, <2>2
  <2>4. 1..1 = {1}
    OBVIOUS
  <2>5. Len(b.headers) = 1
    BY <2>3
  <2> QED
    BY <2>1, <2>3, <2>4, <2>5
<1>6. b.headers[1] \in Header
  BY <1>1, <1>5
<1>7. LastHeader(b, "kid") = 1
  BY <1>5, <1>2 DEF LastHeader
<1>8. KidOf(b) = b.headers[1].value
  BY <1>7 DEF KidOf
<1>9. b.headers[1].value \in Kid
  BY <1>6, <1>8 DEF SupportedBlock, Header
<1>10. b.headers[1].padded = FALSE
  BY <1>5, <1>6 DEF OneKidLine, Header
<1>11. b.headers[1] = [name |-> "kid", padded |-> FALSE,
                      value |-> b.headers[1].value]
  BY <1>2, <1>5, <1>6, <1>10 DEF Header
<1>12. b.headers = <<[name |-> "kid", padded |-> FALSE,
                     value |-> b.headers[1].value]>>
  BY <1>1, <1>5, <1>11
<1>13. /\ b.kind = "block"
       /\ b.type \in {"PUBLIC KEY", "ATLASENT PUBLIC KEY"}
  BY DEF Block, SupportedBlock
<1> QED
  BY <1>8, <1>9, <1>12, <1>13 DEF NamesOneKey, KidIn

(* And conversely, so nothing a trust root may hold is refused. *)
LEMMA AcceptableBlock ==
    ASSUME NEW b, NamesOneKey(b)
    PROVE  /\ OneKidLine(b) /\ SupportedBlock(b) /\ b.body \in PublicKey
           /\ "-----BEGIN " \notin Names(b)
<1>1. PICK k \in Kid :
        b.headers = <<[name |-> "kid", padded |-> FALSE, value |-> k]>>
  BY DEF NamesOneKey
<1>2. DOMAIN b.headers = {1} /\ b.headers[1].name = "kid"
      /\ b.headers[1].padded = FALSE /\ b.headers[1].value = k
  BY <1>1
<1>3. OneKidLine(b)
  BY <1>2 DEF OneKidLine
<1>4. Names(b) = {"kid"}
  BY <1>2 DEF Names
<1>5. LastHeader(b, "kid") = 1
  BY <1>2 DEF LastHeader
<1>6. KidOf(b) = k /\ k # EmptyKid
  BY <1>2, <1>5, KeystoreSentinels DEF KidOf
<1> QED
  BY <1>3, <1>4, <1>6 DEF SupportedBlock, NamesOneKey

-----------------------------------------------------------------------------
(* The load: what has been read so far is a trust root, and the store is it. *)

RootUpTo(f, n) ==
    /\ \A i \in 1..n : NamesOneKey(f[i])
    /\ \A i, j \in 1..n : KidIn(f[i]) = KidIn(f[j]) => i = j
    /\ DOMAIN store = {KidIn(f[i]) : i \in 1..n}
    /\ \A i \in 1..n : store[KidIn(f[i])] = f[i].body

StoreType ==
    /\ DOMAIN store \subseteq Kid
    /\ \A k \in DOMAIN store : store[k] \in PublicKey

LoadInv ==
    /\ StoreType
    /\ keyFile \in KeyFiles
    /\ keyLoad \in {"idle", "reading", "loaded", "refused"}
    /\ next \in Nat \ {0}
    /\ keyLoad = "idle" => next = 1 /\ DOMAIN store = {}
    /\ keyLoad = "reading" =>
         /\ keyFile # Unopenable
         /\ next <= Len(keyFile) + 1
         /\ RootUpTo(keyFile, next - 1)
    /\ keyLoad # "reading" => TrustRootIsExact

LEMMA LoadInit ==
    ASSUME KeyInit
    PROVE  LoadInv
BY DEF KeyInit, LoadInv, StoreType, EmptyStore, TrustRootIsExact

LEMMA KeysFixed ==
    ASSUME LoadInv, UNCHANGED keyVars
    PROVE  LoadInv'
<1>1. RootUpTo(keyFile, next - 1)' <=> RootUpTo(keyFile, next - 1)
  BY DEF keyVars, RootUpTo
<1>2. TrustRootIsExact' <=> TrustRootIsExact
  BY DEF keyVars, TrustRootIsExact
<1>3. StoreType'
  BY DEF keyVars, LoadInv, StoreType
<1> QED
  BY <1>1, <1>2, <1>3 DEF keyVars, LoadInv

(* A file that does not go on as a trust root is none. *)
LEMMA NotARoot ==
    ASSUME NEW f, NEW i \in DOMAIN f, ~NamesOneKey(f[i])
    PROVE  ~WellFormedRoot(f)
BY DEF WellFormedRoot

LEMMA RefusalRight ==
    ASSUME LoadInv, RefuseKeys, ~WellFormedRoot(keyFile)
    PROVE  LoadInv'
<1>1. TrustRootIsExact'
  BY DEF RefuseKeys, TrustRootIsExact
<1>2. StoreType'
  BY DEF RefuseKeys, LoadInv, StoreType
<1> QED
  BY <1>1, <1>2 DEF RefuseKeys, LoadInv

LEMMA LoadStep ==
    ASSUME LoadInv, OpenKeys \/ FailOpenKeys \/ ParseKeys
    PROVE  LoadInv'
<1>1. CASE OpenKeys
  <2>1. keyFile \in Seq(Section)
    BY <1>1, FileSections DEF OpenKeys, LoadInv
  <2>2. RootUpTo(keyFile, 0)'
    BY <1>1 DEF OpenKeys, LoadInv, RootUpTo
  <2> QED
    BY <1>1, <2>1, <2>2 DEF OpenKeys, LoadInv, StoreType
<1>2. CASE FailOpenKeys
  BY <1>2, RefusalRight DEF FailOpenKeys, WellFormedRoot
<1>3. CASE ParseKeys
  <2> DEFINE f == keyFile
  <2>1. /\ keyLoad = "reading" /\ f # Unopenable /\ f \in Seq(Section)
        /\ next \in 1..(Len(f) + 1) /\ Len(f) \in Nat
        /\ RootUpTo(f, next - 1)
    BY <1>3, FileSections DEF ParseKeys, LoadInv
  <2>2. ASSUME RefuseKeys, next \in DOMAIN f, ~NamesOneKey(f[next])
        PROVE  LoadInv'
    BY <2>2, NotARoot, RefusalRight
  <2>3. next <= Len(f) => next \in DOMAIN f /\ f[next] \in Section
    BY <2>1
  <2>4. ASSUME NEW i \in Blocks(f), Consumes(i)
        PROVE  /\ next \in DOMAIN f
               /\ f[next].kind = "block" => i = next
               /\ f[next].kind # "block" => ~OneBeginLine(f, next, i)
    <3>1. /\ next \in DOMAIN f /\ i \in Int /\ i >= next
          /\ next \in Blocks(f) => next >= i
      BY <2>1, <2>3, <2>4 DEF Consumes, Remaining, Decodes, Blocks
    <3>2. f[next].kind = "block" => i = next
      BY <2>1, <3>1 DEF Blocks
    <3>3. f[next].kind # "block" => i # next
      BY DEF Blocks
    <3>4. f[next].kind # "block" => next \in next..(i - 1)
      BY <2>1, <3>1, <3>3
    <3> QED
      BY <2>4, <3>1, <3>2, <3>4 DEF OneBeginLine, Consumes
  <2>5. ASSUME NEW i \in Blocks(f), Delimited(i)
        PROVE  i = next /\ next \in DOMAIN f /\ f[next] \in Block
    <3>1. i = next /\ next \in DOMAIN f /\ f[next].kind = "block"
      BY <2>4, <2>5 DEF Delimited
    <3> QED
      BY <2>1, <3>1, BlockType
  <2>6. CASE RefuseJunk
    <3>1. ~NamesOneKey(f[next])
      BY <2>6 DEF RefuseJunk, NamesOneKey
    <3> QED
      BY <2>2, <2>3, <2>6, <3>1 DEF RefuseJunk, Remaining
  <2>7. CASE RefuseUndecodable
    <3>1. next \in DOMAIN f
      BY <2>3, <2>7 DEF RefuseUndecodable, Remaining
    <3>2. next \notin Blocks(f)
      BY <2>1, <2>7 DEF RefuseUndecodable, Undecodable
    <3>3. ~NamesOneKey(f[next])
      BY <3>1, <3>2 DEF Blocks, NamesOneKey
    <3> QED
      BY <2>2, <2>7, <3>1, <3>3 DEF RefuseUndecodable
  <2>8. CASE RefuseHidden
    <3>1. PICK i \in Blocks(f) : Consumes(i) /\ ~OneBeginLine(f, next, i)
      BY <2>8 DEF RefuseHidden
    <3>2. next \in DOMAIN f
      BY <2>4, <3>1
    <3>3. ~NamesOneKey(f[next])
      <4> SUFFICES ASSUME NamesOneKey(f[next]) PROVE FALSE
        OBVIOUS
      <4>1. i = next /\ "-----BEGIN " \notin Names(f[i])
        BY <2>4, <3>1, AcceptableBlock DEF NamesOneKey
      <4>2. next..(next - 1) = {}
        BY <2>1
      <4> QED
        BY <3>1, <4>1, <4>2 DEF OneBeginLine
    <3> QED
      BY <2>2, <2>8, <3>2, <3>3 DEF RefuseHidden
  <2>9. CASE RefuseHeaders
    <3>1. PICK i \in Blocks(f) : /\ Consumes(i) /\ OneBeginLine(f, next, i)
                                 /\ ~OneKidLine(f[i])
      BY <2>9 DEF RefuseHeaders
    <3>2. i = next /\ next \in DOMAIN f
      BY <2>4, <3>1
    <3> QED
      BY <2>2, <2>9, <3>1, <3>2, AcceptableBlock DEF RefuseHeaders
  <2>10. CASE RefuseBlock
    <3>1. PICK i \in Blocks(f) : Delimited(i) /\ ~SupportedBlock(f[i])
      BY <2>10 DEF RefuseBlock
    <3> QED
      BY <2>2, <2>5, <2>10, <3>1, AcceptableBlock DEF RefuseBlock
  <2>11. CASE RefuseKey
    <3>1. PICK i \in Blocks(f) : Delimited(i) /\ f[i].body \notin PublicKey
      BY <2>11 DEF RefuseKey
    <3> QED
      BY <2>2, <2>5, <2>11, <3>1, AcceptableBlock DEF RefuseKey
  <2>12. CASE RefuseDuplicate
    <3>1. PICK i \in Blocks(f) : /\ Delimited(i) /\ SupportedBlock(f[i])
                                 /\ KidOf(f[i]) \in DOMAIN store
      BY <2>12 DEF RefuseDuplicate
    <3>2. i = next /\ next \in DOMAIN f /\ f[next] \in Block
      BY <2>5, <3>1
    <3>3. PICK j \in 1..(next - 1) : KidOf(f[next]) = KidIn(f[j])
      BY <2>1, <3>1, <3>2 DEF RootUpTo
    <3>4. ~WellFormedRoot(f)
      <4> SUFFICES ASSUME WellFormedRoot(f) PROVE FALSE
        OBVIOUS
      <4>1. f[next].body \in PublicKey /\ OneKidLine(f[next])
        BY <3>2, AcceptableBlock DEF WellFormedRoot
      <4>2. KidOf(f[next]) = KidIn(f[next])
        BY <3>1, <3>2, <4>1, AcceptedBlock
      <4>3. j \in DOMAIN f /\ j # next
        BY <2>1, <3>2
      <4> QED
        BY <3>2, <3>3, <4>2, <4>3 DEF WellFormedRoot
    <3> QED
      BY <2>12, <3>4, RefusalRight DEF RefuseDuplicate
  <2>13. CASE AddKey
    <3>1. PICK i \in Blocks(f) :
            /\ Delimited(i) /\ SupportedBlock(f[i])
            /\ KidOf(f[i]) \notin DOMAIN store
            /\ f[i].body \in PublicKey
            /\ store' = Stored(f[i])
            /\ next' = i + 1
            /\ UNCHANGED <<keyFile, keyLoad>>
      BY <2>13 DEF AddKey
    <3>2. i = next /\ next \in DOMAIN f /\ f[next] \in Block
      BY <2>5, <3>1
    <3>3. NamesOneKey(f[next]) /\ KidOf(f[next]) = KidIn(f[next])
      BY <3>1, <3>2, AcceptedBlock DEF Delimited
    <3>4. 1..next = (1..(next - 1)) \cup {next} /\ next \notin 1..(next - 1)
      BY <2>1
    <3>5. \A j \in 1..(next - 1) : KidIn(f[j]) # KidIn(f[next])
      BY <2>1, <3>1, <3>2, <3>3 DEF RootUpTo
    <3>6. DOMAIN store' = {KidIn(f[j]) : j \in 1..next}
      BY <2>1, <3>1, <3>2, <3>3, <3>4 DEF RootUpTo, Stored
    <3>7. \A j \in 1..next : store'[KidIn(f[j])] = f[j].body
      BY <2>1, <3>1, <3>2, <3>3, <3>4, <3>5 DEF RootUpTo, Stored
    <3>8. /\ \A j \in 1..next : NamesOneKey(f[j])
          /\ \A j, k \in 1..next : KidIn(f[j]) = KidIn(f[k]) => j = k
      BY <2>1, <3>3, <3>4, <3>5 DEF RootUpTo
    <3>9. /\ next' = next + 1 /\ next' - 1 = next /\ next' <= Len(f) + 1
          /\ keyFile' = f /\ keyLoad' = "reading" /\ next' \in Nat \ {0}
      BY <2>1, <3>1, <3>2
    <3>10. RootUpTo(keyFile, next - 1)'
      BY <3>6, <3>7, <3>8, <3>9 DEF RootUpTo
    <3>11. StoreType'
      <4>1. KidIn(f[next]) \in Kid
        <5>1. PICK k \in Kid : f[next].headers =
                <<[name |-> "kid", padded |-> FALSE, value |-> k]>>
          BY <3>3 DEF NamesOneKey
        <5>2. f[next].headers[1].value = k
          BY <5>1
        <5> QED
          BY <5>2 DEF KidIn
      <4>2. /\ DOMAIN store' = DOMAIN store \cup {KidIn(f[next])}
            /\ \A k \in DOMAIN store' : store'[k] \in PublicKey
        BY <3>1, <3>2, <3>3 DEF LoadInv, StoreType, Stored
      <4> QED
        BY <4>1, <4>2 DEF LoadInv, StoreType
    <3> QED
      BY <2>1, <3>9, <3>10, <3>11 DEF LoadInv
  <2>14. next > Len(f) => next - 1 = Len(f) /\ DOMAIN f = 1..(next - 1)
    BY <2>1
  <2>15. CASE RefuseEmpty
    <3>1. f = <<>>
      <4>1. DOMAIN f = {}
        BY <2>1, <2>14, <2>15 DEF RefuseEmpty, RootUpTo
      <4> QED
        BY <2>1, <4>1
    <3> QED
      BY <2>15, <3>1, RefusalRight DEF RefuseEmpty, WellFormedRoot
  <2>16. CASE FinishKeys
    <3>1. DOMAIN f = 1..(next - 1) /\ f # <<>>
      BY <2>1, <2>14, <2>16 DEF FinishKeys, RootUpTo
    <3>2. WellFormedRoot(f)
      BY <2>1, <3>1 DEF WellFormedRoot, RootUpTo
    <3>3. /\ DOMAIN store = {KidIn(f[i]) : i \in DOMAIN f}
          /\ \A i \in DOMAIN f : store[KidIn(f[i])] = f[i].body
      BY <2>1, <3>1 DEF RootUpTo
    <3>4. TrustRootIsExact'
      BY <2>16, <3>2, <3>3
         DEF FinishKeys, TrustRootIsExact
    <3> QED
      BY <2>1, <2>16, <3>4 DEF FinishKeys, LoadInv, StoreType
  <2> QED
    BY <1>3, <2>6, <2>7, <2>8, <2>9, <2>10, <2>11, <2>12, <2>13, <2>15, <2>16
       DEF ParseKeys
<1> QED
  BY <1>1, <1>2, <1>3

-----------------------------------------------------------------------------
(* The run. *)

(* What main() has established on the way to the phase it is in. *)
PassedFlags ==
    /\ ~flags.version
    /\ flags.chain # NoFlag /\ flags.second # Stdin
    /\ flags.requireSigs => flags.keys

PhaseInv ==
    /\ flags \in Flags
    /\ phase \in {"flags", "input", "keys", "detect", "exited"}
    /\ phase \in {"input", "keys", "detect"} => PassedFlags
    /\ phase \in {"keys", "detect"} => flags.chain # Unreadable
    /\ phase = "keys" => flags.keys
    /\ phase = "detect" /\ flags.keys => keyLoad = "loaded"
    /\ phase # "exited" => exit = 3
    /\ exit \in 0..3

(* The store main() hands on is the trust root the flags name. *)
LEMMA StoreIsRoot ==
    ASSUME LoadInv, PhaseInv, phase = "detect"
    PROVE  /\ flags.keys => WellFormedRoot(keyFile)
           /\ \A x : KnownSigner(Keys, x) <=> Named(x)
           /\ \A x : Named(x) => (SignerMatches(Keys, x) <=> Anchored(x))
<1>1. CASE ~flags.keys
  BY <1>1 DEF Keys, EmptyStore, KnownSigner, Named
<1>2. CASE flags.keys
  <2>1. /\ WellFormedRoot(keyFile)
        /\ DOMAIN store = {KidIn(keyFile[i]) : i \in DOMAIN keyFile}
        /\ \A i \in DOMAIN keyFile : store[KidIn(keyFile[i])] = keyFile[i].body
    BY <1>2 DEF PhaseInv, LoadInv, TrustRootIsExact
  <2>2. Keys = store
    BY <1>2 DEF Keys
  <2>3. \A x : KnownSigner(Keys, x) <=> Named(x)
    BY <1>2, <2>1, <2>2 DEF KnownSigner, Named
  <2>4. ASSUME NEW x, Named(x)
        PROVE  SignerMatches(Keys, x) <=> Anchored(x)
    <3>1. PICK i \in DOMAIN keyFile : KidIn(keyFile[i]) = x.kid
      BY <2>4 DEF Named
    <3>2. \A j \in DOMAIN keyFile : KidIn(keyFile[j]) = x.kid => j = i
      BY <2>1, <3>1 DEF WellFormedRoot
    <3>3. Anchored(x) <=> keyFile[i].body = x.key
      BY <3>1, <3>2 DEF Anchored
    <3>4. SignerMatches(Keys, x) <=> keyFile[i].body = x.key
      BY <2>1, <2>2, <2>3, <2>4, <3>1 DEF SignerMatches
    <3> QED
      BY <3>3, <3>4
  <2> QED
    BY <2>1, <2>3, <2>4
<1> QED
  BY <1>1, <1>2

(* The detection is the one the documents describe. *)
LEMMA DetectionRight ==
    ASSUME NEW d
    PROVE  LooksLikeEnvelope(d) <=> EnvelopeFile(d)
<1>1. {"chain_version", "entry_hash"} \cap d.fields = {} <=>
        \A f \in d.fields : f \notin {"chain_version", "entry_hash"}
  OBVIOUS
<1>2. {"public_key_pem", "evaluations"} \cap d.fields # {} <=>
        \E f \in d.fields : f \in {"public_key_pem", "evaluations"}
  OBVIOUS
<1> QED
  BY <1>1, <1>2 DEF LooksLikeEnvelope, EnvelopeFile

(* Past the flags and the key file, these are the errors left.              *)
LEMMA ErrorsLeft ==
    ASSUME LoadInv, PhaseInv, phase = "detect"
    PROVE  /\ ~flags.version
           /\ flags.chain \in Inputs
           /\ flags.second \in Inputs \cup {NoFlag, Unreadable}
           /\ UsageError <=>
                \/ flags.second = Unreadable
                \/ flags.second # NoFlag /\ ~EnvelopeMode
                \/ flags.second \in Inputs /\ ~EnvelopeFile(flags.second)
<1>1. /\ flags.chain \in Inputs
      /\ flags.second \in Seconds \cup {NoFlag, Unreadable}
      /\ flags.chain \notin {NoFlag, Unreadable} /\ flags.second # Stdin
  BY DEF PhaseInv, PassedFlags, Flags
<1>2. flags.second \in Inputs \cup {NoFlag, Unreadable}
  BY <1>1, InputsAssumption
<1>3. flags.keys => WellFormedRoot(keyFile)
  BY StoreIsRoot
<1> QED
  BY <1>1, <1>2, <1>3 DEF UsageError, PhaseInv, PassedFlags

LEMMA ModeIsMode ==
    AsEnvelope <=> EnvelopeMode
BY DetectionRight DEF AsEnvelope, EnvelopeMode

LEMMA ChainVerdict ==
    ASSUME LoadInv, PhaseInv, phase = "detect", ~EnvelopeMode,
           flags.second = NoFlag
    PROVE  Acceptable <=> IF flags.requireSigs
                            THEN ChainStrict(flags.chain, Keys)
                            ELSE ChainPasses(flags.chain, Keys)
<1>1. \A x : /\ KnownSigner(Keys, x) <=> Named(x)
             /\ Named(x) => (SignerMatches(Keys, x) <=> Anchored(x))
  BY StoreIsRoot
<1>2. \A x : SignerAccepted(x) <=>
               /\ KnownSigner(Keys, x) => SignerMatches(Keys, x)
               /\ flags.requireSigs => KnownSigner(Keys, x)
  BY <1>1 DEF SignerAccepted
<1> QED
  BY <1>2 DEF Acceptable, ChainStrict, ChainPasses

LEMMA EnvelopeVerdict ==
    ASSUME LoadInv, PhaseInv, phase = "detect", EnvelopeMode,
           flags.second = NoFlag
    PROVE  Acceptable <=> IF flags.requireSigs
                            THEN EnvelopeStrict(flags.chain, Keys)
                            ELSE EnvelopePasses(flags.chain, Keys)
<1> DEFINE d == flags.chain
           x == d.signers[1]
<1>1. d \in Inputs
  BY ErrorsLeft
<1>2. /\ KnownSigner(Keys, x) <=> Named(x)
      /\ Named(x) => (SignerMatches(Keys, x) <=> Anchored(x))
  BY StoreIsRoot
<1>3. CASE d.shape # "envelope"
  BY <1>3 DEF Acceptable, EnvelopeStrict, EnvelopePasses
<1>4. CASE d.shape = "envelope"
  <2>1. d.signers \in Seq(Signer) /\ Len(d.signers) = 1
    BY <1>1, <1>4, InputsAssumption DEF Input
  <2>2. DOMAIN d.signers = {1} /\ d.signers # <<>>
    BY <2>1
  <2>3. Acceptable <=> d.sound /\ SignerAccepted(x)
    BY <1>4, <2>2 DEF Acceptable
  <2>4. SignerAccepted(x) <=>
          IF KnownSigner(Keys, x) THEN SignerMatches(Keys, x)
          ELSE ~flags.requireSigs /\ "public_key_pem" \in d.fields
    BY <1>2 DEF SignerAccepted
  <2> QED
    BY <1>4, <2>3, <2>4 DEF EnvelopeStrict, EnvelopePasses
<1> QED
  BY <1>3, <1>4

LEMMA RunsRight ==
    ASSUME LoadInv, PhaseInv, phase = "detect",
           RunEnvelope \/ RunReconcile \/ RejectReconcile \/ RunNdjson
    PROVE  exit' = Verdict
<1>0. /\ ~flags.version /\ flags.chain \in Inputs
      /\ flags.second \in Inputs \cup {NoFlag, Unreadable}
      /\ UsageError <=>
            \/ flags.second = Unreadable
            \/ flags.second # NoFlag /\ ~EnvelopeMode
            \/ flags.second \in Inputs /\ ~EnvelopeFile(flags.second)
  BY ErrorsLeft
<1>1. /\ NoFlag \notin Inputs /\ NoFlag # Unreadable
      /\ Unreadable \notin Inputs
  BY InputsAssumption
<1>2. CASE RunEnvelope
  <2>1. EnvelopeMode /\ flags.second = NoFlag
    BY <1>2, ModeIsMode DEF RunEnvelope
  <2>2. ~UsageError
    BY <1>0, <1>1, <2>1
  <2>3. Unreadables # {} <=> ~ParsesAsEnvelope(flags.chain)
    BY <1>0, <1>1, <2>1 DEF Unreadables
  <2> QED
    BY <1>0, <1>2, <2>1, <2>2, <2>3, EnvelopeVerdict
       DEF RunEnvelope, Exit, Verdict
<1>3. CASE RunReconcile
  <2>1. EnvelopeMode /\ flags.second # NoFlag
    BY <1>3, ModeIsMode DEF RunReconcile
  <2>2. ~Acceptable
    BY <2>1 DEF Acceptable
  <2>3. Unreadables # {} <=>
          ~ParsesAsEnvelope(flags.chain) \/ ~ParsesAsEnvelope(flags.second)
    BY <1>0, <1>1, <2>1 DEF Unreadables
  <2>4. LooksLikeEnvelope(flags.second) <=> EnvelopeFile(flags.second)
    BY DetectionRight
  <2>5. UsageError \/ Unreadables # {} <=>
          ~(/\ ParsesAsEnvelope(flags.chain) /\ flags.second # Unreadable
            /\ LooksLikeEnvelope(flags.second)
            /\ ParsesAsEnvelope(flags.second))
    BY <1>0, <1>1, <2>1, <2>3, <2>4
  <2> QED
    BY <1>0, <1>3, <2>2, <2>5 DEF RunReconcile, Exit, Verdict
<1>4. CASE RejectReconcile
  BY <1>0, <1>4, ModeIsMode DEF RejectReconcile, Exit, Verdict
<1>5. CASE RunNdjson
  <2>1. ~EnvelopeMode /\ flags.second = NoFlag
    BY <1>5, ModeIsMode DEF RunNdjson
  <2>2. ~UsageError
    BY <1>0, <1>1, <2>1
  <2>3. Unreadables # {} <=> flags.chain.shape = "oversize"
    BY <2>1 DEF Unreadables
  <2> QED
    BY <1>0, <1>5, <2>1, <2>2, <2>3, ChainVerdict DEF RunNdjson, Exit, Verdict
<1> QED
  BY <1>2, <1>3, <1>4, <1>5

RunInv == LoadInv /\ PhaseInv /\ ExitIsTheVerdict

(* Verdict depends on flags and files only. *)
LEMMA VerdictFixed ==
    ASSUME flags' = flags, keyFile' = keyFile
    PROVE  Verdict' = Verdict
BY DEF Verdict, UsageError, Unreadables, Acceptable, SignerAccepted, Named,
   Anchored, EnvelopeMode, EnvelopeFile, WellFormedRoot, NamesOneKey, KidIn,
   ParsesAsEnvelope, Objects

LEMMA ExitStep ==
    ASSUME RunInv, NEW code \in 0..2, Exit(code), code = Verdict
    PROVE  RunInv'
<1>1. Verdict' = Verdict
  BY VerdictFixed DEF Exit, keyVars
<1>2. LoadInv'
  BY KeysFixed DEF Exit, RunInv
<1>3. PhaseInv' /\ ExitIsTheVerdict'
  BY <1>1 DEF Exit, RunInv, PhaseInv, ExitIsTheVerdict
<1> QED
  BY <1>2, <1>3 DEF RunInv

LEMMA GotoStep ==
    ASSUME RunInv, NEW p \in {"input", "keys", "detect"}, Goto(p),
           phase # "exited", PassedFlags,
           p # "input" => flags.chain # Unreadable,
           p = "keys" => flags.keys,
           p = "detect" /\ flags.keys => keyLoad = "loaded"
    PROVE  RunInv'
<1>1. LoadInv'
  BY KeysFixed DEF Goto, RunInv
<1>2. PassedFlags'
  BY DEF Goto, PassedFlags
<1>3. PhaseInv' /\ ExitIsTheVerdict'
  BY <1>2 DEF Goto, keyVars, RunInv, PhaseInv, ExitIsTheVerdict
<1> QED
  BY <1>1, <1>3 DEF RunInv

LEMMA RunInit ==
    ASSUME Init
    PROVE  RunInv
<1>1. LoadInv
  BY LoadInit DEF Init
<1> QED
  BY <1>1 DEF Init, RunInv, PhaseInv, ExitIsTheVerdict

LEMMA RunStep ==
    ASSUME RunInv, [Next]_vars
    PROVE  RunInv'
<1>1. CASE ShowVersion
  BY <1>1, ExitStep DEF ShowVersion, Verdict
<1>2. CASE RejectFlags
  <2>1. Verdict = 2
    BY <1>2 DEF RejectFlags, Verdict, UsageError
  <2> QED
    BY <1>2, <2>1, ExitStep DEF RejectFlags
<1>3. CASE AcceptFlags
  BY <1>3, GotoStep DEF AcceptFlags, PassedFlags
<1>4. CASE FailReadInput
  <2>1. Verdict = 2
    BY <1>4 DEF FailReadInput, Verdict, UsageError, RunInv, PhaseInv, PassedFlags
  <2> QED
    BY <1>4, <2>1, ExitStep DEF FailReadInput
<1>5. CASE ReadInput
  BY <1>5, GotoStep DEF ReadInput, RunInv, PhaseInv
<1>6. CASE LoadKeys
  <2>1. LoadInv'
    BY <1>6, LoadStep DEF LoadKeys, RunInv
  <2>2. PhaseInv'
    BY <1>6 DEF LoadKeys, RunInv, PhaseInv, PassedFlags
  <2>3. ExitIsTheVerdict'
    BY <1>6 DEF LoadKeys, ExitIsTheVerdict
  <2> QED
    BY <2>1, <2>2, <2>3 DEF RunInv
<1>7. CASE FailKeys
  <2>1. ~WellFormedRoot(keyFile) /\ flags.keys /\ ~flags.version
    BY <1>7 DEF FailKeys, RunInv, PhaseInv, PassedFlags, LoadInv, TrustRootIsExact
  <2>2. Verdict = 2
    BY <2>1 DEF Verdict, UsageError
  <2> QED
    BY <1>7, <2>2, ExitStep DEF FailKeys
<1>8. CASE UseKeys
  BY <1>8, GotoStep DEF UseKeys, RunInv, PhaseInv
<1>9. CASE RunEnvelope \/ RunReconcile \/ RejectReconcile \/ RunNdjson
  <2>1. phase = "detect"
    BY <1>9 DEF RunEnvelope, RunReconcile, RejectReconcile, RunNdjson
  <2>2. exit' = Verdict
    BY <1>9, <2>1, RunsRight DEF RunInv
  <2>3. exit' \in 0..2 /\ Exit(exit')
    BY <1>9 DEF RunEnvelope, RunReconcile, RejectReconcile, RunNdjson, Exit
  <2>4. /\ phase' = "exited" /\ UNCHANGED <<keyVars, flags>>
    BY <2>3 DEF Exit
  <2>5. Verdict' = Verdict
    BY <2>4, VerdictFixed DEF keyVars
  <2>6. LoadInv'
    BY <2>4, KeysFixed DEF RunInv
  <2>7. PhaseInv'
    BY <2>3, <2>4 DEF RunInv, PhaseInv
  <2> QED
    BY <2>2, <2>4, <2>5, <2>6, <2>7 DEF RunInv, ExitIsTheVerdict
<1>10. CASE UNCHANGED vars
  <2>1. Verdict' = Verdict
    BY <1>10, VerdictFixed DEF vars, keyVars
  <2>2. LoadInv'
    BY <1>10, KeysFixed DEF vars, RunInv
  <2> QED
    BY <1>10, <2>1, <2>2
       DEF vars, keyVars, RunInv, PhaseInv, PassedFlags, ExitIsTheVerdict
<1> QED
  BY <1>1, <1>2, <1>3, <1>4, <1>5, <1>6, <1>7, <1>8, <1>9, <1>10 DEF Next

LEMMA RunAlways == Spec => []RunInv
<1>1. Init => RunInv
  BY RunInit
<1>2. RunInv /\ [Next]_vars => RunInv'
  BY RunStep
<1> QED
  BY <1>1, <1>2, PTL DEF Spec

-----------------------------------------------------------------------------

(* For every key file: it loads exactly when it is a trust root to its last *)
(* byte, and then as exactly that.                                          *)
THEOREM TrustRootTheorem == Spec => []TrustRootIsExact
<1>1. RunInv => TrustRootIsExact
  BY DEF RunInv, LoadInv, TrustRootIsExact
<1> QED
  BY <1>1, RunAlways, PTL

(* For all flags and files the exit code is the verdict the contract states *)
(* on them.                                                                 *)
THEOREM ExitTheorem == Spec => []ExitIsTheVerdict
<1>1. RunInv => ExitIsTheVerdict
  BY DEF RunInv
<1> QED
  BY <1>1, RunAlways, PTL

(* For all flags and files: a strict acceptance rests on a whole trust root *)
(* and on its one key for each signer.                                      *)
THEOREM StrictAcceptanceTheorem == Spec => []StrictAcceptanceIsAnchored
<1>1. ASSUME RunInv, exit = 0, flags.requireSigs, ~flags.version
      PROVE  /\ WellFormedRoot(keyFile) /\ Acceptable
             /\ \A i \in DOMAIN flags.chain.signers :
                  Anchored(flags.chain.signers[i])
  <2>1. Verdict = 0
    BY <1>1 DEF RunInv, PhaseInv, ExitIsTheVerdict
  <2>2. Acceptable /\ ~UsageError
    BY <1>1, <2>1 DEF Verdict
  <2> QED
    BY <1>1, <2>2 DEF UsageError, Acceptable, SignerAccepted
<1>2. RunInv => StrictAcceptanceIsAnchored
  BY <1>1 DEF StrictAcceptanceIsAnchored, Acceptable
<1> QED
  BY <1>2, RunAlways, PTL

(* Every state of a run has the types the code declares. *)
THEOREM TypesTheorem == Spec => []TypeOK
<1>1. RunInv => TypeOK
  BY DEF RunInv, LoadInv, StoreType, PhaseInv, TypeOK
<1> QED
  BY <1>1, RunAlways, PTL
=============================================================================
