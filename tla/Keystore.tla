------------------------------ MODULE Keystore ------------------------------
(***************************************************************************)
(* The trust root of --keys: keys.LoadFile and keys.Parse                  *)
(* (internal/keys/pem.go), one section of the file at a time.  A file that *)
(* is not understood to the last byte is refused as a whole.               *)
(***************************************************************************)
EXTENDS Integers, Sequences, FiniteSets

CONSTANTS
    Kid,            \* key ids
    EmptyKid,       \* a kid header without a value
    PublicKey,      \* Ed25519 keys
    NotEd25519,     \* a PKIX body that holds a key of another kind
    NotPKIX,        \* a body that is no PKIX key
    KeyFiles,       \* the files --keys may name
    Unopenable      \* a path that cannot be read

PemType    == {"PUBLIC KEY", "ATLASENT PUBLIC KEY", "OTHER"}
HeaderName == {"kid", "other", "-----BEGIN "}
Body       == PublicKey \cup {NotEd25519, NotPKIX}

(* A header line of a PEM block; `padded' when the name has blanks around it. *)
Header == [name : HeaderName, padded : BOOLEAN, value : Kid \cup {EmptyKid}]

(* A stretch of the trimmed file that starts with a BEGIN line and decodes. *)
Block == [kind : {"block"}, type : PemType, headers : Seq(Header), body : Body]

(* One that starts with a BEGIN line and does not decode, and other text. *)
Broken == [kind |-> "broken"]
Junk   == [kind |-> "junk"]

Section == Block \cup {Broken, Junk}

ASSUME KeyFilesAssumption ==
    KeyFiles \subseteq Seq(Section) \cup {Unopenable}
ASSUME KeystoreSentinels ==
    /\ Unopenable \notin Seq(Section)
    /\ EmptyKid \notin Kid
    /\ {NotEd25519, NotPKIX} \cap PublicKey = {} /\ NotEd25519 # NotPKIX

VARIABLES
    keyFile,      \* the file, fixed for the run
    keyLoad,      \* how far the load is: idle, reading, loaded or refused
    next,         \* the first section of `remaining'
    store         \* Store.m: kid -> key

keyVars == <<keyFile, keyLoad, next, store>>

EmptyStore == [k \in {} |-> NotPKIX]

KeyInit ==
    /\ keyFile \in KeyFiles
    /\ keyLoad = "idle"
    /\ next = 1
    /\ store = EmptyStore

-----------------------------------------------------------------------------
(* encoding/pem. *)

Blocks(f) == {i \in DOMAIN f : f[i].kind = "block"}

(* pem.Decode passes over what does not decode: section i is the block it   *)
(* returns for the file from section `at' on.                               *)
Decodes(f, at, i) ==
    /\ i \in Blocks(f) /\ i >= at
    /\ \A j \in Blocks(f) : j >= at => j >= i

Undecodable(f, at) == \A j \in Blocks(f) : j < at

Names(b) == {b.headers[h].name : h \in DOMAIN b.headers}

(* Block.Headers is a map: the last line of a name wins. *)
LastHeader(b, name) ==
    CHOOSE h \in DOMAIN b.headers :
        /\ b.headers[h].name = name
        /\ \A g \in DOMAIN b.headers : b.headers[g].name = name => g <= h

KidOf(b) == b.headers[LastHeader(b, "kid")].value

-----------------------------------------------------------------------------
(* The checks on the raw text of what was consumed. *)

(* countPEMBeginLines(consumed) = 1: nothing was passed over, and no header  *)
(* line is itself a BEGIN line.                                              *)
OneBeginLine(f, at, i) ==
    /\ \A j \in at..(i - 1) : f[j].kind = "junk"
    /\ "-----BEGIN " \notin Names(f[i])

(* Mutation: the headers are only looked at after decoding. *)
KidPresent(b) == "kid" \in Names(b)

(* countPEMHeader(consumed, "kid") = 1 without an error. *)
OneKidLine(b) ==
    /\ \A h \in DOMAIN b.headers : ~b.headers[h].padded
    /\ \E h \in DOMAIN b.headers :
         /\ b.headers[h].name = "kid"
         /\ \A g \in DOMAIN b.headers : b.headers[g].name = "kid" => g = h

(* The checks on the decoded block. *)
SupportedBlock(b) ==
    /\ b.type \in {"PUBLIC KEY", "ATLASENT PUBLIC KEY"}
    /\ Names(b) \subseteq {"kid"}
    /\ KidOf(b) # EmptyKid

-----------------------------------------------------------------------------
(* One way round the loop of Parse. *)

Remaining == next <= Len(keyFile)

RefuseKeys ==
    /\ keyLoad' = "refused"
    /\ UNCHANGED <<keyFile, next, store>>

OpenKeys ==
    /\ keyLoad = "idle"
    /\ keyFile # Unopenable
    /\ keyLoad' = "reading"
    /\ UNCHANGED <<keyFile, next, store>>

FailOpenKeys ==
    /\ keyLoad = "idle"
    /\ keyFile = Unopenable
    /\ RefuseKeys

(* Mutation: the loop goes round again without having consumed anything. *)
SkipJunk ==
    /\ Remaining
    /\ keyFile[next].kind = "junk"
    /\ UNCHANGED keyVars

(* Text before, between or after the blocks. *)
RefuseJunk ==
    /\ Remaining
    /\ keyFile[next].kind = "junk"
    /\ RefuseKeys

RefuseUndecodable ==
    /\ Remaining
    /\ keyFile[next].kind # "junk"
    /\ Undecodable(keyFile, next)
    /\ RefuseKeys

(* Parse goes on to the block at i. *)
Consumes(i) ==
    /\ Remaining
    /\ keyFile[next].kind # "junk"
    /\ Decodes(keyFile, next, i)

RefuseHidden ==
    \E i \in Blocks(keyFile) :
        /\ Consumes(i)
        /\ ~OneBeginLine(keyFile, next, i)
        /\ RefuseKeys

RefuseHeaders ==
    \E i \in Blocks(keyFile) :
        /\ Consumes(i)
        /\ OneBeginLine(keyFile, next, i)
        /\ ~OneKidLine(keyFile[i])
        /\ RefuseKeys

(* The block is well delimited and names one kid. *)
Delimited(i) ==
    /\ Consumes(i)
    /\ OneBeginLine(keyFile, next, i)
    /\ OneKidLine(keyFile[i])

RefuseBlock ==
    \E i \in Blocks(keyFile) :
        /\ Delimited(i)
        /\ ~SupportedBlock(keyFile[i])
        /\ RefuseKeys

RefuseDuplicate ==
    \E i \in Blocks(keyFile) :
        /\ Delimited(i) /\ SupportedBlock(keyFile[i])
        /\ KidOf(keyFile[i]) \in DOMAIN store
        /\ RefuseKeys

(* x509.ParsePKIXPublicKey fails, or the key is no Ed25519 key. *)
RefuseKey ==
    \E i \in Blocks(keyFile) :
        /\ Delimited(i) /\ SupportedBlock(keyFile[i])
        /\ KidOf(keyFile[i]) \notin DOMAIN store
        /\ keyFile[i].body \notin PublicKey
        /\ RefuseKeys

Stored(b) ==
    [k \in DOMAIN store \cup {KidOf(b)} |->
        IF k = KidOf(b) THEN b.body ELSE store[k]]

(* Mutation: the type of the parsed key is not looked at. *)
AddAnyKey ==
    \E i \in Blocks(keyFile) :
        /\ Delimited(i) /\ SupportedBlock(keyFile[i])
        /\ KidOf(keyFile[i]) \notin DOMAIN store
        /\ store' = Stored(keyFile[i])
        /\ next' = i + 1
        /\ UNCHANGED <<keyFile, keyLoad>>

AddKey ==
    \E i \in Blocks(keyFile) :
        /\ Delimited(i) /\ SupportedBlock(keyFile[i])
        /\ KidOf(keyFile[i]) \notin DOMAIN store
        /\ keyFile[i].body \in PublicKey
        /\ store' = Stored(keyFile[i])
        /\ next' = i + 1
        /\ UNCHANGED <<keyFile, keyLoad>>

RefuseEmpty ==
    /\ next > Len(keyFile)
    /\ DOMAIN store = {}
    /\ RefuseKeys

FinishKeys ==
    /\ next > Len(keyFile)
    /\ DOMAIN store # {}
    /\ keyLoad' = "loaded"
    /\ UNCHANGED <<keyFile, next, store>>

ParseKeys ==
    /\ keyLoad = "reading"
    /\ \/ RefuseJunk
       \/ RefuseUndecodable
       \/ RefuseHidden
       \/ RefuseHeaders
       \/ RefuseBlock
       \/ RefuseDuplicate
       \/ RefuseKey
       \/ AddKey
       \/ RefuseEmpty
       \/ FinishKeys
=============================================================================
