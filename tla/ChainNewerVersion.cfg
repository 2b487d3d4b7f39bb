CONSTANTS
    A = A
    B = B
    Kid = Kid
    OtherKid = OtherKid
    Key = Key
    OtherKey = OtherKey
    Genesis = Genesis
    V1 = V1
    NotHex = NotHex
    Absent = Absent
    NoKeys = NoKeys
    Undecodable = Undecodable
    Unsigned = Unsigned
    Unseen = Unseen
    Org <- MCOrg
    Digest <- MCDigest
    GenesisHash = Genesis
    Body <- MCBody
    EngineVersion = {V1}
    KeyVersion = {Kid, OtherKid}
    PublicKey = {Key, OtherKey}
    Hash <- FreeHash
    Lines <- MCLines
    KeyStores <- MCKeyStores
    MaxInt64 = 1000
    MaxLines = 4
SPECIFICATION Spec
CHECK_DEADLOCK FALSE
INVARIANT
    NewerVersionNotVerified
