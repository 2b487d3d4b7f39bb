CONSTANTS
    SA = SA
    SAEscaped = SAEscaped
    SAB = SAB
    SHalfwidth = SHalfwidth
    SEmoji = SEmoji
    SSignature = SSignature
    SEntryHash = SEntryHash
    SEngine = SEngine
    Spelling = {SA, SAEscaped, SAB, SHalfwidth, SEmoji, SSignature, SEntryHash, SEngine}
    Unquote <- MCUnquote
    StringValue = {SA}
    Literal <- MCLiteral
    Nothing = Nothing
    MaxTokens = 7
    NumbersAt = {3, 4}
    SignatureKey <- MCSignatureKey
    EntryHashKey <- MCEntryHashKey
    EngineVersionKey <- MCEngineVersionKey
    NoExponent = NoExponent
SPECIFICATION Spec
CHECK_DEADLOCK FALSE
INVARIANTS
    TypeOK
    DuplicatesAreFound
    ScannerInStep
    NothingIsLost
    OneCanonicalText
    MembersAreInOrder
    NumbersAreCanonical
