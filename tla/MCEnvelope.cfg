CONSTANTS
    K1 = K1
    K2 = K2
    NoKeys = NoKeys
    Unsigned = Unsigned
    BadSignature = BadSignature
    NoPem = NoPem
    NoCertification = NoCertification
    Unclaimed = Unclaimed
    Unparseable = Unparseable
    Text <- MCText
    PublicKey = {K1, K2}
    Sha <- MCSha
    BundleSha <- MCBundleSha
    Fold <- MCFold
    Envelopes <- MCEnvelopes
    KeyStores <- MCKeyStores

SPECIFICATION Spec
CHECK_DEADLOCK FALSE
INVARIANTS
    TypeOK
    AcceptedSignatureHolds
    LayersMatchFindings
    LedgerValidIffLinked
    PassedRowsAreLinked
    CorrelationsAreAnchored
    StagesAddUp
    DisclosuresCountedOnce
    CertifiedCopyIsAccurate
    GenuineIsAccepted
