CONSTANTS
    K1 = K1
    K2 = K2
    P1 = P1
    P2 = P2
    Kid = {K1, K2}
    EmptyKid = EmptyKid
    PublicKey = {P1, P2}
    NotEd25519 = NotEd25519
    NotPKIX = NotPKIX
    KeyFiles <- MCKeyFiles
    Unopenable = Unopenable
    Inputs <- MCInputs
    Seconds <- MCSeconds
    NoFlag = NoFlag
    Stdin = Stdin
    Unreadable = Unreadable
SPECIFICATION Spec
CHECK_DEADLOCK FALSE
INVARIANTS
    TypeOK
    TrustRootIsExact
    ExitIsTheVerdict
    StrictAcceptanceIsAnchored
PROPERTY
    EveryRunEnds
