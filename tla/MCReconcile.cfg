CONSTANTS
    NotAnEnvelope = NotAnEnvelope
    NoScope = NoScope
    Unusable = Unusable
    ClockUncertaintyTolerance = 50
    ExportsA <- MCExportsA
    ExportsB <- MCExportsB

SPECIFICATION Spec
CHECK_DEADLOCK FALSE
INVARIANTS
    TypeOK
    FindingsAreTheConflicts
    ScopeGateIsFirst
    NeverAPass
