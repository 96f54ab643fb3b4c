CONSTANTS
    RedeemScripts <- MCRedeemScripts
    Contracts <- MCContracts
SPECIFICATION Spec
INVARIANT PeginTypeOK
PROPERTY AtomicRewrite
PROPERTY Termination
CHECK_DEADLOCK FALSE
