CONSTANTS
    RedeemScripts <- MCMalformedScripts
    Contracts <- MCContracts
SPECIFICATION Spec
PROPERTY AtomicRewrite
CHECK_DEADLOCK FALSE
