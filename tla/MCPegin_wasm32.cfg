CONSTANTS
    RedeemScripts <- MCWrapScripts
    Contracts <- MCContracts
    SIZE_T_BITS <- MCSizeT32
SPECIFICATION Spec
PROPERTY Termination
CHECK_DEADLOCK FALSE
