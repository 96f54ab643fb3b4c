CONSTANTS
    Pubkeys <- MCWPubkeys
    Sigs <- MCSigs
    Ders <- MCDers
    TrSigs <- MCTrSigs
    Scripts <- MCScripts
    Sighashes <- MCSighashes
    FailPoints <- MCFailPoints
    MaxSigs = 2
    MaxExtraSigs = 1
SPECIFICATION WSpec
INVARIANT ValidCallsBuildStack
