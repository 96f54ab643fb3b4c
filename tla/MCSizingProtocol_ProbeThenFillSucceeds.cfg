CONSTANTS
    Pubkeys <- MCPubkeys
    Hash20 <- MCHash20
    Payloads <- MCPayloads
    CsvDelays <- MCCsvDelays
    PegoutScripts <- MCPegoutScripts
    Sigs <- MCNoSigs
    BufLens <- MCBufLens
    BigLen <- MCBigLen
SPECIFICATION PSpec
PROPERTY ProbeThenFillSucceeds
CHECK_DEADLOCK FALSE
