CONSTANTS
    Pubkeys <- MCPubkeys
    Hash20 <- MCHash20
    Payloads <- MCPayloads
    CsvDelays <- MCCsvDelays
    PegoutScripts <- MCNoPegoutScripts
    Sigs <- MCScriptSigSigs
    BufLens <- MCBufLens
    BigLen <- MCBigLen
SPECIFICATION PSpec
INVARIANT SmallBufferGetsSize
CHECK_DEADLOCK FALSE
