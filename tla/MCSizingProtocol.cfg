CONSTANTS
    Pubkeys <- MCPubkeys
    Hash20 <- MCHash20
    Payloads <- MCPayloads
    CsvDelays <- MCCsvDelays
    PegoutScripts <- MCPegoutScripts
    Sigs <- MCScriptSigSigs
    BufLens <- MCBufLensWithLarge
    BigLen <- MCBigLen
SPECIFICATION PSpec
INVARIANT PTypeOK
INVARIANT NoBufferOverrun
INVARIANT PegoutSizeAgrees
PROPERTY FillMatchesProbe
PROPERTY SizeAnswersLeadToScript
CHECK_DEADLOCK FALSE
