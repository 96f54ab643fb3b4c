CONSTANTS
    Pubkeys <- MCPubkeys
    Hash20 <- MCHash20
    Payloads <- MCPayloads
    CsvDelays <- MCCsvDelays
    PegoutScripts <- MCPegoutScripts
    Sigs <- MCNoSigs
    BufLens <- MCBufLens
    EditBytes <- MCEditBytes
    MaxEdits = 1
SPECIFICATION Spec
INVARIANT TypeOK
INVARIANT BuildClassifyRoundTrip
