CONSTANTS
    Values <- MCVarintValues
    Buffers <- MCVarbuffs
    BufLens <- MCVarintBufLens
    FirstBytes <- MCFirstBytes
    ValueFields <- MCValueFields
SPECIFICATION CodecSpec
INVARIANT VarintRoundTrip
INVARIANT VarbuffRoundTrip
INVARIANT SameLengthWhenValid
INVARIANT ValueWriteReadsBack
