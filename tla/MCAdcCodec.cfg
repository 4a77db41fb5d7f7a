CONSTANTS
    CIDLen <- MCCIDLen
    PacketKinds <- MCPacketKinds
    FrameKinds <- MCFrameKinds
    SIDVals <- MCSIDVals
    CIDVals <- MCCIDVals
    Tags <- MCTags
    Payloads <- MCPayloads
    Pieces <- MCPieces
    MaxPieces = 5
SPECIFICATION Spec
INVARIANTS TypeOK RoundTrip DecodeConforms
CHECK_DEADLOCK FALSE
