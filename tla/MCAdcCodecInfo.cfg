CONSTANTS
    CIDLen <- MCCIDLen
    PacketKinds <- MCPacketKindsNone
    FrameKinds <- MCFrameKindsInfo
    SIDVals <- MCSIDVals
    CIDVals <- MCCIDVals
    Tags <- MCTags
    Payloads <- MCPayloads
    Pieces <- MCPieces
    MaxPieces = 5
SPECIFICATION Spec
INVARIANTS DecodeConforms
CHECK_DEADLOCK FALSE
