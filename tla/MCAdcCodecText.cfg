CONSTANTS
    CIDLen <- MCCIDLen
    PacketKinds <- MCPacketKindsText
    FrameKinds <- MCFrameKindsNone
    SIDVals <- MCSIDVals
    CIDVals <- MCCIDVals
    Tags <- MCTags
    Payloads <- MCPayloads
    Pieces <- MCPieces
    MaxPieces = 5
SPECIFICATION Spec
INVARIANTS RoundTrip
CHECK_DEADLOCK FALSE
