CONSTANTS
    CIDLen <- MCCIDLen
    PacketKinds <- MCPacketKindsNone
    FrameKinds <- MCFrameKindsFeature
    SIDVals <- MCSIDVals
    CIDVals <- MCCIDVals
    Tags <- MCTags
    Payloads <- MCPayloads
    Pieces <- MCFeaturePieces
    MaxPieces = 5
SPECIFICATION Spec
INVARIANTS NoPanic
CHECK_DEADLOCK FALSE
