----------------------------- MODULE MCAdcCodec -----------------------------
(***************************************************************************)
(* Small inputs for AdcCodec.  CIDs are 2 base32 bytes instead of 39: the  *)
(* decoder treats the CID as a fixed-width field whose every byte is       *)
(* checked, so the width changes no branch it takes.                       *)
(***************************************************************************)
EXTENDS AdcCodec

MCCIDLen == 2
SIDa == <<"A", "A", "A", "A">>
SIDb == <<"B", "C", "D", "2">>

MCSIDVals == {SIDa, SIDb}
MCCIDVals == {<<"N", "7">>}
MCTags == {<<"T", "C", "P", "4">>, <<"N", "A", "T", "0">>}
\* empty, one byte, a payload with a space and one that starts with a space
MCPayloads == {<<>>, <<":">>, <<"M", SP, "G">>, <<SP, "X">>}

\* Kinds whose packets round-trip; Hub and Client packets do not.
MCPacketKinds == {"I", "B", "D", "E", "F", "U"}
MCPacketKindsText == {"H", "C"}
MCPacketKindsNone == {}

\* Kind bytes of wire frames: the addressed kinds and an unknown one.
MCFrameKinds == {"B", "D", "E", "U", "X"}
MCFrameKindsInfo == {"I"}
MCFrameKindsFeature == {"F"}
MCFrameKindsNone == {}

\* Pieces of wire frames: separators, a SID, a single base32 byte, a
\* payload byte and a null byte.
MCPieces == {<<SP>>, SIDa, <<"A">>, <<":">>, <<NUL>>}
\* Pieces of feature filters: whole and cut-off tokens.
MCFeaturePieces == {<<SP>>, SIDa, <<"+">>, <<"A">>, <<"-", "N", "A", "T", "0">>}
=============================================================================
