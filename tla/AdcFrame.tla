------------------------------ MODULE AdcFrame ------------------------------
(***************************************************************************)
(* The part of the ADC packet codec (src/adc/client/client2client.go) that *)
(* has a fixed header: DecodePacket's checks of the frame, the             *)
(* UnmarshalPacket and MarshalPacket methods of the Info, Hub, Client,     *)
(* Broadcast, Direct, Echo and UDP packets, and the reference decoder      *)
(* written from the frame grammar.  The Feature packet, whose filter is    *)
(* decoded by a loop, is added to this in AdcCodec.                        *)
(*                                                                         *)
(* A frame is a sequence of bytes; a byte is a one-character string, with *)
(* SP, LF and NUL for the space, the line delimiter and the null byte.     *)
(* Go's 0-based half-open slice p[lo:hi] is Slice(p, lo, hi) and p[i] is   *)
(* At(p, i); data[:len(data)-1] and data[len(data)-1] are written so.  A  *)
(* packet is a record with the fields every kind may carry; the ones a    *)
(* kind does not have are empty.  SIDs and CIDs are kept in their encoded *)
(* form (4 resp. CIDLen base32 bytes), so that MarshalAdc and ToBase32 are *)
(* the identity and UnmarshalAdc and FromBase32 are the check that every  *)
(* byte is a base32 digit.                                                 *)
(***************************************************************************)
EXTENDS Naturals, Sequences, Functions

CONSTANT
    CIDLen        \* the length of a base32 CID: const l = 39 in UnmarshalPacket

ASSUME FrameAssumption == CIDLen \in Nat \ {0}

SP == "SP"
LF == "LF"
NUL == "NUL"

\* kindInfo .. kindUDP
KindBytes == {"I", "H", "B", "D", "E", "F", "C", "U"}

\* The digits of the base32 alphabet (RFC 4648) that the frames here use.
Base32 == {"A", "B", "C", "D", "M", "N", "S", "T", "2", "7"}

\* Go's p[lo:hi] and p[i].
Slice(p, lo, hi) == SubSeq(p, lo + 1, hi)
At(p, i) == p[i + 1]

\* SID.UnmarshalAdc and CID.FromBase32: every byte is a base32 digit.
IsBase32(s) == \A i \in DOMAIN s : s[i] \in Base32

\* Go's map[Feature]bool without entries.
NoFeatures == [t \in {} |-> TRUE]

Packet(k, name, id, targ, fea, data) ==
    [kind |-> k, name |-> name, id |-> id, targ |-> targ, fea |-> fea, data |-> data]
NoPacket == Packet("none", <<>>, <<>>, <<>>, NoFeatures, <<>>)

\* The outcomes of a decode: a packet, an error, or a runtime panic.
Ok(pkt) == [status |-> "ok", pkt |-> pkt]
Err == [status |-> "error", pkt |-> NoPacket]
Panic == [status |-> "panic", pkt |-> NoPacket]

-----------------------------------------------------------------------------
(***************************************************************************)
(* DecodePacket up to the kind's UnmarshalPacket.  After the 5-byte length *)
(* check, p = p[4:] is never empty, so the byte after the name is p[4]:    *)
(* a space starts raw, a LF leaves raw empty, anything else is an error.   *)
(***************************************************************************)
FrameRejected(p) ==
    \/ Len(p) < 5
    \/ NUL \in Range(p)
    \/ p[1] \notin KindBytes
    \/ At(p, 4) \notin {SP, LF}

FrameName(p) == Slice(p, 1, 4)

FrameRaw(p) == IF At(p, 4) = SP THEN Slice(p, 5, Len(p)) ELSE <<>>

(***************************************************************************)
(* UnmarshalPacket.  data is the frame after the kind, the name and the   *)
(* space that follows them, the final LF included.  A read past the       *)
(* trimmed data (data[0:4] of a 3-byte trimmed slice) reads the LF that   *)
(* is still in the underlying array, so those reads are of data itself.   *)
(***************************************************************************)

\* InfoPacket.UnmarshalPacket: an empty data is accepted as it is.
InfoUnmarshal(name, data) ==
    IF Len(data) # 0 /\ At(data, Len(data) - 1) # LF THEN Err
    ELSE Ok(Packet("I", name, <<>>, <<>>, NoFeatures,
                   IF Len(data) # 0 THEN Slice(data, 0, Len(data) - 1) ELSE data))

\* HubPacket.UnmarshalPacket and ClientPacket.UnmarshalPacket.
TextUnmarshal(k, name, data) ==
    IF Len(data) < 1 \/ At(data, Len(data) - 1) # LF THEN Err
    ELSE Ok(Packet(k, name, <<>>, <<>>, NoFeatures, Slice(data, 0, Len(data) - 1)))

\* The payload after a header of hl bytes and a space: data[hl+1:] of the
\* trimmed data when it is longer than hl + 1.
PayloadAfter(data, hl) ==
    IF Len(data) - 1 > hl + 1 THEN Slice(data, hl + 1, Len(data) - 1) ELSE <<>>

\* BroadcastPacket.UnmarshalPacket.
BroadcastUnmarshal(name, data) ==
    IF \/ Len(data) < 4
       \/ At(data, Len(data) - 1) # LF
       \/ Len(data) > 4 /\ At(data, 4) \notin {SP, LF}
       \/ ~IsBase32(Slice(data, 0, 4))
    THEN Err
    ELSE Ok(Packet("B", name, Slice(data, 0, 4), <<>>, NoFeatures, PayloadAfter(data, 4)))

\* A decoder reading the target SID as data[5:8].
DirectUnmarshalShortTarg(k, name, data) ==
    IF \/ Len(data) < 9
       \/ At(data, Len(data) - 1) # LF
       \/ At(data, 4) # SP
       \/ Len(data) > 9 /\ At(data, 9) \notin {SP, LF}
       \/ ~IsBase32(Slice(data, 0, 4))
       \/ ~IsBase32(Slice(data, 5, 8))
    THEN Err
    ELSE Ok(Packet(k, name, Slice(data, 0, 4), Slice(data, 5, 8), NoFeatures,
                   PayloadAfter(data, 9)))

\* A decoder without the check of the separator between the two SIDs.
DirectUnmarshalNoSeparator(k, name, data) ==
    IF \/ Len(data) < 9
       \/ At(data, Len(data) - 1) # LF
       \/ Len(data) > 9 /\ At(data, 9) \notin {SP, LF}
       \/ ~IsBase32(Slice(data, 0, 4))
       \/ ~IsBase32(Slice(data, 5, 9))
    THEN Err
    ELSE Ok(Packet(k, name, Slice(data, 0, 4), Slice(data, 5, 9), NoFeatures,
                   PayloadAfter(data, 9)))

\* DirectPacket.UnmarshalPacket and EchoPacket.UnmarshalPacket.
DirectUnmarshal(k, name, data) ==
    IF \/ Len(data) < 9
       \/ At(data, Len(data) - 1) # LF
       \/ At(data, 4) # SP
       \/ Len(data) > 9 /\ At(data, 9) \notin {SP, LF}
       \/ ~IsBase32(Slice(data, 0, 4))
       \/ ~IsBase32(Slice(data, 5, 9))
    THEN Err
    ELSE Ok(Packet(k, name, Slice(data, 0, 4), Slice(data, 5, 9), NoFeatures,
                   PayloadAfter(data, 9)))

\* UDPPacket.UnmarshalPacket.
UDPUnmarshal(name, data) ==
    IF \/ Len(data) < CIDLen
       \/ At(data, Len(data) - 1) # LF
       \/ Len(data) > CIDLen /\ At(data, CIDLen) \notin {SP, LF}
       \/ ~IsBase32(Slice(data, 0, CIDLen))
    THEN Err
    ELSE Ok(Packet("U", name, Slice(data, 0, CIDLen), <<>>, NoFeatures,
                   PayloadAfter(data, CIDLen)))

\* The UnmarshalPacket method DecodePacket picks for a fixed-header kind.
FixedUnmarshal(k, name, raw) ==
    CASE k = "I" -> InfoUnmarshal(name, raw)
      [] k \in {"H", "C"} -> TextUnmarshal(k, name, raw)
      [] k = "B" -> BroadcastUnmarshal(name, raw)
      [] k \in {"D", "E"} -> DirectUnmarshal(k, name, raw)
      [] k = "U" -> UDPUnmarshal(name, raw)

\* DecodePacket of a frame whose kind is not Feature.
FixedDecode(p) ==
    IF FrameRejected(p) THEN Err
    ELSE FixedUnmarshal(p[1], FrameName(p), FrameRaw(p))

-----------------------------------------------------------------------------
(***************************************************************************)
(* MarshalPacket.  Every kind writes the kind and the name, its header     *)
(* fields each after a space, the payload after a space when it is not     *)
(* empty, and the LF.                                                      *)
(***************************************************************************)
PayloadPart(d) == IF Len(d) > 0 THEN <<SP>> \o d ELSE <<>>

\* The header fields the fixed-header kinds write.
FixedHeader(pkt) ==
    CASE pkt.kind \in {"I", "H", "C"} -> <<>>
      [] pkt.kind \in {"B", "U"} -> <<SP>> \o pkt.id
      [] pkt.kind \in {"D", "E"} -> <<SP>> \o pkt.id \o <<SP>> \o pkt.targ

\* MarshalPacket of a packet whose kind is not Feature.
FixedMarshal(pkt) ==
    <<pkt.kind>> \o pkt.name \o FixedHeader(pkt) \o PayloadPart(pkt.data) \o <<LF>>

-----------------------------------------------------------------------------
(***************************************************************************)
(* The reference decoder: the frame grammar of section 6 of the           *)
(* specification, frame = kind name [' ' header] [' ' payload] LF, for the *)
(* kinds without a feature filter.                                         *)
(***************************************************************************)
HeaderLen(k) == CASE k \in {"I", "H", "C"} -> 0
                  [] k = "B" -> 4
                  [] k \in {"D", "E"} -> 9
                  [] k = "U" -> CIDLen

HeaderValid(k, h) ==
    CASE k = "B" -> IsBase32(h)
      [] k \in {"D", "E"} -> IsBase32(SubSeq(h, 1, 4)) /\ h[5] = SP /\ IsBase32(SubSeq(h, 6, 9))
      [] k = "U" -> IsBase32(h)
      [] OTHER -> TRUE

RefDecode(f) ==
    IF \/ Len(f) < 5 \/ NUL \in Range(f) \/ f[Len(f)] # LF
       \/ LF \in Range(SubSeq(f, 1, Len(f) - 1))
       \/ f[1] \notin KindBytes \ {"F"}
    THEN Err
    ELSE LET k == f[1]
             hl == HeaderLen(k)
             body == SubSeq(f, 5, Len(f) - 1)
             hdr == IF hl = 0 THEN <<>> ELSE SubSeq(body, 2, hl + 1)
             tail == IF hl = 0 THEN body ELSE SubSeq(body, hl + 2, Len(body))
         IN IF /\ hl > 0 => Len(body) >= hl + 1 /\ body[1] = SP /\ HeaderValid(k, hdr)
               /\ tail # <<>> => tail[1] = SP
            THEN Ok(Packet(k, SubSeq(f, 2, 4),
                           IF k \in {"D", "E"} THEN SubSeq(hdr, 1, 4) ELSE hdr,
                           IF k \in {"D", "E"} THEN SubSeq(hdr, 6, 9) ELSE <<>>,
                           NoFeatures, IF tail = <<>> THEN <<>> ELSE Tail(tail)))
            ELSE Err

=============================================================================
