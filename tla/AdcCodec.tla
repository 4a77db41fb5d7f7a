------------------------------ MODULE AdcCodec ------------------------------
(***************************************************************************)
(* The ADC packet framing layer of package adc (client2client.go, the      *)
(* part after the client code): DecodePacket, the eight UnmarshalPacket    *)
(* methods and the eight MarshalPacket methods.  The fixed-header kinds    *)
(* are in AdcFrame; this module adds the Feature packet, whose filter is   *)
(* decoded by a loop and written in map order.                             *)
(*                                                                         *)
(* The codec is pure; the state machine at the end feeds it one input: a   *)
(* packet that is marshalled and then decoded, or a frame from the wire    *)
(* that is decoded.                                                        *)
(***************************************************************************)
EXTENDS AdcFrame, SequencesExt

CONSTANTS
    PacketKinds,  \* kinds of the packets that are marshalled
    FrameKinds,   \* kind bytes of the frames read from the wire
    SIDVals,      \* encoded SIDs a packet may carry
    CIDVals,      \* encoded CIDs a packet may carry
    Tags,         \* 4-byte feature tags a packet may carry
    Payloads,     \* payloads a packet may carry
    Pieces,       \* byte strings that wire frames are made of
    MaxPieces     \* how many pieces a wire frame has at most

ASSUME CodecAssumption ==
    /\ PacketKinds \subseteq KindBytes
    /\ MaxPieces \in Nat

\* Go's map[Feature]bool: a feature set or cleared.
PutFeature(fea, t, v) == [x \in DOMAIN fea \cup {t} |-> IF x = t THEN v ELSE fea[x]]

-----------------------------------------------------------------------------
(***************************************************************************)
(* The feature loop of FeaturePacket.UnmarshalPacket, from iteration i  *)
(* with the current data and map.  A token shorter than 5 bytes is an      *)
(* error, but the error message slices data[i:i+5]: past the LF that ends  *)
(* the frame this is beyond the capacity of the reader's buffer when the   *)
(* frame ends it, and Go panics.  Whether it does is not known here, so    *)
(* both outcomes are possible.  Continue is the end of the loop body and   *)
(* the i++ of the loop.                                                    *)
(***************************************************************************)
LoopDone(fea, data) == [status |-> "ok", fea |-> fea, data |-> data]
LoopFail(s) == [status |-> s, fea |-> NoFeatures, data |-> <<>>]

ShortFeature(data, i) ==
    IF i + 5 <= Len(data) + 1 THEN {LoopFail("error")}
    ELSE {LoopFail("error"), LoopFail("panic")}

RECURSIVE FeatureLoop(_, _, _), Continue(_, _, _)
FeatureLoop(data, i, fea) ==
    IF i >= Len(data) THEN {LoopDone(fea, data)}
    ELSE IF At(data, i) \in {"+", "-"}
         THEN IF Len(data) - i < 5 THEN ShortFeature(data, i)
              ELSE Continue(data, i + 4,
                            PutFeature(fea, Slice(data, i + 1, i + 5), At(data, i) = "+"))
    ELSE IF At(data, i) = SP THEN Continue(Slice(data, i, Len(data)), 0, fea)
    ELSE {LoopDone(fea, Slice(data, i, Len(data)))}
Continue(data, i, fea) ==
    IF i + 1 = Len(data) THEN FeatureLoop(<<>>, i + 1, fea)
    ELSE FeatureLoop(data, i + 1, fea)

\* FeaturePacket.UnmarshalPacket.
FeatureUnmarshal(name, data) ==
    IF \/ Len(data) < 4
       \/ At(data, Len(data) - 1) # LF
       \/ Len(data) > 4 /\ At(data, 4) \notin {SP, LF}
       \/ ~IsBase32(Slice(data, 0, 4))
    THEN {Err}
    ELSE LET body == PayloadAfter(data, 4)
         IN { CASE r.status = "ok" -> Ok(Packet("F", name, Slice(data, 0, 4), <<>>, r.fea, r.data))
                [] r.status = "error" -> Err
                [] r.status = "panic" -> Panic
              : r \in FeatureLoop(body, 0, NoFeatures) }

\* The UnmarshalPacket method of the packet type DecodePacket picked.
UnmarshalPacket(k, name, raw) ==
    IF k = "F" THEN FeatureUnmarshal(name, raw) ELSE {FixedUnmarshal(k, name, raw)}

\* DecodePacket: the set of outcomes decoding frame p may have.
DecodePacket(p) ==
    IF FrameRejected(p) THEN {Err}
    ELSE UnmarshalPacket(p[1], FrameName(p), FrameRaw(p))

-----------------------------------------------------------------------------
(***************************************************************************)
(* FeaturePacket.MarshalPacket writes the feature map in Go's map          *)
(* iteration order, which is unspecified: every order is a possible frame. *)
(***************************************************************************)

\* An encoder writing '+' whatever the feature's value.
FeatureTokensAllPlus(fea, order) ==
    FlattenSeq([j \in DOMAIN order |-> <<SP, "+">> \o order[j]])

FeatureTokens(fea, order) ==
    FlattenSeq([j \in DOMAIN order |->
                  <<SP, IF fea[order[j]] THEN "+" ELSE "-">> \o order[j]])

\* The header fields MarshalPacket writes for each kind.
Header(pkt, order) ==
    IF pkt.kind = "F" THEN <<SP>> \o pkt.id \o FeatureTokens(pkt.fea, order)
    ELSE FixedHeader(pkt)

MarshalPacket(pkt) ==
    { <<pkt.kind>> \o pkt.name \o Header(pkt, order) \o PayloadPart(pkt.data) \o <<LF>>
        : order \in SetToSeqs(DOMAIN pkt.fea) }

-----------------------------------------------------------------------------
(***************************************************************************)
(* The inputs, from the specification's frame grammar (section 6):        *)
(* PacketsIn are the well-formed packets of PacketKinds, FramesIn the      *)
(* frames a line reader can hand to DecodePacket: bytes without a LF,      *)
(* then a LF unless the connection ended first.                            *)
(***************************************************************************)
MsgName == <<"M", "S", "G">>

IdsFor(k) == CASE k \in {"B", "D", "E", "F"} -> SIDVals
               [] k = "U" -> CIDVals
               [] OTHER -> {<<>>}
TargsFor(k) == IF k \in {"D", "E"} THEN SIDVals ELSE {<<>>}
FeaturesFor(k) ==
    IF k = "F" THEN UNION {[T -> BOOLEAN] : T \in SUBSET Tags} ELSE {NoFeatures}
\* The feature-filter grammar makes a payload that starts with a space or a
\* sigil part of the filter region, so a Feature payload does not.
PayloadsFor(k) ==
    IF k = "F" THEN {d \in Payloads : d = <<>> \/ d[1] \notin {SP, "+", "-"}}
    ELSE Payloads

PacketsIn ==
    UNION { { Packet(k, MsgName, id, targ, fea, d)
              : id \in IdsFor(k), targ \in TargsFor(k), fea \in FeaturesFor(k),
                d \in PayloadsFor(k) } : k \in PacketKinds }

FramesIn ==
    { <<k>> \o MsgName \o FlattenSeq(ps) \o e
        : k \in FrameKinds, ps \in BoundedSeq(Pieces, MaxPieces), e \in {<<>>, <<LF>>} }

-----------------------------------------------------------------------------
(***************************************************************************)
(* One input through the codec: a packet is marshalled, then decoded; a    *)
(* frame from the wire is decoded.                                         *)
(***************************************************************************)
VARIABLES phase, pkt, frame, out
vars == <<phase, pkt, frame, out>>

Init ==
    /\ out = Err
    /\ \/ phase = "packet" /\ pkt \in PacketsIn /\ frame = <<>>
       \/ phase = "frame" /\ pkt = NoPacket /\ frame \in FramesIn

\* MarshalPacket of the packet.
Marshal ==
    /\ phase = "packet"
    /\ frame' \in MarshalPacket(pkt)
    /\ phase' = "frame"
    /\ UNCHANGED <<pkt, out>>

\* DecodePacket of the frame.
Decode ==
    /\ phase = "frame"
    /\ out' \in DecodePacket(frame)
    /\ phase' = "decoded"
    /\ UNCHANGED <<pkt, frame>>

Next == Marshal \/ Decode

Spec == Init /\ [][Next]_vars

-----------------------------------------------------------------------------
Bytes == {SP, LF, NUL, "+", "-", ":", "M", "G", "X", "P", "0", "4"} \cup KindBytes \cup Base32

\* The type of the state; a decoded packet's SID, target and CID fields
\* have the width of their kind, however short the frame was.
TypeOK ==
    /\ phase \in {"packet", "frame", "decoded"}
    /\ frame \in Seq(Bytes)
    /\ out.status \in {"ok", "error", "panic"}
    /\ out.status = "ok" =>
         /\ out.pkt.kind \in KindBytes
         /\ Len(out.pkt.name) = 3
         /\ Len(out.pkt.id) = CASE out.pkt.kind \in {"B", "D", "E", "F"} -> 4
                                [] out.pkt.kind = "U" -> CIDLen
                                [] OTHER -> 0
         /\ Len(out.pkt.targ) = IF out.pkt.kind \in {"D", "E"} THEN 4 ELSE 0
         /\ \A t \in DOMAIN out.pkt.fea : Len(t) = 4

\* Invariant I5 of the specification: every packet the codec marshals
\* decodes to the same packet, its feature map compared as a map, whatever
\* order MarshalPacket wrote the features in.
RoundTrip ==
    phase = "decoded" /\ pkt # NoPacket => out = Ok(pkt)

\* The decode contract of section 4.1: DecodePacket accepts exactly the
\* frames of the grammar, rejecting those with a null byte, without the
\* final LF, shorter than the kind's header or without a separator, and
\* returns the fields the grammar assigns.
DecodeConforms ==
    phase = "decoded" /\ pkt = NoPacket => out = RefDecode(frame)

\* No frame a peer sends makes DecodePacket panic.
NoPanic == out.status # "panic"

=============================================================================
