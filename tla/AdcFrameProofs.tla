--------------------------- MODULE AdcFrameProofs ---------------------------
(***************************************************************************)
(* Proofs about the fixed-header part of the ADC codec, for names and      *)
(* payloads of every length and for every CID width: what DecodePacket     *)
(* reads from a frame, what MarshalPacket writes for each kind, and that   *)
(* every packet of a fixed-header kind survives MarshalPacket then         *)
(* DecodePacket except a Hub or Client packet with an empty payload, which *)
(* DecodePacket rejects.                                                   *)
(***************************************************************************)
EXTENDS AdcFrame, SequenceTheorems, TLAPS

USE FrameAssumption

-----------------------------------------------------------------------------
(* Sequences put together and taken apart.                                 *)

\* The elements of a concatenation, by position.
LEMMA ConcatAt ==
    ASSUME NEW S, NEW a \in Seq(S), NEW b \in Seq(S)
    PROVE  /\ a \o b \in Seq(S)
           /\ Len(a \o b) = Len(a) + Len(b)
           /\ \A i \in 1..Len(a) : (a \o b)[i] = a[i]
           /\ \A i \in 1..Len(b) : (a \o b)[Len(a) + i] = b[i]
BY ConcatProperties

\* A slice is determined by the elements it covers: Go's s[m:n] is t when
\* the n - m bytes from m on are t's.
LEMMA SliceIs ==
    ASSUME NEW S, NEW s \in Seq(S), NEW t \in Seq(S), NEW m \in Nat,
           NEW n \in Nat, n = m + Len(t), n <= Len(s),
           \A i \in 1..Len(t) : s[m + i] = t[i]
    PROVE  Slice(s, m, n) = t
<1>1. \A i \in (m + 1)..n : s[i] \in S
    BY ElementOfSeq
<1>2. /\ SubSeq(s, m + 1, n) \in Seq(S)
      /\ Len(SubSeq(s, m + 1, n)) = Len(t)
      /\ \A i \in 1..Len(t) : SubSeq(s, m + 1, n)[i] = s[m + i]
    BY <1>1, SubSeqProperties
<1>3. QED
    BY <1>2, SeqEqual DEF Slice

\* A sequence holds a value only at one of its positions.
LEMMA RangeAt ==
    ASSUME NEW s, NEW S, s \in Seq(S), NEW x
    PROVE  x \in Range(s) <=> \E i \in 1..Len(s) : s[i] = x
BY DEF Range

-----------------------------------------------------------------------------
(* What DecodePacket reads from a frame.                                   *)

\* The first four bytes of a frame: the kind and the three-byte name.
Lead(k, nm) == <<k>> \o nm

\* MarshalPacket writes f for pkt, and UnmarshalPacket reads pkt from raw:
\* named, so that the lemmas about the frames are cited as a whole.
MarshalsTo(pkt, f) == FixedMarshal(pkt) = f
UnmarshalsTo(k, nm, raw, pkt) == FixedUnmarshal(k, nm, raw) = Ok(pkt)

\* The kind followed by a name of any length, by position; named, so that
\* LeadOfAny is cited as a whole.
LeadFacts(S, k, nm) ==
    /\ Lead(k, nm) \in Seq(S)
    /\ Len(Lead(k, nm)) = 1 + Len(nm)
    /\ Lead(k, nm)[1] = k
    /\ \A i \in 1..Len(nm) : Lead(k, nm)[1 + i] = nm[i]

\* The kind followed by a name of any length, by position.
LEMMA LeadOfAny ==
    ASSUME NEW S, NEW k \in S, NEW nm \in Seq(S)
    PROVE  LeadFacts(S, k, nm)
<1>1. <<k>> \in Seq(S)
    OBVIOUS
<1>2. /\ <<k>> \o nm \in Seq(S)
      /\ Len(<<k>> \o nm) = Len(<<k>>) + Len(nm)
      /\ \A i \in 1..Len(<<k>>) : (<<k>> \o nm)[i] = <<k>>[i]
      /\ \A i \in 1..Len(nm) : (<<k>> \o nm)[Len(<<k>>) + i] = nm[i]
    BY <1>1, ConcatAt, SMTT(30)
<1>3. QED
    BY <1>2, SMTT(30) DEF LeadFacts, Lead

\* The kind and a three-byte name: the first four bytes of every frame.
LEMMA LeadAt ==
    ASSUME NEW S, NEW k \in S, NEW nm \in Seq(S), Len(nm) = 3
    PROVE  /\ Lead(k, nm) \in Seq(S)
           /\ Len(Lead(k, nm)) = 4
           /\ Lead(k, nm)[1] = k
           /\ \A i \in 1..3 : Lead(k, nm)[1 + i] = nm[i]
<1>1. LeadFacts(S, k, nm)
    BY LeadOfAny
<1>2. QED
    BY <1>1, SMTT(30) DEF LeadFacts

\* The kind and a name of any length are a sequence of bytes.
LEMMA LeadSeq ==
    ASSUME NEW S, NEW k \in S, NEW nm \in Seq(S)
    PROVE  Lead(k, nm) \in Seq(S)
<1>1. <<k>> \in Seq(S)
    OBVIOUS
<1>2. QED
    BY <1>1, ConcatAt, SMTT(30) DEF Lead

\* A frame whose name is followed by a space: DecodePacket reads the kind,
\* the name, and raw, everything after that space.
LEMMA SpacedFrame ==
    ASSUME NEW S, SP \in S, NEW k \in S, NEW nm \in Seq(S), Len(nm) = 3,
           NEW raw \in Seq(S)
    PROVE  LET f == Lead(k, nm) \o (<<SP>> \o raw)
           IN  /\ f \in Seq(S)
               /\ Len(f) = 5 + Len(raw)
               /\ f[1] = k
               /\ At(f, 4) = SP
               /\ FrameName(f) = nm
               /\ FrameRaw(f) = raw
<1>0. PICK a, b, f : /\ a = Lead(k, nm) /\ b = <<SP>> \o raw /\ f = a \o b
    OBVIOUS
<1> SUFFICES /\ f \in Seq(S)
             /\ Len(f) = 5 + Len(raw)
             /\ f[1] = k
             /\ At(f, 4) = SP
             /\ FrameName(f) = nm
             /\ FrameRaw(f) = raw
    BY <1>0
<1>1. a \in Seq(S) /\ Len(a) = 4 /\ a[1] = k /\ \A i \in 1..3 : a[1 + i] = nm[i]
    BY <1>0, LeadAt
<1>2. /\ b \in Seq(S) /\ Len(b) = 1 + Len(raw) /\ b[1] = SP
      /\ \A i \in 1..Len(raw) : b[1 + i] = raw[i]
    <2>1. <<SP>> \in Seq(S) /\ Len(<<SP>>) = 1 /\ <<SP>>[1] = SP
        OBVIOUS
    <2>2. QED
        BY <1>0, <2>1, ConcatAt, SMTT(30)
<1>3. /\ f \in Seq(S) /\ Len(f) = 5 + Len(raw)
      /\ \A i \in 1..4 : f[i] = a[i]
      /\ \A i \in 1..Len(b) : f[4 + i] = b[i]
    <2>1. /\ a \o b \in Seq(S)
          /\ Len(a \o b) = Len(a) + Len(b)
          /\ \A i \in 1..Len(a) : (a \o b)[i] = a[i]
          /\ \A i \in 1..Len(b) : (a \o b)[Len(a) + i] = b[i]
        <3>1. a \in Seq(S) /\ b \in Seq(S)
            BY <1>1, <1>2
        <3>2. QED
            BY <3>1, ConcatAt, SMTT(30)
    <2>2. QED
        BY <1>0, <1>1, <1>2, <2>1
<1>4. f[1] = k /\ At(f, 4) = SP
    BY <1>1, <1>2, <1>3 DEF At
<1>5. FrameName(f) = nm
    <2>1. \A i \in 1..3 : f[1 + i] = nm[i]
        BY <1>1, <1>3
    <2>2. Slice(f, 1, 4) = nm
        <3>1. f \in Seq(S) /\ 1 \in Nat /\ 4 \in Nat /\ 4 = 1 + Len(nm) /\ 4 <= Len(f)
            BY <1>3
        <3>2. QED
            BY <3>1, <2>1, SliceIs, ZenonT(60)
    <2>3. QED
        BY <2>2 DEF FrameName
<1>6. FrameRaw(f) = raw
    <2>1. \A i \in 1..Len(raw) : f[5 + i] = raw[i]
        BY <1>2, <1>3, SMTT(60)
    <2>2. Slice(f, 5, Len(f)) = raw
        <3>1. /\ f \in Seq(S) /\ 5 \in Nat /\ Len(f) \in Nat
              /\ Len(f) = 5 + Len(raw) /\ Len(f) <= Len(f)
            BY <1>3
        <3>2. QED
            BY <3>1, <2>1, SliceIs, ZenonT(60)
    <2>3. QED
        BY <1>4, <2>2 DEF FrameRaw
<1>7. QED
    BY <1>3, <1>4, <1>5, <1>6


\* A frame that ends right after the name: DecodePacket reads the kind, the
\* name and an empty raw.
LEMMA LFFrame ==
    ASSUME NEW S, LF \in S, NEW k \in S, NEW nm \in Seq(S), Len(nm) = 3
    PROVE  LET f == Lead(k, nm) \o <<LF>>
           IN  /\ f \in Seq(S)
               /\ Len(f) = 5
               /\ f[1] = k
               /\ At(f, 4) = LF
               /\ FrameName(f) = nm
               /\ FrameRaw(f) = <<>>
<1>0. PICK a, f : a = Lead(k, nm) /\ f = a \o <<LF>>
    OBVIOUS
<1> SUFFICES /\ f \in Seq(S)
             /\ Len(f) = 5
             /\ f[1] = k
             /\ At(f, 4) = LF
             /\ FrameName(f) = nm
             /\ FrameRaw(f) = <<>>
    BY <1>0
<1>1. a \in Seq(S) /\ Len(a) = 4 /\ a[1] = k /\ \A i \in 1..3 : a[1 + i] = nm[i]
    BY <1>0, LeadAt
<1>2. <<LF>> \in Seq(S) /\ Len(<<LF>>) = 1 /\ <<LF>>[1] = LF
    OBVIOUS
<1>3. /\ f \in Seq(S) /\ Len(f) = 5
      /\ \A i \in 1..4 : f[i] = a[i]
      /\ f[5] = LF
    <2>1. /\ a \o <<LF>> \in Seq(S)
          /\ Len(a \o <<LF>>) = Len(a) + 1
          /\ \A i \in 1..Len(a) : (a \o <<LF>>)[i] = a[i]
          /\ (a \o <<LF>>)[Len(a) + 1] = LF
        <3>1. a \in Seq(S) /\ <<LF>> \in Seq(S)
            BY <1>1, <1>2
        <3>2. /\ a \o <<LF>> \in Seq(S)
              /\ Len(a \o <<LF>>) = Len(a) + Len(<<LF>>)
              /\ \A i \in 1..Len(a) : (a \o <<LF>>)[i] = a[i]
              /\ \A i \in 1..Len(<<LF>>) : (a \o <<LF>>)[Len(a) + i] = <<LF>>[i]
            BY <3>1, ConcatAt, SMTT(30)
        <3>3. QED
            BY <3>2, <1>2
    <2>2. QED
        BY <1>0, <1>1, <2>1
<1>4. f[1] = k /\ At(f, 4) = LF
    BY <1>1, <1>3 DEF At
<1>5. FrameName(f) = nm
    <2>1. \A i \in 1..3 : f[1 + i] = nm[i]
        BY <1>1, <1>3
    <2>2. f \in Seq(S) /\ 1 \in Nat /\ 4 \in Nat /\ 4 = 1 + Len(nm) /\ 4 <= Len(f)
        BY <1>3
    <2>3. QED
        BY <2>1, <2>2, SliceIs, ZenonT(60) DEF FrameName
<1>6. FrameRaw(f) = <<>>
    <2>1. LF # SP
        BY DEF LF, SP
    <2>2. QED
        BY <1>4, <2>1 DEF FrameRaw
<1>7. QED
    BY <1>3, <1>4, <1>5, <1>6

-----------------------------------------------------------------------------
(* What MarshalPacket writes, regrouped as DecodePacket reads it.          *)

\* The payload of an Info, Hub or Client packet followed by the LF: the
\* last byte is the LF and data[:len(data)-1] is the payload.
LEMMA TextRaw ==
    ASSUME NEW S, LF \in S, NEW d \in Seq(S)
    PROVE  LET raw == d \o <<LF>>
           IN  /\ raw \in Seq(S)
               /\ Len(raw) = Len(d) + 1
               /\ At(raw, Len(raw) - 1) = LF
               /\ Slice(raw, 0, Len(raw) - 1) = d
<1>0. PICK raw : raw = d \o <<LF>>
    OBVIOUS
<1> SUFFICES /\ raw \in Seq(S)
             /\ Len(raw) = Len(d) + 1
             /\ At(raw, Len(raw) - 1) = LF
             /\ Slice(raw, 0, Len(raw) - 1) = d
    BY <1>0
<1>1. <<LF>> \in Seq(S) /\ Len(<<LF>>) = 1 /\ <<LF>>[1] = LF
    OBVIOUS
<1>2. /\ raw \in Seq(S)
      /\ Len(raw) = Len(d) + 1
      /\ \A i \in 1..Len(d) : raw[i] = d[i]
      /\ raw[Len(d) + 1] = LF
    <2>1. /\ d \o <<LF>> \in Seq(S)
          /\ Len(d \o <<LF>>) = Len(d) + Len(<<LF>>)
          /\ \A i \in 1..Len(d) : (d \o <<LF>>)[i] = d[i]
          /\ \A i \in 1..Len(<<LF>>) : (d \o <<LF>>)[Len(d) + i] = <<LF>>[i]
        BY <1>1, ConcatAt, SMTT(30)
    <2>2. QED
        BY <1>0, <1>1, <2>1
<1>3. At(raw, Len(raw) - 1) = LF
    BY <1>2 DEF At
<1>4. Slice(raw, 0, Len(raw) - 1) = d
    <2>1. /\ raw \in Seq(S) /\ 0 \in Nat /\ Len(raw) - 1 \in Nat
          /\ Len(raw) - 1 = 0 + Len(d) /\ Len(raw) - 1 <= Len(raw)
          /\ \A i \in 1..Len(d) : raw[0 + i] = d[i]
        BY <1>2
    <2>2. QED
        BY <2>1, SliceIs, ZenonT(60)
<1>5. QED
    BY <1>2, <1>3, <1>4

\* A header h followed by the payload part and the LF: the last byte is the
\* LF, the header is where it was written, the byte after it is a space
\* when there is a payload and the LF when there is none, and the payload
\* after the header and the space is the payload that was written.
LEMMA HeaderRaw ==
    ASSUME NEW S, SP \in S, LF \in S, NEW h \in Seq(S), NEW d \in Seq(S)
    PROVE  LET raw == (h \o PayloadPart(d)) \o <<LF>>
           IN  /\ raw \in Seq(S)
               /\ Len(raw) > Len(h)
               /\ At(raw, Len(raw) - 1) = LF
               /\ \A i \in 1..Len(h) : raw[i] = h[i]
               /\ At(raw, Len(h)) = IF d = <<>> THEN LF ELSE SP
               /\ PayloadAfter(raw, Len(h)) = d
<1>0. PICK raw : raw = (h \o PayloadPart(d)) \o <<LF>>
    OBVIOUS
<1> SUFFICES /\ raw \in Seq(S)
             /\ Len(raw) > Len(h)
             /\ At(raw, Len(raw) - 1) = LF
             /\ \A i \in 1..Len(h) : raw[i] = h[i]
             /\ At(raw, Len(h)) = IF d = <<>> THEN LF ELSE SP
             /\ PayloadAfter(raw, Len(h)) = d
    BY <1>0
<1>1. <<LF>> \in Seq(S) /\ Len(<<LF>>) = 1 /\ <<LF>>[1] = LF
    OBVIOUS
<1>2. CASE d = <<>>
    <2>1. raw = h \o <<LF>>
        <3>1. PayloadPart(d) = <<>>
            BY <1>2 DEF PayloadPart
        <3>2. QED
            BY <1>0, <3>1, ConcatEmptySeq
    <2>2. /\ raw \in Seq(S)
          /\ Len(raw) = Len(h) + 1
          /\ \A i \in 1..Len(h) : raw[i] = h[i]
          /\ raw[Len(h) + 1] = LF
        <3>1. /\ h \o <<LF>> \in Seq(S)
              /\ Len(h \o <<LF>>) = Len(h) + Len(<<LF>>)
              /\ \A i \in 1..Len(h) : (h \o <<LF>>)[i] = h[i]
              /\ \A i \in 1..Len(<<LF>>) : (h \o <<LF>>)[Len(h) + i] = <<LF>>[i]
            BY <1>1, ConcatAt, SMTT(30)
        <3>2. QED
            BY <1>1, <2>1, <3>1
    <2>3. PayloadAfter(raw, Len(h)) = <<>>
        BY <2>2 DEF PayloadAfter
    <2>4. QED
        BY <1>2, <2>2, <2>3 DEF At
<1>3. CASE d # <<>>
    <2>1. Len(d) >= 1
        BY <1>3, EmptySeq, LenProperties
    <2>2. PICK q : q = <<SP>> \o d
        OBVIOUS
    <2>3. /\ q \in Seq(S) /\ Len(q) = 1 + Len(d) /\ q[1] = SP
          /\ \A i \in 1..Len(d) : q[1 + i] = d[i]
        <3>1. <<SP>> \in Seq(S) /\ Len(<<SP>>) = 1 /\ <<SP>>[1] = SP
            OBVIOUS
        <3>2. QED
            BY <2>2, <3>1, ConcatAt, SMTT(30)
    <2>4. raw = (h \o q) \o <<LF>>
        <3>1. PayloadPart(d) = q
            BY <2>1, <2>2 DEF PayloadPart
        <3>2. QED
            BY <1>0, <3>1
    <2>5. /\ h \o q \in Seq(S)
          /\ Len(h \o q) = Len(h) + Len(q)
          /\ \A i \in 1..Len(h) : (h \o q)[i] = h[i]
          /\ \A i \in 1..Len(q) : (h \o q)[Len(h) + i] = q[i]
        <3>1. h \in Seq(S) /\ q \in Seq(S)
            BY <2>3
        <3>2. QED
            BY <3>1, ConcatAt, SMTT(30)
    <2>6. /\ raw \in Seq(S)
          /\ Len(raw) = Len(h) + Len(d) + 2
          /\ \A i \in 1..Len(h) + Len(q) : raw[i] = (h \o q)[i]
          /\ raw[Len(h) + Len(q) + 1] = LF
        <3>1. /\ (h \o q) \o <<LF>> \in Seq(S)
              /\ Len((h \o q) \o <<LF>>) = Len(h \o q) + Len(<<LF>>)
              /\ \A i \in 1..Len(h \o q) : ((h \o q) \o <<LF>>)[i] = (h \o q)[i]
              /\ \A i \in 1..Len(<<LF>>) :
                     ((h \o q) \o <<LF>>)[Len(h \o q) + i] = <<LF>>[i]
            BY <1>1, <2>5, ConcatAt, SMTT(30)
        <3>2. QED
            BY <1>1, <2>3, <2>4, <2>5, <3>1
    <2>7. /\ \A i \in 1..Len(h) : raw[i] = h[i]
          /\ raw[Len(h) + 1] = SP
          /\ \A i \in 1..Len(d) : raw[Len(h) + 1 + i] = d[i]
        <3>1. Len(h) \in Nat /\ Len(d) \in Nat
            BY LenProperties
        <3>2. \A i \in 1..Len(h) : raw[i] = h[i]
            BY <3>1, <2>3, <2>5, <2>6
        <3>3. raw[Len(h) + 1] = SP
            <4>1. raw[Len(h) + 1] = (h \o q)[Len(h) + 1]
                <5>1. Len(h) + 1 \in 1..Len(h) + Len(q)
                    BY <3>1, <2>3
                <5>2. \A j \in 1..Len(h) + Len(q) : raw[j] = (h \o q)[j]
                    BY <2>6
                <5>3. QED
                    BY <5>1, <5>2
            <4>2. (h \o q)[Len(h) + 1] = q[1]
                BY <3>1, <2>3, <2>5
            <4>3. QED
                BY <4>1, <4>2, <2>3
        <3>4. ASSUME NEW i \in 1..Len(d) PROVE raw[Len(h) + 1 + i] = d[i]
            <4>1. raw[Len(h) + 1 + i] = (h \o q)[Len(h) + (1 + i)]
                <5>1. /\ Len(h) + 1 + i \in 1..Len(h) + Len(q)
                      /\ Len(h) + 1 + i = Len(h) + (1 + i)
                    BY <3>1, <2>3
                <5>2. \A j \in 1..Len(h) + Len(q) : raw[j] = (h \o q)[j]
                    BY <2>6
                <5>3. QED
                    BY <5>1, <5>2
            <4>2. (h \o q)[Len(h) + (1 + i)] = q[1 + i]
                BY <3>1, <2>3, <2>5
            <4>3. QED
                BY <4>1, <4>2, <2>3
        <3>5. QED
            BY <3>2, <3>3, <3>4
    <2>8. PayloadAfter(raw, Len(h)) = Slice(raw, Len(h) + 1, Len(raw) - 1)
        BY <2>1, <2>6 DEF PayloadAfter
    <2>9. Slice(raw, Len(h) + 1, Len(raw) - 1) = d
        <3>1. /\ raw \in Seq(S) /\ Len(h) + 1 \in Nat /\ Len(raw) - 1 \in Nat
              /\ Len(raw) - 1 = (Len(h) + 1) + Len(d) /\ Len(raw) - 1 <= Len(raw)
              /\ \A i \in 1..Len(d) : raw[(Len(h) + 1) + i] = d[i]
            BY <2>6, <2>7
        <3>2. QED
            BY <3>1, SliceIs, ZenonT(60)
    <2>10. QED
        BY <1>3, <2>3, <2>6, <2>7, <2>8, <2>9 DEF At
<1>4. QED
    BY <1>2, <1>3


-----------------------------------------------------------------------------
(* DecodePacket on the frames MarshalPacket writes.                        *)

\* A frame of bytes from a set without NUL, with a known kind, whose name
\* is followed by a space or the LF, passes DecodePacket's checks.
LEMMA FrameAccepted ==
    ASSUME NEW S, NUL \notin S, NEW f \in Seq(S), Len(f) >= 5,
           f[1] \in KindBytes, At(f, 4) \in {SP, LF}
    PROVE  ~FrameRejected(f)
<1>1. NUL \notin Range(f)
    BY RangeOfSeq
<1>2. QED
    BY <1>1 DEF FrameRejected

\* DecodePacket of a frame whose name is followed by a space hands raw to
\* the kind's UnmarshalPacket.
LEMMA DecodeSpaced ==
    ASSUME NEW S, NUL \notin S, SP \in S, NEW k \in KindBytes \cap S,
           NEW nm \in Seq(S), Len(nm) = 3, NEW raw \in Seq(S)
    PROVE  FixedDecode(Lead(k, nm) \o (<<SP>> \o raw)) = FixedUnmarshal(k, nm, raw)
<1>0. PICK f : f = Lead(k, nm) \o (<<SP>> \o raw)
    OBVIOUS
<1>1. /\ f \in Seq(S) /\ Len(f) = 5 + Len(raw) /\ f[1] = k /\ At(f, 4) = SP
      /\ FrameName(f) = nm /\ FrameRaw(f) = raw
    BY <1>0, SpacedFrame
<1>2. ~FrameRejected(f)
    <2>1. Len(f) >= 5
        BY <1>1, LenProperties
    <2>2. QED
        BY <1>1, <2>1, FrameAccepted
<1>3. QED
    BY <1>0, <1>1, <1>2 DEF FixedDecode

\* DecodePacket of a frame that ends after the name hands an empty raw to
\* the kind's UnmarshalPacket.
LEMMA DecodeBare ==
    ASSUME NEW S, NUL \notin S, LF \in S, NEW k \in KindBytes \cap S,
           NEW nm \in Seq(S), Len(nm) = 3
    PROVE  FixedDecode(Lead(k, nm) \o <<LF>>) = FixedUnmarshal(k, nm, <<>>)
<1>0. PICK f : f = Lead(k, nm) \o <<LF>>
    OBVIOUS
<1>1. /\ f \in Seq(S) /\ Len(f) = 5 /\ f[1] = k /\ At(f, 4) = LF
      /\ FrameName(f) = nm /\ FrameRaw(f) = <<>>
    BY <1>0, LFFrame
<1>2. ~FrameRejected(f)
    <2>1. Len(f) >= 5 /\ f[1] \in KindBytes /\ At(f, 4) \in {SP, LF}
        BY <1>1
    <2>2. QED
        BY <1>1, <2>1, FrameAccepted
<1>3. QED
    BY <1>0, <1>1, <1>2 DEF FixedDecode

\* The UnmarshalPacket of an Info, Hub or Client packet returns the
\* payload written before the LF.
LEMMA TextUnmarshalled ==
    ASSUME NEW S, LF \in S, NEW k \in {"I", "H", "C"}, NEW nm, NEW d \in Seq(S)
    PROVE  FixedUnmarshal(k, nm, d \o <<LF>>) = Ok(Packet(k, nm, <<>>, <<>>, NoFeatures, d))
<1>0. PICK raw : raw = d \o <<LF>>
    OBVIOUS
<1>1. /\ raw \in Seq(S) /\ Len(raw) = Len(d) + 1
      /\ At(raw, Len(raw) - 1) = LF /\ Slice(raw, 0, Len(raw) - 1) = d
    BY <1>0, TextRaw
<1>2. Len(raw) # 0 /\ ~(Len(raw) < 1)
    BY <1>1, LenProperties
<1>3. CASE k = "I"
    <2>1. InfoUnmarshal(nm, raw) = Ok(Packet("I", nm, <<>>, <<>>, NoFeatures, d))
        BY <1>1, <1>2 DEF InfoUnmarshal
    <2>2. QED
        BY <1>0, <1>3, <2>1 DEF FixedUnmarshal
<1>4. CASE k \in {"H", "C"}
    <2>1. TextUnmarshal(k, nm, raw) = Ok(Packet(k, nm, <<>>, <<>>, NoFeatures, d))
        BY <1>1, <1>2 DEF TextUnmarshal
    <2>2. QED
        BY <1>0, <1>4, <2>1 DEF FixedUnmarshal
<1>5. QED
    BY <1>3, <1>4


\* A field of n base32 digits is a sequence of n digits.
LEMMA SidSeq ==
    ASSUME NEW n \in Nat, NEW id \in [1..n -> Base32]
    PROVE  id \in Seq(Base32) /\ Len(id) = n
<1>1. id \in Seq(Base32)
    BY SeqDef
<1>2. DOMAIN id = 1..Len(id) /\ Len(id) \in Nat
    BY <1>1, LenProperties
<1>3. QED
    BY <1>1, <1>2

\* An encoded SID or CID is base32 and a sequence of bytes.
LEMMA Base32Field ==
    ASSUME NEW S, Base32 \subseteq S, NEW id \in Seq(Base32)
    PROVE  id \in Seq(S) /\ IsBase32(id)
<1>1. id \in Seq(S)
    BY SeqMonotonic
<1>2. IsBase32(id)
    BY ElementOfSeq, LenProperties DEF IsBase32
<1>3. QED
    BY <1>1, <1>2

\* The UnmarshalPacket of a Broadcast or UDP packet returns the SID or CID
\* and the payload written after it.
LEMMA IdUnmarshalled ==
    ASSUME NEW S, SP \in S, LF \in S, Base32 \subseteq S,
           NEW k \in {"B", "U"}, NEW nm,
           NEW id \in Seq(Base32), Len(id) = IF k = "B" THEN 4 ELSE CIDLen,
           NEW d \in Seq(S)
    PROVE  UnmarshalsTo(k, nm, (id \o PayloadPart(d)) \o <<LF>>,
                        Packet(k, nm, id, <<>>, NoFeatures, d))
<1>0. PICK raw : raw = (id \o PayloadPart(d)) \o <<LF>>
    OBVIOUS
<1>1. id \in Seq(S) /\ IsBase32(id)
    BY Base32Field
<1>2. /\ raw \in Seq(S)
      /\ Len(raw) > Len(id)
      /\ At(raw, Len(raw) - 1) = LF
      /\ \A i \in 1..Len(id) : raw[i] = id[i]
      /\ At(raw, Len(id)) \in {SP, LF}
      /\ PayloadAfter(raw, Len(id)) = d
    <2>1. LET r == (id \o PayloadPart(d)) \o <<LF>>
          IN  /\ r \in Seq(S)
              /\ Len(r) > Len(id)
              /\ At(r, Len(r) - 1) = LF
              /\ \A i \in 1..Len(id) : r[i] = id[i]
              /\ At(r, Len(id)) = IF d = <<>> THEN LF ELSE SP
              /\ PayloadAfter(r, Len(id)) = d
        BY <1>1, HeaderRaw
    <2>2. QED
        BY <1>0, <2>1
<1>3. Slice(raw, 0, Len(id)) = id
    <2>1. /\ raw \in Seq(S) /\ 0 \in Nat /\ Len(id) \in Nat
          /\ Len(id) = 0 + Len(id) /\ Len(id) <= Len(raw)
          /\ \A i \in 1..Len(id) : raw[0 + i] = id[i]
        BY <1>1, <1>2, LenProperties
    <2>2. QED
        BY <1>1, <2>1, SliceIs, ZenonT(60)
<1>4. CASE k = "B"
    <2>1. BroadcastUnmarshal(nm, raw) = Ok(Packet("B", nm, id, <<>>, NoFeatures, d))
        BY <1>1, <1>2, <1>3, <1>4 DEF BroadcastUnmarshal
    <2>2. QED
        BY <1>0, <1>4, <2>1 DEF FixedUnmarshal, UnmarshalsTo
<1>5. CASE k = "U"
    <2>1. UDPUnmarshal(nm, raw) = Ok(Packet("U", nm, id, <<>>, NoFeatures, d))
        BY <1>1, <1>2, <1>3, <1>5 DEF UDPUnmarshal
    <2>2. QED
        BY <1>0, <1>5, <2>1 DEF FixedUnmarshal, UnmarshalsTo
<1>6. QED
    BY <1>4, <1>5


\* The header of a Direct or Echo packet: the source SID, a space and the
\* target SID.
LEMMA DirectHeader ==
    ASSUME NEW S, SP \in S, NEW id \in Seq(S), NEW targ \in Seq(S),
           NEW h, h = (id \o <<SP>>) \o targ
    PROVE  /\ h \in Seq(S)
           /\ Len(h) = Len(id) + 1 + Len(targ)
           /\ \A i \in 1..Len(id) : h[i] = id[i]
           /\ h[Len(id) + 1] = SP
           /\ \A i \in 1..Len(targ) : h[Len(id) + 1 + i] = targ[i]
<1>0. PICK u, g : /\ u = <<SP>> /\ g = id \o u /\ h = g \o targ
    OBVIOUS
<1>1. u \in Seq(S) /\ Len(u) = 1 /\ u[1] = SP
    BY <1>0
<1>2. /\ g \in Seq(S) /\ Len(g) = Len(id) + 1
      /\ \A i \in 1..Len(id) : g[i] = id[i]
      /\ g[Len(id) + 1] = SP
    <2>1. /\ id \o u \in Seq(S)
          /\ Len(id \o u) = Len(id) + Len(u)
          /\ \A i \in 1..Len(id) : (id \o u)[i] = id[i]
          /\ \A i \in 1..Len(u) : (id \o u)[Len(id) + i] = u[i]
        <3>1. u \in Seq(S)
            BY <1>1
        <3>2. QED
            BY <3>1, ConcatAt, SMTT(30)
    <2>2. QED
        BY <1>0, <1>1, <2>1
<1>3. /\ h \in Seq(S) /\ Len(h) = Len(g) + Len(targ)
      /\ \A i \in 1..Len(g) : h[i] = g[i]
      /\ \A i \in 1..Len(targ) : h[Len(g) + i] = targ[i]
    <2>1. /\ g \o targ \in Seq(S)
          /\ Len(g \o targ) = Len(g) + Len(targ)
          /\ \A i \in 1..Len(g) : (g \o targ)[i] = g[i]
          /\ \A i \in 1..Len(targ) : (g \o targ)[Len(g) + i] = targ[i]
        <3>1. g \in Seq(S)
            BY <1>2
        <3>2. QED
            BY <3>1, ConcatAt, SMTT(30)
    <2>2. QED
        BY <1>0, <2>1
<1>4. QED
    BY <1>0, <1>2, <1>3

\* The UnmarshalPacket of a Direct or Echo packet returns the two SIDs and
\* the payload written after them.
LEMMA DirectUnmarshalled ==
    ASSUME NEW S, SP \in S, LF \in S, Base32 \subseteq S,
           NEW k \in {"D", "E"}, NEW nm,
           NEW id \in [1..4 -> Base32], NEW targ \in [1..4 -> Base32],
           NEW d \in Seq(S)
    PROVE  FixedUnmarshal(k, nm, (((id \o <<SP>>) \o targ) \o PayloadPart(d)) \o <<LF>>)
             = Ok(Packet(k, nm, id, targ, NoFeatures, d))
<1>0. /\ id \in Seq(Base32) /\ Len(id) = 4
      /\ targ \in Seq(Base32) /\ Len(targ) = 4
    BY SidSeq
<1>1. id \in Seq(S) /\ IsBase32(id) /\ targ \in Seq(S) /\ IsBase32(targ)
    BY <1>0, Base32Field
<1>2. PICK h : h = (id \o <<SP>>) \o targ
    OBVIOUS
<1>3. /\ h \in Seq(S)
      /\ Len(h) = Len(id) + 1 + Len(targ)
      /\ \A i \in 1..Len(id) : h[i] = id[i]
      /\ h[Len(id) + 1] = SP
      /\ \A i \in 1..Len(targ) : h[Len(id) + 1 + i] = targ[i]
    <2>1. id \in Seq(S) /\ targ \in Seq(S)
        BY <1>1
    <2>2. QED
        BY <1>2, <2>1, DirectHeader
<1>4. /\ h \in Seq(S) /\ Len(h) = 9
      /\ \A i \in 1..4 : h[i] = id[i]
      /\ h[5] = SP
      /\ \A i \in 1..4 : h[5 + i] = targ[i]
    BY <1>0, <1>3
<1>5. LET r == (h \o PayloadPart(d)) \o <<LF>>
      IN  /\ r \in Seq(S)
          /\ Len(r) > Len(h)
          /\ At(r, Len(r) - 1) = LF
          /\ \A i \in 1..Len(h) : r[i] = h[i]
          /\ At(r, Len(h)) = IF d = <<>> THEN LF ELSE SP
          /\ PayloadAfter(r, Len(h)) = d
    <2>1. h \in Seq(S)
        BY <1>4
    <2>2. QED
        BY <2>1, HeaderRaw
<1>6. PICK raw : raw = (h \o PayloadPart(d)) \o <<LF>>
    OBVIOUS
<1>7. /\ raw \in Seq(S)
      /\ Len(raw) > 9
      /\ At(raw, Len(raw) - 1) = LF
      /\ \A i \in 1..9 : raw[i] = h[i]
      /\ At(raw, 9) \in {SP, LF}
      /\ PayloadAfter(raw, 9) = d
    BY <1>4, <1>5, <1>6
<1>8. At(raw, 4) = SP
    BY <1>4, <1>7 DEF At
<1>9. Slice(raw, 0, 4) = id
    <2>1. /\ raw \in Seq(S) /\ 0 \in Nat /\ 4 \in Nat
          /\ 4 = 0 + Len(id) /\ 4 <= Len(raw)
          /\ \A i \in 1..Len(id) : raw[0 + i] = id[i]
        BY <1>0, <1>4, <1>7
    <2>2. QED
        BY <1>1, <2>1, SliceIs, ZenonT(60)
<1>10. Slice(raw, 5, 9) = targ
    <2>1. /\ raw \in Seq(S) /\ 5 \in Nat /\ 9 \in Nat
          /\ 9 = 5 + Len(targ) /\ 9 <= Len(raw)
          /\ \A i \in 1..Len(targ) : raw[5 + i] = targ[i]
        BY <1>0, <1>4, <1>7
    <2>2. QED
        BY <1>1, <2>1, SliceIs, ZenonT(30)
<1>11. DirectUnmarshal(k, nm, raw) = Ok(Packet(k, nm, id, targ, NoFeatures, d))
    BY <1>1, <1>7, <1>8, <1>9, <1>10 DEF DirectUnmarshal
<1>12. QED
    BY <1>2, <1>6, <1>11 DEF FixedUnmarshal


-----------------------------------------------------------------------------
(* MarshalPacket's frame, kind by kind.                                    *)

\* A Hub, Client or Info packet with a payload: the lead, a space, the
\* payload and the LF.
LEMMA TextMarshalled ==
    ASSUME NEW S, SP \in S, LF \in S, NEW k \in {"I", "H", "C"} \cap S,
           NEW nm \in Seq(S), NEW id, NEW targ, NEW fea,
           NEW d \in Seq(S), d # <<>>
    PROVE  FixedMarshal(Packet(k, nm, id, targ, fea, d))
             = Lead(k, nm) \o (<<SP>> \o (d \o <<LF>>))
<1>1. Lead(k, nm) \in Seq(S)
    BY LeadSeq
<1>2. /\ FixedHeader(Packet(k, nm, id, targ, fea, d)) = <<>>
      /\ PayloadPart(d) = <<SP>> \o d
    <2>1. Len(d) > 0
        BY EmptySeq
    <2>2. QED
        BY <2>1 DEF FixedHeader, Packet, PayloadPart
<1>3. FixedMarshal(Packet(k, nm, id, targ, fea, d))
        = ((Lead(k, nm) \o <<>>) \o (<<SP>> \o d)) \o <<LF>>
    BY <1>2 DEF FixedMarshal, Packet, Lead
<1>4. Lead(k, nm) \o <<>> = Lead(k, nm)
    BY <1>1, ConcatEmptySeq
<1>5. (Lead(k, nm) \o (<<SP>> \o d)) \o <<LF>> = Lead(k, nm) \o ((<<SP>> \o d) \o <<LF>>)
    <2>1. <<SP>> \o d \in Seq(S) /\ <<LF>> \in Seq(S)
        BY ConcatAt, SMTT(30)
    <2>2. QED
        BY <1>1, <2>1, ConcatAssociative
<1>6. (<<SP>> \o d) \o <<LF>> = <<SP>> \o (d \o <<LF>>)
    <2>1. <<SP>> \in Seq(S) /\ <<LF>> \in Seq(S)
        OBVIOUS
    <2>2. QED
        BY <2>1, ConcatAssociative
<1>7. QED
    BY <1>3, <1>4, <1>5, <1>6

\* A packet of a kind with no header and an empty payload: the lead and
\* the LF.
LEMMA BareMarshalled ==
    ASSUME NEW S, NEW k \in {"I", "H", "C"} \cap S,
           NEW nm \in Seq(S), NEW id, NEW targ, NEW fea
    PROVE  FixedMarshal(Packet(k, nm, id, targ, fea, <<>>)) = Lead(k, nm) \o <<LF>>
<1>1. Lead(k, nm) \in Seq(S)
    BY LeadSeq
<1>2. /\ FixedHeader(Packet(k, nm, id, targ, fea, <<>>)) = <<>>
      /\ PayloadPart(<<>>) = <<>>
    BY DEF FixedHeader, Packet, PayloadPart
<1>3. FixedMarshal(Packet(k, nm, id, targ, fea, <<>>))
        = ((Lead(k, nm) \o <<>>) \o <<>>) \o <<LF>>
    BY <1>2 DEF FixedMarshal, Packet, Lead
<1>4. QED
    BY <1>1, <1>3, ConcatEmptySeq

\* A Broadcast or UDP packet: the lead, a space, the SID or CID, the
\* payload part and the LF.
LEMMA IdMarshalled ==
    ASSUME NEW S, SP \in S, LF \in S, NEW k \in {"B", "U"} \cap S,
           NEW nm \in Seq(S), NEW id \in Seq(S), NEW targ, NEW fea,
           NEW d \in Seq(S)
    PROVE  MarshalsTo(Packet(k, nm, id, targ, fea, d),
                      Lead(k, nm) \o (<<SP>> \o ((id \o PayloadPart(d)) \o <<LF>>)))
<1>1. FixedMarshal(Packet(k, nm, id, targ, fea, d))
        = ((Lead(k, nm) \o (<<SP>> \o id)) \o PayloadPart(d)) \o <<LF>>
    BY DEF FixedMarshal, FixedHeader, Packet, Lead
<1>2. Lead(k, nm) \in Seq(S) /\ PayloadPart(d) \in Seq(S)
    <2>1. <<SP>> \o d \in Seq(S)
        BY ConcatAt, SMTT(30)
    <2>2. QED
        BY <2>1, LeadSeq DEF PayloadPart
<1>3. PICK ld, pp : ld = Lead(k, nm) /\ pp = PayloadPart(d)
    OBVIOUS
<1>4. ((ld \o (<<SP>> \o id)) \o pp) \o <<LF>> = ld \o (<<SP>> \o ((id \o pp) \o <<LF>>))
    <2>1. ld \in Seq(S) /\ pp \in Seq(S)
        BY <1>2, <1>3
    <2>2. QED
        BY <2>1, SMTT(60)
<1>5. QED
    BY <1>1, <1>3, <1>4 DEF MarshalsTo

\* A Direct or Echo packet: the lead, a space, the source SID, a space, the
\* target SID, the payload part and the LF.
LEMMA DirectMarshalled ==
    ASSUME NEW S, SP \in S, LF \in S, NEW k \in {"D", "E"} \cap S,
           NEW nm \in Seq(S), NEW id \in Seq(S), NEW targ \in Seq(S),
           NEW fea, NEW d \in Seq(S)
    PROVE  MarshalsTo(Packet(k, nm, id, targ, fea, d),
                      Lead(k, nm) \o (<<SP>> \o ((((id \o <<SP>>) \o targ) \o PayloadPart(d)) \o <<LF>>)))
<1>1. <<SP>> \in Seq(S) /\ (id \o <<SP>>) \o targ \in Seq(S)
    <2>1. <<SP>> \in Seq(S)
        OBVIOUS
    <2>2. id \o <<SP>> \in Seq(S)
        BY <2>1, ConcatAt, SMTT(30)
    <2>3. QED
        BY <2>1, <2>2, ConcatAt, SMTT(30)
<1>2. ((<<SP>> \o id) \o <<SP>>) \o targ = <<SP>> \o ((id \o <<SP>>) \o targ)
    <2>1. (<<SP>> \o id) \o <<SP>> = <<SP>> \o (id \o <<SP>>)
        BY <1>1, ConcatAssociative
    <2>2. id \o <<SP>> \in Seq(S)
        BY <1>1, ConcatAt, SMTT(30)
    <2>3. (<<SP>> \o (id \o <<SP>>)) \o targ = <<SP>> \o ((id \o <<SP>>) \o targ)
        BY <1>1, <2>2, ConcatAssociative
    <2>4. QED
        BY <2>1, <2>3
<1>3. FixedMarshal(Packet(k, nm, id, targ, fea, d))
        = ((Lead(k, nm) \o (((<<SP>> \o id) \o <<SP>>) \o targ)) \o PayloadPart(d)) \o <<LF>>
    BY DEF FixedMarshal, FixedHeader, Packet, Lead
<1>4. Lead(k, nm) \in Seq(S) /\ PayloadPart(d) \in Seq(S)
    <2>1. <<SP>> \o d \in Seq(S)
        BY ConcatAt, SMTT(30)
    <2>2. QED
        BY <2>1, LeadSeq DEF PayloadPart
<1>5. PICK ld, pp, hd : /\ ld = Lead(k, nm) /\ pp = PayloadPart(d)
                        /\ hd = (id \o <<SP>>) \o targ
    OBVIOUS
<1>6. ((ld \o (<<SP>> \o hd)) \o pp) \o <<LF>> = ld \o (<<SP>> \o ((hd \o pp) \o <<LF>>))
    <2>1. ld \in Seq(S) /\ pp \in Seq(S) /\ hd \in Seq(S)
        BY <1>1, <1>4, <1>5
    <2>2. QED
        BY <2>1, SMTT(60)
<1>7. QED
    BY <1>2, <1>3, <1>5, <1>6 DEF MarshalsTo

-----------------------------------------------------------------------------
(* MarshalPacket then DecodePacket, kind by kind.  The name is the three  *)
(* bytes after the kind (nm \in [1..3 -> S]); S is the set of bytes the   *)
(* name and the payload are made of, which has no NUL, as DecodePacket    *)
(* rejects every frame with one.                                           *)

\* A field of n bytes of T is a sequence over T of length n.
LEMMA FieldSeq ==
    ASSUME NEW T, NEW n \in Nat, NEW f \in [1..n -> T]
    PROVE  f \in Seq(T) /\ Len(f) = n
<1>1. f \in Seq(T)
    BY SeqDef
<1>2. DOMAIN f = 1..Len(f) /\ Len(f) \in Nat
    BY <1>1, LenProperties
<1>3. QED
    BY <1>1, <1>2

\* The name after the kind, three bytes of S, is a sequence of length 3.
LEMMA NameField ==
    ASSUME NEW S, NEW nm \in [1..3 -> S]
    PROVE  nm \in Seq(S) /\ 3 = Len(nm)
BY FieldSeq

\* The length of the SID or CID and of the target SID a kind carries.
IdLen(k) == CASE k \in {"I", "H", "C"} -> 0
              [] k \in {"B", "D", "E"} -> 4
              [] k = "U" -> CIDLen
TargLen(k) == IF k \in {"D", "E"} THEN 4 ELSE 0

\* An Info, Hub or Client packet with a payload comes back as it was sent.
LEMMA TextRoundTrip ==
    ASSUME NEW S, NUL \notin S, SP \in S, LF \in S, KindBytes \subseteq S,
           NEW k \in {"I", "H", "C"}, NEW nm \in [1..3 -> S],
           NEW d \in Seq(S), d # <<>>
    PROVE  LET pkt == Packet(k, nm, <<>>, <<>>, NoFeatures, d)
           IN  FixedDecode(FixedMarshal(pkt)) = Ok(pkt)
<1>1. nm \in Seq(S) /\ 3 = Len(nm)
    BY NameField
<1>2. k \in KindBytes \cap S /\ k \in {"I", "H", "C"} \cap S
    BY DEF KindBytes
<1>3. FixedMarshal(Packet(k, nm, <<>>, <<>>, NoFeatures, d))
        = Lead(k, nm) \o (<<SP>> \o (d \o <<LF>>))
    BY <1>1, <1>2, TextMarshalled
<1>4. PICK raw : raw = d \o <<LF>>
    OBVIOUS
<1>5. raw \in Seq(S)
    <2>1. <<LF>> \in Seq(S)
        OBVIOUS
    <2>2. QED
        BY <1>4, <2>1, ConcatAt, SMTT(30)
<1>6. FixedDecode(Lead(k, nm) \o (<<SP>> \o raw)) = FixedUnmarshal(k, nm, raw)
    BY <1>1, <1>2, <1>5, DecodeSpaced
<1>7. FixedUnmarshal(k, nm, raw) = Ok(Packet(k, nm, <<>>, <<>>, NoFeatures, d))
    BY <1>4, TextUnmarshalled
<1>8. QED
    BY <1>3, <1>4, <1>6, <1>7


\* An Info packet without a payload is marshalled as the kind, the name
\* and the LF, and InfoPacket.UnmarshalPacket accepts the empty data.
LEMMA InfoBareRoundTrip ==
    ASSUME NEW S, NUL \notin S, LF \in S, KindBytes \subseteq S,
           NEW nm \in [1..3 -> S]
    PROVE  LET pkt == Packet("I", nm, <<>>, <<>>, NoFeatures, <<>>)
           IN  FixedDecode(FixedMarshal(pkt)) = Ok(pkt)
<1>1. nm \in Seq(S) /\ 3 = Len(nm)
    BY NameField
<1>2. "I" \in KindBytes \cap S /\ "I" \in {"I", "H", "C"} \cap S
    BY DEF KindBytes
<1>3. FixedMarshal(Packet("I", nm, <<>>, <<>>, NoFeatures, <<>>)) = Lead("I", nm) \o <<LF>>
    BY <1>1, <1>2, BareMarshalled
<1>4. FixedDecode(Lead("I", nm) \o <<LF>>) = FixedUnmarshal("I", nm, <<>>)
    BY <1>1, <1>2, DecodeBare
<1>5. FixedUnmarshal("I", nm, <<>>) = Ok(Packet("I", nm, <<>>, <<>>, NoFeatures, <<>>))
    BY DEF FixedUnmarshal, InfoUnmarshal
<1>6. QED
    BY <1>3, <1>4, <1>5

\* A Hub or Client packet without a payload is marshalled as the kind, the
\* name and the LF, and Hub/ClientPacket.UnmarshalPacket rejects the empty
\* data (len(data) < 1): MarshalPacket writes a frame DecodePacket refuses,
\* for every name, which the codec runs show for the names they try.
THEOREM EmptyTextLost ==
    ASSUME NEW S, NUL \notin S, LF \in S, KindBytes \subseteq S,
           NEW k \in {"H", "C"}, NEW nm \in [1..3 -> S]
    PROVE  FixedDecode(FixedMarshal(Packet(k, nm, <<>>, <<>>, NoFeatures, <<>>))) = Err
<1>1. nm \in Seq(S) /\ 3 = Len(nm)
    BY NameField
<1>2. k \in KindBytes \cap S /\ k \in {"I", "H", "C"} \cap S
    BY DEF KindBytes
<1>3. FixedMarshal(Packet(k, nm, <<>>, <<>>, NoFeatures, <<>>)) = Lead(k, nm) \o <<LF>>
    BY <1>1, <1>2, BareMarshalled
<1>4. FixedDecode(Lead(k, nm) \o <<LF>>) = FixedUnmarshal(k, nm, <<>>)
    BY <1>1, <1>2, DecodeBare
<1>5. FixedUnmarshal(k, nm, <<>>) = Err
    BY DEF FixedUnmarshal, TextUnmarshal
<1>6. QED
    BY <1>3, <1>4, <1>5


\* A Broadcast or UDP packet comes back as it was sent: the SID or CID is
\* read back from the bytes after the name, the payload after it.
LEMMA IdRoundTrip ==
    ASSUME NEW S, NUL \notin S, SP \in S, LF \in S,
           KindBytes \subseteq S, Base32 \subseteq S,
           NEW k \in {"B", "U"}, NEW nm \in [1..3 -> S],
           NEW id \in [1..IdLen(k) -> Base32],
           NEW d \in Seq(S)
    PROVE  LET pkt == Packet(k, nm, id, <<>>, NoFeatures, d)
           IN  FixedDecode(FixedMarshal(pkt)) = Ok(pkt)
<1>1. nm \in Seq(S) /\ 3 = Len(nm)
    BY NameField
<1>2. k \in KindBytes \cap S /\ k \in {"B", "U"} \cap S
    BY DEF KindBytes
<1>3. id \in Seq(Base32) /\ Len(id) = IF k = "B" THEN 4 ELSE CIDLen
    <2>1. IdLen(k) \in Nat /\ IdLen(k) = IF k = "B" THEN 4 ELSE CIDLen
        BY DEF IdLen
    <2>2. id \in Seq(Base32) /\ Len(id) = IdLen(k)
        BY <2>1, FieldSeq
    <2>3. QED
        BY <2>1, <2>2
<1>4. id \in Seq(S)
    BY <1>3, SeqMonotonic
<1>5. FixedMarshal(Packet(k, nm, id, <<>>, NoFeatures, d))
        = Lead(k, nm) \o (<<SP>> \o ((id \o PayloadPart(d)) \o <<LF>>))
    <2>1. nm \in Seq(S) /\ k \in {"B", "U"} \cap S
        BY <1>1, <1>2
    <2>2. MarshalsTo(Packet(k, nm, id, <<>>, NoFeatures, d),
                     Lead(k, nm) \o (<<SP>> \o ((id \o PayloadPart(d)) \o <<LF>>)))
        BY <2>1, <1>4, IdMarshalled
    <2>3. QED
        BY <2>2 DEF MarshalsTo
<1>6. PICK raw : raw = (id \o PayloadPart(d)) \o <<LF>>
    OBVIOUS
<1>7. raw \in Seq(S)
    <2>1. PayloadPart(d) \in Seq(S) /\ <<LF>> \in Seq(S)
        <3>1. <<SP>> \in Seq(S)
            OBVIOUS
        <3>2. QED
            BY <3>1, ConcatAt, SMTT(30) DEF PayloadPart
    <2>2. id \o PayloadPart(d) \in Seq(S)
        BY <1>4, <2>1, ConcatAt, SMTT(30)
    <2>3. QED
        BY <1>6, <2>1, <2>2, ConcatAt, SMTT(30)
<1>8. FixedDecode(Lead(k, nm) \o (<<SP>> \o raw)) = FixedUnmarshal(k, nm, raw)
    BY <1>1, <1>2, <1>7, DecodeSpaced
<1>9. FixedUnmarshal(k, nm, (id \o PayloadPart(d)) \o <<LF>>)
        = Ok(Packet(k, nm, id, <<>>, NoFeatures, d))
    <2>1. UnmarshalsTo(k, nm, (id \o PayloadPart(d)) \o <<LF>>,
                       Packet(k, nm, id, <<>>, NoFeatures, d))
        BY <1>3, IdUnmarshalled
    <2>2. QED
        BY <2>1 DEF UnmarshalsTo
<1>10. QED
    BY <1>5, <1>6, <1>8, <1>9

\* A Direct or Echo packet comes back as it was sent: both SIDs and the
\* payload are read back from where MarshalPacket wrote them.
LEMMA DirectRoundTrip ==
    ASSUME NEW S, NUL \notin S, SP \in S, LF \in S,
           KindBytes \subseteq S, Base32 \subseteq S,
           NEW k \in {"D", "E"}, NEW nm \in [1..3 -> S],
           NEW id \in [1..4 -> Base32], NEW targ \in [1..4 -> Base32],
           NEW d \in Seq(S)
    PROVE  LET pkt == Packet(k, nm, id, targ, NoFeatures, d)
           IN  FixedDecode(FixedMarshal(pkt)) = Ok(pkt)
<1>1. nm \in Seq(S) /\ 3 = Len(nm)
    BY NameField
<1>2. k \in KindBytes \cap S /\ k \in {"D", "E"} \cap S
    BY DEF KindBytes
<1>3. id \in Seq(S) /\ targ \in Seq(S)
    <2>1. id \in Seq(Base32) /\ targ \in Seq(Base32)
        BY FieldSeq
    <2>2. QED
        BY <2>1, SeqMonotonic
<1>4. FixedMarshal(Packet(k, nm, id, targ, NoFeatures, d))
        = Lead(k, nm) \o (<<SP>> \o ((((id \o <<SP>>) \o targ) \o PayloadPart(d)) \o <<LF>>))
    <2>1. nm \in Seq(S) /\ k \in {"D", "E"} \cap S
        BY <1>1, <1>2
    <2>2. MarshalsTo(Packet(k, nm, id, targ, NoFeatures, d),
                     Lead(k, nm) \o (<<SP>> \o ((((id \o <<SP>>) \o targ) \o PayloadPart(d)) \o <<LF>>)))
        BY <2>1, <1>3, DirectMarshalled
    <2>3. QED
        BY <2>2 DEF MarshalsTo
<1>5. PICK raw : raw = (((id \o <<SP>>) \o targ) \o PayloadPart(d)) \o <<LF>>
    OBVIOUS
<1>6. raw \in Seq(S)
    <2>1. <<SP>> \in Seq(S) /\ <<LF>> \in Seq(S)
        OBVIOUS
    <2>2. PayloadPart(d) \in Seq(S)
        BY <2>1, ConcatAt, SMTT(30) DEF PayloadPart
    <2>3. id \o <<SP>> \in Seq(S)
        BY <1>3, <2>1, ConcatAt, SMTT(30)
    <2>4. (id \o <<SP>>) \o targ \in Seq(S)
        BY <1>3, <2>3, ConcatAt, SMTT(30)
    <2>5. ((id \o <<SP>>) \o targ) \o PayloadPart(d) \in Seq(S)
        BY <2>2, <2>4, ConcatAt, SMTT(30)
    <2>6. QED
        BY <1>5, <2>1, <2>5, ConcatAt, SMTT(30)
<1>7. FixedDecode(Lead(k, nm) \o (<<SP>> \o raw)) = FixedUnmarshal(k, nm, raw)
    BY <1>1, <1>2, <1>6, DecodeSpaced
<1>8. FixedUnmarshal(k, nm, (((id \o <<SP>>) \o targ) \o PayloadPart(d)) \o <<LF>>)
        = Ok(Packet(k, nm, id, targ, NoFeatures, d))
    BY DirectUnmarshalled
<1>9. QED
    BY <1>4, <1>5, <1>7, <1>8


\* A field of no bytes is the empty sequence.
LEMMA NoField ==
    ASSUME NEW T, NEW f \in [1..0 -> T]
    PROVE  f = <<>>
<1>1. f \in Seq(T) /\ Len(f) = 0
    BY FieldSeq
<1>2. QED
    BY <1>1, EmptySeq

\* MarshalPacket then DecodePacket gives back every packet of a kind with a
\* fixed header (all but Feature) whose name is three bytes, whose SIDs are
\* 4 and whose CID is CIDLen base32 digits, and whose payload is made of
\* bytes other than NUL, of any length and for every CIDLen, with one
\* exception: a Hub or Client packet needs a payload (see EmptyTextLost).
THEOREM FixedRoundTrip ==
    ASSUME NEW S, NUL \notin S, SP \in S, LF \in S,
           KindBytes \subseteq S, Base32 \subseteq S,
           NEW k \in KindBytes \ {"F"}, NEW nm \in [1..3 -> S],
           NEW id \in [1..IdLen(k) -> Base32], NEW targ \in [1..TargLen(k) -> Base32],
           NEW d \in Seq(S), k \in {"H", "C"} => d # <<>>
    PROVE  LET pkt == Packet(k, nm, id, targ, NoFeatures, d)
           IN  FixedDecode(FixedMarshal(pkt)) = Ok(pkt)
<1>1. CASE k \in {"I", "H", "C"} /\ d # <<>>
    <2>1. id = <<>> /\ targ = <<>>
        <3>1. IdLen(k) = 0 /\ TargLen(k) = 0
            BY <1>1 DEF IdLen, TargLen
        <3>2. QED
            BY <3>1, NoField
    <2>2. QED
        BY <1>1, <2>1, TextRoundTrip
<1>2. CASE k \in {"I", "H", "C"} /\ d = <<>>
    <2>1. id = <<>> /\ targ = <<>>
        <3>1. IdLen(k) = 0 /\ TargLen(k) = 0
            BY <1>2 DEF IdLen, TargLen
        <3>2. QED
            BY <3>1, NoField
    <2>2. k = "I"
        BY <1>2
    <2>3. QED
        BY <1>2, <2>1, <2>2, InfoBareRoundTrip
<1>3. CASE k \in {"B", "U"}
    <2>1. targ = <<>>
        <3>1. TargLen(k) = 0
            BY <1>3 DEF TargLen
        <3>2. QED
            BY <3>1, NoField
    <2>2. QED
        BY <1>3, <2>1, IdRoundTrip
<1>4. CASE k \in {"D", "E"}
    <2>1. IdLen(k) = 4 /\ TargLen(k) = 4
        BY <1>4 DEF IdLen, TargLen
    <2>2. QED
        BY <1>4, <2>1, DirectRoundTrip
<1>5. QED
    BY <1>1, <1>2, <1>3, <1>4 DEF KindBytes


=============================================================================
