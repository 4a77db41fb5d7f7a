--------------------------- MODULE ClientDialProofs ---------------------------
(***************************************************************************)
(* Proofs that the client-to-client handshake authenticates both ends, for *)
(* any sequences the impostor sends: a Dial that succeeds is connected to  *)
(* Target, which had accepted Self's token, and a peer's handshakeActive   *)
(* succeeds only with Self.                                                *)
(*                                                                         *)
(* The argument is about what the channels can hold.  Every INF the active *)
(* side writes carries its own CID and is written as it finishes, so an    *)
(* INF read by handshakePassive names the peer Self dialed, which has      *)
(* finished.  The only writer to an impostor's link is the impostor, which *)
(* has no token, so the token check of handshakeActive never passes there. *)
(***************************************************************************)
EXTENDS ClientDial, SequenceTheorems, TLAPS

\* Before adc.Dial, no link of Self's has started a handshake.
SelfIdle ==
    dpc \in {"start", "wait", "dial"} => \A a \in Actives : apc[<<a, Self>>] = "none"

\* From adc.Dial on, Self's link is a link.
DialedLink == dpc \in {"send", "readSup", "readInf", "ok"} => dialed \in Actives

\* Every INF on its way to a connector is the acceptor's own, and the
\* acceptor has finished.
RepliesGenuine ==
    \A l \in Links : \A m \in Range(toC[l]) :
        m.type = "INF" => m.cid = l[1] /\ apc[l] = "ok"

\* Nothing on an impostor's link carries the token.
ForgedOnly == \A a \in Actives : \A m \in Range(toA[<<a, Impostor>>]) : m.token # Tok

\* An acceptor that has passed the token check is talking to Self.
AcceptedSelf == \A l \in Links : apc[l] \in {"sendInf", "ok"} => l[2] = Self

\* A successful Dial reached Target, which finished its side.
DialDone == dpc = "ok" => dialed = Target /\ apc[DLink] = "ok"

IInv ==
    /\ TypeOK /\ SelfIdle /\ DialedLink /\ RepliesGenuine /\ ForgedOnly
    /\ AcceptedSelf /\ DialDone

USE DialAssumption

-----------------------------------------------------------------------------
(* What a channel holds after a read, a write or the impostor's hello.     *)

LEMMA RangeEmpty == Range(<<>>) = {}
BY DEF Range

LEMMA RangeTail ==
    ASSUME NEW S, NEW s \in Seq(S), s # <<>>
    PROVE  Range(Tail(s)) \subseteq Range(s) /\ Head(s) \in Range(s)
BY HeadTailProperties DEF Range

LEMMA RangeAppend ==
    ASSUME NEW S, NEW s \in Seq(S), NEW e \in S
    PROVE  Range(Append(s, e)) = Range(s) \cup {e}
BY AppendProperties DEF Range

LEMMA RangeConcat ==
    ASSUME NEW S, NEW s \in Seq(S), NEW u \in Seq(S)
    PROVE  Range(s \o u) = Range(s) \cup Range(u)
<1>1. /\ s \o u \in Seq(S)
      /\ Len(s \o u) = Len(s) + Len(u)
      /\ \A i \in 1 .. Len(s) + Len(u) :
            (s \o u)[i] = IF i <= Len(s) THEN s[i] ELSE u[i - Len(s)]
    BY ConcatProperties
<1>2. /\ DOMAIN (s \o u) = 1 .. Len(s) + Len(u)
      /\ DOMAIN s = 1 .. Len(s) /\ DOMAIN u = 1 .. Len(u)
    BY <1>1
<1>3. Range(s \o u) \subseteq Range(s) \cup Range(u)
    <2> SUFFICES ASSUME NEW i \in 1 .. Len(s) + Len(u)
                 PROVE  (s \o u)[i] \in Range(s) \cup Range(u)
        BY <1>2 DEF Range
    <2>1. CASE i <= Len(s)
        BY <1>1, <1>2, <2>1 DEF Range
    <2>2. CASE ~(i <= Len(s))
        <3>1. i - Len(s) \in 1 .. Len(u)
            BY <2>2
        <3>2. QED
            BY <1>1, <1>2, <2>2, <3>1 DEF Range
    <2>3. QED
        BY <2>1, <2>2
<1>4. Range(s) \subseteq Range(s \o u)
    <2> SUFFICES ASSUME NEW i \in 1 .. Len(s) PROVE s[i] \in Range(s \o u)
        BY <1>2 DEF Range
    <2>1. i \in 1 .. Len(s) + Len(u) /\ (s \o u)[i] = s[i]
        BY <1>1
    <2>2. QED
        BY <1>2, <2>1 DEF Range
<1>5. Range(u) \subseteq Range(s \o u)
    <2> SUFFICES ASSUME NEW j \in 1 .. Len(u) PROVE u[j] \in Range(s \o u)
        BY <1>2 DEF Range
    <2>1. Len(s) + j \in 1 .. Len(s) + Len(u) /\ (s \o u)[Len(s) + j] = u[j]
        BY <1>1
    <2>2. QED
        BY <1>2, <2>1 DEF Range
<1>6. QED
    BY <1>3, <1>4, <1>5

LEMMA PairSeq ==
    ASSUME NEW S, NEW x \in S, NEW y \in S
    PROVE  <<x, y>> \in Seq(S)
<1>1. <<x, y>> \in [1 .. 2 -> S]
    OBVIOUS
<1>2. QED
    BY <1>1, SeqDef

\* The messages the two handshakes write are messages.
LEMMA SentMsgs ==
    /\ Sup(TRUE) \in Msgs
    /\ \A c \in Clients, t \in {Tok, Forged, NoToken} : Inf(c, t) \in Msgs
<1>1. \A x \in {Sup(b) : b \in BOOLEAN} : x \in Msgs
    BY SMT DEF Msgs
<1>2. Sup(TRUE) \in {Sup(b) : b \in BOOLEAN}
    BY TRUE \in BOOLEAN
<1>3. \A c \in Clients, t \in {Tok, Forged, NoToken} : Inf(c, t) \in Msgs
    BY DEF Msgs
<1>4. QED
    BY <1>1, <1>2, <1>3

\* What the impostor writes is a short sequence of messages without the
\* token.
LEMMA HellosSent ==
    ASSUME NEW ms \in ImpostorHellos
    PROVE  ms \in Seq(Msgs) /\ Range(ms) \subseteq ImpostorMsgs
<1>1. ImpostorMsgs \subseteq Msgs
    BY DEF ImpostorMsgs, Msgs, Clients, Connectors
<1>2. CASE ms = <<>>
    BY <1>2, RangeEmpty
<1>3. CASE \E m \in ImpostorMsgs : ms = <<m>>
    BY <1>1, <1>3 DEF Range
<1>4. CASE \E m1, m2 \in ImpostorMsgs : ms = <<m1, m2>>
    BY <1>1, <1>4 DEF Range
<1>5. QED
    BY <1>2, <1>3, <1>4 DEF ImpostorHellos


-----------------------------------------------------------------------------
(* The inductive step.                                                     *)

\* A step of the hub, the other clients or the caller leaves the
\* handshakes and their channels alone.
LEMMA EnvStep ==
    ASSUME IInv, TypeOK', UNCHANGED <<dpc, dialed, apc, toA, toC>>
    PROVE  IInv'
BY DEF IInv, SelfIdle, DialedLink, RepliesGenuine, ForgedOnly, AcceptedSelf,
       DialDone, DLink

LEMMA TypeStep ==
    ASSUME IInv, [Next]_vars
    PROVE  TypeOK'
<1> USE DEF IInv, TypeOK
<1>1. CASE DialStart
    BY <1>1 DEF DialStart, DPCs
<1>2. CASE Select
    BY <1>2 DEF Select, DPCs
<1>3. CASE DialAddr
    BY <1>3 DEF DialAddr, DPCs, APCs, Links, Connectors
<1>4. CASE SendHello
    <2>1. DLink \in Links
        BY <1>4 DEF SendHello, DialedLink, DLink, Links, Connectors
    <2>2. <<Sup(TRUE), Inf(Self, Tok)>> \in Seq(Msgs)
        <3>1. Sup(TRUE) \in Msgs /\ Inf(Self, Tok) \in Msgs
            BY SentMsgs DEF Clients, Connectors
        <3>2. QED
            BY <3>1, PairSeq
    <2>3. toA[DLink] \o <<Sup(TRUE), Inf(Self, Tok)>> \in Seq(Msgs)
        BY <2>1, <2>2, ConcatProperties
    <2>4. QED
        BY <1>4, <2>1, <2>3 DEF SendHello, FailClose, DPCs
<1>5. CASE ReadSupP
    <2>1. DLink \in Links
        BY <1>5 DEF ReadSupP, DialedLink, DLink, Links, Connectors
    <2>2. Pending(toC, DLink) => Tail(toC[DLink]) \in Seq(Msgs)
        BY <2>1, HeadTailProperties DEF Pending
    <2>3. QED
        BY <1>5, <2>1, <2>2 DEF ReadSupP, FailClose, DPCs
<1>6. CASE ReadInfP
    <2>1. DLink \in Links
        BY <1>6 DEF ReadInfP, DialedLink, DLink, Links, Connectors
    <2>2. Pending(toC, DLink) => Tail(toC[DLink]) \in Seq(Msgs)
        BY <2>1, HeadTailProperties DEF Pending
    <2>3. QED
        BY <1>6, <2>1, <2>2 DEF ReadInfP, FailClose, DPCs
<1>7. ASSUME NEW l \in Links, ActiveStep(l) PROVE TypeOK'
    <2>1. Pending(toA, l) => Tail(toA[l]) \in Seq(Msgs)
        BY HeadTailProperties DEF Pending
    <2>2. Sup(TRUE) \in Msgs /\ Inf(l[1], NoToken) \in Msgs
        <3>1. l[1] \in Clients
            BY DEF Links, Clients
        <3>2. QED
            BY <3>1, SentMsgs
    <2>3. /\ Append(toC[l], Sup(TRUE)) \in Seq(Msgs)
          /\ Append(toC[l], Inf(l[1], NoToken)) \in Seq(Msgs)
        BY <2>2, AppendProperties
    <2>4. QED
        BY <1>7, <2>1, <2>3 DEF ActiveStep, ReadSupA, SendSupA, ReadInfA,
           SendInfA, APCs
<1>8. CASE RouteRCM
    BY <1>8 DEF RouteRCM
<1>9. CASE RouteCTM
    BY <1>9 DEF RouteCTM
<1>10. CASE TargetLeaves \/ SIDReused
    BY <1>10 DEF TargetLeaves, SIDReused, Actives
<1>11. CASE ViewUpdate \/ Cancel
    BY <1>11 DEF ViewUpdate, Cancel
<1>12. CASE Finished \/ UNCHANGED vars
    BY <1>12 DEF Finished, vars
<1>13. ASSUME NEW a \in Actives, ImpostorConnect(a) PROVE TypeOK'
    BY <1>13, HellosSent DEF ImpostorConnect, Links, Connectors, APCs
<1>14. QED
    BY <1>1, <1>2, <1>3, <1>4, <1>5, <1>6, <1>7, <1>8, <1>9, <1>10, <1>11,
       <1>12, <1>13 DEF Next, DialerStep

\* The impostor's messages carry no token.
LEMMA ImpostorNoToken == \A m \in ImpostorMsgs : m.token # Tok
BY DEF ImpostorMsgs, Sup, Inf

\* A read takes the head of one link's channel and leaves the others.
LEMMA ReadShrinks ==
    ASSUME NEW ch \in [Links -> Seq(Msgs)], NEW k0 \in Links, ch[k0] # <<>>
    PROVE  \A k \in Links : Range([ch EXCEPT ![k0] = Tail(ch[k0])][k]) \subseteq Range(ch[k])
BY RangeTail

\* A step of handshakeActive on link l: the link moves on, what reaches
\* the acceptor only shrinks, and the connector's channel of l alone may
\* grow, by genuine messages.
LEMMA ActiveMove ==
    ASSUME IInv, NEW l \in Links,
           apc[l] \in {"readSup", "sendSup", "readInf", "sendInf"},
           apc' = [apc EXCEPT ![l] = apc'[l]],
           apc'[l] \in {"sendInf", "ok"} => l[2] = Self,
           UNCHANGED <<dpc, dialed>>,
           \A k \in Links : Range(toA'[k]) \subseteq Range(toA[k]),
           \A k \in Links \ {l} : toC'[k] = toC[k],
           \A m \in Range(toC'[l]) : m.type = "INF" => m.cid = l[1] /\ apc'[l] = "ok"
    PROVE  SelfIdle' /\ DialedLink' /\ RepliesGenuine' /\ ForgedOnly'
           /\ AcceptedSelf' /\ DialDone'
<1> USE DEF IInv, TypeOK
<1>1. dpc \in {"start", "wait", "dial"} => l[2] # Self
    BY DEF SelfIdle, Links
<1>2. dpc = "ok" => DLink # l
    BY DEF DialDone
<1>3. SelfIdle'
    BY <1>1 DEF SelfIdle, Links, Connectors
<1>4. DialedLink'
    BY DEF DialedLink
<1>5. RepliesGenuine'
    BY DEF RepliesGenuine
<1>6. ForgedOnly'
    BY DEF ForgedOnly, Links, Connectors
<1>7. AcceptedSelf'
    BY DEF AcceptedSelf
<1>8. DialDone'
    <2>1. dpc = "ok" => DLink \in Links
        BY DEF DialedLink, DLink, Links, Connectors
    <2>2. QED
        BY <1>2, <2>1 DEF DialDone, DLink
<1>9. QED
    BY <1>3, <1>4, <1>5, <1>6, <1>7, <1>8

\* A read of handshakePassive: what reaches Self only shrinks, and Dial
\* either moves on, fails, or succeeds with the peer it dialed having
\* finished as Target.
LEMMA DialerRead ==
    ASSUME IInv, dpc \in {"readSup", "readInf"},
           \/ dpc' \in {"readInf", "fail"}
           \/ dpc' = "ok" /\ dialed = Target /\ apc[DLink] = "ok",
           UNCHANGED <<apc, toA, dialed>>,
           \A k \in Links : Range(toC'[k]) \subseteq Range(toC[k])
    PROVE  SelfIdle' /\ DialedLink' /\ RepliesGenuine' /\ ForgedOnly'
           /\ AcceptedSelf' /\ DialDone'
BY DEF IInv, TypeOK, SelfIdle, DialedLink, RepliesGenuine, ForgedOnly,
       AcceptedSelf, DialDone, DLink

LEMMA IInvStep == IInv /\ [Next]_vars => IInv'
<1> SUFFICES ASSUME IInv, [Next]_vars PROVE IInv'
    OBVIOUS
<1>0. TypeOK'
    BY TypeStep
<1> USE DEF IInv, TypeOK
<1> DEFINE Conj == SelfIdle /\ DialedLink /\ RepliesGenuine /\ ForgedOnly
                   /\ AcceptedSelf /\ DialDone
<1>q. Conj' => IInv'
    BY <1>0
<1>1. CASE DialStart
    BY <1>1, <1>q DEF DialStart, SelfIdle, DialedLink, RepliesGenuine,
       ForgedOnly, AcceptedSelf, DialDone, DLink
<1>2. CASE Select
    BY <1>2, <1>q DEF Select, SelfIdle, DialedLink, RepliesGenuine,
       ForgedOnly, AcceptedSelf, DialDone, DLink
<1>3. CASE DialAddr
    BY <1>3, <1>q DEF DialAddr, SelfIdle, DialedLink, RepliesGenuine,
       ForgedOnly, AcceptedSelf, DialDone, DLink, Links, Connectors
<1>4. CASE SendHello
    BY <1>4, <1>q, RangeConcat DEF SendHello, FailClose, SelfIdle, DialedLink,
       RepliesGenuine, ForgedOnly, AcceptedSelf, DialDone, DLink, Links, Connectors
<1>5. CASE ReadSupP
    <2>1. DLink \in Links
        BY <1>5 DEF ReadSupP, DialedLink, DLink, Links, Connectors
    <2>2. \A k \in Links : Range(toC'[k]) \subseteq Range(toC[k])
        BY <1>5, <2>1, ReadShrinks DEF ReadSupP, FailClose, Pending
    <2>3. dpc' \in {"readInf", "fail"} /\ UNCHANGED <<apc, toA, dialed>>
        BY <1>5 DEF ReadSupP, FailClose
    <2>4. QED
        BY <1>5, <1>q, <2>2, <2>3, DialerRead DEF ReadSupP
<1>6. CASE ReadInfP
    <2>1. DLink \in Links
        BY <1>6 DEF ReadInfP, DialedLink, DLink, Links, Connectors
    <2>2. \A k \in Links : Range(toC'[k]) \subseteq Range(toC[k])
        BY <1>6, <2>1, ReadShrinks DEF ReadInfP, FailClose, Pending
    <2>3. UNCHANGED <<apc, toA, dialed>>
        BY <1>6 DEF ReadInfP, FailClose
    <2>4. \/ dpc' \in {"readInf", "fail"}
          \/ dpc' = "ok" /\ dialed = Target /\ apc[DLink] = "ok"
        <3>1. CASE dpc' = "ok"
            <4>1. /\ Pending(toC, DLink)
                  /\ Head(toC[DLink]).type = "INF"
                  /\ Head(toC[DLink]).cid = Target
                BY <1>6, <3>1 DEF ReadInfP, FailClose
            <4>2. Head(toC[DLink]) \in Range(toC[DLink])
                BY <2>1, <4>1, RangeTail DEF Pending
            <4>3. QED
                BY <2>1, <3>1, <4>1, <4>2 DEF RepliesGenuine, DLink
        <3>2. QED
            BY <1>6, <3>1 DEF ReadInfP, FailClose
    <2>5. QED
        BY <1>6, <1>q, <2>2, <2>3, <2>4, DialerRead DEF ReadInfP
<1>7. ASSUME NEW l \in Links, ReadSupA(l) PROVE IInv'
    <2>1. \A k \in Links : Range(toA'[k]) \subseteq Range(toA[k])
        BY <1>7, ReadShrinks DEF ReadSupA, Pending
    <2>2. \A m \in Range(toC[l]) : m.type # "INF"
        BY <1>7 DEF ReadSupA, RepliesGenuine
    <2>3. QED
        BY <1>7, <1>q, <2>1, <2>2, ActiveMove DEF ReadSupA
<1>8. ASSUME NEW l \in Links, SendSupA(l) PROVE IInv'
    <2>1. \A m \in Range(toC[l]) : m.type # "INF"
        BY <1>8 DEF SendSupA, RepliesGenuine
    <2>2. Range(Append(toC[l], Sup(TRUE))) = Range(toC[l]) \cup {Sup(TRUE)}
        BY SentMsgs, RangeAppend
    <2>3. Sup(TRUE).type # "INF"
        BY DEF Sup
    <2>4. \A m \in Range(toC'[l]) : m.type # "INF"
        BY <1>8, <2>1, <2>2, <2>3 DEF SendSupA
    <2>5. QED
        BY <1>8, <1>q, <2>4, ActiveMove DEF SendSupA
<1>9. ASSUME NEW l \in Links, ReadInfA(l) PROVE IInv'
    <2>1. \A k \in Links : Range(toA'[k]) \subseteq Range(toA[k])
        BY <1>9, ReadShrinks DEF ReadInfA, Pending
    <2>2. \A m \in Range(toC[l]) : m.type # "INF"
        BY <1>9 DEF ReadInfA, RepliesGenuine
    <2>3. apc'[l] = "sendInf" => l[2] = Self
        <3> SUFFICES ASSUME apc'[l] = "sendInf", l[2] # Self PROVE FALSE
            OBVIOUS
        <3>1. /\ Pending(toA, l)
              /\ Head(toA[l]).token = Tok
            BY <1>9 DEF ReadInfA
        <3>2. Head(toA[l]) \in Range(toA[l])
            BY <3>1, RangeTail DEF Pending
        <3>3. l = <<l[1], Impostor>> /\ l[1] \in Actives
            BY DEF Links, Connectors
        <3>4. QED
            BY <3>1, <3>2, <3>3 DEF ForgedOnly
    <2>4. QED
        BY <1>9, <1>q, <2>1, <2>2, <2>3, ActiveMove DEF ReadInfA
<1>10. ASSUME NEW l \in Links, SendInfA(l) PROVE IInv'
    <2>1. \A m \in Range(toC[l]) : m.type # "INF"
        BY <1>10 DEF SendInfA, RepliesGenuine
    <2>2. Inf(l[1], NoToken) \in Msgs
        BY SentMsgs DEF Links, Clients
    <2>3. Range(Append(toC[l], Inf(l[1], NoToken))) = Range(toC[l]) \cup {Inf(l[1], NoToken)}
        BY <2>2, RangeAppend
    <2>4. Inf(l[1], NoToken).cid = l[1]
        BY DEF Inf
    <2>5. \A m \in Range(toC'[l]) : m.type = "INF" => m.cid = l[1] /\ apc'[l] = "ok"
        BY <1>10, <2>1, <2>3, <2>4 DEF SendInfA
    <2>6. l[2] = Self
        BY <1>10 DEF SendInfA, AcceptedSelf
    <2>7. QED
        BY <1>10, <1>q, <2>5, <2>6, ActiveMove DEF SendInfA
<1>11. CASE RouteRCM \/ RouteCTM \/ TargetLeaves \/ ViewUpdate \/ SIDReused
            \/ Cancel \/ Finished \/ UNCHANGED vars
    BY <1>11, <1>0, EnvStep DEF RouteRCM, RouteCTM, TargetLeaves, ViewUpdate,
       SIDReused, Cancel, Finished, vars
<1>12. ASSUME NEW a \in Actives, ImpostorConnect(a) PROVE IInv'
    BY <1>12, <1>q, HellosSent, ImpostorNoToken DEF ImpostorConnect, SelfIdle,
       DialedLink, RepliesGenuine, ForgedOnly, AcceptedSelf, DialDone, DLink,
       Links, Connectors
<1>13. QED
    BY <1>1, <1>2, <1>3, <1>4, <1>5, <1>6, <1>7, <1>8, <1>9, <1>10, <1>11,
       <1>12 DEF Next, DialerStep, ActiveStep


-----------------------------------------------------------------------------
(* The theorems.                                                           *)

LEMMA InitIInv == Init => IInv
<1> SUFFICES ASSUME Init PROVE IInv
    OBVIOUS
<1>1. <<>> \in Seq(Msgs)
    BY EmptySeq
<1>2. TypeOK
    BY <1>1 DEF Init, TypeOK, DPCs, APCs, Actives
<1>3. \A l \in Links : Range(toA[l]) = {} /\ Range(toC[l]) = {}
    BY RangeEmpty DEF Init
<1>4. RepliesGenuine /\ ForgedOnly
    BY <1>3 DEF RepliesGenuine, ForgedOnly, Links, Connectors
<1>5. SelfIdle /\ DialedLink /\ AcceptedSelf /\ DialDone
    BY DEF Init, SelfIdle, DialedLink, AcceptedSelf, DialDone, Links, Connectors
<1>6. QED
    BY <1>2, <1>4, <1>5 DEF IInv

LEMMA AlwaysIInv == Spec => []IInv
BY InitIInv, IInvStep, PTL DEF Spec

\* Type correctness of the dial model: whatever the impostor writes, every
\* channel holds only SUP and INF messages (with a client's CID and the
\* token, a forged one or none), and Dial and every accepting goroutine
\* are in one of the states of handshakePassive and handshakeActive.
THEOREM DialTypeCorrect == Spec => []TypeOK
<1>1. IInv => TypeOK
    BY DEF IInv
<1>2. QED
    BY <1>1, AlwaysIInv, PTL

\* The CID check of handshakePassive, for any number of steps and whatever
\* the impostor sends: a Dial that succeeds is connected to Target, even
\* when Target's session id was given to Other before the hub routed the
\* RCM.
THEOREM DialerAuthenticated == Spec => []DialerAuthentic
<1>1. IInv => DialerAuthentic
    BY DEF IInv, DialDone, DialerAuthentic
<1>2. QED
    BY <1>1, AlwaysIInv, PTL

\* The CID and token checks of handshakeActive: a peer that accepted a
\* connection completes the handshake only with Self, whose RCM it
\* answered, whatever an impostor that knows every CID sends.
THEOREM ActiveAuthenticated == Spec => []ActiveAuthentic
<1>1. IInv => ActiveAuthentic
    BY DEF IInv, AcceptedSelf, ActiveAuthentic
<1>2. QED
    BY <1>1, AlwaysIInv, PTL

\* The order of handshakeActive, which writes its INF only after checking
\* the connector's: a Dial succeeds only once the peer it dialed has
\* accepted Self's CID and token.
THEOREM DialAgreement == Spec => []DialAgreed
<1>1. IInv => DialAgreed
    BY DEF IInv, DialDone, DialAgreed
<1>2. QED
    BY <1>1, AlwaysIInv, PTL

=============================================================================
