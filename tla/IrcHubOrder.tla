---------------------------- MODULE IrcHubOrder ----------------------------
(***************************************************************************)
(* Proof of ChannelOrder for every value of the constants: a client hears  *)
(* of nobody else on #hub (a JOIN, a PART or a channel message) before the *)
(* echo of its own JOIN #hub.  The ordering rests on three facts: a client *)
(* past the echo keeps its own nickname in its view, the fan-outs of       *)
(* broadcastUserJoin, SendChat and leave only target connections that were *)
(* live peers when the fan-out started, and a PART fan-out never names a   *)
(* live target's own nickname.                                             *)
(***************************************************************************)
EXTENDS IrcHubProofs

\* States of a connection whose JOIN #hub has been echoed back to it.
Echoed == {"roster", "accept"} \cup Live

\* JoinEcho put the client's own nickname into its view, and nothing takes
\* it out while the connection is open.
EchoedSelf == \A t \in Conns : pc[t] \in Echoed => name[t] \in view[t]

\* Every target of a pending fan-out was promoted by the accept block:
\* DirectoryConns and the chat room only list live peers.
TargetsPromoted ==
    \A c, t \in Conns : t \in pending[c] => pc[t] \in Live \cup {"leave", "done"}

\* A PART fan-out never removes a live target's own nickname: the leaving
\* peer and every peer listed with it held distinct names.
PartsForeign ==
    \A c, t \in Conns :
        pc[c] = "leave" /\ t \in pending[c] /\ pc[t] \in Live => name[c] # name[t]

OInv == IInv /\ EchoedSelf /\ TargetsPromoted /\ PartsForeign

-----------------------------------------------------------------------------
(* OInv is inductive.                                                      *)

\* The three order conjuncts, kept by every step of one goroutine.
OrderParts == EchoedSelf /\ TargetsPromoted /\ PartsForeign

\* A step that moves c between states outside Echoed and the fan-outs,
\* leaves every view, every other connection and every fan-out alone.
LEMMA HandshakeQuiet ==
    ASSUME TypeOK, OrderParts, NEW c \in Conns,
           pc[c] \notin Echoed \cup {"leave", "done"},
           pc' = [pc EXCEPT ![c] = pc'[c]],
           pc'[c] \notin Echoed \cup {"leave"},
           \A d \in Conns \ {c} : name'[d] = name[d],
           UNCHANGED <<pending, view>>
    PROVE  OrderParts'
BY DEF OrderParts, EchoedSelf, TargetsPromoted, PartsForeign, TypeOK, Echoed,
       Live

\* A handshake write failed: unbind() and the connection is done.
LEMMA FailOrder ==
    ASSUME TypeOK, OrderParts, NEW c \in Conns, pc[c] \in Holding,
           FailHandshake(c)
    PROVE  OrderParts'
BY DEF FailHandshake, OrderParts, EchoedSelf, TargetsPromoted, PartsForeign,
       TypeOK, Echoed, Live, Holding

\* The accept block: c becomes live and fans its JOIN out to the live peers.
LEMMA AcceptOrder ==
    ASSUME IInv, OrderParts, NEW c \in Conns, Accept(c)
    PROVE  OrderParts'
<1>1. DirectoryConns = LiveConns
    BY DirectoryLive
<1>2. \A d \in Conns : c \notin pending[d]
    BY DEF Accept, OrderParts, TargetsPromoted, Live
<1>3. pc'[c] \in Live /\ pending'[c] \subseteq LiveConns
    BY <1>1 DEF Accept, AfterWrite, IInv, TypeOK, Live
<1>4. TargetsPromoted'
    BY <1>3 DEF Accept, AfterWrite, OrderParts, TargetsPromoted, LiveConns,
       IInv, TypeOK, Live
<1>5. EchoedSelf'
    BY DEF Accept, AfterWrite, OrderParts, EchoedSelf, IInv, TypeOK, Echoed,
       Live
<1>6. PartsForeign'
    BY <1>2 DEF Accept, AfterWrite, OrderParts, PartsForeign, IInv, TypeOK,
       Live
<1>7. QED
    BY <1>4, <1>5, <1>6 DEF OrderParts

\* Close and leave: c leaves the live peers and fans a PART out to the
\* others, which hold other names.
LEMMA CloseOrder ==
    ASSUME IInv, OrderParts, NEW c \in Conns, pc[c] \in Live, Close(c)
    PROVE  OrderParts'
<1>1. DirectoryConns = LiveConns
    BY DirectoryLive
<1>2. pending'[c] \subseteq LiveConns \ {c} /\ pc'[c] \in {"leave", "done"}
    BY <1>1 DEF Close, AfterWrite, IInv, TypeOK
<1>3. \A t \in pending'[c] : name[t] # name[c]
    BY <1>2 DEF IInv, NameExclusive, LiveConns, HoldingConns
<1>4. TargetsPromoted'
    BY <1>2 DEF Close, AfterWrite, OrderParts, TargetsPromoted, LiveConns,
       IInv, TypeOK, Live
<1>5. EchoedSelf'
    BY DEF Close, AfterWrite, OrderParts, EchoedSelf, IInv, TypeOK, Echoed,
       Live
<1>6. PartsForeign'
    BY <1>2, <1>3 DEF Close, AfterWrite, OrderParts, PartsForeign, IInv,
       TypeOK, LiveConns, Live
<1>7. QED
    BY <1>4, <1>5, <1>6 DEF OrderParts

\* One JOIN written to t: t's view only grows.
LEMMA JoinWriteOrder ==
    ASSUME TypeOK, OrderParts, NEW c \in Conns, NEW t \in Conns,
           BroadcastUserJoin(c, t)
    PROVE  OrderParts'
BY DEF BroadcastUserJoin, AfterWrite, OrderParts, EchoedSelf, TargetsPromoted,
       PartsForeign, TypeOK, Echoed, Live

\* One #hub message written to t: no view changes.
LEMMA ChatWriteOrder ==
    ASSUME TypeOK, OrderParts, NEW c \in Conns, NEW t \in Conns, ChatMsg(c, t)
    PROVE  OrderParts'
BY DEF ChatMsg, AfterWrite, OrderParts, EchoedSelf, TargetsPromoted,
       PartsForeign, TypeOK, Echoed, Live

\* One PART written to t removes name[c], never t's own nickname.
LEMMA PartWriteOrder ==
    ASSUME TypeOK, OrderParts, NEW c \in Conns, NEW t \in Conns,
           PeersLeave(c, t)
    PROVE  OrderParts'
<1>1. pc[t] \in Echoed /\ Open(t) => name[c] # name[t]
    BY DEF PeersLeave, OrderParts, TargetsPromoted, PartsForeign, Echoed, Open,
       Live
<1>2. EchoedSelf'
    BY <1>1 DEF PeersLeave, AfterWrite, OrderParts, EchoedSelf, TypeOK, Echoed,
       Live
<1>3. TargetsPromoted' /\ PartsForeign'
    BY DEF PeersLeave, AfterWrite, OrderParts, TargetsPromoted, PartsForeign,
       TypeOK, Live
<1>4. QED
    BY <1>2, <1>3 DEF OrderParts

\* Every step keeps OInv.
LEMMA OrderStep == OInv /\ [Next]_vars => OInv'
<1> SUFFICES ASSUME IInv, OrderParts, [Next]_vars PROVE OInv'
    BY DEF OInv, OrderParts
<1>0. IInv'
    BY IInvStep
<1> USE DEF IInv
<1>1. CASE UNCHANGED vars \/ Terminated
    BY <1>0, <1>1 DEF vars, Terminated, OInv, OrderParts, EchoedSelf,
       TargetsPromoted, PartsForeign
<1>2. ASSUME NEW c \in Conns, ConnStep(c) PROVE OrderParts'
    <2> USE DEF Holding, Live, Echoed
    <2>1. CASE HandshakeAbort(c)
        BY <2>1, HandshakeQuiet DEF HandshakeAbort, TypeOK
    <2>2. CASE ReadNick(c)
        BY <2>2, HandshakeQuiet DEF ReadNick, TypeOK
    <2>3. CASE ReserveName(c)
        BY <2>3, HandshakeQuiet DEF ReserveName, TypeOK
    <2>4. CASE IrcWelcome(c)
        <3>1. CASE FailHandshake(c)
            BY <2>4, <3>1, FailOrder DEF IrcWelcome
        <3>2. CASE ~FailHandshake(c)
            BY <2>4, <3>2, HandshakeQuiet DEF IrcWelcome, TypeOK
        <3>3. QED
            BY <3>1, <3>2
    <2>5. CASE WaitJoin(c)
        <3>1. CASE FailHandshake(c)
            BY <2>5, <3>1, FailOrder DEF WaitJoin
        <3>2. CASE ~FailHandshake(c)
            BY <2>5, <3>2, HandshakeQuiet DEF WaitJoin, TypeOK
        <3>3. QED
            BY <3>1, <3>2
    <2>6. CASE JoinEcho(c)
        <3>1. CASE FailHandshake(c)
            BY <2>6, <3>1, FailOrder DEF JoinEcho
        <3>2. CASE ~FailHandshake(c)
            BY <2>6, <3>2 DEF JoinEcho, OrderParts, EchoedSelf,
               TargetsPromoted, PartsForeign, TypeOK
        <3>3. QED
            BY <3>1, <3>2
    <2>7. CASE PeersJoinRoster(c)
        <3>1. CASE FailHandshake(c)
            BY <2>7, <3>1, FailOrder DEF PeersJoinRoster
        <3>2. CASE ~FailHandshake(c)
            BY <2>7, <3>2 DEF PeersJoinRoster, OrderParts, EchoedSelf,
               TargetsPromoted, PartsForeign, TypeOK
        <3>3. QED
            BY <3>1, <3>2
    <2>8. CASE Accept(c)
        BY <2>8, AcceptOrder
    <2>9. CASE CallOnJoined(c)
        <3>1. CASE Close(c)
            BY <2>9, <3>1, CloseOrder DEF CallOnJoined
        <3>2. CASE ~Close(c)
            BY <2>9, <3>2 DEF CallOnJoined, OrderParts, EchoedSelf,
               TargetsPromoted, PartsForeign, TypeOK
        <3>3. QED
            BY <3>1, <3>2
    <2>10. CASE ServeChat(c)
        <3>1. members = LiveConns
            BY DEF MembersExact
        <3>2. QED
            BY <2>10, <3>1 DEF ServeChat, AfterWrite, OrderParts, EchoedSelf,
               TargetsPromoted, PartsForeign, TypeOK, LiveConns
    <2>11. CASE ServePrivate(c)
        BY <2>11 DEF ServePrivate, OrderParts, EchoedSelf, TargetsPromoted,
           PartsForeign
    <2>12. CASE ServeExit(c)
        BY <2>12, CloseOrder DEF ServeExit
    <2>13. ASSUME NEW t \in Conns, BroadcastUserJoin(c, t) PROVE OrderParts'
        BY <2>13, JoinWriteOrder
    <2>14. ASSUME NEW t \in Conns, ChatMsg(c, t) PROVE OrderParts'
        BY <2>14, ChatWriteOrder
    <2>15. ASSUME NEW t \in Conns, PeersLeave(c, t) PROVE OrderParts'
        BY <2>15, PartWriteOrder
    <2>16. QED
        BY <1>2, <2>1, <2>2, <2>3, <2>4, <2>5, <2>6, <2>7, <2>8, <2>9, <2>10,
           <2>11, <2>12, <2>13, <2>14, <2>15 DEF ConnStep
<1>3. QED
    BY <1>0, <1>1, <1>2, NextSplit DEF OInv, OrderParts

-----------------------------------------------------------------------------
(* ChannelOrder.                                                           *)

\* The step ChannelOrder constrains, as it is written there.
OrderedStep ==
    \A t \in Conns :
        (heard'[t] # heard[t] \/ view'[t] \ {name[t]} # view[t] \ {name[t]})
            => name[t] \in view[t]

\* A write of a fan-out reaches t only if t is open and was targeted, so t
\* is live and has had its echo.
LEMMA OpenTargetEchoed ==
    ASSUME OInv, NEW c \in Conns, NEW t \in pending[c], Open(t)
    PROVE  name[t] \in view[t]
BY DEF OInv, TargetsPromoted, EchoedSelf, Open, Echoed, Live, IInv, TypeOK

\* Every step is an ordered step.
LEMMA OrderedNext == OInv /\ [Next]_vars => [OrderedStep]_vars
<1> SUFFICES ASSUME OInv, [Next]_vars PROVE [OrderedStep]_vars
    OBVIOUS
<1> DEFINE Still == UNCHANGED <<view, heard>>
<1>0. Still => OrderedStep
    BY DEF OrderedStep
<1>1. CASE UNCHANGED vars \/ Terminated
    BY <1>1 DEF vars, Terminated
<1>2. ASSUME NEW c \in Conns, ConnStep(c) PROVE OrderedStep
    <2> USE DEF OInv, IInv, TypeOK
    <2>1. CASE HandshakeAbort(c) \/ ReadNick(c) \/ ReserveName(c)
               \/ IrcWelcome(c) \/ WaitJoin(c) \/ Accept(c) \/ CallOnJoined(c)
               \/ ServeChat(c) \/ ServePrivate(c) \/ ServeExit(c)
        BY <1>0, <2>1 DEF HandshakeAbort, ReadNick, ReserveName, IrcWelcome,
           WaitJoin, Accept, CallOnJoined, ServeChat, ServePrivate, ServeExit,
           FailHandshake, Close, AfterWrite
    <2>2. CASE JoinEcho(c)
        BY <1>0, <2>2 DEF JoinEcho, FailHandshake, OrderedStep
    <2>3. CASE PeersJoinRoster(c)
        <3>1. name[c] \in view[c]
            BY <2>3 DEF PeersJoinRoster, EchoedSelf, Echoed
        <3>2. QED
            BY <1>0, <2>3, <3>1 DEF PeersJoinRoster, FailHandshake, OrderedStep
    <2>4. ASSUME NEW t \in Conns, BroadcastUserJoin(c, t) PROVE OrderedStep
        <3>1. Open(t) => name[t] \in view[t]
            BY <2>4, OpenTargetEchoed DEF BroadcastUserJoin
        <3>2. QED
            BY <2>4, <3>1 DEF BroadcastUserJoin, OrderedStep
    <2>5. ASSUME NEW t \in Conns, ChatMsg(c, t) PROVE OrderedStep
        <3>1. Open(t) => name[t] \in view[t]
            BY <2>5, OpenTargetEchoed DEF ChatMsg
        <3>2. QED
            BY <2>5, <3>1 DEF ChatMsg, OrderedStep
    <2>6. ASSUME NEW t \in Conns, PeersLeave(c, t) PROVE OrderedStep
        <3>1. Open(t) => name[t] \in view[t]
            BY <2>6, OpenTargetEchoed DEF PeersLeave
        <3>2. QED
            BY <2>6, <3>1 DEF PeersLeave, OrderedStep
    <2>7. QED
        BY <1>2, <2>1, <2>2, <2>3, <2>4, <2>5, <2>6 DEF ConnStep
<1>3. QED
    BY <1>1, <1>2, NextSplit

\* The IRC channel order on every client connection, for every number of
\* connections and nicknames: the JOIN echo written by the handshake comes
\* before any JOIN of broadcastUserJoin, PART of leave or #hub message of
\* SendChat that names another peer.
THEOREM ChannelOrdered == Spec => ChannelOrder
<1>1. Init => OInv
    BY InitIInv DEF Init, OInv, EchoedSelf, TargetsPromoted, PartsForeign,
       Echoed, Live
<1>2. QED
    BY <1>1, OrderStep, OrderedNext, PTL DEF Spec, ChannelOrder, OrderedStep

=============================================================================
