---------------------------- MODULE IrcHubProofs ----------------------------
(***************************************************************************)
(* Proofs about IrcHub for every value of the constants: type correctness, *)
(* and that no nickname is ever held twice and the registry (reserved,     *)
(* byName, bySID, the chat room) always indexes exactly the connections    *)
(* that own a name.                                                        *)
(***************************************************************************)
EXTENDS IrcHub, TLAPS

USE ConstAssumption

\* The steps one goroutine takes, named so that a proof can split on them.
ConnStep(c) ==
    \/ HandshakeAbort(c) \/ ReadNick(c) \/ ReserveName(c)
    \/ IrcWelcome(c) \/ WaitJoin(c) \/ JoinEcho(c) \/ PeersJoinRoster(c)
    \/ Accept(c) \/ CallOnJoined(c) \/ ServeChat(c) \/ ServePrivate(c)
    \/ ServeExit(c)
    \/ \E t \in Conns : BroadcastUserJoin(c, t) \/ ChatMsg(c, t)
                        \/ PeersLeave(c, t)

LEMMA NextSplit == Next <=> (\E c \in Conns : ConnStep(c)) \/ Terminated
BY DEF Next, ConnStep

-----------------------------------------------------------------------------
(* Type correctness.                                                       *)

\* Every set a fan-out starts from is a set of connections.
LEMMA FanoutTargets ==
    ASSUME TypeOK
    PROVE  /\ DirectoryConns \subseteq Conns
           /\ PeerNames \subseteq Names
           /\ FreeSIDs \subseteq SIDs
BY DEF TypeOK, DirectoryConns, PeerNames, FreeSIDs

\* AfterWrite keeps pending and pc well typed when the targets are.
LEMMA AfterWriteType ==
    ASSUME TypeOK, NEW c \in Conns, NEW rest \in SUBSET Conns,
           NEW busy \in PCs, NEW next \in PCs,
           AfterWrite(c, rest, busy, next)
    PROVE  pending' \in [Conns -> SUBSET Conns] /\ pc' \in [Conns -> PCs]
BY DEF TypeOK, AfterWrite

LEMMA NamesValidStep == TypeOK /\ NamesValid /\ [Next]_vars => NamesValid'
<1> SUFFICES ASSUME TypeOK, NamesValid, [Next]_vars PROVE NamesValid'
    OBVIOUS
<1>1. CASE UNCHANGED vars \/ Terminated
    BY <1>1 DEF NamesValid, Terminated, vars
<1>2. ASSUME NEW c \in Conns, ConnStep(c) PROVE NamesValid'
    BY <1>2 DEF ConnStep, NamesValid, TypeOK, Named, Holding, Live, AfterWrite,
       HandshakeAbort, ReadNick, ReserveName, IrcWelcome, WaitJoin, JoinEcho,
       PeersJoinRoster, Accept, CallOnJoined, ServeChat, ServePrivate,
       ServeExit, BroadcastUserJoin, ChatMsg, PeersLeave, FailHandshake, Close,
       AllNames
<1>3. QED
    BY <1>1, <1>2, NextSplit

LEMMA TypeStep == TypeOK /\ NamesValid /\ [Next]_vars => TypeOK'
<1> SUFFICES ASSUME TypeOK, NamesValid, [Next]_vars PROVE TypeOK'
    OBVIOUS
<1> NamedAt(c) == pc[c] \in Named => name[c] \in Names
<1>0. \A c \in Conns : NamedAt(c)
    BY DEF NamesValid
<1>1. CASE UNCHANGED vars
    BY <1>1 DEF TypeOK, vars
<1>2. CASE Terminated
    BY <1>2 DEF TypeOK, Terminated, vars
<1>3. ASSUME NEW c \in Conns, ConnStep(c) PROVE TypeOK'
    <2> USE FanoutTargets
    <2>1. CASE HandshakeAbort(c)
        BY <2>1 DEF TypeOK, PCs, HandshakeAbort
    <2>2. CASE ReadNick(c)
        BY <2>2 DEF TypeOK, PCs, ReadNick, AllNames
    <2>3. CASE ReserveName(c)
        <3>1. CASE /\ Available(name[c])
                   /\ reserved' = reserved \cup {name[c]}
                   /\ \E s \in FreeSIDs : sid' = [sid EXCEPT ![c] = s]
                   /\ pc' = [pc EXCEPT ![c] = "welcome"]
            <4>1. name[c] \in Names
                BY <2>3, <1>0 DEF ReserveName, Named
            <4>2. sid' \in [Conns -> SIDs \cup {NoSID}]
                BY <3>1 DEF TypeOK
            <4>3. QED
                BY <2>3, <3>1, <4>1, <4>2 DEF TypeOK, PCs, ReserveName
        <3>2. CASE /\ ~Available(name[c])
                   /\ pc' = [pc EXCEPT ![c] = "nick"] /\ UNCHANGED <<reserved, sid>>
            BY <2>3, <3>2 DEF TypeOK, PCs, ReserveName
        <3>3. QED
            BY <2>3, <3>1, <3>2 DEF ReserveName
    <2>4. CASE IrcWelcome(c)
        BY <2>4 DEF TypeOK, PCs, IrcWelcome, FailHandshake
    <2>5. CASE WaitJoin(c)
        BY <2>5 DEF TypeOK, PCs, WaitJoin, FailHandshake
    <2>6. CASE JoinEcho(c)
        BY <2>6, <1>0 DEF TypeOK, PCs, JoinEcho, Named, Holding, Live, FailHandshake, AllNames
    <2>7. CASE PeersJoinRoster(c)
        BY <2>7 DEF TypeOK, PCs, PeersJoinRoster, FailHandshake, AllNames
    <2>8. CASE Accept(c)
        <3>1. pending' \in [Conns -> SUBSET Conns] /\ pc' \in [Conns -> PCs]
            BY <2>8, AfterWriteType DEF Accept, PCs
        <3>2. QED
            BY <2>8, <3>1 DEF TypeOK, Accept
    <2>9. CASE CallOnJoined(c)
        <3>1. CASE pc' = [pc EXCEPT ![c] = "serve"]
                   /\ UNCHANGED <<name, sid, reserved, byName, bySID, members,
                                  pending, view, heard, priv>>
            BY <3>1 DEF TypeOK, PCs
        <3>2. CASE Close(c)
            <4>1. pending' \in [Conns -> SUBSET Conns] /\ pc' \in [Conns -> PCs]
                BY <3>2, AfterWriteType DEF Close, PCs
            <4>2. QED
                BY <3>2, <4>1 DEF TypeOK, Close
        <3>3. QED
            BY <2>9, <3>1, <3>2 DEF CallOnJoined
    <2>10. CASE ServeChat(c)
        <3>1. pending' \in [Conns -> SUBSET Conns] /\ pc' \in [Conns -> PCs]
            BY <2>10, AfterWriteType DEF ServeChat, PCs, TypeOK
        <3>2. QED
            BY <2>10, <3>1 DEF TypeOK, ServeChat
    <2>11. CASE ServePrivate(c)
        BY <2>11, <1>0 DEF TypeOK, PCs, ServePrivate, Named, Holding, Live, PeerNames
    <2>12. CASE ServeExit(c)
        <3>1. pending' \in [Conns -> SUBSET Conns] /\ pc' \in [Conns -> PCs]
            BY <2>12, AfterWriteType DEF ServeExit, Close, PCs
        <3>2. QED
            BY <2>12, <3>1 DEF TypeOK, ServeExit, Close
    <2>13. ASSUME NEW t \in Conns, BroadcastUserJoin(c, t) PROVE TypeOK'
        <3>1. pending' \in [Conns -> SUBSET Conns] /\ pc' \in [Conns -> PCs]
            BY <2>13, AfterWriteType DEF BroadcastUserJoin, PCs, TypeOK
        <3>2. name[c] \in Names
            BY <2>13, <1>0 DEF BroadcastUserJoin, Named, Holding, Live
        <3>3. QED
            BY <2>13, <3>1, <3>2 DEF TypeOK, BroadcastUserJoin
    <2>14. ASSUME NEW t \in Conns, ChatMsg(c, t) PROVE TypeOK'
        <3>1. pending' \in [Conns -> SUBSET Conns] /\ pc' \in [Conns -> PCs]
            BY <2>14, AfterWriteType DEF ChatMsg, PCs, TypeOK
        <3>2. name[c] \in Names
            BY <2>14, <1>0 DEF ChatMsg, Named, Holding, Live
        <3>3. QED
            BY <2>14, <3>1, <3>2 DEF TypeOK, ChatMsg
    <2>15. ASSUME NEW t \in Conns, PeersLeave(c, t) PROVE TypeOK'
        <3>1. pending' \in [Conns -> SUBSET Conns] /\ pc' \in [Conns -> PCs]
            BY <2>15, AfterWriteType DEF PeersLeave, PCs, TypeOK
        <3>2. QED
            BY <2>15, <3>1 DEF TypeOK, PeersLeave
    <2>16. QED
        BY <1>3, <2>1, <2>2, <2>3, <2>4, <2>5, <2>6, <2>7, <2>8, <2>9, <2>10,
           <2>11, <2>12, <2>13, <2>14, <2>15 DEF ConnStep
<1>4. QED
    BY <1>1, <1>2, <1>3, NextSplit DEF vars


-----------------------------------------------------------------------------
(* The registry invariant.  IInv (IrcHub) strengthens NameExclusive and     *)
(* RegistryExact: the proof of a step needs that every owner has a valid   *)
(* name and a session id of its own, and that every directory entry points *)
(* back at a live owner.  Only four steps change who owns what:            *)
(* ReserveName, FailHandshake, Accept and Close; every other step keeps    *)
(* the owners, their names and ids and the registry as they are.           *)

RegistryVars == <<reserved, byName, bySID, members>>

\* A step that keeps the owners, their names and ids, and the registry.
LEMMA StableOwnersStep ==
    ASSUME IInv, TypeOK', NamesValid',
           HoldingConns' = HoldingConns, LiveConns' = LiveConns,
           \A d \in Owners : name'[d] = name[d] /\ sid'[d] = sid[d],
           UNCHANGED RegistryVars
    PROVE  IInv'
<1> USE DEF RegistryVars
<1>1. Owners' = Owners
    BY DEF Owners
<1>2. SIDsHeld' /\ NameExclusive' /\ SIDExclusive'
    BY <1>1 DEF IInv, SIDsHeld, NameExclusive, SIDExclusive, Owners
<1>3. ReservedExact'
    BY DEF IInv, ReservedExact, Owners
<1>4. ByNameSound' /\ BySIDSound' /\ LiveIndexed' /\ MembersExact'
    BY DEF IInv, ByNameSound, BySIDSound, LiveIndexed, MembersExact, Owners
<1>5. QED
    BY <1>2, <1>3, <1>4 DEF IInv

\* The owner sets are unchanged when no connection moves into or out of
\* Holding or Live.
LEMMA StableSets ==
    ASSUME TypeOK, NEW c \in Conns,
           pc' = [pc EXCEPT ![c] = pc'[c]],
           pc[c] \in Holding <=> pc'[c] \in Holding,
           pc[c] \in Live <=> pc'[c] \in Live
    PROVE  HoldingConns' = HoldingConns /\ LiveConns' = LiveConns
BY DEF TypeOK, HoldingConns, LiveConns

\* reserveName succeeds: c becomes the holder of a name nobody owns.
LEMMA ReserveStep ==
    ASSUME IInv, TypeOK', NamesValid', NEW c \in Conns,
           pc[c] = "reserve", Available(name[c]),
           reserved' = reserved \cup {name[c]},
           NEW s \in FreeSIDs, sid' = [sid EXCEPT ![c] = s],
           pc' = [pc EXCEPT ![c] = "welcome"],
           UNCHANGED <<name, byName, bySID, members>>
    PROVE  IInv'
<1> USE DEF IInv
<1>1. HoldingConns' = HoldingConns \cup {c} /\ LiveConns' = LiveConns
    BY DEF TypeOK, HoldingConns, LiveConns, Holding, Live
<1>2. c \notin Owners
    BY DEF Owners, HoldingConns, LiveConns, Holding, Live
<1>3. name[c] \in Names /\ s \in SIDs
    BY DEF NamesValid, Named, FreeSIDs
<1>4. \A d \in Owners : name[d] # name[c]
    <2>1. \A d \in HoldingConns : name[d] # name[c]
        BY DEF Available, ReservedExact
    <2>2. \A d \in LiveConns : name[d] # name[c]
        BY DEF Available, PeerNames, LiveIndexed, LiveConns, NamesValid, Named,
               TypeOK
    <2>3. QED
        BY <2>1, <2>2 DEF Owners
<1>5. \A d \in Owners : sid[d] # s
    BY DEF FreeSIDs, Owners, HoldingConns, LiveConns
<1>6. Owners' = Owners \cup {c}
    BY <1>1 DEF Owners
<1>7. \A d \in Owners : sid'[d] = sid[d]
    BY <1>2 DEF TypeOK
<1>8. SIDsHeld' /\ SIDExclusive'
    BY <1>3, <1>5, <1>6, <1>7 DEF SIDsHeld, SIDExclusive, TypeOK
<1>9. NameExclusive'
    BY <1>4, <1>6 DEF NameExclusive, Owners
<1>10. ReservedExact'
    BY <1>1 DEF ReservedExact
<1>11. ByNameSound' /\ BySIDSound' /\ LiveIndexed' /\ MembersExact'
    BY <1>1, <1>7 DEF ByNameSound, BySIDSound, LiveIndexed, MembersExact, Owners
<1>12. QED
    BY <1>8, <1>9, <1>10, <1>11

\* unbind() on a failed handshake: c's name is released and nobody else's.
LEMMA FailStep ==
    ASSUME IInv, TypeOK', NamesValid', NEW c \in Conns,
           pc[c] \in Holding, FailHandshake(c)
    PROVE  IInv'
<1> USE DEF IInv
<1>1. HoldingConns' = HoldingConns \ {c} /\ LiveConns' = LiveConns
    BY DEF FailHandshake, TypeOK, HoldingConns, LiveConns, Holding, Live
<1>2. \A d \in HoldingConns \ {c} : name[d] # name[c]
    BY DEF NameExclusive, Owners, HoldingConns
<1>3. ReservedExact'
    BY <1>1, <1>2 DEF ReservedExact, FailHandshake
<1>4. Owners' \subseteq Owners
    BY <1>1 DEF Owners
<1>5. SIDsHeld' /\ NameExclusive' /\ SIDExclusive'
    BY <1>4 DEF FailHandshake, SIDsHeld, NameExclusive, SIDExclusive, Owners
<1>6. ByNameSound' /\ BySIDSound' /\ LiveIndexed' /\ MembersExact'
    BY <1>1 DEF FailHandshake, ByNameSound, BySIDSound, LiveIndexed, MembersExact
<1>7. QED
    BY <1>3, <1>5, <1>6

\* The accept block: c's reservation becomes its byName and bySID entries.
LEMMA AcceptStep ==
    ASSUME IInv, TypeOK', NamesValid', NEW c \in Conns, Accept(c)
    PROVE  IInv'
<1> USE DEF IInv
<1>1. pc[c] = "accept" /\ pc'[c] \in Live
    BY DEF Accept, AfterWrite, TypeOK, Live
<1>2. HoldingConns' = HoldingConns \ {c} /\ LiveConns' = LiveConns \cup {c}
    BY <1>1 DEF Accept, AfterWrite, TypeOK, HoldingConns, LiveConns, Holding, Live
<1>3. c \in HoldingConns /\ c \notin LiveConns
    BY <1>1 DEF HoldingConns, LiveConns, Holding, Live
<1>4. name[c] \in Names /\ sid[c] \in SIDs
    BY <1>3 DEF NamesValid, Named, SIDsHeld, Owners, HoldingConns
<1>5. \A d \in Owners \ {c} : name[d] # name[c] /\ sid[d] # sid[c]
    BY <1>3 DEF NameExclusive, SIDExclusive, Owners
<1>6. byName[name[c]] = NoConn /\ bySID[sid[c]] = NoConn
    BY <1>4, <1>5, <1>3 DEF ByNameSound, BySIDSound, Owners
<1>7. Owners' = Owners
    BY <1>2, <1>3 DEF Owners
<1>8. SIDsHeld' /\ NameExclusive' /\ SIDExclusive'
    BY <1>7 DEF Accept, SIDsHeld, NameExclusive, SIDExclusive, Owners
<1>9. ReservedExact'
    BY <1>2, <1>5 DEF Accept, ReservedExact, Owners
<1>10. ByNameSound' /\ BySIDSound'
    BY <1>2, <1>4, <1>6 DEF Accept, ByNameSound, BySIDSound, TypeOK
<1>11. LiveIndexed'
    BY <1>2, <1>4, <1>5 DEF Accept, LiveIndexed, TypeOK, Owners
<1>12. MembersExact'
    BY <1>2 DEF Accept, MembersExact
<1>13. QED
    BY <1>8, <1>9, <1>10, <1>11, <1>12

\* ircPeer.Close and hub.leave: c's entries are removed and nobody else's.
LEMMA CloseStep ==
    ASSUME IInv, TypeOK', NamesValid', NEW c \in Conns, pc[c] \in Live, Close(c)
    PROVE  IInv'
<1> USE DEF IInv
<1>1. pc'[c] \in {"leave", "done"}
    BY DEF Close, AfterWrite, TypeOK
<1>2. HoldingConns' = HoldingConns /\ LiveConns' = LiveConns \ {c}
    BY <1>1 DEF Close, AfterWrite, TypeOK, HoldingConns, LiveConns, Holding, Live
<1>3. c \in LiveConns
    BY DEF LiveConns
<1>4. name[c] \in Names /\ sid[c] \in SIDs
    BY <1>3 DEF NamesValid, Named, SIDsHeld, Owners
<1>5. \A d \in Owners \ {c} : name[d] # name[c] /\ sid[d] # sid[c]
    BY <1>3 DEF NameExclusive, SIDExclusive, Owners
<1>6. Owners' \subseteq Owners
    BY <1>2 DEF Owners
<1>7. SIDsHeld' /\ NameExclusive' /\ SIDExclusive'
    BY <1>6 DEF Close, SIDsHeld, NameExclusive, SIDExclusive, Owners
<1>8. ReservedExact'
    BY <1>2 DEF Close, ReservedExact
<1>9. ByNameSound' /\ BySIDSound'
    BY <1>2, <1>4, <1>5 DEF Close, ByNameSound, BySIDSound, TypeOK, Owners
<1>10. LiveIndexed'
    BY <1>2, <1>4, <1>5 DEF Close, LiveIndexed, TypeOK, Owners
<1>11. MembersExact'
    BY <1>2 DEF Close, MembersExact
<1>12. QED
    BY <1>7, <1>8, <1>9, <1>10, <1>11

\* IrcHub's type invariant holds in every reachable state.
THEOREM TypeCorrect == Spec => []TypeOK
<1>1. Init => TypeOK /\ NamesValid
    BY DEF Init, TypeOK, PCs, NamesValid, Named, Holding, Live
<1>2. QED
    BY <1>1, TypeStep, NamesValidStep, PTL DEF Spec

\* A step of c that moves it within Holding, within Live, or outside both,
\* and changes neither the registry nor any owner's name or id.
LEMMA QuietStep ==
    ASSUME IInv, TypeOK', NamesValid', NEW c \in Conns,
           pc' = [pc EXCEPT ![c] = pc'[c]],
           pc[c] \in Holding <=> pc'[c] \in Holding,
           pc[c] \in Live <=> pc'[c] \in Live,
           \A d \in Conns \ {c} : name'[d] = name[d] /\ sid'[d] = sid[d],
           pc[c] \in Holding \cup Live => name'[c] = name[c] /\ sid'[c] = sid[c],
           UNCHANGED RegistryVars
    PROVE  IInv'
<1>1. HoldingConns' = HoldingConns /\ LiveConns' = LiveConns
    BY StableSets DEF IInv
<1>2. \A d \in Owners : name'[d] = name[d] /\ sid'[d] = sid[d]
    BY DEF Owners, HoldingConns, LiveConns
<1>3. QED
    BY <1>1, <1>2, StableOwnersStep

\* Every step keeps IInv.
LEMMA IInvStep == IInv /\ [Next]_vars => IInv'
<1> SUFFICES ASSUME IInv, [Next]_vars PROVE IInv'
    OBVIOUS
<1>0. TypeOK' /\ NamesValid'
    BY TypeStep, NamesValidStep DEF IInv
<1>1. CASE UNCHANGED vars \/ Terminated
    <2>1. HoldingConns' = HoldingConns /\ LiveConns' = LiveConns
        BY <1>1 DEF vars, Terminated, HoldingConns, LiveConns
    <2>2. QED
        BY <1>0, <1>1, <2>1, StableOwnersStep DEF vars, Terminated, RegistryVars
<1>2. ASSUME NEW c \in Conns, ConnStep(c) PROVE IInv'
    <2> DEFINE Quiet(c1) ==
            /\ pc' = [pc EXCEPT ![c1] = pc'[c1]]
            /\ pc[c1] \in Holding <=> pc'[c1] \in Holding
            /\ pc[c1] \in Live <=> pc'[c1] \in Live
            /\ \A d \in Conns \ {c1} : name'[d] = name[d] /\ sid'[d] = sid[d]
            /\ pc[c1] \in Holding \cup Live => name'[c1] = name[c1] /\ sid'[c1] = sid[c1]
            /\ UNCHANGED RegistryVars
    <2>0. Quiet(c) => IInv'
        BY <1>0, QuietStep
    <2> USE DEF RegistryVars, Holding, Live
    <2>1. CASE HandshakeAbort(c)
        BY <2>0, <2>1 DEF HandshakeAbort, IInv, TypeOK
    <2>2. CASE ReadNick(c)
        BY <2>0, <2>2 DEF ReadNick, IInv, TypeOK
    <2>3. CASE ReserveName(c)
        <3>1. CASE Available(name[c])
            BY <1>0, <2>3, <3>1, ReserveStep DEF ReserveName
        <3>2. CASE ~Available(name[c])
            BY <2>0, <2>3, <3>2 DEF ReserveName, IInv, TypeOK
        <3>3. QED
            BY <3>1, <3>2
    <2>4. ASSUME FailHandshake(c), pc[c] \in Holding PROVE IInv'
        BY <1>0, <2>4, FailStep
    <2>5. CASE IrcWelcome(c)
        BY <2>0, <2>4, <2>5 DEF IrcWelcome, IInv, TypeOK
    <2>6. CASE WaitJoin(c)
        BY <2>0, <2>4, <2>6 DEF WaitJoin, IInv, TypeOK
    <2>7. CASE JoinEcho(c)
        BY <2>0, <2>4, <2>7 DEF JoinEcho, IInv, TypeOK
    <2>8. CASE PeersJoinRoster(c)
        BY <2>0, <2>4, <2>8 DEF PeersJoinRoster, IInv, TypeOK
    <2>9. CASE Accept(c)
        BY <1>0, <2>9, AcceptStep
    <2>10. CASE CallOnJoined(c)
        BY <1>0, <2>0, <2>10, CloseStep DEF CallOnJoined, IInv, TypeOK
    <2>11. CASE ServeChat(c)
        BY <2>0, <2>11 DEF ServeChat, AfterWrite, IInv, TypeOK
    <2>12. CASE ServePrivate(c)
        BY <2>0, <2>12 DEF ServePrivate, IInv, TypeOK
    <2>13. CASE ServeExit(c)
        BY <1>0, <2>13, CloseStep DEF ServeExit
    <2>14. ASSUME NEW t \in Conns, BroadcastUserJoin(c, t) PROVE IInv'
        BY <2>0, <2>14 DEF BroadcastUserJoin, AfterWrite, IInv, TypeOK
    <2>15. ASSUME NEW t \in Conns, ChatMsg(c, t) PROVE IInv'
        BY <2>0, <2>15 DEF ChatMsg, AfterWrite, IInv, TypeOK
    <2>16. ASSUME NEW t \in Conns, PeersLeave(c, t) PROVE IInv'
        BY <2>0, <2>16 DEF PeersLeave, AfterWrite, IInv, TypeOK
    <2>17. QED
        BY <1>2, <2>1, <2>2, <2>3, <2>5, <2>6, <2>7, <2>8, <2>9, <2>10,
           <2>11, <2>12, <2>13, <2>14, <2>15, <2>16 DEF ConnStep
<1>3. QED
    BY <1>1, <1>2, NextSplit

\* The initial state satisfies the inductive invariant.
LEMMA InitIInv == Init => IInv
BY DEF Init, IInv, TypeOK, PCs, NamesValid, Named, Holding, Live,
       SIDsHeld, NameExclusive, SIDExclusive, ReservedExact, ByNameSound,
       BySIDSound, LiveIndexed, MembersExact, Owners, HoldingConns, LiveConns

\* The connections listPeers() returns are exactly the live peers.
LEMMA DirectoryLive == IInv => DirectoryConns = LiveConns
BY DEF IInv, DirectoryConns, PeerNames, ByNameSound, LiveIndexed,
       NamesValid, Named, LiveConns, TypeOK

\* I1-I3 of the specification for every number of connections, nicknames
\* and session ids: no nickname is held twice, and the reservations, byName,
\* bySID and the chat room index exactly the handshakes and live peers, as
\* reserveName, unbind(), the accept block of ircAccept and leave maintain.
THEOREM RegistryCorrect == Spec => [](NameExclusive /\ RegistryExact)
<1>1. IInv => NameExclusive /\ RegistryExact
    BY DirectoryLive DEF IInv, RegistryExact, ReservedExact, LiveIndexed,
           BySIDSound, MembersExact
<1>2. QED
    BY <1>1, InitIInv, IInvStep, PTL DEF Spec

\* I1 alone, as the irc_registry run checks it: however NICK reads, the
\* reservation race and leave interleave, no two connections that reserved
\* or were promoted hold the same nickname.
THEOREM NicknamesExclusive == Spec => []NameExclusive
BY RegistryCorrect, PTL

=============================================================================
