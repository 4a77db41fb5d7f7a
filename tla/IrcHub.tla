------------------------------- MODULE IrcHub -------------------------------
(***************************************************************************)
(* The hub's membership core as driven by IRC connections: the nickname    *)
(* reservation taken during the IRC handshake, the promotion of the        *)
(* reservation into the directory (byName, bySID) and the main chat room,  *)
(* the JOIN/PART/PRIVMSG fan-out between connections, and the leave that   *)
(* ends a session (src/unnamed/part_000, the hub's irc.go).                *)
(*                                                                         *)
(* Every accepted connection is served by a goroutine of its own; pc[c] is *)
(* where that goroutine is.  Writes to a connection are atomic frames (the *)
(* per-peer write mutex), so one write is one step.  What a client has     *)
(* been told is kept as the client's own view: view[c] is the set of       *)
(* nicknames the client believes are on #hub (JOIN adds, PART removes),    *)
(* heard[c] the nicknames it got a #hub PRIVMSG from, priv[c] those it got *)
(* a private PRIVMSG from.  The hub code that is not under src/ (the       *)
(* directory's reserveName, leave, Peers, SendChat, broadcastUserJoin,     *)
(* privateChat and nextSID) is modelled from the specification.            *)
(***************************************************************************)
EXTENDS Naturals, FiniteSets

CONSTANTS
    Conns,      \* accepted TCP connections, one goroutine each
    Names,      \* nicknames validateUserName accepts
    BadNames,   \* nicknames validateUserName rejects
    SIDs,       \* session ids nextSID can hand out
    NoConn,     \* "absent" in the directory maps
    NoName,     \* a connection that has not sent NICK yet
    NoSID       \* a connection that has no session id yet

ASSUME ConstAssumption ==
    /\ Names \cap BadNames = {}
    /\ NoConn \notin Conns
    /\ NoName \notin Names \cup BadNames
    /\ NoSID \notin SIDs

\* nextSID never fails (part_000:148): there is always a free id for every
\* connection that can hold one.
ASSUME SIDsAssumption ==
    /\ IsFiniteSet(Conns)
    /\ IsFiniteSet(SIDs)
    /\ Cardinality(SIDs) >= Cardinality(Conns)

VARIABLES
    pc,         \* where the goroutine serving each connection is
    name,       \* the nickname it last read in NICK (ircHandshake's name)
    sid,        \* the session id nextSID gave it
    reserved,   \* h.peers.reserved: names reserved by handshakes in flight
    byName,     \* h.peers.byName
    bySID,      \* h.peers.bySID
    members,    \* the global chat room's members
    pending,    \* targets a fan-out (join, chat, leave) still has to write to
    view,       \* the nicknames each client has been told are on #hub
    heard,      \* senders of the #hub messages each client received
    priv        \* senders of the private messages each client received

vars == <<pc, name, sid, reserved, byName, bySID, members, pending,
          view, heard, priv>>

PCs == {"nick", "reserve", "welcome", "waitJoin", "echo", "roster",
        "accept", "announce", "onJoined", "serve", "chat", "leave", "done"}

\* Handshake states in which the connection holds a reservation and a SID.
Holding == {"welcome", "waitJoin", "echo", "roster", "accept"}

\* States of a promoted connection that has not been closed yet.
Live == {"announce", "onJoined", "serve", "chat"}

AllNames == Names \cup BadNames

\* States past validateUserName, in which name holds a valid nickname.
Named == {"reserve"} \cup Holding \cup Live

TypeOK ==
    /\ pc \in [Conns -> PCs]
    /\ name \in [Conns -> AllNames \cup {NoName}]
    /\ sid \in [Conns -> SIDs \cup {NoSID}]
    /\ reserved \in SUBSET Names
    /\ byName \in [Names -> Conns \cup {NoConn}]
    /\ bySID \in [SIDs -> Conns \cup {NoConn}]
    /\ members \in SUBSET Conns
    /\ pending \in [Conns -> SUBSET Conns]
    /\ view \in [Conns -> SUBSET AllNames]
    /\ heard \in [Conns -> SUBSET AllNames]
    /\ priv \in [Conns -> SUBSET AllNames]

Init ==
    /\ pc = [c \in Conns |-> "nick"]
    /\ name = [c \in Conns |-> NoName]
    /\ sid = [c \in Conns |-> NoSID]
    /\ reserved = {}
    /\ byName = [n \in Names |-> NoConn]
    /\ bySID = [s \in SIDs |-> NoConn]
    /\ members = {}
    /\ pending = [c \in Conns |-> {}]
    /\ view = [c \in Conns |-> {}]
    /\ heard = [c \in Conns |-> {}]
    /\ priv = [c \in Conns |-> {}]

-----------------------------------------------------------------------------
(* Helpers over the directory.                                             *)

\* The names listed by h.Peers() / listPeers(): the directory's live peers.
PeerNames == {n \in Names : byName[n] # NoConn}

\* nameAvailable(name, nil): a key of neither the reserved nor the byName map.
Available(n) == n \notin reserved /\ n \notin PeerNames

\* The connections listed by listPeers().
DirectoryConns == {byName[n] : n \in PeerNames}

\* Ids in use by a reservation or a live peer; nextSID picks another one.
FreeSIDs == SIDs \ {sid[c] : c \in {d \in Conns : pc[d] \in Holding \cup Live}}

\* A write to t's connection reaches the client only while it is open.
Open(t) == pc[t] \notin {"leave", "done"}

\* The goroutine moves to busy while targets remain, else to next.
AfterWrite(c, rest, busy, next) ==
    /\ pending' = [pending EXCEPT ![c] = rest]
    /\ pc' = [pc EXCEPT ![c] = IF rest = {} THEN next ELSE busy]

-----------------------------------------------------------------------------
(* The IRC handshake (ircHandshake and ircAccept).                         *)

\* A read error, the 5 s deadline, a command other than NICK, or a missing
\* USER on the first round: the handshake returns before any reservation.
HandshakeAbort(c) ==
    /\ pc[c] = "nick"
    /\ pc' = [pc EXCEPT ![c] = "done"]
    /\ UNCHANGED <<name, sid, reserved, byName, bySID, members, pending,
                   view, heard, priv>>

\* A bug variant: the NICK loop without validateUserName.
ReadNickUnvalidated(c) ==
    /\ pc[c] = "nick"
    /\ \E n \in AllNames :
         /\ name' = [name EXCEPT ![c] = n]
         /\ \/ ~Available(n) /\ UNCHANGED pc
            \/ Available(n) /\ pc' = [pc EXCEPT ![c] = "reserve"]
    /\ UNCHANGED <<sid, reserved, byName, bySID, members, pending,
                   view, heard, priv>>

\* NICK read: an invalid name ends the handshake, a taken one is answered
\* with 433 and the loop reads NICK again, a free one goes on to reserve.
ReadNick(c) ==
    /\ pc[c] = "nick"
    /\ \E n \in AllNames :
         /\ name' = [name EXCEPT ![c] = n]
         /\ \/ n \in BadNames /\ pc' = [pc EXCEPT ![c] = "done"]
            \/ n \in Names /\ ~Available(n) /\ UNCHANGED pc
            \/ n \in Names /\ Available(n) /\ pc' = [pc EXCEPT ![c] = "reserve"]
    /\ UNCHANGED <<sid, reserved, byName, bySID, members, pending,
                   view, heard, priv>>

\* A bug variant: reserveName checking only the reservations, not byName.
ReserveNameIgnoringLive(c) ==
    /\ pc[c] = "reserve"
    /\ \/ /\ name[c] \notin reserved
          /\ reserved' = reserved \cup {name[c]}
          /\ \E s \in FreeSIDs : sid' = [sid EXCEPT ![c] = s]
          /\ pc' = [pc EXCEPT ![c] = "welcome"]
       \/ /\ name[c] \in reserved
          /\ pc' = [pc EXCEPT ![c] = "nick"] /\ UNCHANGED <<reserved, sid>>
    /\ UNCHANGED <<name, byName, bySID, members, pending, view, heard, priv>>

\* reserveName under the directory lock, then nextSID; a lost race is
\* answered with 433 and the loop reads NICK again.
ReserveName(c) ==
    /\ pc[c] = "reserve"
    /\ \/ /\ Available(name[c])
          /\ reserved' = reserved \cup {name[c]}
          /\ \E s \in FreeSIDs : sid' = [sid EXCEPT ![c] = s]
          /\ pc' = [pc EXCEPT ![c] = "welcome"]
       \/ /\ ~Available(name[c])
          /\ pc' = [pc EXCEPT ![c] = "nick"] /\ UNCHANGED <<reserved, sid>>
    /\ UNCHANGED <<name, byName, bySID, members, pending, view, heard, priv>>

\* A bug variant: the error path of ircAccept not calling unbind().
FailHandshakeNoUnbind(c) ==
    /\ pc' = [pc EXCEPT ![c] = "done"]
    /\ UNCHANGED <<name, sid, reserved, byName, bySID, members, pending,
                   view, heard, priv>>

\* ircAccept returned an error: ircHandshake calls unbind() and gives up.
FailHandshake(c) ==
    /\ pc' = [pc EXCEPT ![c] = "done"]
    /\ reserved' = reserved \ {name[c]}
    /\ UNCHANGED <<name, sid, byName, bySID, members, pending,
                   view, heard, priv>>

\* The welcome numerics 001-005; any failed write fails the handshake.
IrcWelcome(c) ==
    /\ pc[c] = "welcome"
    /\ \/ /\ pc' = [pc EXCEPT ![c] = "waitJoin"]
          /\ UNCHANGED <<name, sid, reserved, byName, bySID, members, pending,
                         view, heard, priv>>
       \/ FailHandshake(c)

\* The waitJoin loop, which has no deadline: JOIN #hub leaves it; a read
\* error, a failed PONG or a JOIN of another channel fails the handshake.
\* PING answered and unknown commands change nothing.
WaitJoin(c) ==
    /\ pc[c] = "waitJoin"
    /\ \/ /\ pc' = [pc EXCEPT ![c] = "echo"]
          /\ UNCHANGED <<name, sid, reserved, byName, bySID, members, pending,
                         view, heard, priv>>
       \/ FailHandshake(c)

\* The client's own JOIN #hub is echoed back to it.
JoinEcho(c) ==
    /\ pc[c] = "echo"
    /\ \/ /\ view' = [view EXCEPT ![c] = @ \cup {name[c]}]
          /\ pc' = [pc EXCEPT ![c] = "roster"]
          /\ UNCHANGED <<name, sid, reserved, byName, bySID, members, pending,
                         heard, priv>>
       \/ FailHandshake(c)

\* peer.PeersJoin(h.Peers()): a JOIN for every peer of the directory, read
\* now, before this connection is itself in the directory.
PeersJoinRoster(c) ==
    /\ pc[c] = "roster"
    /\ \/ /\ view' = [view EXCEPT ![c] = @ \cup PeerNames]
          /\ pc' = [pc EXCEPT ![c] = "accept"]
          /\ UNCHANGED <<name, sid, reserved, byName, bySID, members, pending,
                         heard, priv>>
       \/ FailHandshake(c)

\* A bug variant: the peer may be accepted while still waiting for its JOIN.
AcceptBeforeJoin(c) ==
    /\ pc[c] \in {"waitJoin", "accept"}
    /\ reserved' = reserved \ {name[c]}
    /\ byName' = [byName EXCEPT ![name[c]] = c]
    /\ bySID' = [bySID EXCEPT ![sid[c]] = c]
    /\ members' = members \cup {c}
    /\ AfterWrite(c, DirectoryConns, "announce", "onJoined")
    /\ UNCHANGED <<name, sid, view, heard, priv>>

\* "accept the user": under the directory lock the reservation becomes the
\* byName and bySID entries, the list is rebuilt, the peer joins the global
\* chat; broadcastUserJoin then writes to every other listed peer.
Accept(c) ==
    /\ pc[c] = "accept"
    /\ reserved' = reserved \ {name[c]}
    /\ byName' = [byName EXCEPT ![name[c]] = c]
    /\ bySID' = [bySID EXCEPT ![sid[c]] = c]
    /\ members' = members \cup {c}
    /\ AfterWrite(c, DirectoryConns, "announce", "onJoined")
    /\ UNCHANGED <<name, sid, view, heard, priv>>

\* broadcastUserJoin: t.PeersJoin([c]), one JOIN written to t.
BroadcastUserJoin(c, t) ==
    /\ pc[c] = "announce"
    /\ t \in pending[c]
    /\ view' = [view EXCEPT ![t] = IF Open(t) THEN @ \cup {name[c]} ELSE @]
    /\ AfterWrite(c, pending[c] \ {t}, "announce", "onJoined")
    /\ UNCHANGED <<name, sid, reserved, byName, bySID, members, heard, priv>>

-----------------------------------------------------------------------------
(* ServeIRC after the handshake, and ircPeer.Close with the hub's leave.   *)

\* ircPeer.Close: the connection is closed and hub.leave removes the peer
\* from byName, bySID and the chat room under the lock, then writes a PART
\* to every peer still listed.
Close(c) ==
    /\ byName' = [byName EXCEPT ![name[c]] = NoConn]
    /\ bySID' = [bySID EXCEPT ![sid[c]] = NoConn]
    /\ members' = members \ {c}
    /\ AfterWrite(c, DirectoryConns \ {c}, "leave", "done")
    /\ UNCHANGED <<name, sid, reserved, view, heard, priv>>

\* h.callOnJoined(peer): false ends ServeIRC, whose deferred Close runs.
CallOnJoined(c) ==
    /\ pc[c] = "onJoined"
    /\ \/ /\ pc' = [pc EXCEPT ![c] = "serve"]
          /\ UNCHANGED <<name, sid, reserved, byName, bySID, members, pending,
                         view, heard, priv>>
       \/ Close(c)

\* PRIVMSG #hub: globalChat.SendChat takes the room's members.
ServeChat(c) ==
    /\ pc[c] = "serve"
    /\ AfterWrite(c, members, "chat", "serve")
    /\ UNCHANGED <<name, sid, reserved, byName, bySID, members,
                   view, heard, priv>>

\* SendChat: t.ChatMsg(room, c, msg); the sender itself gets no echo.
ChatMsg(c, t) ==
    /\ pc[c] = "chat"
    /\ t \in pending[c]
    /\ heard' = [heard EXCEPT ![t] = IF t # c /\ Open(t) THEN @ \cup {name[c]}
                                                         ELSE @]
    /\ AfterWrite(c, pending[c] \ {t}, "chat", "serve")
    /\ UNCHANGED <<name, sid, reserved, byName, bySID, members, view, priv>>

\* PRIVMSG <nick>: h.PeerByName and privateChat to that peer; a PRIVMSG to
\* an unknown nick is dropped, which changes nothing.
ServePrivate(c) ==
    /\ pc[c] = "serve"
    /\ \E n \in PeerNames :
         priv' = [priv EXCEPT ![byName[n]] = @ \cup {name[c]}]
    /\ UNCHANGED <<pc, name, sid, reserved, byName, bySID, members, pending,
                   view, heard>>

\* EOF, a read error, QUIT, a PRIVMSG without two parameters or a failed
\* PONG end the loop, and the deferred Close runs.
ServeExit(c) ==
    /\ pc[c] = "serve"
    /\ Close(c)

\* hub.leave's broadcast: t.PeersLeave([c]), one PART written to t.
PeersLeave(c, t) ==
    /\ pc[c] = "leave"
    /\ t \in pending[c]
    /\ view' = [view EXCEPT ![t] = IF Open(t) THEN @ \ {name[c]} ELSE @]
    /\ AfterWrite(c, pending[c] \ {t}, "leave", "done")
    /\ UNCHANGED <<name, sid, reserved, byName, bySID, members, heard, priv>>

\* Every connection has ended; the hub idles.
Terminated ==
    /\ \A c \in Conns : pc[c] = "done"
    /\ UNCHANGED vars

Next ==
    \/ \E c \in Conns :
         \/ HandshakeAbort(c) \/ ReadNick(c) \/ ReserveName(c)
         \/ IrcWelcome(c) \/ WaitJoin(c) \/ JoinEcho(c) \/ PeersJoinRoster(c)
         \/ Accept(c) \/ CallOnJoined(c) \/ ServeChat(c) \/ ServePrivate(c)
         \/ ServeExit(c)
         \/ \E t \in Conns : BroadcastUserJoin(c, t) \/ ChatMsg(c, t)
                             \/ PeersLeave(c, t)
    \/ Terminated

Spec == Init /\ [][Next]_vars

-----------------------------------------------------------------------------
(* Properties.                                                             *)

HoldingConns == {c \in Conns : pc[c] \in Holding}
LiveConns == {c \in Conns : pc[c] \in Live}

\* I1 of the specification, about reserveName, the accept block and leave:
\* however NICKs race, no nickname is held by two connections at once,
\* whether reserved by a handshake or live in the directory.
NameExclusive ==
    \A c, d \in HoldingConns \cup LiveConns :
        c # d => name[c] # name[d]

\* I1-I3, about unbind() on every failed handshake, the accept block and
\* leave: the reservations are exactly the names of the handshakes holding
\* one, byName and bySID index exactly the live peers, and the chat room's
\* members are exactly the live peers.
RegistryExact ==
    /\ reserved = {name[c] : c \in HoldingConns}
    /\ DirectoryConns = LiveConns
    /\ \A c \in LiveConns : byName[name[c]] = c /\ bySID[sid[c]] = c
    /\ \A s \in SIDs : bySID[s] # NoConn => bySID[s] \in LiveConns
    /\ members = LiveConns

\* The IRC order on a client's connection, about the handshake writing the
\* JOIN echo before the accept block: no JOIN, PART or #hub message for
\* anyone else reaches a client before its own JOIN #hub.
ChannelOrder ==
    [][\A t \in Conns :
         (heard'[t] # heard[t] \/ view'[t] \ {name[t]} # view[t] \ {name[t]})
            => name[t] \in view[t]]_vars

\* The presence roster, about PeersJoin(h.Peers()) running before the
\* accept block and leave's PART fan-out racing a new JOIN of the same
\* nickname: once no JOIN or PART fan-out is in flight, every live client
\* sees exactly the nicknames of the live peers.
Settled == \A c \in Conns : pc[c] \notin {"announce", "leave"}

RosterAgrees ==
    Settled => \A t \in LiveConns : view[t] = PeerNames

-----------------------------------------------------------------------------
(* The inductive strengthening of NameExclusive and RegistryExact, proved   *)
(* in IrcHubProofs, as a conjunction of named parts.                        *)
Owners == HoldingConns \cup LiveConns

\* Every connection past validateUserName holds a valid nickname.
NamesValid == \A c \in Conns : pc[c] \in Named => name[c] \in Names

\* Every owner of a name has a session id from nextSID.
SIDsHeld == \A c \in Owners : sid[c] \in SIDs

\* No two owners share a session id.
SIDExclusive == \A c, d \in Owners : c # d => sid[c] # sid[d]

\* The reservations are the names of the handshakes holding one.
ReservedExact == reserved = {name[c] : c \in HoldingConns}

\* Each byName and bySID entry points at a live connection with that key.
ByNameSound ==
    \A n \in Names : byName[n] # NoConn => byName[n] \in LiveConns /\ name[byName[n]] = n
BySIDSound ==
    \A s \in SIDs : bySID[s] # NoConn => bySID[s] \in LiveConns /\ sid[bySID[s]] = s

\* Each live connection is indexed under its name and its id.
LiveIndexed == \A c \in LiveConns : byName[name[c]] = c /\ bySID[sid[c]] = c

\* The chat room's members are the live connections.
MembersExact == members = LiveConns

IInv ==
    /\ TypeOK
    /\ NamesValid
    /\ SIDsHeld
    /\ NameExclusive
    /\ SIDExclusive
    /\ ReservedExact
    /\ ByNameSound
    /\ BySIDSound
    /\ LiveIndexed
    /\ MembersExact

=============================================================================
