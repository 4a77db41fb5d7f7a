------------------------------ MODULE ClientDial ------------------------------
(***************************************************************************)
(* The ADC client's client-to-client rendezvous (src/adc/client/           *)
(* client2client.go): Peer.Dial and dialPassive, which ask the target      *)
(* through the hub to connect back (RCM), wait for the address of its      *)
(* answer (CTM), dial it and run handshakePassive; and handshakeActive,    *)
(* the same library's side of an accepted connection, which checks the     *)
(* connector's CID and the RCM's token.                                    *)
(*                                                                         *)
(* Self dials Target.  The hub routes the RCM by the session id Self read  *)
(* from its view of Target, and that id may have been handed to Other      *)
(* once Target left.  Impostor knows every CID (they are public in INF)    *)
(* but not the token, connects to any listening peer and sends whatever   *)
(* it likes.  A TCP connection is two FIFO channels; a read with nothing   *)
(* to read fails by its 5 s deadline.  The hub's routing, the CTM answer   *)
(* and the caller's cancel are not under src/ and are modelled from the    *)
(* specification (sections 4.5 and 5).                                     *)
(***************************************************************************)
EXTENDS Sequences

CONSTANTS
    Self,       \* the client running Dial
    Target,     \* the peer it dials
    Other,      \* a client that may later be given Target's session id
    Impostor,   \* a client that does not follow the protocol
    None,       \* no client / no address
    Tok,        \* the token revConnToken made for this dial
    Forged,     \* any other token
    NoToken     \* an INF without a token

\* The impostor is not the dialer, and whatever token it sends is not the
\* one revConnToken made.
ASSUME DialAssumption == Self # Impostor /\ Tok \notin {Forged, NoToken}

Actives == {Target, Other}          \* clients that may answer the RCM
Connectors == {Self, Impostor}      \* clients that may connect to them
Clients == Actives \cup Connectors
Links == Actives \X Connectors      \* a TCP connection, by its two ends

\* ADC SUP and INF, with the fields the handshakes look at: whether the
\* features include BASE and TIGR, the CID and the token.
Sup(b) == [type |-> "SUP", basic |-> b, cid |-> None, token |-> NoToken]
Inf(c, t) == [type |-> "INF", basic |-> FALSE, cid |-> c, token |-> t]
Msgs == {Sup(b) : b \in BOOLEAN} \cup {Inf(c, t) : c \in Clients, t \in {Tok, Forged, NoToken}}

\* What the impostor can send: it has no token.
ImpostorMsgs == {Sup(b) : b \in BOOLEAN} \cup {Inf(c, Forged) : c \in {Self, Impostor}}

\* What it writes before its first read: up to two of them.
ImpostorHellos ==
    {<<>>} \cup {<<m>> : m \in ImpostorMsgs} \cup {<<m1, m2>> : m1, m2 \in ImpostorMsgs}

VARIABLES
    dpc,        \* where Self's Dial is
    cancelled,  \* the caller has cancelled Dial's context
    known,      \* Self's view has Target online (p.Online, p.getSID)
    holder,     \* the client the hub gives Target's session id to now
    rcm,        \* Self's RCM: "none", "inflight" to the hub, "done"
    listening,  \* clients that answered the RCM and accept connections
    ctm,        \* the CTM answer in flight to Self, from that client
    caddr,      \* the address revConnToken delivered on caddr
    dialed,     \* the client Self dialed
    apc,        \* where handshakeActive is, per link
    toA,        \* bytes from the connector to the active side, per link
    toC,        \* bytes from the active side to the connector, per link
    open        \* the connector has not closed the link

vars == <<dpc, cancelled, known, holder, rcm, listening, ctm, caddr, dialed,
          apc, toA, toC, open>>

DPCs == {"start", "wait", "dial", "send", "readSup", "readInf", "ok", "fail"}
APCs == {"none", "readSup", "sendSup", "readInf", "sendInf", "ok", "fail"}

TypeOK ==
    /\ dpc \in DPCs
    /\ cancelled \in BOOLEAN /\ known \in BOOLEAN
    /\ holder \in Actives \cup {None}
    /\ rcm \in {"none", "inflight", "done"}
    /\ listening \subseteq Actives
    /\ ctm \in Actives \cup {None} /\ caddr \in Actives \cup {None}
    /\ dialed \in Actives \cup {None}
    /\ apc \in [Links -> APCs]
    /\ toA \in [Links -> Seq(Msgs)] /\ toC \in [Links -> Seq(Msgs)]
    /\ open \in [Links -> BOOLEAN]

Init ==
    /\ dpc = "start"
    /\ cancelled = FALSE /\ known = TRUE
    /\ holder = Target
    /\ rcm = "none" /\ listening = {} /\ ctm = None /\ caddr = None
    /\ dialed = None
    /\ apc = [l \in Links |-> "none"]
    /\ toA = [l \in Links |-> <<>>] /\ toC = [l \in Links |-> <<>>]
    /\ open = [l \in Links |-> TRUE]

\* The link Self dialed.
DLink == <<dialed, Self>>

\* A read of one message from channel ch of link l, or of nothing.
Pending(ch, l) == ch[l] # <<>>

-----------------------------------------------------------------------------
(* Self: Dial, dialPassive and handshakePassive.                           *)

\* Dial and dialPassive up to the RCM: ErrPeerOffline when Self's view has
\* Target offline; ErrPeerPassive without TCP4, or a failed write to the
\* hub, also end it; else the RCM with the token is on its way.
DialStart ==
    /\ dpc = "start"
    /\ \/ dpc' = "fail" /\ UNCHANGED rcm
       \/ known /\ rcm' = "inflight" /\ dpc' = "wait"
    /\ UNCHANGED <<cancelled, known, holder, listening, ctm, caddr, dialed,
                   apc, toA, toC, open>>

\* The select on ctx.Done(), errc and caddr: whichever is ready.
Select ==
    /\ dpc = "wait"
    /\ \/ cancelled /\ dpc' = "fail"
       \/ dpc' = "fail"
       \/ caddr # None /\ dpc' = "dial"
    /\ UNCHANGED <<cancelled, known, holder, rcm, listening, ctm, caddr, dialed,
                   apc, toA, toC, open>>

\* adc.Dial(addr): the peer's listener accepts and starts handshakeActive.
DialAddr ==
    /\ dpc = "dial"
    /\ \/ dpc' = "fail" /\ UNCHANGED <<dialed, apc>>
       \/ /\ caddr \in listening
          /\ dialed' = caddr
          /\ apc' = [apc EXCEPT ![<<caddr, Self>>] = "readSup"]
          /\ dpc' = "send"
    /\ UNCHANGED <<cancelled, known, holder, rcm, listening, ctm, caddr,
                   toA, toC, open>>

\* handshakePassive failed: dialPassive closes the connection.
FailClose ==
    /\ dpc' = "fail"
    /\ open' = [open EXCEPT ![DLink] = FALSE]

\* A bug variant: the INF written with the token and the CID swapped.
SendHelloSwapped ==
    /\ dpc = "send"
    /\ \/ /\ toA' = [toA EXCEPT ![DLink] = @ \o <<Sup(TRUE), Inf(Tok, Self)>>]
          /\ dpc' = "readSup" /\ UNCHANGED open
       \/ FailClose /\ UNCHANGED toA
    /\ UNCHANGED <<cancelled, known, holder, rcm, listening, ctm, caddr, dialed,
                   apc, toC>>

\* SUP with BASE and TIGR and INF with Self's CID and the token, written
\* ahead and flushed together; only the flush's error is checked.
SendHello ==
    /\ dpc = "send"
    /\ \/ /\ toA' = [toA EXCEPT ![DLink] = @ \o <<Sup(TRUE), Inf(Self, Tok)>>]
          /\ dpc' = "readSup" /\ UNCHANGED open
       \/ FailClose /\ UNCHANGED toA
    /\ UNCHANGED <<cancelled, known, holder, rcm, listening, ctm, caddr, dialed,
                   apc, toC>>

\* The peer's SUP must list BASE and TIGR; the deadline set before it
\* covers both reads.
ReadSupP ==
    /\ dpc = "readSup"
    /\ \/ /\ Pending(toC, DLink)
          /\ toC' = [toC EXCEPT ![DLink] = Tail(@)]
          /\ \/ Head(toC[DLink]) = Sup(TRUE) /\ dpc' = "readInf" /\ UNCHANGED open
             \/ Head(toC[DLink]) # Sup(TRUE) /\ FailClose
       \/ ~Pending(toC, DLink) /\ FailClose /\ UNCHANGED toC
    /\ UNCHANGED <<cancelled, known, holder, rcm, listening, ctm, caddr, dialed,
                   apc, toA>>

\* A bug variant: the identity read without the CID check.
ReadInfPNoCID ==
    /\ dpc = "readInf"
    /\ \/ /\ Pending(toC, DLink)
          /\ toC' = [toC EXCEPT ![DLink] = Tail(@)]
          /\ \/ Head(toC[DLink]).type = "INF" /\ dpc' = "ok" /\ UNCHANGED open
             \/ Head(toC[DLink]).type # "INF" /\ FailClose
       \/ ~Pending(toC, DLink) /\ FailClose /\ UNCHANGED toC
    /\ UNCHANGED <<cancelled, known, holder, rcm, listening, ctm, caddr, dialed,
                   apc, toA>>

\* The peer's INF must carry the CID of Target's INF in Self's view.
ReadInfP ==
    /\ dpc = "readInf"
    /\ \/ /\ Pending(toC, DLink)
          /\ toC' = [toC EXCEPT ![DLink] = Tail(@)]
          /\ LET m == Head(toC[DLink]) IN
             \/ m.type = "INF" /\ m.cid = Target /\ dpc' = "ok" /\ UNCHANGED open
             \/ ~(m.type = "INF" /\ m.cid = Target) /\ FailClose
       \/ ~Pending(toC, DLink) /\ FailClose /\ UNCHANGED toC
    /\ UNCHANGED <<cancelled, known, holder, rcm, listening, ctm, caddr, dialed,
                   apc, toA>>

-----------------------------------------------------------------------------
(* A peer's handshakeActive on a connection it accepted, link l.  It       *)
(* returns its error without closing the connection.                       *)

\* A bug variant: the wait for the connector's SUP without the deadline.
ReadSupANoDeadline(l) ==
    /\ apc[l] = "readSup"
    /\ Pending(toA, l)
    /\ toA' = [toA EXCEPT ![l] = Tail(@)]
    /\ apc' = [apc EXCEPT ![l] = IF Head(toA[l]) = Sup(TRUE) THEN "sendSup" ELSE "fail"]
    /\ UNCHANGED <<dpc, cancelled, known, holder, rcm, listening, ctm, caddr,
                   dialed, toC, open>>

\* The connector's SUP must list BASE and TIGR; one deadline covers both
\* reads.
ReadSupA(l) ==
    /\ apc[l] = "readSup"
    /\ \/ /\ Pending(toA, l)
          /\ toA' = [toA EXCEPT ![l] = Tail(@)]
          /\ apc' = [apc EXCEPT ![l] = IF Head(toA[l]) = Sup(TRUE) THEN "sendSup" ELSE "fail"]
       \/ ~Pending(toA, l) /\ apc' = [apc EXCEPT ![l] = "fail"] /\ UNCHANGED toA
    /\ UNCHANGED <<dpc, cancelled, known, holder, rcm, listening, ctm, caddr,
                   dialed, toC, open>>

\* A bug variant: the peer's own INF written together with its SUP, before
\* the connector's identity is read.
SendSupAEarlyInf(l) ==
    /\ apc[l] = "sendSup"
    /\ \/ /\ toC' = [toC EXCEPT ![l] = @ \o <<Sup(TRUE), Inf(l[1], NoToken)>>]
          /\ apc' = [apc EXCEPT ![l] = "readInf"]
       \/ ~open[l] /\ apc' = [apc EXCEPT ![l] = "fail"] /\ UNCHANGED toC
    /\ UNCHANGED <<dpc, cancelled, known, holder, rcm, listening, ctm, caddr,
                   dialed, toA, open>>

\* Its own SUP, written and flushed; a write to a connection the other end
\* has closed may fail.
SendSupA(l) ==
    /\ apc[l] = "sendSup"
    /\ \/ toC' = [toC EXCEPT ![l] = Append(@, Sup(TRUE))] /\ apc' = [apc EXCEPT ![l] = "readInf"]
       \/ ~open[l] /\ apc' = [apc EXCEPT ![l] = "fail"] /\ UNCHANGED toC
    /\ UNCHANGED <<dpc, cancelled, known, holder, rcm, listening, ctm, caddr,
                   dialed, toA, open>>

\* A bug variant: the identity read without the token check.
ReadInfANoToken(l) ==
    /\ apc[l] = "readInf"
    /\ \/ /\ Pending(toA, l)
          /\ toA' = [toA EXCEPT ![l] = Tail(@)]
          /\ LET m == Head(toA[l]) IN
             apc' = [apc EXCEPT ![l] = IF m.type = "INF" /\ m.cid = Self
                                       THEN "sendInf" ELSE "fail"]
       \/ ~Pending(toA, l) /\ apc' = [apc EXCEPT ![l] = "fail"] /\ UNCHANGED toA
    /\ UNCHANGED <<dpc, cancelled, known, holder, rcm, listening, ctm, caddr,
                   dialed, toC, open>>

\* The connector's INF must carry the CID of the client whose RCM this
\* peer answered (Self) and that RCM's token.
ReadInfA(l) ==
    /\ apc[l] = "readInf"
    /\ \/ /\ Pending(toA, l)
          /\ toA' = [toA EXCEPT ![l] = Tail(@)]
          /\ LET m == Head(toA[l]) IN
             apc' = [apc EXCEPT ![l] = IF m.type = "INF" /\ m.cid = Self /\ m.token = Tok
                                       THEN "sendInf" ELSE "fail"]
       \/ ~Pending(toA, l) /\ apc' = [apc EXCEPT ![l] = "fail"] /\ UNCHANGED toA
    /\ UNCHANGED <<dpc, cancelled, known, holder, rcm, listening, ctm, caddr,
                   dialed, toC, open>>

\* Its own INF, without a token, written and flushed.
SendInfA(l) ==
    /\ apc[l] = "sendInf"
    /\ \/ toC' = [toC EXCEPT ![l] = Append(@, Inf(l[1], NoToken))] /\ apc' = [apc EXCEPT ![l] = "ok"]
       \/ ~open[l] /\ apc' = [apc EXCEPT ![l] = "fail"] /\ UNCHANGED toC
    /\ UNCHANGED <<dpc, cancelled, known, holder, rcm, listening, ctm, caddr,
                   dialed, toA, open>>

-----------------------------------------------------------------------------
(* The hub, the other clients and the caller.                              *)

\* The hub routes the RCM by session id, to whoever holds it now; the
\* receiver answers with a CTM carrying its address and listens.
RouteRCM ==
    /\ rcm = "inflight"
    /\ rcm' = "done"
    /\ IF holder # None
       THEN listening' = listening \cup {holder} /\ ctm' = holder
       ELSE UNCHANGED <<listening, ctm>>
    /\ UNCHANGED <<dpc, cancelled, known, holder, caddr, dialed, apc, toA, toC, open>>

\* The CTM reaches revConnToken, which hands the address to the waiting
\* select; once dialPassive has returned, its deferred cancel has dropped
\* the token and the CTM is ignored.
RouteCTM ==
    /\ ctm # None
    /\ ctm' = None
    /\ caddr' = IF dpc = "wait" THEN ctm ELSE caddr
    /\ UNCHANGED <<dpc, cancelled, known, holder, rcm, listening, dialed,
                   apc, toA, toC, open>>

\* Target disconnects; the hub frees its session id.
TargetLeaves ==
    /\ holder = Target
    /\ holder' = None
    /\ UNCHANGED <<dpc, cancelled, known, rcm, listening, ctm, caddr, dialed,
                   apc, toA, toC, open>>

\* The hub's QUI for Target reaches Self's view.
ViewUpdate ==
    /\ holder # Target /\ known
    /\ known' = FALSE
    /\ UNCHANGED <<dpc, cancelled, holder, rcm, listening, ctm, caddr, dialed,
                   apc, toA, toC, open>>

\* The freed session id is handed to Other when it logs in.
SIDReused ==
    /\ holder = None
    /\ holder' = Other
    /\ UNCHANGED <<dpc, cancelled, known, rcm, listening, ctm, caddr, dialed,
                   apc, toA, toC, open>>

\* The impostor connects to a listening peer and sends up to two messages.
ImpostorConnect(a) ==
    /\ a \in listening
    /\ apc[<<a, Impostor>>] = "none"
    /\ apc' = [apc EXCEPT ![<<a, Impostor>>] = "readSup"]
    /\ \E ms \in ImpostorHellos : toA' = [toA EXCEPT ![<<a, Impostor>>] = ms]
    /\ UNCHANGED <<dpc, cancelled, known, holder, rcm, listening, ctm, caddr,
                   dialed, toC, open>>

\* The caller cancels Dial's context while Dial runs.
Cancel ==
    /\ dpc \notin {"ok", "fail"} /\ ~cancelled
    /\ cancelled' = TRUE
    /\ UNCHANGED <<dpc, known, holder, rcm, listening, ctm, caddr, dialed,
                   apc, toA, toC, open>>

\* Dial has returned; the run ends here.
Finished ==
    /\ dpc \in {"ok", "fail"}
    /\ UNCHANGED vars

ActiveStep(l) == ReadSupA(l) \/ SendSupA(l) \/ ReadInfA(l) \/ SendInfA(l)

DialerStep == DialAddr \/ SendHello \/ ReadSupP \/ ReadInfP

Next ==
    \/ DialStart \/ Select \/ DialerStep
    \/ \E l \in Links : ActiveStep(l)
    \/ RouteRCM \/ RouteCTM \/ TargetLeaves \/ ViewUpdate \/ SIDReused
    \/ \E a \in Actives : ImpostorConnect(a)
    \/ Cancel \/ Finished

Spec == Init /\ [][Next]_vars

(***************************************************************************)
(* Every read of both handshakes has a 5 s deadline, and adc.Dial and the  *)
(* writes of a few bytes return, so the handshake steps are weakly fair.   *)
(* The select waits on the hub and on the caller's context, and neither is *)
(* bound to answer: no fairness.                                           *)
(***************************************************************************)
FairSpec == Spec /\ WF_vars(DialerStep) /\ \A l \in Links : WF_vars(ActiveStep(l))

-----------------------------------------------------------------------------
(* Properties.                                                             *)

\* About the CID check of handshakePassive, with Target's session id given
\* to Other between Self's view and the hub's routing of the RCM: a Dial
\* that succeeds is connected to Target and to no one else.
DialerAuthentic == dpc = "ok" => dialed = Target

\* About the CID and token checks of handshakeActive, with an impostor that
\* knows every CID connecting to a listening peer: a peer completes the
\* handshake only with the client whose RCM it answered.
ActiveAuthentic == \A l \in Links : apc[l] = "ok" => l[2] = Self

\* About the order of handshakeActive, which identifies itself only after
\* checking the connector's INF: a Dial succeeds only once the peer it
\* dialed has accepted Self's CID and token.
DialAgreed == dpc = "ok" => apc[DLink] \in {"sendInf", "ok"}

\* About the read deadlines of both handshakes: once Self has dialed, Dial
\* returns, and every handshakeActive ends, however the other end behaves.
HandshakesEnd ==
    /\ dpc \in {"send", "readSup", "readInf"} ~> dpc \in {"ok", "fail"}
    /\ \A l \in Links : apc[l] \in {"readSup", "sendSup", "readInf", "sendInf"}
                          ~> apc[l] \in {"ok", "fail"}

\* The specification (section 5): cancelling an outbound client-to-client
\* operation's context aborts the rendezvous in flight.
CancelAborts == cancelled => dpc # "ok"

=============================================================================
