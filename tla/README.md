# Formal models of go-dcpp

These TLA+ modules model the parts of the go-dcpp hub and its ADC library
that are in `src/`:

- the IRC side of the hub (`src/unnamed/part_000`, the hub's `irc.go`);
- the ADC packet codec and the client-to-client code
  (`src/adc/client/client2client.go`);
- the user database (`src/hub/users.go`).

TLC checks each model on small instances. TLAPS proves the main invariants
of the membership core, the dial handshake and the name validation, and
the round trip of the fixed-header ADC packets, for every instance.

## The system

The hub accepts TCP connections and serves each one on a goroutine of its
own, in one of three dialects: ADC, NMDC or IRC. Only the IRC adapter is in
`src/`. Its goroutine works in four stages:

1. **Handshake.** It runs the handshake (`ircHandshake`):
   - read NICK (and, the first time, USER);
   - validate the name (`validateUserName`, users.go);
   - check it is free (`nameAvailable`), and reserve it (`reserveName`) or
     answer `433` and loop;
   - take a session id (`nextSID`).
2. **Accept** (`ircAccept`). This part:
   - sends the welcome numerics;
   - waits for `JOIN #hub`;
   - echoes the JOIN and sends the roster `PeersJoin(h.Peers())`;
   - in one critical section, moves the name from `reserved` to `byName`,
     sets `bySID`, invalidates the cached list and joins the global chat
     room;
   - announces the new peer to the peers listed in that section
     (`broadcastUserJoin`).

   Any failure before the critical section calls `unbind()`, which releases
   the reservation.
3. **Serve** (`ServeIRC`):
   - `callOnJoined`, then a loop on PING, PRIVMSG (`#hub` goes to
     `globalChat.SendChat`, a nickname to `privateChat`) and QUIT;
   - EOF or an error ends the loop.
4. **Leave.** The deferred `ircPeer.Close` runs once (the `closed` flag),
   and `hub.leave` then removes the peer and sends PART to the remaining
   peers.

Peers interact through the shared directory (`byName`, `bySID`,
`reserved`, the chat room's members) and by writing to each other's
connections. Each write is serialised by the target's `wmu`. The directory
code itself (`hub.go`: `reserveName`, `leave`, `Peers`, `SendChat`,
`broadcastUserJoin`, `privateChat`, `nextSID`) is not in `src/`. It is
modelled from the specification as far as the IRC path uses it, and marked
`spec_modelled` in `PROJECT.json`.

The ADC codec (`DecodePacket`, the eight `UnmarshalPacket` and
`MarshalPacket` methods) is a pure function from bytes to packets and back.
The client code in the same file (`Dial`, `dialPassive`,
`handshakePassive`, `handshakeActive`) runs the client-to-client
handshake over a second TCP connection.

## Modules

| Module | Models | Kind |
|---|---|---|
| `IrcHub` | IRC handshake, accept, serve loop, close and leave; the directory, reservations and chat room they drive | state machine, one process per connection |
| `IrcHubProofs` | theorems about `IrcHub` | TLAPS |
| `IrcHubOrder` | proof that no client hears of another peer before its own JOIN echo | TLAPS |
| `MCIrcHub` | 3 connections, 2 valid nicknames + 1 invalid, 3 SIDs | TLC instance |
| `Users` | `validateUserName`, `Hub.RegisterUser`/`IsRegistered` and `memUsersDB` | operators + state machine |
| `UsersProofs` | type correctness and `NicknameAccepted` for every alphabet and length | TLAPS |
| `MCUsers` | a six-character alphabet, one character of each class | TLC instance |
| `ClientDial` | `Dial`, `dialPassive`, `handshakePassive`, `handshakeActive`, with the hub's routing, SID reuse, an impostor and the caller's cancel | state machine, one process per side and link |
| `ClientDialProofs` | proofs that `ClientDial` authenticates both ends | TLAPS |
| `MCClientDial` | model values for the clients and tokens | TLC instance |
| `AdcFrame` | `DecodePacket`'s frame checks, the `UnmarshalPacket`/`MarshalPacket` of the seven fixed-header kinds, and the reference decoder from the spec's grammar; no recursion | operators |
| `AdcFrameProofs` | the fixed-header round trip for every name, SID, CID width and payload | TLAPS |
| `AdcCodec` | extends `AdcFrame` with the Feature packet's filter loop, `DecodePacket`/`MarshalPacket` over all eight kinds, and a one-input pipeline | operators + state machine |
| `MCAdcCodec` | small byte alphabets, SIDs, tags, payloads and frame pieces | TLC instance |

### IrcHub: state and actions

`pc[c]` is where connection c's goroutine is:

| pc | Stage |
|---|---|
| `nick` | the NICK/USER loop |
| `reserve` | between `nameAvailable` and `reserveName` |
| `welcome`, `waitJoin`, `echo`, `roster`, `accept` | the steps of `ircAccept`, holding the reservation and a SID |
| `announce` | the `broadcastUserJoin` fan-out |
| `onJoined`, `serve`, `chat` | `ServeIRC` and its `SendChat` fan-out |
| `leave` | `hub.leave`'s PART fan-out |
| `done` | the connection is over |

The directory variables are `reserved`, `byName`, `bySID` and `members`.
Two more variables cover fan-outs and what clients see:

- **Fan-outs.** A fan-out loop is a set `pending[c]` of targets still to
  write to, one write per step.
- **What each client has seen.** These record what each client was sent:
  - `view[c]` holds the nicknames the client has been told are on `#hub`
    (its own JOIN echo, the roster, later JOINs, minus PARTs);
  - `heard[c]` holds the senders of `#hub` messages it received;
  - `priv[c]` holds the senders of private messages it received.

  A write to a connection that has been closed is dropped
  (`Open(t)`, `writeMessage` on a closed `net.Conn` fails).

Each action is a whole step of the code:

| Action | Code |
|---|---|
| `HandshakeAbort` | a read error or wrong command in the NICK/USER loop |
| `ReadNick` | NICK with validation and the `nameAvailable` check |
| `ReserveName` | `reserveName` + `nextSID`, or `433` and back to NICK |
| `FailHandshake` | `unbind()` on any `ircAccept` error |
| `IrcWelcome` | the welcome numerics |
| `WaitJoin` | wait for `JOIN #hub` |
| `JoinEcho` | the JOIN echo |
| `PeersJoinRoster` | the roster |
| `Accept` | the accept block |
| `BroadcastUserJoin` | one write of the join fan-out |
| `CallOnJoined` | `callOnJoined` |
| `ServeChat` | PRIVMSG `#hub` |
| `ChatMsg` | one write of the chat fan-out; no echo to the sender |
| `ServePrivate` | PRIVMSG to a nickname |
| `ServeExit` | QUIT, EOF or an error in the serve loop |
| `Close` | `ircPeer.Close` + `hub.leave`'s removal |
| `PeersLeave` | one PART write |

### AdcFrame and AdcCodec

The codec is split in two modules. `AdcFrame` holds everything without
recursion: `FrameRejected`, `FrameName` and `FrameRaw` are
`DecodePacket`'s checks and slices, `FixedUnmarshal` picks the kind's
`UnmarshalPacket`, `FixedDecode` is `DecodePacket` for every kind but
Feature, and `FixedMarshal` is `MarshalPacket` for those kinds. `AdcCodec`
adds the Feature packet, whose filter is decoded by a recursive loop,
and builds `DecodePacket`/`MarshalPacket` over all eight kinds from the
operators of `AdcFrame`. The split lets the prover use `AdcFrame`.

A frame is a sequence of one-character strings (`SP`, `LF` and `NUL` name
the space, the delimiter and the null byte). Go's `p[lo:hi]` is
`Slice(p, lo, hi)`.

- **Reads past the LF.** The decoder slices raw data that still ends in
  the LF. A read past the trimmed data (e.g. `data[0:4]` of a 3-byte
  Broadcast header) therefore sees the LF, as Go does through the
  underlying array.
- **The feature loop** of `FeaturePacket.UnmarshalPacket` is the recursive
  operator `FeatureLoop`/`Continue`. It has the same index resets and the
  same `data = nil` as the code.
- **Short tokens.** For a token shorter than five bytes, the code formats
  its error with `data[i:i+5]`. Past the end of the frame, this panics
  when the frame ends the reader's buffer. The reader is outside `src/`,
  so `ShortFeature` allows both outcomes.
- **Map order.** `MarshalPacket` returns a set of frames: one per order
  Go's map iteration may visit the features in.
- **Pipeline.** The state machine feeds one input through the codec. It
  either starts from a well-formed packet (`PacketsIn`), which `Marshal`
  encodes and `Decode` decodes, or from a frame a line reader can hand
  over (`FramesIn`: bytes without a LF, then a LF unless the stream ended
  first), which `Decode` decodes.
- **Reference decoder.** `RefDecode` is the frame grammar of section 6 of
  the specification, written independently of the code.
- **SIDs and CIDs** are kept in encoded form. Their decoders (outside
  `src/`) are the check that every byte is a base32 digit.

### Users

`ValidateUserName(s)` is `validateUserName` as a CASE over its checks in
their order (empty, `#` prefix, `!` prefix, `TrimSpace`); its answer is
the error it returns. Names are sequences of character tokens from an
alphabet with one letter, `#`, `!`, a space, a tab (white space, not
printable) and a control character (neither). `Nickname(s)` is the data
model's definition. The state machine validates any name up to length 2
and registers names into `memUsersDB` (`users`, a function from names to
passwords) through `Hub.RegisterUser`, which fails without a database.
Each database operation holds the RWMutex for its whole body, so it is
one step.

### ClientDial

`Self` dials `Target` (`Dial` → `dialPassive`):

- `DialStart`: the view check (`ErrPeerOffline`), then the RCM with a
  fresh token is sent to the hub;
- `Select`: the select on the context, the error channel and the
  address channel; `DialAddr`: `adc.Dial` to the address;
- `SendHello`, `ReadSupP`, `ReadInfP`: `handshakePassive`, which
  writes SUP and INF (CID + token), reads the peer's SUP, then checks the
  peer's INF carries Target's CID; any failure closes the connection
  (`FailClose`).

The peer that accepts runs `handshakeActive` per link
(`ReadSupA`, `SendSupA`, `ReadInfA`, `SendInfA`): it reads the SUP,
sends its own, checks the connector's CID and token, then sends its INF.
A link is a pair (acceptor, connector); `toA` and `toC` are its two FIFO
directions. A read of an empty channel fails: every read of both
handshakes has a 5 s deadline.

The environment, from the specification (sections 4.5 and 5) because
hub.go is not in `src/`: the hub routes the RCM to whoever holds Target's
SID now (`RouteRCM`), Target may leave (`TargetLeaves`) and its SID be
given to `Other` (`SIDReused`) before Self's view learns it
(`ViewUpdate`), the CTM answer carries the address (`RouteCTM`), an
`Impostor` who knows every CID but not the token connects to any
listening peer with up to two messages of its choice
(`ImpostorConnect`), and the caller may cancel (`Cancel`).

## Runs

| Run | cfg | Expect | Properties | What it shows |
|---|---|---|---|---|
| `irc_registry` | `MCIrcHub.cfg` | pass | TypeOK, NameExclusive, RegistryExact, ChannelOrder | See below |
| `irc_roster` | `MCIrcHubRoster.cfg` | violation | RosterAgrees | The roster race below |
| `codec_roundtrip` | `MCAdcCodec.cfg` | pass | TypeOK, RoundTrip, DecodeConforms | Round trip for six kinds; the Broadcast, Direct, Echo and UDP decoders match the grammar |
| `codec_text_empty` | `MCAdcCodecText.cfg` | violation | RoundTrip | Hub/Client packets with an empty payload do not round-trip |
| `codec_info_unterminated` | `MCAdcCodecInfo.cfg` | violation | DecodeConforms | `IMSG` + space, with no LF, is accepted |
| `codec_feature_panic` | `MCAdcCodecFeature.cfg` | violation | NoPanic | A cut-off feature token can panic the decoder |
| `users_nicknames` | `MCUsers.cfg` | pass | TypeOK, NicknameAccepted | No valid nickname is rejected |
| `users_printable` | `MCUsersPrintable.cfg` | violation | NicknameConforms | A control character passes validation |
| `dial_handshake` | `MCClientDial.cfg` | pass | TypeOK, DialerAuthentic, ActiveAuthentic, DialAgreed, HandshakesEnd | Mutual authentication and termination of the client-to-client handshake |
| `dial_cancel` | `MCClientDialCancel.cfg` | violation | CancelAborts | A cancelled Dial can still succeed |

### irc_registry

This run checks four properties:

- **NameExclusive.** No two connections that hold a reservation or are
  live ever have the same nickname (I1).
- **RegistryExact.** `reserved` is exactly the names of the handshakes
  in flight. `byName`, `bySID` and the chat room index exactly the live
  connections, under their own name and SID (I1–I3). A leaked
  reservation (a missed `unbind`) or a stale directory entry breaks it.
- **ChannelOrder** (an action property). A client receives no `#hub`
  traffic (chat, JOIN or PART of others) before it has been sent its own
  JOIN echo.
- **TypeOK.**

Bounds: 3 connections racing for 2 valid nicknames. The third connection
is what makes one of three fail to reserve and loop on `433`, and lets a
name be reused after a leave while a third peer still has writes pending.
The invalid name exercises the validation error path. There are 3 SIDs
for the 3 connections, and the SID pool assumption
(`Cardinality(SIDs) >= Cardinality(Conns)`) holds.

Symmetry is over connections and over valid nicknames. The properties
name none of them, so it is sound. The run takes about a minute for
2.1 M distinct states.

### irc_roster: a code bug

`ircAccept` sends the new client its roster from `h.Peers()` (line 280)
*before* the accept block (286–294). The bug is a four-step trace:

1. c1 is live.
2. c2 snapshots the roster, which includes c1.
3. c1 leaves. `hub.leave` PARTs only the peers in the directory, and c2
   is not there yet.
4. c2 is accepted.

c2's view of `#hub` now holds a nickname that is gone, and keeps it for
the whole session. The same window loses the JOIN of a peer promoted
between the snapshot and the accept block.

`RosterAgrees` states the specification's consistency of join/leave with
membership at quiescent points: no fan-out is in progress, and every live
client's view is the directory. It is violated.

### The codec runs

**codec_roundtrip** checks three properties:

- **RoundTrip.** Every well-formed packet of kinds I, B, D, E, F and U,
  with SIDs from 2 values, up to 2 features of either sign and 4 payloads
  (empty, one byte, with a space, starting with a space), decodes to
  itself for every feature order.
- **DecodeConforms.** On every frame of kind B, D, E, U or an unknown kind
  byte, built from up to 5 pieces (space, a SID, one base32 byte, a
  payload byte, NUL), with or without the LF, `DecodePacket` returns
  exactly what the grammar's decoder returns. That is 66,894 states.
- **TypeOK.** Decoded SID, target and CID fields have their kind's width.

Five pieces are enough to build the whole frame space these checks need:

- every length boundary of the Direct header (9 and 10 bytes);
- a missing separator between two SIDs;
- a header one byte short;
- a NUL in every field;
- a payload after each header.

The CID is 2 bytes in the runs instead of 39. The decoder checks the
width and every byte, so the width changes no branch.

The three violation runs each restrict the inputs to the kind whose
decoder disagrees with the specification:

- **Hub/Client** (`codec_text_empty`): the encoder writes an empty payload
  as kind+name+LF, and the decoder rejects that as "short hub command".
- **Info** (`codec_info_unterminated`): the decoder checks the LF only for
  a non-empty payload.
- **Feature** (`codec_feature_panic`): the decoder's error message slices
  past the frame.

Feature payloads beginning with a space or a sigil are left out of
`RoundTrip`. The specification's parsing rule makes them part of the
filter, while its grammar allows them. This is listed as a hazard.

### users_nicknames and users_printable

Every name of up to 2 characters over the six-character alphabet, with
the database filled up to 2 users with 2 passwords:

- **NicknameAccepted.** Every name that is a `Nickname` of the data model
  is accepted by `validateUserName`. A check stricter than the model
  (e.g. `strings.Contains` for the prefix checks) breaks it.
- `NicknameConforms`, the converse, is violated by a one-character name
  made of a control character: the code never checks printability.

Two characters are enough for every check's boundary: a prefix with a
valid rest, a name that is only white space, leading and trailing white
space, and a `#` or `!` that is not the first character.

### dial_handshake and dial_cancel

One dial, with Target able to leave and its SID to be reused by Other
before the hub routes the RCM, and an impostor connecting to each
listening peer with every sequence of up to two SUP/INF messages with
forged tokens:

- **DialerAuthentic.** A Dial that succeeds is connected to Target. The
  CID check of `handshakePassive` (line 145) is what rejects Other.
- **ActiveAuthentic.** A peer completes `handshakeActive` only with Self:
  the token check rejects the impostor even though it knows the CIDs.
- **DialAgreed.** A Dial succeeds only once the peer it dialed has
  accepted Self's INF: `handshakeActive` identifies itself only after
  its check.
- **HandshakesEnd.** Once Self has dialed, Dial returns, and every
  `handshakeActive` that started ends, under the fairness below.

`CancelAborts` is violated: the context is consulted only in the select
(line 64). A cancel after the address arrived does not stop `adc.Dial`
and the handshake, and Dial returns a connection.

## Fairness and liveness

- **IrcHub** has no liveness property. In the model no hub step can
  block: a write to a connection is one step that returns. So "every hub
  step finishes" would follow from fairness alone. The real risk is a
  write to a peer that stops reading (`writeMessage` has no write
  deadline). The specification accepts that risk: writes block, and a
  stalled peer is found only by TCP keepalive or a write failure. The
  handshake's wait for `JOIN #hub` has no deadline either (line 141
  clears it). Specification section 4.5 says the hub "waits
  indefinitely" there, so a reservation held by a silent client is
  intended.
- **ClientDial** (`FairSpec`): weak fairness on Self's dial and handshake
  steps and on each link's `handshakeActive` steps: each read has a 5 s
  deadline, and the writes are of a few bytes. The select waits on the
  hub and on the caller, neither of which is bound to answer, so it has
  no fairness.

## Proofs

### IrcHub proofs

`IrcHubProofs` and `IrcHubOrder` prove four theorems, for all
finite sets of connections, names and SIDs with at least as many SIDs as
connections (`ConstAssumption`, `SIDsAssumption`):

- **`TypeCorrect`**: `Spec => []TypeOK`.
  - Strengthening: `NamesValid` (every connection past validation holds a
    valid name). Without it, the steps that add `name[c]` to a view are
    not type-correct.
- **`RegistryCorrect`**: `Spec => [](NameExclusive /\ RegistryExact)`.
  - Inductive invariant `IInv`: TypeOK, NamesValid, `SIDsHeld`,
    `SIDExclusive`, `ReservedExact`, `ByNameSound`, `BySIDSound`,
    `LiveIndexed`, `MembersExact` and NameExclusive.
  - `RegistryExact` alone is not inductive. A `ReserveName` step preserves
    it only if no live peer holds the name, and `Accept` only if the SID
    is not already indexed. `SIDExclusive` and the soundness of the two
    maps supply exactly that.
  - `IInv` was first checked by TLC as an invariant of `MCIrcHub`.
  - The step proof (`IInvStep`) has one case per action. The steps that
    change ownership have a lemma each:
    - `ReserveStep`, `FailStep`, `AcceptStep` and `CloseStep`;
    - `StableOwnersStep` for the rest.
- **`NicknamesExclusive`**: `Spec => []NameExclusive`, I1 alone as the
  `irc_registry` run checks it, a corollary of `RegistryCorrect`.
### ChannelOrder

`IrcHubOrder` proves **`ChannelOrdered`**: `Spec => ChannelOrder`, the
action property that no step changes a client's `heard`, or its `view`
other than in its own nickname, before that nickname is in its view (the
JOIN echo). The step of the property is restated as `OrderedStep` and
`OrderedNext` shows every `[Next]_vars` step is an `[OrderedStep]_vars`
step under the inductive invariant `OInv`, which is `IInv` and three more
conjuncts (checked first by TLC on `MCIrcHub`, 2.1 million states):

- `EchoedSelf`: a connection from `roster` on, and every live one, has
  its own nickname in its view. `JoinEcho` puts it there.
- `TargetsPromoted`: every target of a pending fan-out is live, leaving
  or done. `Accept` and `Close` fan out to `DirectoryConns`, and
  `ServeChat` to `members`. Both are the live peers by `IInv`
  (`DirectoryLive`, `MembersExact`). So a write reaches an open
  connection only after its echo (`OpenTargetEchoed`).
- `PartsForeign`: a PART fan-out never targets a live peer with the
  leaving peer's nickname. Without it, `PeersLeave` could remove a live
  client's own name from its view. It holds because the targets were
  live together with the leaver when `Close` listed them, and
  `NameExclusive` gave them distinct names. A connection that becomes
  live later is never added to a pending fan-out.

`OrderStep` has one case per action; `AcceptOrder`, `CloseOrder`, the
three fan-out write lemmas and `HandshakeQuiet` carry them.

### ClientDial proofs

`ClientDialProofs` proves `DialTypeCorrect` (`Spec => []TypeOK`),
`DialerAuthenticated` (`Spec => []DialerAuthentic`),
`ActiveAuthenticated` (`Spec => []ActiveAuthentic`) and `DialAgreement`
(`Spec => []DialAgreed`) for every behaviour, under `DialAssumption`: the
impostor is not Self, and the token is not one the impostor can send.
They rest on one inductive invariant, `IInv`, checked first by TLC on
`MCClientDial`:

- `RepliesGenuine`: every INF on its way to a connector carries the
  acceptor's own CID, and that acceptor has finished. So the INF that
  `handshakePassive` accepts names the peer Self dialed, and it is Target
  exactly when the CID check passes.
- `ForgedOnly`: nothing on an impostor's link carries the token. Only
  the impostor writes there (`SendHello` writes to Self's own link).
- `AcceptedSelf`, `DialDone`: the two conclusions, kept inductive by the
  two facts above.
- `SelfIdle`, `DialedLink` and `TypeOK`: before `adc.Dial` no link of
  Self's has started, and after it Self's link is a link.

The lemmas about channels are stated on `Range` (from `Functions`):
a read keeps a subset (`RangeTail`), a write adds the message
(`RangeAppend`, `RangeConcat`). `ActiveMove` and `DialerRead` carry the
step of each side; `IInvStep` has one case per action.

### Users proofs

`UsersProofs` proves, under `UsersAssumption` only (any alphabet, any
`MaxLen` and `MaxUsers`):

- **`UsersTypeCorrect`**: `Spec => []TypeOK`. It is inductive as it
  stands (`UsersTypeStep`).
- **`NicknamesAccepted`**: `Spec => []NicknameAccepted`. It rests on the
  lemma `ValidateAcceptsNickname`: for every value `s`, `Nickname(s)`
  implies `ValidateUserName(s) = "ok"`. TLC checks this only for names
  of up to two characters. `RegisterUser` leaves `nick` and `verdict`
  alone, so the property is inductive by itself.

`Strings` is written as `SeqOf`'s own definition, the union of
`[1..m -> Chars]`, and `Range` comes from `Functions`. So `Users` reaches
no RECURSIVE operator, and the prover can use it.

### AdcFrame proofs

`AdcFrameProofs` proves, for every byte set `S` without `NUL` that holds
the space, the LF, the kind bytes and the base32 digits, and for every
`CIDLen` (`FrameAssumption`: a positive natural):

- **`FixedRoundTrip`**: `FixedDecode(FixedMarshal(pkt)) = Ok(pkt)`. This
  holds for every packet of a fixed-header kind (I, H, C, B, D, E, U)
  that meets four conditions:
  - its name is three bytes of `S`;
  - its SIDs are 4 base32 digits and its CID is `CIDLen` of them;
  - its payload is any sequence over `S`, of any length, the LF
    included;
  - a Hub or Client packet has a non-empty payload.

  The codec runs check this only for four payloads of up to three
  bytes, two SIDs and one 2-byte CID.
- **`EmptyTextLost`**: a Hub or Client packet with an empty payload is
  marshalled to a frame that `FixedDecode` rejects, for every name. This
  generalises the `codec_text_empty` violation.

The argument has three layers, one lemma per kind in each:

- **What `DecodePacket` reads.** `SpacedFrame` and `LFFrame` work out
  the slices of a frame `<<k>> \o nm \o (<<SP>> \o raw)` and of
  `<<k>> \o nm \o <<LF>>`. From them, `DecodeSpaced` and `DecodeBare`
  show that `FixedDecode` hands the kind's `UnmarshalPacket` exactly
  `raw`.
- **What `UnmarshalPacket` returns.**
  - `TextUnmarshalled`, `IdUnmarshalled` and `DirectUnmarshalled` show
    the kind's `UnmarshalPacket` returns the packet for
    `raw = header ++ payload part ++ LF`.
  - `HeaderRaw` and `DirectHeader` locate the header bytes, the
    separator and the payload in `raw`.
  - `SliceIs` shows that Go's `data[m:n]` returns them.
- **What `MarshalPacket` writes.** `TextMarshalled`, `BareMarshalled`,
  `IdMarshalled` and `DirectMarshalled` regroup the frame into the form
  `DecodeSpaced` and `DecodeBare` read, using the associativity of
  concatenation.

`TextRoundTrip`, `InfoBareRoundTrip`, `IdRoundTrip` and `DirectRoundTrip`
put the three together for each kind. `FixedRoundTrip` splits on the
kind.

Three conventions keep the provers on track:

- Fixed-length fields are stated as function spaces (`[1..3 -> S]`,
  `[1..IdLen(k) -> Base32]`). `FieldSeq` turns them into sequences of
  known length.
- The frame lemmas conclude `MarshalsTo`/`UnmarshalsTo`, and `LeadOfAny`
  concludes `LeadFacts`, so that they are cited as a whole. Matching a
  lemma whose conclusion spells out a sequence equation makes the SMT
  solver instantiate quantifiers over `Seq(S)`, which times out.
- `RangeAt`, `LeadAt`, `ConcatAt` and `SliceIs` are the sequence facts
  the rest cites, taken from `SequenceTheorems`.

### What stays with TLC

- The liveness property `HandshakesEnd`: the prover does not reason
  about fairness and ENABLED.
- The properties the violation runs refute, which have nothing to prove:
  `RosterAgrees` (irc_roster), `CancelAborts` (dial_cancel) and
  `NicknameConforms` (users_printable).
- `AdcCodec`'s `TypeOK`, `RoundTrip` and `DecodeConforms`.
  - They range over all eight kinds. The Feature kind's filter loop is a
    RECURSIVE operator, which the prover cannot use. What a recursive
    definition computes for every input needs induction over data,
    which the installed provers cannot instantiate.
  - `FixedRoundTrip` proves `RoundTrip` for the other seven kinds.
- The agreement of `FixedDecode` with the reference decoder `RefDecode`
  (`DecodeConforms` for the fixed-header kinds) is not proved. It needs
  a case analysis over every malformed frame, and the codec runs check
  it on all frames of their alphabet.

## Divergences noted without a run

`ircHandshake` returns on an invalid nickname (`validateUserName` fails,
line 117) and the connection ends. The specification (section 7) says a
validation error during the IRC handshake is answered and the NICK loop
continues. `ReadNick` models the code: a bad name goes to `done`.

## Not modelled

- **ADC and NMDC hub adapters, and hub.go.** They are not in `src/`. The
  directory operations the IRC path calls are modelled from the
  specification.
- **The hub's welcome/MOTD text, numerics' wording and logging.** They
  change no state.
- **`PeerConn` accessors, `CanDial` and the ADC `Conn` reader.** They
  read state and change none, or are outside `src/`.
- **The client's `revConnToken` map.** Only its effect on one dial is
  modelled (the address delivered, or ignored once Dial returned);
  concurrent dials to the same peer are not.
- **Write back-pressure.** A write is one step that completes or is
  dropped. A peer that stops reading blocks its senders in the code, and
  this is listed as a hazard.

## Plan for what is left

1. **Concurrent dials** sharing `revConnToken`, and a lost or duplicated
   CTM.
