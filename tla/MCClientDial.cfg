CONSTANTS
    Self = Self  Target = Target  Other = Other  Impostor = Impostor
    None = None  Tok = Tok  Forged = Forged  NoToken = NoToken
SPECIFICATION FairSpec
INVARIANTS TypeOK DialerAuthentic ActiveAuthentic DialAgreed
PROPERTIES HandshakesEnd
