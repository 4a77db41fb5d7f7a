CONSTANTS
    c1 = c1  c2 = c2  c3 = c3
    n1 = n1  n2 = n2  bad = bad
    s1 = s1  s2 = s2  s3 = s3
    Conns <- MCConns
    Names <- MCNames
    BadNames <- MCBadNames
    SIDs <- MCSIDs
    NoConn = NoConn
    NoName = NoName
    NoSID = NoSID
SYMMETRY MCSymmetry
SPECIFICATION Spec
INVARIANTS TypeOK NameExclusive RegistryExact
PROPERTIES ChannelOrder
