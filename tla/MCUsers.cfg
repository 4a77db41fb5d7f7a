CONSTANTS
    Chars <- MCChars
    Space <- MCSpace
    Printable <- MCPrintable
    MaxLen = 2
    MaxUsers = 2
    Passwords = {p1, p2}
    HasDB = TRUE
    NoPass = NoPass
SPECIFICATION Spec
INVARIANTS TypeOK NicknameAccepted
