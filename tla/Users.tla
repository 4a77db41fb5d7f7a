-------------------------------- MODULE Users --------------------------------
(***************************************************************************)
(* The hub's user names and user database (src/hub/users.go): the check    *)
(* validateUserName applies to every nickname a handshake reads, the       *)
(* hub's RegisterUser and IsRegistered with an optional database, and the *)
(* in-memory database memUsersDB, whose operations each run under its     *)
(* RWMutex and are therefore one step each.                                *)
(*                                                                         *)
(* A name is a string, a sequence of characters.  Characters are tokens   *)
(* drawn from a small alphabet that covers every class the check and the  *)
(* specification tell apart: an ordinary letter, '#', '!', the space, a  *)
(* tab (white space that is not printable) and a control character that   *)
(* is neither white space nor printable.                                   *)
(***************************************************************************)
EXTENDS Naturals, Sequences, FiniteSets, Functions

CONSTANTS
    Chars,      \* the alphabet of names
    Space,      \* the characters unicode.IsSpace accepts
    Printable,  \* the printable characters
    MaxLen,     \* the longest name a client sends
    MaxUsers,   \* the most users the database is filled with
    Passwords,  \* passwords a client registers with
    HasDB,      \* whether the hub was configured with a userDB
    NoPass      \* "" : GetUserPassword's answer for an unknown user

ASSUME UsersAssumption ==
    /\ Space \subseteq Chars /\ Printable \subseteq Chars
    /\ {"#", "!"} \subseteq Printable
    /\ MaxLen \in Nat /\ MaxUsers \in Nat
    /\ HasDB \in BOOLEAN
    /\ NoPass \notin Passwords

\* The names a client can send, up to the bound (SeqOf(Chars, MaxLen)).
Strings == UNION {[1..m -> Chars] : m \in 0..MaxLen}

\* strings.TrimSpace(name) = name: no white space at either end.
Trimmed(s) == s = <<>> \/ (s[1] \notin Space /\ s[Len(s)] \notin Space)

\* A bug variant: '#' and '!' rejected anywhere in the name, as with
\* strings.Contains in place of strings.HasPrefix.
ValidateUserNameContains(s) ==
    CASE s = <<>>              -> "empty"
      [] "#" \in Range(s)      -> "hash"
      [] "!" \in Range(s)      -> "bang"
      [] ~Trimmed(s)           -> "spaces"
      [] OTHER                 -> "ok"

\* validateUserName: the first failing check names the error.
ValidateUserName(s) ==
    CASE s = <<>>      -> "empty"
      [] s[1] = "#"    -> "hash"
      [] s[1] = "!"    -> "bang"
      [] ~Trimmed(s)   -> "spaces"
      [] OTHER         -> "ok"

\* The specification's Nickname (section 3): a printable non-empty string,
\* not starting with '#' or '!', with no leading or trailing white space.
Nickname(s) ==
    /\ s # <<>>
    /\ Range(s) \subseteq Printable
    /\ s[1] \notin {"#", "!"}
    /\ Trimmed(s)

VARIABLES
    users,      \* memUsersDB.users, the registered names' passwords
    nick,       \* the last name validateUserName was asked about
    verdict     \* and its answer

vars == <<users, nick, verdict>>

Answers == {"empty", "hash", "bang", "spaces", "ok"}

TypeOK ==
    /\ DOMAIN users \subseteq Strings
    /\ \A s \in DOMAIN users : users[s] \in Passwords
    /\ nick \in Strings
    /\ verdict \in Answers

Init ==
    /\ users = [s \in {} |-> NoPass]
    /\ nick = <<>>
    /\ verdict = "empty"

\* validateUserName, called by the handshake on every NICK it reads.
Validate(s) ==
    /\ nick' = s
    /\ verdict' = ValidateUserName(s)
    /\ UNCHANGED users

\* A bug variant: the name and the password passed in swapped order.
DBRegisterUserSwapped(s, p) ==
    users' = [n \in DOMAIN users \cup {p} |-> IF n = p THEN s ELSE users[n]]

\* memUsersDB.RegisterUser: sets, or overwrites, the password under the
\* write lock.
DBRegisterUser(s, p) ==
    users' = [n \in DOMAIN users \cup {s} |-> IF n = s THEN p ELSE users[n]]

\* Hub.RegisterUser: ErrUserRegDisabled without a database, which changes
\* nothing; the name is not validated.
RegisterUser(s, p) ==
    /\ HasDB
    /\ DBRegisterUser(s, p)
    /\ UNCHANGED <<nick, verdict>>

\* memUsersDB.IsRegistered, under the read lock.
DBIsRegistered(s) == s \in DOMAIN users

\* Hub.IsRegistered: false without a database.
IsRegistered(s) == HasDB /\ DBIsRegistered(s)

\* memUsersDB.GetUserPassword: "" for a name that is not registered.
GetUserPassword(s) == IF s \in DOMAIN users THEN users[s] ELSE NoPass

\* The database holds at most MaxUsers names.
Room(s) == s \in DOMAIN users \/ Cardinality(DOMAIN users) < MaxUsers

Next ==
    \E s \in Strings :
        \/ Validate(s)
        \/ \E p \in Passwords : Room(s) /\ RegisterUser(s, p)

Spec == Init /\ [][Next]_vars

-----------------------------------------------------------------------------
(* Properties.                                                             *)

\* validateUserName, which gates every nickname ircHandshake reads, lets
\* through every name the specification calls a Nickname: no legal user
\* is turned away by a check stricter than the data model.
NicknameAccepted == Nickname(nick) => verdict = "ok"

\* The converse, as the data model states it: validateUserName accepts only
\* printable names.  The code never checks printability.
NicknameConforms == verdict = "ok" => Nickname(nick)

=============================================================================
