------------------------------- MODULE MCUsers -------------------------------
(* Users for TLC: names of up to two characters over one character of each *)
(* class, a database of at most two users and two passwords.               *)
EXTENDS Users

MCChars == {"a", "#", "!", "SP", "TAB", "SOH"}
MCSpace == {"SP", "TAB"}
MCPrintable == {"a", "#", "!", "SP"}

=============================================================================
