------------------------------ MODULE MCIrcHub ------------------------------
(* Three connections racing for two valid nicknames and one invalid one.   *)
EXTENDS IrcHub, TLC

CONSTANTS c1, c2, c3, n1, n2, bad, s1, s2, s3

MCConns == {c1, c2, c3}
MCNames == {n1, n2}
MCBadNames == {bad}
MCSIDs == {s1, s2, s3}

\* Connections and valid nicknames are interchangeable; session ids are
\* not permuted because nextSID's choice is part of the state.
MCSymmetry == Permutations(MCConns) \cup Permutations(MCNames)

=============================================================================
