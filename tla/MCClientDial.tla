---------------------------- MODULE MCClientDial ----------------------------
(* ClientDial for TLC: every role is a model value. *)
EXTENDS ClientDial

=============================================================================
