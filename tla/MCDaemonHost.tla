---------------------------- MODULE MCDaemonHost ----------------------------
(* An instance of DaemonHost for TLC. *)
EXTENDS DaemonHost

CONSTANTS c1, c2, k1

MCClients == {c1, c2}
MCControls == {k1}
\* Neither terminal is the smaller one: the session is smaller than both.
MCTerminal == (c1 :> <<1, 2>>) @@ (c2 :> <<2, 1>>)
MCSizes == {<<1, 2>>, <<2, 1>>}
=============================================================================
