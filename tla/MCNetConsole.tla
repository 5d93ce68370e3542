---------------------------- MODULE MCNetConsole ----------------------------
(***************************************************************************)
(* Instances of NetConsole for TLC.                                        *)
(***************************************************************************)
EXTENDS NetConsole

(* A single key, and a packet that wraps or does not fit into the ring.    *)
MCPackets == {<<"a">>, <<"a", "etx", "a", "a">>}

=============================================================================
