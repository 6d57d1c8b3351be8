------------------------ MODULE MCConnectionRegistry ------------------------
(***************************************************************************)
(* Instances of ConnectionRegistry for TLC: a user with two devices, one   *)
(* with a single device, and channels of one message.                      *)
(***************************************************************************)
EXTENDS ConnectionRegistry

CONSTANTS alice, bob, c1, c2, c3, listener, heartbeat

MCUserOf == [c \in Conns |-> IF c = c3 THEN bob ELSE alice]
=============================================================================
