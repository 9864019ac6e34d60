------------------------------ MODULE MCWsHub -------------------------------
(* Instances of WsHub for TLC. *)
EXTENDS WsHub, TLC

CONSTANTS c1, c2, s1, s2, acme, other

\* All are in one room, but for the second sender.
TwoRooms == [m \in Client \cup Sender |-> IF m = s2 THEN other ELSE acme]
=============================================================================
