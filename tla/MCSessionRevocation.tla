------------------------- MODULE MCSessionRevocation -------------------------
(* Two servers; the session has its sockets on the first. *)
EXTENDS SessionRevocation, TLC

CONSTANTS s1, s2, events

SocketServers == [c \in Conn |-> s1]
SocketHubs == [c \in Conn |-> events]
=============================================================================
