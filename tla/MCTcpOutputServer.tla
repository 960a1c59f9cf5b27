------------------------- MODULE MCTcpOutputServer -------------------------
(***************************************************************************)
(* TcpOutputServer for TLC: two AVR peers, of which one never reads, and a  *)
(* Beast peer, with room for two clients.                                   *)
(***************************************************************************)
EXTENDS TcpOutputServer

CONSTANTS reader, sleeper, beast

MCProtocolOf == [p \in Peer |-> IF p = beast THEN "Beast" ELSE "Avr"]
MCFrameSize == [q \in Protocol |-> IF q = "Avr" THEN 2 ELSE 3]
=============================================================================
