--------------------------- MODULE MCTcpTransport ---------------------------
(* Instance of TcpTransport for TLC: three sockets, so that one is in use,  *)
(* one forgotten and one being set up.                                     *)
EXTENDS TcpTransport

=============================================================================
