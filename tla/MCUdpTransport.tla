--------------------------- MODULE MCUdpTransport ---------------------------
(* Two name resolutions that overlap, three copies waiting and in the air:  *)
(* two payloads whose copies interleave, and one more.                      *)
EXTENDS UdpTransport
=============================================================================
