------------------------------ MODULE MCWebApi ------------------------------
(* Instance of WebApi for TLC: two streams, one that can be closed twice    *)
(* while the other stays open, one interaction of each type.               *)
EXTENDS WebApi

=============================================================================
