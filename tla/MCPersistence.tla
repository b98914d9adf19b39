---------------------------- MODULE MCPersistence ----------------------------
(* Two keys, so that one may be set, written or missing and the other not.  *)
EXTENDS Persistence
=============================================================================
