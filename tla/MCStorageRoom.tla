--------------------------- MODULE MCStorageRoom ---------------------------
(* Instance of StorageRoom for TLC: two inputs, motion and door, as in the  *)
(* bathrooms, the hallway and the storage room, and a radar that is         *)
(* believed from its second report on.                                      *)
EXTENDS StorageRoom

=============================================================================
