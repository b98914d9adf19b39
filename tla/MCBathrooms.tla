---------------------------- MODULE MCBathrooms ----------------------------
(* Instance of Bathrooms for TLC: both rooms, with all their lights.       *)
EXTENDS Bathrooms

=============================================================================
