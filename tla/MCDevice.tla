------------------------------ MODULE MCDevice ------------------------------
(* Instance of Device for TLC: two identifiers fewer than issuers need, so  *)
(* that the rolling number wraps and runs out.                             *)
EXTENDS Device, TLC

=============================================================================
