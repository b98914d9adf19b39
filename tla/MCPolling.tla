----------------------------- MODULE MCPolling -----------------------------
(* Instance of Polling for TLC. A tick stands for the five seconds of the   *)
(* shortest schedule's grid: a request times out within one, the holdoff is *)
(* longer than the metric stays fresh, and a date is carried over.          *)
EXTENDS Polling

=============================================================================
