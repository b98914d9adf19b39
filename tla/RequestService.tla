--------------------------- MODULE RequestService ---------------------------
(***************************************************************************)
(* What a Device promises to the code that issues requests on it, with no  *)
(* identifiers, datagrams, timers or counters: every request gets one      *)
(* outcome, requests are only accepted while the device is up (keepalives  *)
(* excepted), and going down settles whatever is outstanding.              *)
(***************************************************************************)

CONSTANTS
  Clients,     \* issuers of requests, each with at most one outstanding
  Exempt       \* those allowed to issue while the device is down (keepalives)

VARIABLES
  up,          \* the device is online
  promise      \* promise[c]: the state of the last request of c

vars == <<up, promise>>

Outcomes == {"answered", "empty", "failed"}

Init ==
  /\ up = FALSE
  /\ promise = [c \in Clients |-> "idle"]

\* A request is accepted and its outcome is open.
Accept(c) ==
  /\ promise[c] # "pending"
  /\ up \/ c \in Exempt
  /\ promise' = [promise EXCEPT ![c] = "pending"]
  /\ UNCHANGED up

\* A request is turned down at once; it cannot have been answered.
Refuse(c) ==
  /\ promise[c] # "pending"
  /\ \E o \in Outcomes \ {"answered"} : promise' = [promise EXCEPT ![c] = o]
  /\ UNCHANGED up

\* An outstanding request gets its outcome.
Settle(c) ==
  /\ promise[c] = "pending"
  /\ \E o \in Outcomes : promise' = [promise EXCEPT ![c] = o]
  /\ UNCHANGED up

\* An answered keepalive brings the device up.
ComeUp ==
  /\ ~up
  /\ up' = TRUE
  /\ \/ UNCHANGED promise
     \/ \E c \in Exempt :
          /\ promise[c] = "pending"
          /\ promise' = [promise EXCEPT ![c] = "answered"]

\* The device goes down: no request survives it, and none is answered by it.
\* A refused or expired keepalive may be what brings it down.
GoDown ==
  /\ up
  /\ up' = FALSE
  /\ promise' \in [Clients -> {"idle"} \cup Outcomes]
  /\ \A c \in Clients :
       IF promise[c] = "pending"
         THEN promise'[c] \in {"empty", "failed"}
         ELSE promise'[c] = promise[c] \/ (c \in Exempt /\ promise'[c] = "failed")

Next ==
  \/ \E c \in Clients : Accept(c) \/ Refuse(c) \/ Settle(c)
  \/ ComeUp
  \/ GoDown

Spec == Init /\ [][Next]_vars

=============================================================================
