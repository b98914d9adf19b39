------------------------------- MODULE Device -------------------------------
(***************************************************************************)
(* The request multiplexer of one Device: requests carry a one-octet       *)
(* rolling identifier, answers are matched by it, every request has a      *)
(* timer, a keepalive request decides together with the transport whether  *)
(* the device is online, and losing that aborts everything outstanding.    *)
(*                                                                         *)
(* The transport below and the remote device are the environment: the      *)
(* connection comes and goes, an answer may be lost, late or, over UDP     *)
(* (which sends every datagram twice), duplicated.                         *)
(*                                                                         *)
(* One action is one run of the event loop: the promise continuations of   *)
(* _sendKeepAlive are microtasks of the callback that settles the promise. *)
(***************************************************************************)
EXTENDS Integers, FiniteSets

CONSTANTS
  NumIds,        \* identifiers 1..NumIds (255 in the code, 0 marks events)
  Loud,          \* callers that want errors (suppressErrors = false)
  Quiet,         \* callers that suppress errors (sensors)
  KeepAlives,    \* keepalive requests that may overlap
  Tolerate,      \* KEEPALIVE_TOLERATE_MISSED_PACKETS
  Duplicating,   \* TRUE: one request may be answered more than once (UDP)
  MaxSent,       \* bound: requests whose answer may still be on its way
  None           \* no request registered under an identifier

Clients == Loud \cup Quiet \cup KeepAlives
Ids     == 1..NumIds

ASSUME NumIdsAssumption == NumIds \in Nat \ {0}
ASSUME TolerateAssumption == Tolerate \in Nat
ASSUME ClientsAssumption ==
  /\ Loud \cap Quiet = {} /\ Loud \cap KeepAlives = {} /\ Quiet \cap KeepAlives = {}
  /\ None \notin Clients
ASSUME EnvironmentAssumption == Duplicating \in BOOLEAN /\ MaxSent \in Nat

VARIABLES
  connected,     \* transport.isConnected
  alive,         \* the remote device answers (environment)
  flag,          \* _isOnline: the keepalive half of isOnline
  missed,        \* _keepaliveMissedPackets
  lastId,        \* the number _requestIdentifier returned last
  requests,      \* _requests: identifier -> issuer, or None
  promise,       \* the promise handed to each issuer
  sent           \* requests the remote device may still answer; open: still
                 \* awaited, ahead: identifiers that since had no turn (history)

vars == <<connected, alive, flag, missed, lastId, requests, promise, sent>>

isOnline == connected /\ flag

Outcomes == {"answered", "empty", "failed"}

Messages == [id : Ids, open : BOOLEAN, ahead : SUBSET Ids]

NewMessage(i) == [id |-> i, open |-> TRUE, ahead |-> Ids \ {i}]

-----------------------------------------------------------------------------
(* Identifiers.                                                            *)

\* How many draws it takes the rolling number to get from i to j, at least 1.
Draws(i, j) == IF j > i THEN j - i ELSE j - i + NumIds

Free == {i \in Ids : requests[i] = None}

\* Variant: the lowest free identifier instead of the next one.
BugLowestFree == CHOOSE i \in Free : \A j \in Free : i <= j

\* The loop draws until it meets an identifier that is not in flight; it gives
\* up when it meets the first one it drew again.
NextFree ==
  CHOOSE i \in Free : \A j \in Free : Draws(lastId, i) <= Draws(lastId, j)

FirstDrawn == IF lastId = NumIds THEN 1 ELSE lastId + 1

\* Identifier i is drawn: it and those in flight had their turn.
Drawn(S, i) == {[m EXCEPT !.ahead = @ \cap (Free \ {i})] : m \in S}

\* The messages of S, those sent for the identifiers I no longer awaited.
Closed(S, I) == {[m EXCEPT !.open = @ /\ m.id \notin I] : m \in S}

-----------------------------------------------------------------------------
(* Settling promises.                                                      *)

\* suppressErrors turns an error into an empty answer.
ErrorFor(c) == IF c \in Quiet THEN "empty" ELSE "failed"

Registered(c) == {i \in Ids : requests[i] = c}

\* The observer of isOnline: every registered request is aborted.
AbortAll(p) ==
  /\ promise' = [c \in Clients |->
                   IF promise[c] = "pending" THEN ErrorFor(c) ELSE p[c]]
  /\ requests' = [i \in Ids |-> None]

\* Variant: a failed keepalive is not counted.
BugNotCounted(r, p) ==
  requests' = r /\ promise' = p /\ UNCHANGED <<flag, missed>>

\* What follows a failed keepalive, when r and p are the registered requests
\* and the promises after its own failure.
KeepAliveFails(r, p) ==
  IF ~isOnline
    THEN /\ requests' = r /\ promise' = p
         /\ UNCHANGED <<flag, missed>>
    ELSE IF missed + 1 <= Tolerate
      THEN /\ requests' = r /\ promise' = p
           /\ missed' = missed + 1
           /\ UNCHANGED flag
      ELSE /\ missed' = 0
           /\ flag' = FALSE
           /\ AbortAll(p)

\* The request of c failed; r are the registered requests after that.
Fails(c, r) ==
  LET p == [promise EXCEPT ![c] = ErrorFor(c)] IN
  IF c \in KeepAlives
    THEN KeepAliveFails(r, p)
    ELSE /\ requests' = r /\ promise' = p
         /\ UNCHANGED <<flag, missed>>

\* Identifiers that are registered now and no longer after the step.
Released == {i \in Ids : requests[i] # None /\ requests'[i] = None}

-----------------------------------------------------------------------------
Init ==
  /\ connected = FALSE
  /\ alive \in BOOLEAN
  /\ flag = FALSE
  /\ missed = 0
  /\ lastId = NumIds
  /\ requests = [i \in Ids |-> None]
  /\ promise = [c \in Clients |-> "idle"]
  /\ sent = {}

\* A caller may issue when it has nothing outstanding; keepalives need the
\* transport and ignore the online state.
MayIssue(c) ==
  /\ promise[c] # "pending"
  /\ c \in KeepAlives => connected

\* Variant: keepalives do not ignore the offline state.
BugNobodyExempt(c) == isOnline

\* Variant: only the transport is asked.
BugTransportOnly(c) == connected

Admitted(c) == isOnline \/ c \in KeepAlives

\* Rejected although suppressErrors may be set: 'device is not online'.
RequestOffline(c) ==
  /\ MayIssue(c)
  /\ ~Admitted(c)
  /\ promise' = [promise EXCEPT ![c] = "failed"]
  /\ UNCHANGED <<connected, alive, flag, missed, lastId, requests, sent>>

\* No identifier is free: 'rolled over to itself but is still running'. The
\* promise is rejected whatever suppressErrors says.
RequestRollover(c) ==
  /\ MayIssue(c)
  /\ Admitted(c)
  /\ Free = {}
  /\ lastId' = FirstDrawn
  /\ LET p == [promise EXCEPT ![c] = "failed"] IN
       IF c \in KeepAlives
         THEN KeepAliveFails(requests, p)
         ELSE promise' = p /\ UNCHANGED <<requests, flag, missed>>
  /\ sent' = Closed(Drawn(sent, FirstDrawn), Released)
  /\ UNCHANGED <<connected, alive>>

\* The transport has lost its socket and throws: the identifier is used up but
\* nothing is registered.
RequestUnwritten(c) ==
  /\ MayIssue(c)
  /\ Admitted(c)
  /\ Free # {}
  /\ lastId' = NextFree
  /\ Fails(c, requests)
  /\ sent' = Closed(Drawn(sent, NextFree), Released)
  /\ UNCHANGED <<connected, alive>>

\* The message is written, the resolver registered and the timer started. Some
\* of the messages still on their way, this one included, are lost for good.
RequestSent(c) ==
  /\ MayIssue(c)
  /\ Admitted(c)
  /\ Free # {}
  /\ lastId' = NextFree
  /\ requests' = [requests EXCEPT ![NextFree] = c]
  /\ promise' = [promise EXCEPT ![c] = "pending"]
  /\ sent' \in SUBSET (Drawn(sent, NextFree) \cup {NewMessage(NextFree)})
  /\ Cardinality(sent') <= MaxSent
  /\ UNCHANGED <<connected, alive, flag, missed>>

\* An answer arrives. Nobody waits for its identifier: it is dropped.
AnswerDropped(m) ==
  /\ connected /\ alive
  /\ m \in sent
  /\ requests[m.id] = None
  /\ sent' = IF Duplicating THEN sent ELSE sent \ {m}
  /\ UNCHANGED <<connected, alive, flag, missed, lastId, requests, promise>>

\* An answer arrives and resolves whatever request has its identifier; an
\* answered keepalive clears the counter and sets the device online.
AnswerMatched(m) ==
  /\ connected /\ alive
  /\ m \in sent
  /\ requests[m.id] # None
  /\ LET c == requests[m.id] IN
       /\ promise' = [promise EXCEPT ![c] = "answered"]
       /\ IF c \in KeepAlives
            THEN flag' = TRUE /\ missed' = 0
            ELSE UNCHANGED <<flag, missed>>
  /\ requests' = [requests EXCEPT ![m.id] = None]
  /\ sent' = Closed(IF Duplicating THEN sent ELSE sent \ {m}, {m.id})
  /\ UNCHANGED <<connected, alive, lastId>>

\* Variant: the resolver does not delete the request.
BugNotDeleted(i) ==
  /\ requests[i] # None
  /\ Fails(requests[i], requests)
  /\ UNCHANGED <<connected, alive, lastId, sent>>

\* Variant: only keepalives get a timer.
BugNoTimer(i) ==
  /\ requests[i] \in KeepAlives
  /\ Fails(requests[i], [requests EXCEPT ![i] = None])
  /\ sent' = Closed(sent, Released)
  /\ UNCHANGED <<connected, alive, lastId>>

\* The timer of a registered request runs out.
Timeout(i) ==
  /\ requests[i] # None
  /\ Fails(requests[i], [requests EXCEPT ![i] = None])
  /\ sent' = Closed(sent, Released)
  /\ UNCHANGED <<connected, alive, lastId>>

\* The transport connects: with flag still set, the device is online at once.
TransportConnects ==
  /\ ~connected
  /\ connected' = TRUE
  /\ UNCHANGED <<alive, flag, missed, lastId, requests, promise, sent>>

\* The transport disconnects; answers on their way are gone with the socket.
\* If that takes the device offline everything registered is aborted, and the
\* continuations of aborted keepalives return early as the device is offline.
TransportDisconnects ==
  /\ connected
  /\ connected' = FALSE
  /\ sent' = {}
  /\ IF flag
       THEN AbortAll(promise)
       ELSE UNCHANGED <<requests, promise>>
  /\ UNCHANGED <<alive, flag, missed, lastId>>

\* The remote device stops or resumes answering.
RemoteToggles ==
  /\ alive' = ~alive
  /\ UNCHANGED <<connected, flag, missed, lastId, requests, promise, sent>>

Request(c) ==
  \/ RequestOffline(c)
  \/ RequestRollover(c)
  \/ RequestUnwritten(c)
  \/ RequestSent(c)

Next ==
  \/ \E c \in Clients : Request(c)
  \/ \E m \in sent : AnswerDropped(m) \/ AnswerMatched(m)
  \/ \E i \in Ids : Timeout(i)
  \/ TransportConnects
  \/ TransportDisconnects
  \/ RemoteToggles

Spec == Init /\ [][Next]_vars

\* setInterval keeps sending keepalives.
KeepAliveTick == \E k \in KeepAlives : Request(k)

\* Timers run out; the keepalive interval goes on whatever happens. Of the
\* environment only this is assumed: a transport that stays up with a remote
\* device that answers takes and answers a keepalive now and then.
KeepAliveSent ==
  \E k \in KeepAlives : RequestSent(k) /\ NewMessage(NextFree) \in sent'

KeepAliveAnswered ==
  \E m \in sent : requests[m.id] \in KeepAlives /\ AnswerMatched(m)

FairSpec ==
  /\ Spec
  /\ \A i \in Ids : WF_vars(Timeout(i))
  /\ WF_vars(KeepAliveTick)
  /\ SF_vars(KeepAliveSent)
  /\ SF_vars(KeepAliveAnswered)

-----------------------------------------------------------------------------
(* Properties.                                                             *)

\* The variables keep their types, the missed counter its limit (main.ts 206-226,
\* 310-323).
TypeOK ==
  /\ connected \in BOOLEAN /\ alive \in BOOLEAN /\ flag \in BOOLEAN
  /\ missed \in 0..Tolerate
  /\ lastId \in Ids
  /\ requests \in [Ids -> Clients \cup {None}]
  /\ promise \in [Clients -> {"idle", "pending"} \cup Outcomes]
  /\ sent \subseteq Messages

\* Going offline settles every caller: while the device is offline the only
\* requests in flight are keepalives (isOnline observer, main.ts 263-270, and
\* the admission test of request, 395).
OfflineRunsNoRequests ==
  ~isOnline => \A i \in Ids : requests[i] \in KeepAlives \cup {None}

\* No promise hangs and no identifier leaks: a promise is open exactly while
\* one identifier is registered for it (resolver, main.ts 454-475).
EveryPromiseTracked ==
  \A c \in Clients :
    IF promise[c] = "pending"
      THEN \E i \in Ids : Registered(c) = {i}
      ELSE Registered(c) = {}

\* A late or duplicated answer can only be taken for the answer to a newer
\* request when every other identifier had its turn in between: the rolling
\* number (main.ts 405-417) does not hand an identifier out again earlier.
IdentifiersTakeTurns ==
  \A m \in sent : requests[m.id] # None /\ ~m.open => m.ahead = {}

Service == INSTANCE RequestService WITH
  up <- isOnline, Exempt <- KeepAlives

\* The multiplexer is a RequestService: identifiers, timers, late answers and
\* the missed counter never show in what callers see.
ImplementsRequestService == Service!Spec

\* A device that stops answering on a connection that stays up is noticed:
\* it goes offline for good (_sendKeepAlive, main.ts 303-326).
DeadDeviceGoesOffline ==
  <>[](connected /\ ~alive) => <>[]~isOnline

\* A device that answers on a connection that stays up is online again and
\* again, whatever callers do to the identifiers (main.ts 328-329).
ReachableDeviceComesOnline ==
  <>[](connected /\ alive) => []<>isOnline

\* No request stays open for ever (timer, main.ts 451 and 477-482).
EveryRequestSettles ==
  \A c \in Clients : promise[c] = "pending" ~> promise[c] # "pending"

=============================================================================
