--------------------------- MODULE ExternalState ---------------------------
(***************************************************************************)
(* The state of a machine that belongs to no device of this program: an    *)
(* ExternalStateSettable or an ExternalStateSettableScheduled with its     *)
(* getter and setter in the living room. actualState is what was last      *)
(* heard of the machine, setState what is wanted of it, and each of them   *)
(* changes the other: a change of actualState is taken for the wish of     *)
(* somebody at the machine, setState is asserted when it is set and again  *)
(* every 30 seconds. ExternalState and ExternalStateScheduled are this     *)
(* without setState.                                                       *)
(*                                                                         *)
(* infoscreen: getter and setter are HTTP requests, awaited.               *)
(* projector:  the getter is awaited, the setter does not wait.            *)
(* avr:        no getter: the schedule writes queries to a socket, what    *)
(*             comes back is injected. Neither query nor setter waits.     *)
(* Commands and queries under way reach the machine in any order here; the *)
(* socket would keep theirs.                                               *)
(***************************************************************************)
EXTENDS Naturals

CONSTANT Calls   \* bound: getters, and setters, under way at the same time

VARIABLES
  machine,       \* which one; never changes
  power,         \* what it really is: "on" or "off"
  reachable,     \* it answers: the socket is connected, the HTTP server is up
  setState,
  actualState,   \* "on", "off" or "null"
  isInProgressSetter,
  isInProgress,
  getter,        \* getter[c]: "idle", "asked", or the state the machine has answered
  setter,        \* setter[c]: "idle", or the state the machine is told to have
  by             \* history: who has last set setState, a "user" or the "machine"

externalVars == <<machine, power, reachable, setState, actualState, isInProgressSetter,
                  isInProgress, getter, setter, by>>

Machines == {"infoscreen", "projector", "avr"}
States == {"on", "off"}
Opposite(s) == IF s = "on" THEN "off" ELSE "on"

-----------------------------------------------------------------------------
ExternalInit ==
  /\ machine \in Machines
  /\ power \in States
  /\ reachable = FALSE
  /\ setState = "off"
  /\ actualState = "null"
  /\ isInProgressSetter = FALSE
  /\ isInProgress = FALSE
  /\ getter = [c \in Calls |-> "idle"]
  /\ setter = [c \in Calls |-> "idle"]
  /\ by = "machine"

\* Variant: a wish that is being asserted is kept.
BugKeepsWish(s) ==
  /\ actualState' = s
  /\ IF s \notin {"null", actualState} /\ ~isInProgressSetter
       THEN setState' = s /\ isInProgressSetter' = FALSE /\ by' = "machine"
       ELSE /\ UNCHANGED <<setState, isInProgressSetter>>
            /\ by' = IF s \notin {"null", actualState} THEN "machine" ELSE by

\* _actualState.set(s) when it changes, with _refreshSetState: setting setState runs
\* reassert, which the flag holds back; then the flag is cleared, even if it was that
\* of a setter.
Heard(s) ==
  /\ actualState' = s
  /\ IF s \notin {"null", actualState}
       THEN setState' = s /\ isInProgressSetter' = FALSE /\ by' = "machine"
       ELSE UNCHANGED <<setState, isInProgressSetter, by>>

\* The setter is called with s: it returns at once if that is what was last heard, or
\* if there is no connection.
Told(s) == s # actualState /\ (machine = "avr" => reachable)

\* reassert: only one setter at a time. The flag stays set while a setter is awaited.
Reassert(s) ==
  IF ~isInProgressSetter /\ Told(s)
    THEN /\ \E c \in Calls : setter[c] = "idle" /\ setter' = [setter EXCEPT ![c] = s]
         /\ isInProgressSetter' = (machine = "infoscreen")
    ELSE UNCHANGED <<setter, isInProgressSetter>>

\* Somebody sets setState; its observer is reassert. Whether that runs when the value
\* stays the same is up to the Observable.
SetState(s) ==
  /\ setState' = s
  /\ by' = "user"
  /\ \/ Reassert(s)
     \/ s = setState /\ UNCHANGED <<setter, isInProgressSetter>>
  /\ UNCHANGED <<machine, power, reachable, actualState, isInProgress, getter>>

\* Every 30 seconds: an execution of a schedule of its own.
ScheduledReassert ==
  /\ Reassert(setState)
  /\ UNCHANGED <<machine, power, reachable, setState, actualState, isInProgress, getter, by>>

\* Variant: the flag is left to the setter that has returned.
BugFlagKept(c) ==
  /\ setter' = [setter EXCEPT ![c] = "idle"]
  /\ UNCHANGED isInProgressSetter

\* A setter is done, with or without an error.
SetterReturns(c) ==
  /\ setter' = [setter EXCEPT ![c] = "idle"]
  /\ isInProgressSetter' = (isInProgressSetter /\ machine # "infoscreen")

\* The machine does what it is told.
Obeys(c) ==
  /\ setter[c] # "idle"
  /\ reachable
  /\ power' = setter[c]
  /\ SetterReturns(c)
  /\ UNCHANGED <<machine, reachable, setState, actualState, isInProgress, getter, by>>

\* The command is lost.
CommandLost(c) ==
  /\ setter[c] # "idle"
  /\ SetterReturns(c)
  /\ UNCHANGED <<machine, power, reachable, setState, actualState, isInProgress, getter, by>>

\* reevaluate, called by the schedule; for the avr the query.
Reevaluate ==
  /\ IF ~isInProgress /\ (machine = "avr" => reachable)
       THEN /\ \E c \in Calls : getter[c] = "idle" /\ getter' = [getter EXCEPT ![c] = "asked"]
            /\ isInProgress' = (machine # "avr")
       ELSE UNCHANGED <<getter, isInProgress>>
  /\ UNCHANGED <<machine, power, reachable, setState, actualState, isInProgressSetter, setter, by>>

\* The machine answers with what it is.
Answers(c) ==
  /\ getter[c] = "asked"
  /\ reachable
  /\ getter' = [getter EXCEPT ![c] = power]
  /\ UNCHANGED <<machine, power, reachable, setState, actualState, isInProgressSetter, isInProgress, setter, by>>

\* The answer arrives: reevaluate goes on, or inject is called.
GetterReturns(c) ==
  /\ getter[c] \in States
  /\ Heard(getter[c])
  /\ getter' = [getter EXCEPT ![c] = "idle"]
  /\ isInProgress' = FALSE
  /\ UNCHANGED <<machine, power, reachable, setter>>

\* There is no answer: an error is doNotSet for the infoscreen, null for the projector.
GetterFails(c) ==
  /\ getter[c] = "asked"
  /\ IF machine = "projector" THEN Heard("null")
       ELSE UNCHANGED <<setState, actualState, isInProgressSetter, by>>
  /\ getter' = [getter EXCEPT ![c] = "idle"]
  /\ isInProgress' = FALSE
  /\ UNCHANGED <<machine, power, reachable, setter>>

\* Somebody switches the machine itself, and the network comes and goes.
Switched ==
  /\ power' = Opposite(power)
  /\ UNCHANGED <<machine, reachable, setState, actualState, isInProgressSetter, isInProgress, getter, setter, by>>

Reachability ==
  /\ reachable' = ~reachable
  /\ UNCHANGED <<machine, power, setState, actualState, isInProgressSetter, isInProgress, getter, setter, by>>

=============================================================================
