----------------------------- MODULE Persistence -----------------------------
(***************************************************************************)
(* What is set survives restarts: every 30 seconds, and on the way out,    *)
(* the observed values are written to a file, which the next process reads *)
(* at the end of its start-up (lib/persistence.ts, app/app.ts, main.ts).   *)
(*                                                                         *)
(* A start takes a while, and the schedule that writes runs from its very  *)
(* beginning: loading the modules, with nothing observed yet; wiring the   *)
(* tree, which registers what is observed; then restoring, which awaits    *)
(* the file. Values are served and set as soon as the tree is wired. A     *)
(* signal or an exception writes once more, provided that start-up has got *)
(* to the restoring, and ends the process a little later.                  *)
(***************************************************************************)
EXTENDS FiniteSets

CONSTANTS
  Keys,          \* identifiers of what is persisted
  Values,        \* what an observable may hold
  Default,       \* what it holds initially
  Absent,        \* in the file: nothing for this key
  Torn           \* the file holds something that cannot be parsed

ASSUME DefaultAssumption == Default \in Values
ASSUME FileAssumption == Absent \notin Values /\ Torn \notin [Keys -> Values \cup {Absent}]

VARIABLES
  phase,         \* "down", or how far the process has got
  stopping,      \* exit() has been called in this process
  file,          \* the file; missing or empty is the same as nothing for any key
  payload,       \* what restore() has read, while phase is "read"
  value,         \* the observables
  last,          \* history: what somebody last set a key to, in whatever process
  lost           \* history: keys that may not keep it, for one of the causes below

vars == <<phase, stopping, file, payload, value, last, lost>>

Files == [Keys -> Values \cup {Absent}] \cup {Torn}
Nothing == [k \in Keys |-> Absent]

\* Nothing is observed while the modules are loading, the tree then is wired,
\* restore() has been called, has read the file, is finished, or has given up.
Phases == {"down", "loading", "wired", "restoring", "read", "up", "unread"}

\* What the process would write.
Gathered == IF phase = "loading" THEN Nothing ELSE value

-----------------------------------------------------------------------------
(* persist(). It is synchronous, but the file is truncated first: an error *)
(* or a crash in between leaves it torn, or untouched when it came earlier.*)

\* Variant: only what has changed since the file was written is written.
BugChangesOnly ==
  /\ file' = [k \in Keys |-> IF file # Torn /\ file[k] = Gathered[k] THEN Absent ELSE Gathered[k]]
  /\ lost' = IF phase = "up" THEN lost ELSE Keys

\* Before anything is restored, initial values replace what was persisted.
Written ==
  /\ file' = Gathered
  /\ lost' = IF phase = "up" THEN lost ELSE Keys

\* In a process that goes on the next time repairs it.
NotWritten ==
  /\ file' \in {file, Torn}
  /\ lost' = IF phase = "up" /\ ~stopping' THEN lost ELSE Keys

-----------------------------------------------------------------------------
Init ==
  /\ phase = "down"
  /\ stopping = FALSE
  /\ file = Nothing
  /\ payload = Nothing
  /\ value = [k \in Keys |-> Default]
  /\ last = [k \in Keys |-> Default]
  /\ lost = {}

Start ==
  /\ phase = "down"
  /\ phase' = "loading"
  /\ UNCHANGED <<stopping, file, payload, value, last, lost>>

\* init(system): every $init registers what it wants to have persisted.
Wire ==
  /\ phase = "loading"
  /\ phase' = "wired"
  /\ UNCHANGED <<stopping, file, payload, value, last, lost>>

\* cleanup is assigned and restore() called; its mkdirSync may throw.
BeginRestore ==
  /\ phase = "wired"
  /\ phase' \in {"restoring", "unread"}
  /\ UNCHANGED <<stopping, file, payload, value, last, lost>>

\* readFile() has the contents ...
ReadFile ==
  /\ phase = "restoring"
  /\ phase' = "read"
  /\ payload' = file
  /\ UNCHANGED <<stopping, file, value, last, lost>>

\* ... or fails: restore() rejects, which in the end is an unhandled rejection.
ReadFails ==
  /\ phase = "restoring"
  /\ phase' = "unread"
  /\ UNCHANGED <<stopping, file, payload, value, last, lost>>

\* The remainder of restore(): what is in the file is set.
Restore ==
  /\ phase = "read"
  /\ phase' = "up"
  /\ value' = IF payload = Torn THEN value
              ELSE [k \in Keys |-> IF payload[k] = Absent THEN value[k] ELSE payload[k]]
  /\ payload' = Nothing
  /\ UNCHANGED <<stopping, file, last, lost>>

\* Somebody sets a value: a person, an automation. Restoring may replace it when
\* that is still to come, and nothing writes it any more when the process ends.
Set(k, v) ==
  /\ phase \in Phases \ {"down", "loading"}
  /\ value' = [value EXCEPT ![k] = v]
  /\ last' = [last EXCEPT ![k] = v]
  /\ lost' = IF phase = "up" /\ ~stopping THEN lost \ {k} ELSE lost \cup {k}
  /\ UNCHANGED <<phase, stopping, file, payload>>

\* The schedule.
Tick ==
  /\ phase # "down"
  /\ UNCHANGED stopping
  /\ Written
  /\ UNCHANGED <<phase, payload, value, last>>

TickFails ==
  /\ phase # "down"
  /\ UNCHANGED stopping
  /\ NotWritten
  /\ UNCHANGED <<phase, payload, value, last>>

\* Variant: nothing is written on the way out.
BugNoCleanup ==
  /\ phase # "down"
  /\ stopping' = TRUE
  /\ UNCHANGED <<file, lost, phase, payload, value, last>>

\* exit(), of a signal or 5 seconds after an exception. Called again it does not
\* write, and cleanup is not there yet early on.
Signal ==
  /\ phase # "down"
  /\ stopping' = TRUE
  /\ IF stopping \/ phase \in {"loading", "wired"}
       THEN UNCHANGED <<file, lost>>
       ELSE Written \/ NotWritten
  /\ UNCHANGED <<phase, payload, value, last>>

\* The process is gone, and with it everything but the file.
Gone ==
  /\ phase # "down"
  /\ phase' = "down"
  /\ stopping' = FALSE
  /\ payload' = Nothing
  /\ value' = [k \in Keys |-> Default]
  /\ UNCHANGED last

Exit ==
  /\ stopping
  /\ Gone
  /\ UNCHANGED <<file, lost>>

\* It is killed: what was not written yet is lost, or everything, when it was
\* just writing.
Killed ==
  /\ Gone
  /\ \/ /\ UNCHANGED file
        /\ lost' = IF phase # "up" THEN lost
                   ELSE IF file = Torn THEN Keys
                   ELSE lost \cup {k \in Keys : file[k] # value[k]}
     \/ /\ file' = Torn
        /\ lost' = Keys

Next ==
  \/ Start \/ Wire \/ BeginRestore \/ ReadFile \/ ReadFails \/ Restore
  \/ \E k \in Keys, v \in Values : Set(k, v)
  \/ Tick \/ TickFails
  \/ Signal \/ Exit \/ Killed

Spec == Init /\ [][Next]_vars

\* The schedule keeps running (it is a Schedule that nobody stops), and writing
\* succeeds now and then.
FairSpec == Spec /\ SF_vars(Tick)

-----------------------------------------------------------------------------
(* Properties.                                                             *)

\* The variables keep their types (persistence.ts 13-31, 111-133).
TypeOK ==
  /\ phase \in Phases
  /\ stopping \in BOOLEAN
  /\ file \in Files
  /\ payload \in Files
  /\ value \in [Keys -> Values]
  /\ last \in [Keys -> Values]
  /\ lost \subseteq Keys

\* After any number of restarts a process that is up has every value as it was
\* last set, in whichever process, but for the causes named with `lost`: something
\* was written before it was restored, the process was killed with a value not or
\* only half written, the last writing failed, or the value was set too early or too
\* late (persistence.ts 48-147, app.ts 161-167, main.ts 28-47).
KeptOverRestarts == phase = "up" => \A k \in Keys \ lost : value[k] = last[k]

\* Values that do not change any more are in the file in the end, failures to write
\* notwithstanding (persistence.ts 30, 94-107).
WrittenDown ==
  <>[][phase # "down" /\ phase' = phase /\ value' = value]_vars /\ []<>(phase # "down")
    => []<>(file = Gathered)

=============================================================================
