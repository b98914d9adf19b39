-------------------------- MODULE PersistenceProofs --------------------------
(***************************************************************************)
(* Proofs about Persistence for any keys and values. What was last set is  *)
(* handed along: while no process has restored yet it is in the file, then *)
(* in what was read of it, then in the observables, and, once the process  *)
(* is about to end, in the file again.                                     *)
(***************************************************************************)
EXTENDS Persistence, TLAPS

\* What restoring from f makes of key k, of which nobody has set the value yet.
Gives(f, k) == IF f[k] = Absent THEN Default ELSE f[k]

\* The file, or what was read of it, has k as it was last set.
Holds(f, k) == f # Torn /\ Gives(f, k) = last[k]

Early == {"down", "loading", "wired", "restoring", "read", "unread"}

InFile == phase \in Early \/ stopping => \A k \in Keys \ lost : Holds(file, k)

InPayload == phase = "read" => \A k \in Keys \ lost : Holds(payload, k)

Untouched == phase \in Early => \A k \in Keys \ lost : value[k] = Default

AtRest == phase = "down" => ~stopping /\ value = [k \in Keys |-> Default]

IInv == TypeOK /\ KeptOverRestarts /\ InFile /\ InPayload /\ Untouched /\ AtRest

LEMMA InitHolds ==
  ASSUME Init
  PROVE  IInv
BY DefaultAssumption, FileAssumption
DEF Init, IInv, TypeOK, KeptOverRestarts, InFile, InPayload, Untouched, AtRest, Holds, Gives,
    Nothing, Files, Phases

\* What is written is a file.
LEMMA GatheredIsFile ==
  ASSUME TypeOK
  PROVE  Gathered \in Files /\ (phase # "loading" => Gathered = value)
BY DEF TypeOK, Gathered, Files, Nothing

\* Writing or not writing leaves the invariant intact, if nothing else changes
\* except that the process begins to stop.
LEMMA WritingKeeps ==
  ASSUME IInv, phase # "down", Written \/ NotWritten, stopping' \in BOOLEAN,
         UNCHANGED <<phase, payload, value, last>>
  PROVE  IInv'
<1>1. file' \in Files /\ (Written => file' = Gathered)
  BY GatheredIsFile DEF IInv, TypeOK, Files, Written, NotWritten
<1>2. lost' \subseteq Keys
  BY DEF IInv, TypeOK, Written, NotWritten
<1>3. TypeOK' /\ AtRest'
  BY <1>1, <1>2 DEF IInv, TypeOK, AtRest
<1>4. CASE phase # "up"
  <2>1. lost' = Keys
    BY <1>4 DEF Written, NotWritten
  <2> QED
    BY <1>3, <2>1 DEF IInv, KeptOverRestarts, InFile, InPayload, Untouched
<1>5. CASE phase = "up" /\ Written
  <2>1. lost' = lost /\ file' = value
    BY <1>5, GatheredIsFile DEF IInv, Written
  <2>2. \A k \in Keys \ lost : value[k] = last[k] /\ value[k] \in Values
    BY <1>5 DEF IInv, KeptOverRestarts, TypeOK
  <2>3. file' # Torn
    BY <2>1, FileAssumption DEF IInv, TypeOK
  <2>4. InFile'
    BY <2>1, <2>2, <2>3, FileAssumption DEF InFile, Holds, Gives
  <2> QED
    BY <1>3, <1>5, <2>1, <2>4 DEF IInv, KeptOverRestarts, InPayload, Untouched, Early
<1>6. CASE phase = "up" /\ NotWritten
  <2>1. lost' = Keys \/ (lost' = lost /\ ~stopping')
    BY <1>6 DEF NotWritten
  <2> QED
    BY <1>3, <1>6, <2>1
    DEF IInv, KeptOverRestarts, InFile, InPayload, Untouched, Early
<1> QED
  BY <1>4, <1>5, <1>6

\* The process is gone; the file keeps what it has to.
LEMMA GoneKeeps ==
  ASSUME IInv, Gone, file' \in Files, lost' \subseteq Keys,
         \A k \in Keys \ lost' : Holds(file', k)
  PROVE  IInv'
<1>1. TypeOK' /\ AtRest'
  BY DefaultAssumption, FileAssumption DEF IInv, TypeOK, Gone, AtRest, Files, Nothing, Phases
<1>2. \A k \in Keys : last'[k] = last[k] /\ value'[k] = Default
  BY DEF Gone
<1>3. InFile' /\ Untouched'
  BY <1>2 DEF InFile, Untouched, Holds, Gives
<1> QED
  BY <1>1, <1>3 DEF IInv, KeptOverRestarts, InPayload, Gone

LEMMA NextKeeps ==
  ASSUME IInv, [Next]_vars
  PROVE  IInv'
<1> USE DEF Phases, Early
<1>1. CASE Start \/ Wire \/ BeginRestore \/ ReadFails
  BY <1>1 DEF Start, Wire, BeginRestore, ReadFails, IInv, TypeOK, KeptOverRestarts, InFile,
      InPayload, Untouched, AtRest, Holds, Gives
<1>2. CASE ReadFile
  BY <1>2 DEF ReadFile, IInv, TypeOK, KeptOverRestarts, InFile, InPayload, Untouched, AtRest,
      Holds, Gives
<1>3. CASE Restore
  <2>1. phase = "read" /\ phase' = "up" /\ UNCHANGED <<stopping, file, last, lost>>
    BY <1>3 DEF Restore
  <2>2. payload' = Nothing
    BY <1>3 DEF Restore
  <2>3. value' \in [Keys -> Values]
    BY <1>3 DEF Restore, IInv, TypeOK, Files
  <2>4. TypeOK'
    BY <2>1, <2>2, <2>3 DEF IInv, TypeOK, Files, Nothing
  <2>5. KeptOverRestarts'
    <3>1. SUFFICES ASSUME NEW k \in Keys \ lost PROVE value'[k] = last[k]
      BY <2>1 DEF KeptOverRestarts
    <3>2. Holds(payload, k) /\ value[k] = Default
      BY <2>1 DEF IInv, InPayload, Untouched
    <3>3. value'[k] = IF payload[k] = Absent THEN value[k] ELSE payload[k]
      BY <1>3, <3>2 DEF Restore, Holds
    <3> QED
      BY <3>2, <3>3 DEF Holds, Gives
  <2>6. InFile'
    BY <2>1 DEF IInv, InFile, Holds, Gives
  <2> QED
    BY <2>1, <2>4, <2>5, <2>6 DEF IInv, InPayload, Untouched, AtRest
<1>4. ASSUME NEW k \in Keys, NEW v \in Values, Set(k, v) PROVE IInv'
  <2>1. /\ phase # "down" /\ phase' = phase
        /\ UNCHANGED <<stopping, file, payload>>
        /\ value' = [value EXCEPT ![k] = v]
        /\ last' = [last EXCEPT ![k] = v]
        /\ lost' = IF phase = "up" /\ ~stopping THEN lost \ {k} ELSE lost \cup {k}
    BY <1>4 DEF Set
  <2>2. \A j \in Keys : j # k => value'[j] = value[j] /\ last'[j] = last[j]
    BY <2>1 DEF IInv, TypeOK
  <2>3. value'[k] = v /\ last'[k] = v
    BY <2>1 DEF IInv, TypeOK
  <2>4. TypeOK' /\ AtRest'
    BY <2>1 DEF IInv, TypeOK, AtRest
  <2>5. KeptOverRestarts'
    BY <2>1, <2>2, <2>3 DEF IInv, KeptOverRestarts
  <2>6. InFile' /\ InPayload' /\ Untouched'
    BY <2>1, <2>2 DEF IInv, InFile, InPayload, Untouched, Holds, Gives
  <2> QED
    BY <2>4, <2>5, <2>6 DEF IInv
<1>5. CASE Tick
  BY <1>5, WritingKeeps DEF Tick, IInv, TypeOK
<1>6. CASE TickFails
  BY <1>6, WritingKeeps DEF TickFails, IInv, TypeOK
<1>7. CASE Signal
  <2>1. CASE Written \/ NotWritten
    BY <1>7, <2>1, WritingKeeps DEF Signal
  <2>2. CASE (stopping \/ phase \in {"loading", "wired"}) /\ UNCHANGED <<file, lost>>
    BY <1>7, <2>2 DEF Signal, IInv, TypeOK, KeptOverRestarts, InFile, InPayload, Untouched,
        AtRest, Holds, Gives
  <2> QED
    BY <1>7, <2>1, <2>2 DEF Signal
<1>8. CASE Exit
  BY <1>8, GoneKeeps DEF Exit, IInv, TypeOK, InFile, Holds, Gives
<1>9. CASE Killed
  <2>1. Gone
    BY <1>9 DEF Killed
  <2>2. CASE file' = Torn /\ lost' = Keys
    BY <2>1, <2>2, GoneKeeps DEF Files
  <2>3. CASE UNCHANGED file /\ phase # "up" /\ lost' = lost
    <3>1. phase \in Early
      BY <2>3 DEF IInv, TypeOK
    <3> QED
      BY <2>1, <2>3, <3>1, GoneKeeps DEF IInv, TypeOK, InFile, Holds, Gives
  <2>4. CASE UNCHANGED file /\ phase = "up" /\ file = Torn /\ lost' = Keys
    BY <2>1, <2>4, GoneKeeps DEF Files
  <2>5. CASE /\ UNCHANGED file /\ phase = "up" /\ file # Torn
             /\ lost' = lost \cup {k \in Keys : file[k] # value[k]}
    <3>1. \A k \in Keys \ lost' : file[k] = last[k] /\ last[k] \in Values
      BY <2>5 DEF IInv, KeptOverRestarts, TypeOK
    <3>2. \A k \in Keys \ lost' : Holds(file', k)
      BY <2>5, <3>1, FileAssumption DEF Holds, Gives
    <3> QED
      BY <2>1, <2>5, <3>2, GoneKeeps DEF IInv, TypeOK
  <2> QED
    BY <1>9, <2>2, <2>3, <2>4, <2>5 DEF Killed
<1>10. CASE UNCHANGED vars
  BY <1>10 DEF vars, IInv, TypeOK, KeptOverRestarts, InFile, InPayload, Untouched, AtRest,
      Holds, Gives
<1> QED
  BY <1>1, <1>2, <1>3, <1>4, <1>5, <1>6, <1>7, <1>8, <1>9, <1>10 DEF Next

LEMMA Inductive == Spec => []IInv
<1>1. Init => IInv
  BY InitHolds
<1>2. IInv /\ [Next]_vars => IInv'
  BY NextKeeps
<1> QED
  BY <1>1, <1>2, PTL DEF Spec

\* The variables keep their types (persistence.ts 13-31).
THEOREM TypeCorrect == Spec => []TypeOK
<1>1. IInv => TypeOK
  BY DEF IInv
<1> QED
  BY <1>1, Inductive, PTL

\* Restarts keep what was set, for any keys and values (persistence.ts 48-147).
THEOREM RestartsKeep == Spec => []KeptOverRestarts
<1>1. IInv => KeptOverRestarts
  BY DEF IInv
<1> QED
  BY <1>1, Inductive, PTL

=============================================================================
