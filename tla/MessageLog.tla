------------------------------ MODULE MessageLog ------------------------------
(***************************************************************************)
(* What the kernel log promises its early outputs (src/kernel/debug/      *)
(* Log.cpp), with the ring buffer, the queue items and the flush lock left *)
(* out: a Log call submits its text once; submitted messages wait in one   *)
(* FIFO; a delivery hands the oldest waiting message, whole, to every      *)
(* output registered at that moment, and to no other.                      *)
(*                                                                         *)
(* LogBuffer is shown to implement this specification by a refinement     *)
(* mapping (LogBuffer.tla, MessageLogRefined).                             *)
(***************************************************************************)
EXTENDS Sequences

CONSTANTS
    Writers,    \* the Log calls
    Outputs,    \* the early outputs
    Text,       \* Text[w]: the text of w's message
    Panickers,  \* the cores that may panic
    EmergencyText \* EmergencyText[x]: what a panic on x writes, as log entries

VARIABLES
    submitted,  \* Log calls whose message has been queued
    pending,    \* the queued messages, oldest first, as their writers
    outputs,    \* the registered outputs
    log         \* log[o]: what output o was handed, in order

vars == <<submitted, pending, outputs, log>>

Init ==
    /\ submitted = {}
    /\ pending = << >>
    /\ outputs = {}
    /\ log = [o \in Outputs |-> << >>]

\* A Log call queues its message.
Submit(w) ==
    /\ w \notin submitted
    /\ submitted' = submitted \cup {w}
    /\ pending' = Append(pending, w)
    /\ UNCHANGED <<outputs, log>>

\* The oldest queued message goes to every registered output.
Deliver ==
    /\ pending # << >>
    /\ log' = [o \in Outputs |->
                 IF o \in outputs
                 THEN Append(log[o], [w |-> Head(pending), bytes |-> Text[Head(pending)]])
                 ELSE log[o]]
    /\ pending' = Tail(pending)
    /\ UNCHANGED <<submitted, outputs>>

\* An output is registered; it receives only later deliveries.
Register(o) ==
    /\ o \notin outputs
    /\ outputs' = outputs \cup {o}
    /\ UNCHANGED <<submitted, pending, log>>

\* A panic writes its text straight to every registered output, past the
\* queue and whatever is pending.
Emergency(x) ==
    /\ log' = [o \in Outputs |->
                 IF o \in outputs THEN log[o] \o EmergencyText[x] ELSE log[o]]
    /\ UNCHANGED <<submitted, pending, outputs>>

Next ==
    \/ \E w \in Writers : Submit(w)
    \/ Deliver
    \/ \E o \in Outputs : Register(o)
    \/ \E x \in Panickers : Emergency(x)

Spec == Init /\ [][Next]_vars

=============================================================================
