----------------------------- MODULE AgentSession -----------------------------
(***************************************************************************)
(* The AgentSession state machine of spec §4.3, with no adapter in it:    *)
(*   Disconnected -> Connected -> Querying -> Streaming                    *)
(*                -> {Completed | Failed}                                  *)
(* Events are logged in arrival order; a Result is terminal and decides    *)
(* the outcome from its error flag; nothing is logged once the session     *)
(* has completed or failed. Whether a stream exhausted without a Result    *)
(* succeeded is left open (spec §9, open question).                        *)
(***************************************************************************)
EXTENDS Sequences

CONSTANTS Events   \* the StreamEvents the runtime can deliver

VARIABLES
    state,    \* the session state
    events,   \* the evidence log: every event consumed, in arrival order
    outcome   \* "pending", then "success" or "failure"

sessionVars == <<state, events, outcome>>

IsResult(e) == e.kind = "result"

Init ==
    /\ state = "Disconnected"
    /\ events = <<>>
    /\ outcome = "pending"

Connect ==
    /\ state = "Disconnected"
    /\ state' = "Connected"
    /\ UNCHANGED <<events, outcome>>

\* The query is submitted; the session waits for the first event.
Submit ==
    /\ state = "Connected"
    /\ state' = "Querying"
    /\ UNCHANGED <<events, outcome>>

\* A non-terminal event is consumed and logged.
Consume(e) ==
    /\ state \in {"Querying", "Streaming"}
    /\ ~IsResult(e)
    /\ state' = "Streaming"
    /\ events' = Append(events, e)
    /\ UNCHANGED outcome

\* The terminal Result is logged and decides the outcome.
Complete(e) ==
    /\ state \in {"Querying", "Streaming"}
    /\ IsResult(e)
    /\ state' = "Completed"
    /\ events' = Append(events, e)
    /\ outcome' = IF e.isError THEN "failure" ELSE "success"

\* The stream ends without a Result; the outcome is not specified.
Exhaust ==
    /\ state \in {"Querying", "Streaming"}
    /\ state' = "Completed"
    /\ outcome' \in {"success", "failure"}
    /\ UNCHANGED events

\* A connection failure, an exception or a timeout.
Fail ==
    /\ state \in {"Disconnected", "Connected", "Querying", "Streaming"}
    /\ state' = "Failed"
    /\ outcome' = "failure"
    /\ UNCHANGED events

Next ==
    \/ Connect \/ Submit \/ Exhaust \/ Fail
    \/ \E e \in Events : Consume(e) \/ Complete(e)

Spec == Init /\ [][Next]_sessionVars

=============================================================================
