----------------------------- MODULE StopSource -----------------------------
(***************************************************************************)
(* What a stop source promises to the callbacks registered with it,        *)
(* independently of the list, the marker and the threads that implement    *)
(* it.  A stop is requested once and for good; a callback is registered,   *)
(* invoked or absent; it is invoked only when a stop was requested; once   *)
(* stop processing is over no callback is left registered without having   *)
(* been invoked, and none becomes so.                                      *)
(*                                                                         *)
(* A callback is invoked at most once per registration, unless Twice: then *)
(* one that is registered while the request is being processed is invoked  *)
(* by its registration and, if it is still there, once more before the     *)
(* processing is over.                                                     *)
(***************************************************************************)

CONSTANTS
    Callbacks,
    Twice       \* a late registration may be invoked twice

VARIABLES
    requested,  \* a stop was requested
    over,       \* the request was processed
    phase       \* phase[c]: "none", "registered", "invoked", or "again": it was
                \* invoked and is going to be once more

vars == <<requested, over, phase>>

Phase == {"none", "registered", "invoked", "again"}

Init ==
    /\ requested = FALSE
    /\ over = FALSE
    /\ phase = [c \in Callbacks |-> "none"]

Request ==
    /\ requested' = TRUE
    /\ UNCHANGED <<over, phase>>

Register(c) ==
    /\ ~over
    /\ phase[c] = "none"
    /\ phase' = [phase EXCEPT ![c] = "registered"]
    /\ UNCHANGED <<requested, over>>

\* The last call.  A callback registered too late is invoked without ever being
\* registered.
Invoke(c) ==
    /\ requested
    /\ phase[c] # "invoked"
    /\ phase' = [phase EXCEPT ![c] = "invoked"]
    /\ UNCHANGED <<requested, over>>

\* The first call of two.
InvokeEarly(c) ==
    /\ Twice
    /\ requested /\ ~over
    /\ phase[c] = "none"
    /\ phase' = [phase EXCEPT ![c] = "again"]
    /\ UNCHANGED <<requested, over>>

Drop(c) ==
    /\ phase' = [phase EXCEPT ![c] = "none"]
    /\ UNCHANGED <<requested, over>>

Complete ==
    /\ requested
    /\ \A c \in Callbacks : phase[c] \notin {"registered", "again"}
    /\ over' = TRUE
    /\ UNCHANGED <<requested, phase>>

Next ==
    \/ Request
    \/ Complete
    \/ \E c \in Callbacks : Register(c) \/ Invoke(c) \/ InvokeEarly(c) \/ Drop(c)

Spec == Init /\ [][Next]_vars

=============================================================================
