----------------------------- MODULE Operation -----------------------------
(***************************************************************************)
(* What an operation state promises to its receiver, whatever queue, ring  *)
(* or system call stands behind it.  start() is called once, and after it  *)
(* one of the completion functions is called once, inside start() or       *)
(* later; set_stopped is for a receiver whose stop token was asked to      *)
(* stop.  The memory may hold the next operation when this one completed.  *)
(***************************************************************************)

CONSTANT Ops    \* the places operation states live in

VARIABLES
    phase,      \* phase[o]: "idle", "started", or how the receiver was completed
    asked       \* the operations whose receiver has its stop token requested

vars == <<phase, asked>>

Outcome == {"value", "error", "stopped"}

Init ==
    /\ phase = [o \in Ops |-> "idle"]
    /\ asked \in SUBSET Ops

Start(o) ==
    /\ phase[o] = "idle"
    /\ phase' = [phase EXCEPT ![o] = "started"]
    /\ UNCHANGED asked

\* A completion function is called, inside start() or later.
Complete(o, how) ==
    /\ phase[o] \in {"idle", "started"}
    /\ how = "stopped" => o \in asked
    /\ phase' = [phase EXCEPT ![o] = how]
    /\ UNCHANGED asked

Ask(o) ==
    /\ asked' = asked \cup {o}
    /\ UNCHANGED phase

\* The completed operation makes room for another one.
Renew(o) ==
    /\ phase[o] \in Outcome
    /\ phase' = [phase EXCEPT ![o] = "idle"]
    /\ UNCHANGED asked

Next ==
    \E o \in Ops :
        \/ Start(o) \/ Ask(o) \/ Renew(o)
        \/ \E how \in Outcome : Complete(o, how)

Spec == Init /\ [][Next]_vars

=============================================================================
