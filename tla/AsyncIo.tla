------------------------------- MODULE AsyncIo -------------------------------
(***************************************************************************)
(* The operation state shared by all I/O operations (file/async_io.hpp):   *)
(* it counts the results it still has to get from the context, that of the *)
(* operation and that of its cancellation, and completes the receiver with *)
(* the last one.  The stop callback and the two do_result() functions are  *)
(* functions of the operation state here; a context calls them from its    *)
(* own steps (PollContext, RingContext).                                   *)
(*                                                                         *)
(* An operation state lives from start() until the receiver destroys it,   *)
(* which it may do as soon as it is completed (net/scope.hpp deletes its   *)
(* job there); the same memory may then hold the state of the next         *)
(* operation.                                                              *)
(***************************************************************************)
EXTENDS Naturals, Sequences, FiniteSets

CONSTANTS
    Ops,        \* the places operation states live in, their address is their identity
    Waits       \* operations without cancellation: schedule() and async_wait()

VARIABLES
    st,         \* st[o]: the members of the operation state in o
    stopped,    \* the operations whose stop token is requested
    wait,       \* wait[w]: "idle" or "queued"
    run,        \* "idle", "running", how run() returned: "drained", "failed",
                \* or how it never will: "spinning", or "undefined" behaviour
    again       \* run() was called after it had returned

ioVars == <<st, stopped, wait, run, again>>

\* What a context holds for an operation, its cancellation, schedule(), async_wait().
IoOf(o)     == [kind |-> "io", of |-> o]
CancelOf(o) == [kind |-> "cancel", of |-> o]
NopOf(w)    == [kind |-> "nop", of |-> w]
TimerOf(w)  == [kind |-> "timer", of |-> w]

\* A result is a value, an errno, or -ECANCELED; all but the first are negative.
Results == {"value", "errno"}

Fresh == [engaged |-> FALSE, outstanding |-> 0, cancelled |-> FALSE,
          result |-> "none", outcome |-> <<>>]

IoInit ==
    /\ st = [o \in Ops |-> Fresh]
    /\ stopped = {}
    /\ wait = [w \in Waits |-> "idle"]
    /\ run = "idle"
    /\ again = FALSE

Completed(o) == st[o].outcome # <<>>
Pending(o) == st[o].engaged /\ ~Completed(o)

\* The upstream sender completed: set_value of the receiver counts the
\* operation and engages the stop callback.
Engaged(s) == [s EXCEPT !.engaged = TRUE, !.outstanding = 1]

\* cancel::operator(): the stop callback counts the cancellation.  It is given
\* to the context if the operation is outstanding, see Cancels.
Counted(s) == [s EXCEPT !.outstanding = @ + 1]

\* Fault: the cancellation of a completed operation is submitted as well.
CancelsAlways(s) == TRUE

\* Fault: the cancellation itself is not expected in the count.
CancelsOffByOne(s) == s.outstanding = 1

Cancels(s) == s.outstanding = 2

\* The receiver is completed.
Complete(s, how) == [s EXCEPT !.outcome = Append(@, how)]

\* Fault: a cancelled operation is completed as stopped whatever it did.
ResultStops(s, r) ==
    LET t == [s EXCEPT !.result = r, !.outstanding = @ - 1]
    IN  IF t.outstanding # 0 THEN t
        ELSE Complete(t, IF t.cancelled THEN "stopped"
                         ELSE IF r = "value" THEN "value" ELSE "error")

\* state_base::do_result
Result(s, r) ==
    LET t == [s EXCEPT !.result = r, !.outstanding = @ - 1]
    IN  IF t.outstanding # 0 THEN t
        ELSE Complete(t, IF r = "value" THEN "value"
                         ELSE IF t.cancelled THEN "stopped" ELSE "error")

\* cancel::do_result, which ignores the result of the cancellation itself
CancelResult(s) ==
    LET t == [s EXCEPT !.cancelled = TRUE, !.outstanding = @ - 1]
    IN  IF t.outstanding # 0 THEN t
        ELSE Complete(t, IF t.result = "value" THEN "value" ELSE "stopped")

\* The completed receiver destroys the operation state.
Destroy(o) ==
    /\ Completed(o)
    /\ st' = [st EXCEPT ![o] = Fresh]
    /\ UNCHANGED <<stopped, wait, run, again>>

\* run() is called, again or for the first time.
RunBegin ==
    /\ run \in {"idle", "drained", "failed"}
    /\ run' = "running"
    /\ again' = (run # "idle")
    /\ UNCHANGED <<st, stopped, wait>>

=============================================================================
