------------------------------- MODULE Timeout -------------------------------
(***************************************************************************)
(* nstd::execution::timeout (execution/timeout.hpp).  start() starts the   *)
(* sender and then the timer, which is just() and completes there and then *)
(* in timer_done().  The first of timer_done() and the sender's            *)
(* set_stopped() stops d_source, the second completes the receiver.        *)
(*                                                                         *)
(* Two threads take part: Main runs start(), Worker is where the sender    *)
(* completes by itself.  A listening sender registers a callback with      *)
(* d_source, removes it before it completes, and when the callback comes   *)
(* first completes as stopped from there, as the sender of the test does.  *)
(* The list of d_source is known in detail from InPlaceStop; it holds at   *)
(* most this one callback.  Once the receiver is completed the state may   *)
(* be destroyed; accesses made after that are recorded in late.            *)
(***************************************************************************)
EXTENDS Naturals

Main == "main"
Worker == "worker"

VARIABLES
    d_done,
    d_source,       \* d_stop_requested of d_source
    callback,       \* "none", "registered" or "called"
    sender,         \* "idle", "active", or how it ends
    at,             \* at[t]: the next step of thread t
    caller,         \* where Main goes on after set_stopped()
    completions,    \* how often the receiver was completed
    destroyed,      \* the state was destroyed, after a completion
    late            \* the accesses to the state after its destruction

timeoutVars ==
    <<d_done, d_source, callback, sender, at, caller, completions, destroyed, late>>

Endings == {"value", "error", "stopped"}

TimeoutInit ==
    /\ d_done = 0
    /\ d_source = FALSE
    /\ callback = "none"
    /\ sender = "idle"
    /\ at = [t \in {Main, Worker} |-> IF t = Main THEN "start" ELSE "idle"]
    /\ caller = "none"
    /\ completions = 0
    /\ destroyed = FALSE
    /\ late = {}

Goto(t, label) == at' = [at EXCEPT ![t] = label]

Accesses(what) == late' = IF destroyed THEN late \cup {what} ELSE late

Continuation(t) == IF t = Main THEN caller ELSE "done"

-----------------------------------------------------------------------------
(* start()                                                                 *)

\* start(d_sender): the sender ends at once.  Its set_value() and
\* set_error() do nothing.
SenderEndsInline ==
    /\ at[Main] = "start"
    /\ sender' \in Endings
    /\ caller' = "timer"
    /\ Goto(Main, IF sender' = "stopped" THEN "stopped" ELSE "timer")
    /\ UNCHANGED <<d_done, d_source, callback, completions, destroyed, late>>

\* start(d_sender): the sender stays active and listens, or does not.
SenderStarts ==
    /\ at[Main] = "start"
    /\ sender' = "active"
    /\ callback' \in {"none", "registered"}
    /\ Goto(Main, "timer")
    /\ UNCHANGED <<d_done, d_source, caller, completions, destroyed, late>>

\* Fault: the timer does not stop the source.
TimerDoneForgets ==
    /\ at[Main] = "timer"
    /\ d_done' = d_done + 1
    /\ caller' = "done"
    /\ Goto(Main, IF d_done' = 1 THEN "done" ELSE "complete")
    /\ Accesses("count")
    /\ UNCHANGED <<d_source, callback, sender, completions, destroyed>>

\* start(d_timer): timer_done().  d_values and d_errors are never set, so
\* the second to arrive completes the receiver with set_stopped().
TimerDone ==
    /\ at[Main] = "timer"
    /\ d_done' = d_done + 1
    /\ caller' = "done"
    /\ Goto(Main, IF d_done' = 1 THEN "stop" ELSE "complete")
    /\ Accesses("count")
    /\ UNCHANGED <<d_source, callback, sender, completions, destroyed>>

-----------------------------------------------------------------------------
(* d_source.stop() as called by timer_done()                               *)

\* stop() has the list; the callback it calls may be running.
MarkerHeld ==
    \/ at[Main] \in {"stop_call", "stop_end"}
    \/ caller = "stop_end" /\ at[Main] \in {"stopped", "count", "complete"}

StopRequest ==
    /\ at[Main] = "stop"
    /\ d_source' = TRUE
    /\ Goto(Main, IF d_source THEN "done" ELSE "stop_list")
    /\ Accesses("timer_stop")
    /\ UNCHANGED <<d_done, callback, sender, caller, completions, destroyed>>

\* The marker is put into the place of the list.  When it is there already,
\* put by remove(), stop() spins for ever: see InPlaceStop.
StopTakes ==
    /\ at[Main] = "stop_list"
    /\ Goto(Main, IF at[Worker] = "removing" THEN "spins" ELSE "stop_call")
    /\ Accesses("timer_stop")
    /\ UNCHANGED <<d_done, d_source, callback, sender, caller, completions, destroyed>>

\* The callback is called.  It completes the sender unless the worker is
\* about to.
StopCalls ==
    /\ at[Main] = "stop_call"
    /\ callback = "registered"
    /\ callback' = "called"
    /\ IF sender = "active"
       THEN sender' = "stopped" /\ caller' = "stop_end" /\ Goto(Main, "stopped")
       ELSE Goto(Main, "stop_end") /\ UNCHANGED <<sender, caller>>
    /\ Accesses("timer_stop")
    /\ UNCHANGED <<d_done, d_source, completions, destroyed>>

StopFindsNone ==
    /\ at[Main] = "stop_call"
    /\ callback = "none"
    /\ Goto(Main, "stop_end")
    /\ Accesses("timer_stop")
    /\ UNCHANGED <<d_done, d_source, callback, sender, caller, completions, destroyed>>

\* stop() closes the list.
StopEnd ==
    /\ at[Main] = "stop_end"
    /\ Goto(Main, "done")
    /\ Accesses("timer_stop")
    /\ UNCHANGED <<d_done, d_source, callback, sender, caller, completions, destroyed>>

-----------------------------------------------------------------------------
(* The sender completes by itself, and sender_receiver::set_stopped()      *)

WorkerEnds ==
    /\ at[Worker] = "idle"
    /\ sender = "active"
    /\ sender' \in Endings
    /\ Goto(Worker, IF callback # "none" THEN "remove"
                    ELSE IF sender' = "stopped" THEN "stopped" ELSE "done")
    /\ UNCHANGED <<d_done, d_source, callback, caller, completions, destroyed, late>>

\* The sender starts to listen only now.  A registration that meets the marker
\* of stop() spins for ever.  When stop() is through with the list the callback
\* is called by the registration, and completes the sender.
WorkerListens ==
    /\ at[Worker] = "idle"
    /\ sender = "active"
    /\ callback = "none"
    /\ \/ /\ MarkerHeld
          /\ Goto(Worker, "spins")
          /\ UNCHANGED <<callback, sender>>
       \/ /\ d_source /\ at[Main] = "done"
          /\ callback' = "called" /\ sender' = "stopped"
          /\ Goto(Worker, "stopped")
       \/ /\ ~MarkerHeld /\ ~(d_source /\ at[Main] = "done")
          /\ callback' = "registered"
          /\ UNCHANGED <<sender, at>>
    /\ Accesses("register")
    /\ UNCHANGED <<d_done, d_source, caller, completions, destroyed>>

\* What follows remove(): set_value() and set_error() do nothing.
AfterRemove == IF sender = "stopped" THEN "stopped" ELSE "done"

\* remove() waits for the list and puts the marker into its place, unless the
\* callback was called.
WorkerRemoves ==
    /\ at[Worker] = "remove"
    /\ callback = "called" \/ ~MarkerHeld
    /\ Goto(Worker, IF callback = "called" THEN AfterRemove ELSE "removing")
    /\ Accesses("remove")
    /\ UNCHANGED <<d_done, d_source, callback, sender, caller, completions, destroyed>>

\* The callback is unlinked and the list put back.
WorkerRemoved ==
    /\ at[Worker] = "removing"
    /\ callback' = "none"
    /\ Goto(Worker, AfterRemove)
    /\ Accesses("remove")
    /\ UNCHANGED <<d_done, d_source, sender, caller, completions, destroyed>>

\* Fault: the source is stopped last, after the receiver was completed.
SenderSetStoppedLast(t) ==
    \/ /\ at[t] = "stopped"
       /\ d_done' = d_done + 1
       /\ completions' = IF d_done' = 2 THEN completions + 1 ELSE completions
       /\ Goto(t, "stop_last")
       /\ Accesses("count")
       /\ UNCHANGED <<d_source, callback, sender, caller, destroyed>>
    \/ /\ at[t] = "stop_last"
       /\ d_source' = TRUE
       /\ Goto(t, Continuation(t))
       /\ Accesses("sender_stop")
       /\ UNCHANGED <<d_done, callback, sender, caller, completions, destroyed>>

\* No callback is left that this stop() could call.
SenderSetStopped(t) ==
    /\ at[t] = "stopped"
    /\ d_source' = TRUE
    /\ Goto(t, "count")
    /\ Accesses("sender_stop")
    /\ UNCHANGED <<d_done, callback, sender, caller, completions, destroyed>>

\* Fault: the receiver is completed without looking at the count.
CountIgnored(t) ==
    /\ at[t] = "count"
    /\ d_done' = d_done + 1
    /\ Goto(t, "complete")
    /\ Accesses("count")
    /\ UNCHANGED <<d_source, callback, sender, caller, completions, destroyed>>

Count(t) ==
    /\ at[t] = "count"
    /\ d_done' = d_done + 1
    /\ Goto(t, IF d_done' = 2 THEN "complete" ELSE Continuation(t))
    /\ Accesses("count")
    /\ UNCHANGED <<d_source, callback, sender, caller, completions, destroyed>>

\* set_stopped() of the receiver.
ReceiverSetStopped(t) ==
    /\ at[t] = "complete"
    /\ completions' = completions + 1
    /\ Goto(t, Continuation(t))
    /\ Accesses("receiver")
    /\ UNCHANGED <<d_done, d_source, callback, sender, caller, destroyed>>

\* Whoever was told of the completion destroys the state.
Destroy ==
    /\ completions > 0
    /\ ~destroyed
    /\ destroyed' = TRUE
    /\ UNCHANGED <<d_done, d_source, callback, sender, at, caller, completions, late>>

-----------------------------------------------------------------------------

MainStep ==
    \/ SenderEndsInline \/ SenderStarts \/ TimerDone
    \/ StopRequest \/ StopTakes \/ StopCalls \/ StopFindsNone \/ StopEnd
    \/ SenderSetStopped(Main) \/ Count(Main) \/ ReceiverSetStopped(Main)

\* What the worker does once the sender has decided to complete.
WorkerStep ==
    \/ WorkerRemoves \/ WorkerRemoved
    \/ SenderSetStopped(Worker) \/ Count(Worker) \/ ReceiverSetStopped(Worker)

TimeoutNext == MainStep \/ WorkerEnds \/ WorkerListens \/ WorkerStep \/ Destroy

TimeoutSpec == TimeoutInit /\ [][TimeoutNext]_timeoutVars

\* Both threads keep running; the sender need not complete by itself.
FairTimeoutSpec == TimeoutSpec /\ WF_timeoutVars(MainStep) /\ WF_timeoutVars(WorkerStep)

-----------------------------------------------------------------------------
(* Properties                                                              *)

\* The receiver is completed once at most, when both the timer and a stopped
\* sender are through: never for a sender that ends with a value or an error.
CompletedByTheSecond ==
    /\ completions <= 1
    /\ completions = 1 => d_done = 2 /\ sender = "stopped"

\* Once the receiver is completed and the state destroyed nothing uses the
\* state any more, except the stop() of timer_done(), which may be
\* about to start or on its way out of the callback that completed it.
OnlyTimerStopIsLate == late \subseteq {"timer_stop"}

\* The stop() of timer_done() does not miss the callback of a sender that is
\* still active, whenever that was registered: it is yet to look at the list.
ListenerIsStopped ==
    callback = "registered" /\ sender = "active" =>
        at[Main] \in {"timer", "stop", "stop_list", "stop_call"}

\* A sender that listens is timed out, unless it ends with a value or an
\* error of its own, in which case the receiver is never completed.
TimesOut ==
    callback = "registered" ~> completions = 1 \/ sender \in {"value", "error"}

=============================================================================
