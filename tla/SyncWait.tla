------------------------------ MODULE SyncWait ------------------------------
(***************************************************************************)
(* nstd::this_thread::sync_wait (thread/sync_wait.hpp): a thread connects  *)
(* a sender to a receiver that points into the frame of the call, starts   *)
(* it and waits for the flag done in the frame.  The sender completes the  *)
(* receiver once, on another thread or on the calling thread inside        *)
(* start().                                                                *)
(*                                                                         *)
(* A critical section of the mutex is one step.  A thread blocked on the   *)
(* condition variable leaves it when notified or spuriously and then       *)
(* checks done again.  The frame, with the mutex and the condition         *)
(* variable in it, is gone when the call has returned.                     *)
(***************************************************************************)
EXTENDS Naturals

CONSTANT Calls      \* the concurrent calls of sync_wait

VARIABLES
    done, res, ex,  \* the variables of the frame
    frame,          \* frame[w]: "none", "live", "gone"
    inline,         \* inline[w]: the sender completes inside start()
    pc,             \* pc[w]: where the calling thread is
    up,             \* up[w]: where the sender and the receiver are
    kind,           \* auxiliary, kind[w]: the completion function called
    outcome         \* outcome[w]: what the call returned or threw

vars == <<done, res, ex, frame, inline, pc, up, kind, outcome>>

Init ==
    /\ done = [w \in Calls |-> FALSE]
    /\ res = [w \in Calls |-> "nullopt"]
    /\ ex = [w \in Calls |-> FALSE]
    /\ frame = [w \in Calls |-> "none"]
    /\ inline \in [Calls -> BOOLEAN]
    /\ pc = [w \in Calls |-> "idle"]
    /\ up = [w \in Calls |-> "idle"]
    /\ kind = [w \in Calls |-> "pending"]
    /\ outcome = [w \in Calls |-> "pending"]

-----------------------------------------------------------------------------
(* The calling thread                                                      *)

\* The frame is set up, the sender is connected and started.
Start(w) ==
    /\ pc[w] = "idle"
    /\ frame' = [frame EXCEPT ![w] = "live"]
    /\ up' = [up EXCEPT ![w] = "running"]
    /\ pc' = [pc EXCEPT ![w] = "started"]
    /\ UNCHANGED <<done, res, ex, inline, kind, outcome>>

\* start() has returned.
StartReturns(w) ==
    /\ pc[w] = "started"
    /\ inline[w] => up[w] = "idle"
    /\ pc' = [pc EXCEPT ![w] = "check"]
    /\ UNCHANGED <<done, res, ex, frame, inline, up, kind, outcome>>

\* The predicate of wait() does not hold.
Wait(w) ==
    /\ pc[w] = "check"
    /\ ~done[w]
    /\ pc' = [pc EXCEPT ![w] = "waiting"]
    /\ UNCHANGED <<done, res, ex, frame, inline, up, kind, outcome>>

SpuriousWakeup(w) ==
    /\ pc[w] = "waiting"
    /\ pc' = [pc EXCEPT ![w] = "check"]
    /\ UNCHANGED <<done, res, ex, frame, inline, up, kind, outcome>>

\* Fault: a wakeup is taken for the completion.
ReturnUnchecked(w) ==
    /\ pc[w] = "check"
    /\ outcome' = [outcome EXCEPT ![w] = IF ex[w] THEN "throws" ELSE res[w]]
    /\ frame' = [frame EXCEPT ![w] = "gone"]
    /\ pc' = [pc EXCEPT ![w] = "returned"]
    /\ UNCHANGED <<done, res, ex, inline, up, kind>>

\* The exception is thrown or the result returned; the frame is left.
Return(w) ==
    /\ pc[w] = "check"
    /\ done[w]
    /\ outcome' = [outcome EXCEPT ![w] = IF ex[w] THEN "throws" ELSE res[w]]
    /\ frame' = [frame EXCEPT ![w] = "gone"]
    /\ pc' = [pc EXCEPT ![w] = "returned"]
    /\ UNCHANGED <<done, res, ex, inline, up, kind>>

-----------------------------------------------------------------------------
(* The receiver                                                            *)

Called(w, k) ==
    /\ up[w] = "running"
    /\ kind' = [kind EXCEPT ![w] = k]
    /\ up' = [up EXCEPT ![w] = "complete"]
    /\ UNCHANGED <<done, frame, inline, pc, outcome>>

\* set_value(args...) stores the tuple of the arguments.
SetValue(w) ==
    /\ Called(w, "value")
    /\ res' = [res EXCEPT ![w] = "tuple"]
    /\ UNCHANGED ex

\* set_value() assigns {} to the optional, which empties it.
SetValueVoid(w) ==
    /\ Called(w, "void")
    /\ res' = [res EXCEPT ![w] = "nullopt"]
    /\ UNCHANGED ex

\* set_error(e), with an exception_ptr or with an object put into one.
SetError(w) ==
    /\ Called(w, "error")
    /\ ex' = [ex EXCEPT ![w] = TRUE]
    /\ UNCHANGED res

SetStopped(w) ==
    /\ Called(w, "stopped")
    /\ UNCHANGED <<res, ex>>

\* Fault: done is set before the result is stored.
CompleteLockedEarly(w) ==
    /\ up[w] \in {"running", "complete"}
    /\ done' = [done EXCEPT ![w] = TRUE]
    /\ up' = [up EXCEPT ![w] = IF @ = "complete" THEN "notify" ELSE @]
    /\ UNCHANGED <<res, ex, frame, inline, pc, kind, outcome>>

\* complete(): done is set under the lock.
CompleteLocked(w) ==
    /\ up[w] = "complete"
    /\ done' = [done EXCEPT ![w] = TRUE]
    /\ up' = [up EXCEPT ![w] = "notify"]
    /\ UNCHANGED <<res, ex, frame, inline, pc, kind, outcome>>

\* Fault: nobody is notified.
CompleteNotifyNobody(w) ==
    /\ up[w] = "notify"
    /\ up' = [up EXCEPT ![w] = "idle"]
    /\ UNCHANGED <<done, res, ex, frame, inline, pc, kind, outcome>>

\* complete(): notify_one() after the unlock, on a frame that may be gone.
CompleteNotify(w) ==
    /\ up[w] = "notify"
    /\ up' = [up EXCEPT ![w] = "idle"]
    /\ pc' = [pc EXCEPT ![w] = IF @ = "waiting" THEN "check" ELSE @]
    /\ UNCHANGED <<done, res, ex, frame, inline, kind, outcome>>

-----------------------------------------------------------------------------

Caller(w) == StartReturns(w) \/ Wait(w) \/ Return(w)

Completes(w) == SetValue(w) \/ SetValueVoid(w) \/ SetError(w) \/ SetStopped(w)

Complete(w) == CompleteLocked(w) \/ CompleteNotify(w)

Next == \E w \in Calls :
    Start(w) \/ Caller(w) \/ SpuriousWakeup(w) \/ Completes(w) \/ Complete(w)

Spec == Init /\ [][Next]_vars

\* Threads keep running; whether the sender completes is up to the sender.
FairSpec == Spec /\ \A w \in Calls : WF_vars(Caller(w)) /\ WF_vars(Complete(w))

-----------------------------------------------------------------------------
(* Properties                                                              *)

Outcome == {"tuple", "nullopt", "throws"}

\* The values the variables of the frame and the state of a call take.
TypeOK ==
    /\ done \in [Calls -> BOOLEAN]
    /\ res \in [Calls -> {"tuple", "nullopt"}]
    /\ ex \in [Calls -> BOOLEAN]
    /\ frame \in [Calls -> {"none", "live", "gone"}]
    /\ inline \in [Calls -> BOOLEAN]
    /\ pc \in [Calls -> {"idle", "started", "check", "waiting", "returned"}]
    /\ up \in [Calls -> {"idle", "running", "complete", "notify"}]
    /\ kind \in [Calls -> {"pending", "value", "void", "error", "stopped"}]
    /\ outcome \in [Calls -> Outcome \cup {"pending"}]

\* What a completion makes sync_wait return: a value without arguments looks
\* like a stopped operation.
Meaning == [k \in {"value", "void", "error", "stopped"} |->
    CASE k = "value" -> "tuple"
      [] k = "error" -> "throws"
      [] k \in {"void", "stopped"} -> "nullopt"]

\* The call returns what the sender completed with, wherever it completed.
ReturnsCompletion ==
    \A w \in Calls : outcome[w] # "pending" =>
        kind[w] # "pending" /\ outcome[w] = Meaning[kind[w]]

\* When the frame is gone the receiver has written done, res and ex and will
\* not touch them again; only notify_one() can still be outstanding, and only
\* on another thread.
FrameOutlivesWrites ==
    \A w \in Calls : frame[w] = "gone" =>
        up[w] \in {"idle", "notify"} /\ (inline[w] => up[w] = "idle")

\* A completed sender makes the call return: the notification is not lost
\* between the check of done and the wait.
SyncWaitReturns ==
    \A w \in Calls : kind[w] # "pending" ~> outcome[w] # "pending"

=============================================================================
