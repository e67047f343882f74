-------------------------- MODULE Execution_proofs --------------------------
(***************************************************************************)
(* Proofs about two small operations of nstd::execution: SyncWait, for     *)
(* every set of concurrent calls, and Timeout.                             *)
(***************************************************************************)
EXTENDS SyncWait, Timeout, TLAPS

\* Before the call nothing has happened, and what the call returned is known
\* when its frame is gone.
CallerState(w) ==
    /\ pc[w] = "idle" <=> frame[w] = "none"
    /\ pc[w] = "returned" <=> frame[w] = "gone"
    /\ pc[w] = "returned" <=> outcome[w] # "pending"
    /\ pc[w] = "idle" => up[w] = "idle" /\ kind[w] = "pending"
    /\ pc[w] = "returned" => done[w]

\* The sender completes once, and done is set behind the completion.
ReceiverState(w) ==
    /\ up[w] = "running" => kind[w] = "pending"
    /\ up[w] \in {"complete", "notify"} => kind[w] # "pending"
    /\ up[w] = "idle" /\ pc[w] # "idle" => kind[w] # "pending"
    /\ done[w] <=> kind[w] # "pending" /\ up[w] \in {"notify", "idle"}

\* What res and ex say once the sender completed, and what was returned.
Stored(w) ==
    /\ kind[w] = "pending" => res[w] = "nullopt" /\ ~ex[w]
    /\ kind[w] # "pending" =>
         (IF ex[w] THEN "throws" ELSE res[w]) = Meaning[kind[w]]
    /\ outcome[w] # "pending" => outcome[w] = Meaning[kind[w]]

\* A sender that completes inside start() is through when start() returns.
InlineFirst(w) ==
    inline[w] /\ pc[w] \in {"check", "waiting", "returned"} => up[w] = "idle"

\* A thread that waits although done is set is about to be notified: the
\* notification is not lost between the check of done and the wait.
NoLostWakeup == \A w \in Calls : pc[w] = "waiting" /\ done[w] => up[w] = "notify"

CallState(w) == CallerState(w) /\ ReceiverState(w) /\ Stored(w) /\ InlineFirst(w)

IInv == TypeOK /\ (\A w \in Calls : CallState(w)) /\ NoLostWakeup

-----------------------------------------------------------------------------

\* What the return value of each completion function is.
LEMMA Meanings ==
    /\ Meaning["value"] = "tuple"
    /\ Meaning["void"] = "nullopt"
    /\ Meaning["error"] = "throws"
    /\ Meaning["stopped"] = "nullopt"
BY DEF Meaning

\* Initially no call has begun.
LEMMA InitIInv == Init => IInv
<1> SUFFICES ASSUME Init PROVE IInv
  OBVIOUS
<1>1. TypeOK
  BY DEF Init, TypeOK, Outcome
<1>2. ASSUME NEW w \in Calls PROVE CallState(w)
  BY DEF Init, CallState, CallerState, ReceiverState, Stored, InlineFirst
<1>3. NoLostWakeup
  BY DEF Init, NoLostWakeup
<1> QED BY <1>1, <1>2, <1>3 DEF IInv

\* A step of the call w keeps the types.
LEMMA TypeStep == TypeOK /\ [Next]_vars => TypeOK'
<1> SUFFICES ASSUME TypeOK, [Next]_vars PROVE TypeOK'
  OBVIOUS
<1> USE DEF TypeOK, Outcome
<1>1. ASSUME NEW w \in Calls, Start(w) PROVE TypeOK'
  BY <1>1 DEF Start
<1>2. ASSUME NEW w \in Calls, StartReturns(w) PROVE TypeOK'
  BY <1>2 DEF StartReturns
<1>3. ASSUME NEW w \in Calls, Wait(w) PROVE TypeOK'
  BY <1>3 DEF Wait
<1>4. ASSUME NEW w \in Calls, SpuriousWakeup(w) PROVE TypeOK'
  BY <1>4 DEF SpuriousWakeup
<1>5. ASSUME NEW w \in Calls, Return(w) PROVE TypeOK'
  BY <1>5 DEF Return
<1>6. ASSUME NEW w \in Calls, SetValue(w) PROVE TypeOK'
  BY <1>6 DEF SetValue, Called
<1>7. ASSUME NEW w \in Calls, SetValueVoid(w) PROVE TypeOK'
  BY <1>7 DEF SetValueVoid, Called
<1>8. ASSUME NEW w \in Calls, SetError(w) PROVE TypeOK'
  BY <1>8 DEF SetError, Called
<1>9. ASSUME NEW w \in Calls, SetStopped(w) PROVE TypeOK'
  BY <1>9 DEF SetStopped, Called
<1>10. ASSUME NEW w \in Calls, CompleteLocked(w) PROVE TypeOK'
  BY <1>10 DEF CompleteLocked
<1>11. ASSUME NEW w \in Calls, CompleteNotify(w) PROVE TypeOK'
  BY <1>11 DEF CompleteNotify
<1>12. CASE UNCHANGED vars
  BY <1>12 DEF vars
<1> QED
  BY <1>1, <1>2, <1>3, <1>4, <1>5, <1>6, <1>7, <1>8, <1>9, <1>10, <1>11, <1>12
     DEF Next, Caller, Completes, Complete

\* Each step keeps what is known of every call: of its own, and the others it
\* leaves alone.
LEMMA CallStep ==
    IInv /\ [Next]_vars => \A v \in Calls : CallState(v)'
<1> SUFFICES ASSUME IInv, [Next]_vars, NEW v \in Calls PROVE CallState(v)'
  OBVIOUS
<1> USE Meanings DEF IInv, TypeOK, CallState, CallerState, ReceiverState, Stored,
      InlineFirst
<1>1. ASSUME NEW w \in Calls, Start(w) PROVE CallState(v)'
  BY <1>1 DEF Start
<1>2. ASSUME NEW w \in Calls, StartReturns(w) PROVE CallState(v)'
  BY <1>2 DEF StartReturns
<1>3. ASSUME NEW w \in Calls, Wait(w) PROVE CallState(v)'
  BY <1>3 DEF Wait
<1>4. ASSUME NEW w \in Calls, SpuriousWakeup(w) PROVE CallState(v)'
  BY <1>4 DEF SpuriousWakeup
<1>5. ASSUME NEW w \in Calls, Return(w) PROVE CallState(v)'
  BY <1>5 DEF Return, Outcome
<1>6. ASSUME NEW w \in Calls, SetValue(w) PROVE CallState(v)'
  BY <1>6 DEF SetValue, Called
<1>7. ASSUME NEW w \in Calls, SetValueVoid(w) PROVE CallState(v)'
  BY <1>7 DEF SetValueVoid, Called
<1>8. ASSUME NEW w \in Calls, SetError(w) PROVE CallState(v)'
  BY <1>8 DEF SetError, Called
<1>9. ASSUME NEW w \in Calls, SetStopped(w) PROVE CallState(v)'
  BY <1>9 DEF SetStopped, Called
<1>10. ASSUME NEW w \in Calls, CompleteLocked(w) PROVE CallState(v)'
  BY <1>10 DEF CompleteLocked
<1>11. ASSUME NEW w \in Calls, CompleteNotify(w) PROVE CallState(v)'
  BY <1>11 DEF CompleteNotify
<1>12. CASE UNCHANGED vars
  BY <1>12 DEF vars
<1> QED
  BY <1>1, <1>2, <1>3, <1>4, <1>5, <1>6, <1>7, <1>8, <1>9, <1>10, <1>11, <1>12
     DEF Next, Caller, Completes, Complete

\* A thread goes to wait only when done is not set, and the step behind the
\* one that sets done wakes it.
LEMMA WakeupStep == IInv /\ [Next]_vars => NoLostWakeup'
<1> SUFFICES ASSUME IInv, [Next]_vars, NEW v \in Calls,
                    (pc[v] = "waiting")', done[v]'
             PROVE  (up[v] = "notify")'
  BY DEF NoLostWakeup
<1> USE DEF IInv, TypeOK, NoLostWakeup
<1>1. CASE pc[v] # "waiting"
  BY <1>1 DEF Next, Caller, Completes, Complete, vars, Called, Start, StartReturns,
     Wait, SpuriousWakeup, Return, SetValue, SetValueVoid, SetError, SetStopped,
     CompleteLocked, CompleteNotify
<1>2. CASE pc[v] = "waiting" /\ ~done[v]
  BY <1>2 DEF Next, Caller, Completes, Complete, vars, Called, Start, StartReturns,
     Wait, SpuriousWakeup, Return, SetValue, SetValueVoid, SetError, SetStopped,
     CompleteLocked, CompleteNotify
<1>3. CASE pc[v] = "waiting" /\ done[v]
  BY <1>3 DEF Next, Caller, Completes, Complete, vars, Called, Start, StartReturns,
     Wait, SpuriousWakeup, Return, SetValue, SetValueVoid, SetError, SetStopped,
     CompleteLocked, CompleteNotify
<1> QED BY <1>1, <1>2, <1>3

\* The invariant is inductive.
THEOREM Invariant == Spec => []IInv
<1>1. IInv /\ [Next]_vars => IInv'
  BY TypeStep, CallStep, WakeupStep DEF IInv
<1> QED BY InitIInv, <1>1, PTL DEF Spec

\* The variables of every frame have their types.
THEOREM TypeCorrect == Spec => []TypeOK
<1>1. IInv => TypeOK
  BY DEF IInv
<1> QED BY Invariant, <1>1, PTL

\* sync_wait returns what the sender completed with, in whatever order its
\* threads run, for any number of concurrent calls.
THEOREM Returns == Spec => []ReturnsCompletion
<1>1. IInv => ReturnsCompletion
  BY DEF IInv, CallState, CallerState, ReceiverState, Stored, ReturnsCompletion
<1> QED BY Invariant, <1>1, PTL

\* The receiver does not write into a frame that is gone.
THEOREM FrameLives == Spec => []FrameOutlivesWrites
<1>1. IInv => FrameOutlivesWrites
  BY DEF IInv, TypeOK, CallState, CallerState, ReceiverState, InlineFirst,
     FrameOutlivesWrites
<1> QED BY Invariant, <1>1, PTL

\* The safety part of SyncWaitReturns: no thread waits for a notification that
\* was already given.
THEOREM WakeupIsComing == Spec => []NoLostWakeup
<1>1. IInv => NoLostWakeup
  BY DEF IInv
<1> QED BY Invariant, <1>1, PTL

-----------------------------------------------------------------------------
(* Timeout                                                                 *)

\* The steps of the two threads.
MainSteps == {"start", "timer", "stop", "stop_list", "stop_call", "stop_end", "stopped",
              "count", "complete", "done", "spins"}
WorkerSteps == {"idle", "remove", "removing", "stopped", "count", "complete", "done", "spins"}

TimeoutTypes ==
    /\ d_done \in Nat /\ completions \in Nat /\ d_source \in BOOLEAN /\ destroyed \in BOOLEAN
    /\ callback \in {"none", "registered", "called"}
    /\ sender \in {"idle", "active", "value", "error", "stopped"}
    /\ at \in [{"main", "worker"} -> MainSteps \cup WorkerSteps]
    /\ at["main"] \in MainSteps /\ at["worker"] \in WorkerSteps
    /\ caller \in {"none", "timer", "done", "stop_end"}

\* caller says how far start() is: the timer is counted once it is past "timer".
CallerOk ==
    /\ at["main"] = "start" => caller = "none" /\ sender = "idle"
    /\ at["main"] = "timer" => caller \in {"none", "timer"}
    /\ at["main"] \in {"stopped", "count"} => caller \in {"timer", "stop_end"}
    /\ at["main"] \in {"stop", "stop_list", "stop_call", "spins"} => caller = "done"
    /\ at["main"] \in {"stop_end", "complete", "done"} => caller \in {"done", "stop_end"}

\* One thread completes the sender: the worker, or start() and the stop it makes.
SenderOk ==
    /\ sender \in {"idle", "active"} => at["worker"] \in {"idle", "spins"}
    /\ at["main"] \in {"stopped", "count"} =>
         sender = "stopped" /\ at["worker"] \in {"idle", "spins"}
    /\ at["worker"] \in {"stopped", "count"} => sender = "stopped"

\* The set_stopped() of a stopped sender has not got to d_done yet.
Coming ==
    \/ at["main"] \in {"stopped", "count"}
    \/ at["worker"] \in {"stopped", "count", "remove", "removing"}

\* d_done counts the timer and the sender that is stopped, and whoever makes it
\* two completes the receiver.
CountOk ==
    /\ d_done = IF caller \in {"done", "stop_end"}
                THEN IF sender = "stopped" /\ ~Coming THEN 2 ELSE 1
                ELSE IF sender = "stopped" /\ ~Coming THEN 1 ELSE 0
    /\ d_done # 2 => completions = 0 /\ at["main"] # "complete" /\ at["worker"] # "complete"
    /\ ~(at["main"] = "complete" /\ at["worker"] = "complete")
    /\ at["main"] = "complete" \/ at["worker"] = "complete" => completions = 0
    /\ completions \in 0..1
    /\ destroyed => completions = 1

TimeoutInv ==
    TimeoutTypes /\ CallerOk /\ SenderOk /\ CountOk /\ late \subseteq {"timer_stop"}
-----------------------------------------------------------------------------

\* Initially nothing is counted.
LEMMA TimeoutStart == TimeoutInit => TimeoutInv
<1> SUFFICES ASSUME TimeoutInit PROVE TimeoutInv
  OBVIOUS
<1>1. at["main"] = "start" /\ at["worker"] = "idle"
  BY DEF TimeoutInit, Main, Worker
<1>2. at \in [{"main", "worker"} -> MainSteps \cup WorkerSteps]
  BY DEF TimeoutInit, Main, Worker, MainSteps, WorkerSteps
<1>3. TimeoutTypes
  BY <1>1, <1>2 DEF TimeoutInit, TimeoutTypes, MainSteps, WorkerSteps
<1>4. CallerOk /\ SenderOk
  BY <1>1 DEF TimeoutInit, CallerOk, SenderOk
<1>5. CountOk
  BY <1>1 DEF TimeoutInit, CountOk, Coming
<1> QED BY <1>3, <1>4, <1>5 DEF TimeoutInit, TimeoutInv

\* Every step keeps the invariant.
LEMMA TimeoutStep == TimeoutInv /\ [TimeoutNext]_timeoutVars => TimeoutInv'
<1> SUFFICES ASSUME TimeoutInv, [TimeoutNext]_timeoutVars PROVE TimeoutInv'
  OBVIOUS
<1> USE DEF TimeoutInv, TimeoutTypes, MainSteps, WorkerSteps, CallerOk, SenderOk, Coming, CountOk,
      Main, Worker, Goto, Accesses, Endings
<1>1. CASE SenderEndsInline
  BY <1>1 DEF SenderEndsInline
<1>2. CASE SenderStarts
  BY <1>2 DEF SenderStarts
<1>3. CASE TimerDone
  BY <1>3 DEF TimerDone
<1>4. CASE StopRequest
  BY <1>4 DEF StopRequest
<1>5. CASE StopTakes
  BY <1>5 DEF StopTakes
<1>6. CASE StopCalls
  BY <1>6 DEF StopCalls
<1>7. CASE StopFindsNone
  BY <1>7 DEF StopFindsNone
<1>8. CASE StopEnd
  BY <1>8 DEF StopEnd
<1>9. CASE WorkerEnds
  BY <1>9 DEF WorkerEnds
<1>10. CASE WorkerListens
  BY <1>10 DEF WorkerListens
<1>11. CASE WorkerRemoves
  BY <1>11 DEF WorkerRemoves, AfterRemove
<1>12. CASE WorkerRemoved
  BY <1>12 DEF WorkerRemoved, AfterRemove
<1>13. ASSUME NEW t \in {"main", "worker"}, SenderSetStopped(t) PROVE TimeoutInv'
  BY <1>13 DEF SenderSetStopped, Continuation
<1>14. ASSUME NEW t \in {"main", "worker"}, Count(t) PROVE TimeoutInv'
  BY <1>14 DEF Count, Continuation
<1>15. ASSUME NEW t \in {"main", "worker"}, ReceiverSetStopped(t) PROVE TimeoutInv'
  BY <1>15 DEF ReceiverSetStopped, Continuation
<1>16. CASE Destroy
  BY <1>16 DEF Destroy
<1>17. CASE UNCHANGED timeoutVars
  BY <1>17 DEF timeoutVars
<1> QED BY <1>1, <1>2, <1>3, <1>4, <1>5, <1>6, <1>7, <1>8, <1>9, <1>10, <1>11, <1>12, <1>13, <1>14, <1>15, <1>16, <1>17
        DEF TimeoutNext, MainStep, WorkerStep

\* The counting of the timer and of the stopped sender is kept.
THEOREM TimeoutCounts == TimeoutSpec => []TimeoutInv
BY TimeoutStart, TimeoutStep, PTL DEF TimeoutSpec

\* The receiver of a timeout is completed once at most, by the second of the
\* timer and a sender that is stopped.
THEOREM SecondCompletes == TimeoutSpec => []CompletedByTheSecond
<1>1. TimeoutInv => CompletedByTheSecond
  BY DEF TimeoutInv, TimeoutTypes, CountOk, CompletedByTheSecond
<1> QED BY <1>1, TimeoutCounts, PTL

\* Nothing but the stop() of timer_done() uses a state that is gone.
THEOREM StateLives == TimeoutSpec => []OnlyTimerStopIsLate
<1>1. TimeoutInv => OnlyTimerStopIsLate
  BY DEF TimeoutInv, OnlyTimerStopIsLate
<1> QED BY <1>1, TimeoutCounts, PTL

\* While the sender is active nobody but timer_done() stops the source, and
\* when that is over the list is closed.
Listening ==
    /\ at["main"] = "start" => ~d_source
    /\ sender = "active" =>
         /\ at["main"] \in {"timer", "stop", "stop_list", "stop_call", "stop_end", "done"}
         /\ at["main"] = "timer" => caller = "none"
         /\ d_source <=> at["main"] \notin {"timer", "stop"}
         /\ callback = "registered" =>
              at["main"] \in {"timer", "stop", "stop_list", "stop_call"}

\* Every step keeps that.
LEMMA ListeningStep == TimeoutInv /\ Listening /\ [TimeoutNext]_timeoutVars => Listening'
<1> SUFFICES ASSUME TimeoutInv, Listening, [TimeoutNext]_timeoutVars PROVE Listening'
  OBVIOUS
<1> USE DEF Listening, TimeoutInv, TimeoutTypes, MainSteps, WorkerSteps, CallerOk, SenderOk, Coming,
      CountOk, Main, Worker, Goto, Endings
<1>1. CASE SenderEndsInline
  BY <1>1 DEF SenderEndsInline
<1>2. CASE SenderStarts
  BY <1>2 DEF SenderStarts
<1>3. CASE TimerDone
  BY <1>3 DEF TimerDone
<1>4. CASE StopRequest
  BY <1>4 DEF StopRequest
<1>5. CASE StopTakes
  BY <1>5 DEF StopTakes
<1>6. CASE StopCalls
  BY <1>6 DEF StopCalls
<1>7. CASE StopFindsNone
  BY <1>7 DEF StopFindsNone
<1>8. CASE StopEnd
  BY <1>8 DEF StopEnd
<1>9. CASE WorkerEnds
  BY <1>9 DEF WorkerEnds
<1>10. CASE WorkerListens
  BY <1>10 DEF WorkerListens, MarkerHeld
<1>11. CASE WorkerRemoves
  BY <1>11 DEF WorkerRemoves, AfterRemove
<1>12. CASE WorkerRemoved
  BY <1>12 DEF WorkerRemoved, AfterRemove
<1>13. ASSUME NEW t \in {"main", "worker"}, SenderSetStopped(t) PROVE Listening'
  BY <1>13 DEF SenderSetStopped, Continuation
<1>14. ASSUME NEW t \in {"main", "worker"}, Count(t) PROVE Listening'
  BY <1>14 DEF Count, Continuation
<1>15. ASSUME NEW t \in {"main", "worker"}, ReceiverSetStopped(t) PROVE Listening'
  BY <1>15 DEF ReceiverSetStopped, Continuation
<1>16. CASE Destroy \/ UNCHANGED timeoutVars
  BY <1>16 DEF Destroy, timeoutVars
<1> QED BY <1>1, <1>2, <1>3, <1>4, <1>5, <1>6, <1>7, <1>8, <1>9, <1>10, <1>11, <1>12, <1>13, <1>14, <1>15, <1>16
        DEF TimeoutNext, MainStep, WorkerStep

\* The safety part of TimesOut: as long as the sender is active its callback,
\* registered by start() or later, is still to be found by the stop() of
\* timer_done().
THEOREM ListenerNotMissed == TimeoutSpec => []ListenerIsStopped
<1>1. TimeoutInit => Listening
  BY DEF TimeoutInit, Listening
<1>2. Listening => ListenerIsStopped
  BY DEF Listening, ListenerIsStopped, Main
<1> QED BY <1>1, <1>2, TimeoutCounts, ListeningStep, PTL DEF TimeoutSpec

=============================================================================
