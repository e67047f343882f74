------------------------- MODULE RepeatEffectUntil -------------------------
(***************************************************************************)
(* The operation state of nstd::execution::repeat_effect_until             *)
(* (execution/repeat_effect_until.hpp).  It runs an inner operation again  *)
(* and again until the predicate holds.  next(), called when the inner     *)
(* operation completes with a value, either runs the loop that restarts    *)
(* the inner operation or, when the loop is running already, leaves a note *)
(* for it: d_running and d_ready are plain bools.                          *)
(*                                                                         *)
(* An inner operation completes inside its start() or later.  Each thread  *)
(* has a stack of frames; its first element is the innermost one.  With    *)
(* one thread the program is an event loop that delivers the later         *)
(* completions when its stack is empty; with more, completions arrive at   *)
(* any time and the accesses to the two bools interleave.                  *)
(***************************************************************************)
EXTENDS Naturals, Sequences, SequencesExt

CONSTANTS
    Threads,    \* the threads on which inner operations are started and complete
    MaxRounds   \* the predicate holds after at most so many rounds

ASSUME RoundsAssumption == MaxRounds \in Nat \ {0}

VARIABLES
    d_running, d_ready,
    round,      \* the number of inner operations constructed
    inner,      \* "none", "running", "done", "destroyed": the last inner operation
    stop,       \* the stop token of the receiver is requested
    stack,      \* stack[t]: the frames of thread t
    outcome     \* how the receiver was completed, or "pending"

vars == <<d_running, d_ready, round, inner, stop, stack, outcome>>

\* A frame is in start() of the inner operation of some round, or in next().
Starting(k) == [at |-> "starting", round |-> k]
At(label) == [at |-> label, round |-> 0]

Init ==
    /\ d_running = FALSE
    /\ d_ready = FALSE
    /\ round = 0
    /\ inner = "none"
    /\ stop = FALSE
    /\ stack = [t \in Threads |-> <<>>]
    /\ outcome = "pending"

\* The innermost frame of thread t is at the label.
Top(t, label) == stack[t] # <<>> /\ Head(stack[t]).at = label

Pop(t) == stack' = [stack EXCEPT ![t] = Tail(@)]
Goto(t, label) == stack' = [stack EXCEPT ![t] = <<At(label)>> \o Tail(@)]

-----------------------------------------------------------------------------
(* start()                                                                 *)

\* The first inner operation is constructed and started, outside the loop.
Start(t) ==
    /\ round = 0
    /\ stack[t] = <<>>
    /\ round' = 1
    /\ inner' = "running"
    /\ stack' = [stack EXCEPT ![t] = <<Starting(1)>>]
    /\ UNCHANGED <<d_running, d_ready, stop, outcome>>

\* start() of an inner operation returns.
StartReturns(t) ==
    /\ Top(t, "starting")
    /\ Pop(t)
    /\ UNCHANGED <<d_running, d_ready, round, inner, stop, outcome>>

RequestStop ==
    /\ ~stop
    /\ stop' = TRUE
    /\ UNCHANGED <<d_running, d_ready, round, inner, stack, outcome>>

-----------------------------------------------------------------------------
(* The receiver of the inner operation                                     *)

\* The inner operation completes on a thread that has nothing else to do, or
\* inside its own start().
Completes(t) ==
    /\ inner = "running"
    /\ stack[t] # <<>> => Head(stack[t]) = Starting(round)
    /\ inner' = "done"
    /\ UNCHANGED <<round, stop>>

\* set_value calls next().
SetValue(t) ==
    /\ Completes(t)
    /\ stack' = [stack EXCEPT ![t] = <<At("enter")>> \o @]
    /\ UNCHANGED <<d_running, d_ready, outcome>>

\* Fault: a failed inner operation is repeated, too.
SetErrorRepeats(t, kind) ==
    /\ Completes(t)
    /\ outcome' = kind
    /\ stack' = [stack EXCEPT ![t] = <<At("enter")>> \o @]
    /\ UNCHANGED <<d_running, d_ready>>

\* set_error and set_stopped complete the receiver.
SetErrorOrStopped(t, kind) ==
    /\ Completes(t)
    /\ outcome' = kind
    /\ UNCHANGED <<d_running, d_ready, stack>>

-----------------------------------------------------------------------------
(* next()                                                                  *)

\* Fault: a running loop is not noticed.
EnterUnchecked(t) ==
    /\ Top(t, "enter")
    /\ d_running' = TRUE /\ d_ready' = TRUE /\ Goto(t, "loop")
    /\ UNCHANGED <<round, inner, stop, outcome>>

\* if (this->d_running); otherwise the loop is entered.
Enter(t) ==
    /\ Top(t, "enter")
    /\ IF d_running
       THEN Goto(t, "note") /\ UNCHANGED <<d_running, d_ready>>
       ELSE d_running' = TRUE /\ d_ready' = TRUE /\ Goto(t, "loop")
    /\ UNCHANGED <<round, inner, stop, outcome>>

\* d_ready = true; return;
Note(t) ==
    /\ Top(t, "note")
    /\ d_ready' = TRUE
    /\ Pop(t)
    /\ UNCHANGED <<d_running, round, inner, stop, outcome>>

\* Fault: d_ready is not reset.
LoopKeepsReady(t) ==
    /\ Top(t, "loop")
    /\ Goto(t, IF d_ready THEN "body" ELSE "unlock")
    /\ UNCHANGED <<d_running, d_ready, round, inner, stop, outcome>>

\* The condition of the loop, and d_ready = false.
Loop(t) ==
    /\ Top(t, "loop")
    /\ Goto(t, IF d_ready THEN "body" ELSE "unlock")
    /\ d_ready' = FALSE
    /\ UNCHANGED <<d_running, round, inner, stop, outcome>>

\* The receiver is completed and the loop left.
BodyCompletes(t) ==
    /\ Top(t, "body")
    /\ outcome' = IF stop THEN "stopped" ELSE "value"
    /\ Goto(t, "unlock")
    /\ UNCHANGED <<d_running, d_ready, round, inner, stop>>

\* Something throws: the marker is reset on the way to the handler, which
\* completes the receiver.
Throws(t) ==
    /\ Top(t, "body")
    /\ ~stop
    /\ outcome' = "error"
    /\ d_running' = FALSE
    /\ Pop(t)
    /\ UNCHANGED <<d_ready, round, stop>>

PredicateThrows(t) == Throws(t) /\ UNCHANGED inner

\* The inner operation was destroyed before its successor failed to construct.
ConnectThrows(t) == Throws(t) /\ round < MaxRounds /\ inner' = "destroyed"

\* The predicate does not hold: the inner operation is destroyed, constructed
\* again and started.
BodyRepeats(t) ==
    /\ Top(t, "body")
    /\ ~stop
    /\ round < MaxRounds
    /\ round' = round + 1
    /\ inner' = "running"
    /\ stack' = [stack EXCEPT ![t] = <<Starting(round + 1), At("loop")>> \o Tail(@)]
    /\ UNCHANGED <<d_running, d_ready, stop, outcome>>

\* Fault: the marker is left set.
UnlockForgotten(t) ==
    /\ Top(t, "unlock")
    /\ Pop(t)
    /\ UNCHANGED <<d_running, d_ready, round, inner, stop, outcome>>

\* The end of the lock_guard.
Unlock(t) ==
    /\ Top(t, "unlock")
    /\ d_running' = FALSE
    /\ Pop(t)
    /\ UNCHANGED <<d_ready, round, inner, stop, outcome>>

-----------------------------------------------------------------------------

Body(t) == BodyCompletes(t) \/ PredicateThrows(t) \/ ConnectThrows(t) \/ BodyRepeats(t)

Steps(t) == StartReturns(t) \/ Enter(t) \/ Note(t) \/ Loop(t) \/ Body(t) \/ Unlock(t)

InnerCompletes(t) ==
    SetValue(t) \/ \E kind \in {"error", "stopped"} : SetErrorOrStopped(t, kind)

Next ==
    \/ RequestStop
    \/ \E t \in Threads : Start(t) \/ Steps(t) \/ InnerCompletes(t)

Spec == Init /\ [][Next]_vars

\* Threads keep running and every started inner operation completes.
FairSpec ==
    /\ Spec
    /\ \A t \in Threads : WF_vars(Steps(t))
    /\ WF_vars(\E t \in Threads : InnerCompletes(t))

-----------------------------------------------------------------------------
(* Properties                                                              *)

\* The values the members of the operation state take.
TypeOK ==
    /\ d_running \in BOOLEAN
    /\ d_ready \in BOOLEAN
    /\ round \in 0..MaxRounds
    /\ inner \in {"none", "running", "done", "destroyed"}
    /\ stop \in BOOLEAN
    /\ stack \in [Threads -> Seq(
         [at : {"starting", "enter", "note", "loop", "body", "unlock"},
          round : 0..MaxRounds])]
    /\ outcome \in {"pending", "value", "error", "stopped"}

\* The frames of thread t.
Frames(t) == ToSet(stack[t])

\* The loop never destroys an inner operation that has not completed, and
\* only one loop is running.
InnerDestroyedDone ==
    /\ \A t \in Threads : Top(t, "body") => inner = "done"
    /\ \A t, u \in Threads :
         At("body") \in Frames(t) /\ Frames(u) \cap {At("loop"), At("body")} # {} => t = u

\* However many rounds complete inside start(), the stack does not grow: the
\* first start(), one loop, the start() it calls and the note of the inner
\* operation.
BoundedNesting ==
    \A t \in Threads : Len(stack[t]) <= 4

\* The receiver is completed once.  Afterwards no frame starts another round:
\* what is left of the loop sees d_ready false and resets d_running.
QuietAfterCompletion ==
    outcome # "pending" =>
        /\ inner # "running"
        /\ ~d_ready
        /\ \A t \in Threads : Frames(t) \cap {At("enter"), At("note"), At("body")} = {}

\* The turn to go on is never lost: while the receiver is not completed it is
\* with the inner operation, in a next() that is about to take or to leave it,
\* in d_ready, or with the body of the loop.
TurnIsSomewhere ==
    round > 0 /\ outcome = "pending" =>
        \/ inner = "running" \/ d_ready
        \/ \E t \in Threads : Top(t, "enter") \/ Top(t, "note") \/ Top(t, "body")

\* A turn left in d_ready is read: the loop of thread t is going to look at it.
NoteIsRead(t) == d_ready => \E i \in 1..Len(stack[t]) : stack[t][i].at = "loop"

\* Without a second thread every operation that was started completes its
\* receiver: when all completions happen on one thread, none of an inner
\* operation is forgotten.
OnlyThread(t) == \A u \in Threads \ {t} : stack[u] = <<>>
RepeatsUntilDone ==
    \A t \in Threads : []OnlyThread(t) => (round > 0 ~> outcome # "pending")

=============================================================================
