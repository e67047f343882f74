------------------------------ MODULE IoContext ------------------------------
(***************************************************************************)
(* net/io_context.cpp: an I/O context is a ring_context or a poll_context, *)
(* as the build has it.  The operations of async_io run on either.         *)
(***************************************************************************)
EXTENDS PollContext, RingContext

VARIABLE
    d_context   \* "poll" or "ring"

vars == <<d_context, ioVars, pollVars, ringVars>>

Init ==
    /\ d_context \in {"poll", "ring"}
    /\ IoInit /\ PollInit /\ RingInit

OnPoll(A) == d_context = "poll" /\ A /\ UNCHANGED <<d_context, ringVars>>
OnRing(A) == d_context = "ring" /\ run # "undefined" /\ A /\ UNCHANGED <<d_context, pollVars>>

Next ==
    \/ OnPoll(PollUser) \/ OnPoll(PollRun) \/ OnPoll(PollFails)
    \/ OnRing(RingUser) \/ OnRing(RingRun) \/ OnRing(RingInterrupted)
    \/ \E a \in Threads : OnRing(Submit(a)) \/ OnRing(EnterFails(a))
    \/ \E o \in Ops : OnRing(Callback(o))
    \/ OnRing(Kernel)

Spec == Init /\ [][Next]_vars

\* run() keeps running, and a thread inside submit() or stop() goes on.  Nothing makes
\* the peer of an operation do its part.
FairSpec ==
    /\ Spec
    /\ WF_vars(OnPoll(PollRun))
    /\ WF_vars(OnRing(RingRun))
    /\ \A a \in Threads : WF_vars(OnRing(Submit(a)))
    /\ \A o \in Ops : WF_vars(OnRing(Callback(o)))

-----------------------------------------------------------------------------
(* Properties                                                              *)

CqEntries == {[kind |-> cq[i].kind, of |-> cq[i].of] : i \in 1..Len(cq)}

\* What the context holds pointers to.
Held == ToSet(ops) \cup ToSet(timers) \cup Unsubmitted \cup kernel \cup CqEntries

TypeOK ==
    /\ st \in [Ops -> [engaged : BOOLEAN, outstanding : 0..2, cancelled : BOOLEAN,
                       result : Results \cup {"none", "ECANCELED"},
                       outcome : Seq({"value", "error", "stopped"})]]
    /\ stopped \subseteq Ops
    /\ wait \in [Waits -> {"idle", "queued"}]
    /\ run \in {"idle", "running", "drained", "failed", "spinning", "undefined"}
    /\ callback \in [Ops -> {"none", "called", "dangling"}]
    /\ missed \subseteq Ops
    /\ d_count \in Nat
    /\ holder \in Threads \cup {Nobody}

\* The receiver is completed once, and when it is, neither a context nor a
\* submission refers to the operation state any more.  Only a stop callback may:
\* one that stop() called before the operation completed by itself and that is
\* yet to be entered counts in the completed state, or in what has become of its
\* memory.  A stopped operation leaves none behind.
LastReference ==
    \A o \in Ops : Completed(o) =>
        /\ Len(st[o].outcome) = 1
        /\ {IoOf(o), CancelOf(o)} \cap Held = {}
        /\ st[o].outcome[1] = "stopped" => callback[o] = "none"

\* d_outstanding of an operation state counts what the context will still
\* report: neither the operation nor its cancellation is lost, and a wait that
\* was queued is still there.
NothingLost ==
    /\ \A o \in Ops : Pending(o) =>
         st[o].outstanding = Cardinality({IoOf(o), CancelOf(o)} \cap Held)
    /\ \A w \in Waits : wait[w] = "queued" <=> {NopOf(w), TimerOf(w)} \cap Held # {}

\* A result that arrived is not thrown away because of a stop request, a
\* stopped operation failed after a stop request, and an error is not hidden
\* unless there was one.
OutcomeHonest ==
    \A o \in Ops : Completed(o) =>
        LET how == st[o].outcome[1] IN
        /\ how = "value" <=> st[o].result = "value"
        /\ how = "stopped" => o \in stopped /\ st[o].cancelled
        /\ how = "error" => st[o].result = "errno" /\ ~st[o].cancelled

\* What the receiver of an operation sees of it.
PhaseOf == [o \in Ops |->
    IF Completed(o) THEN Head(st[o].outcome)
    ELSE IF st[o].engaged THEN "started" ELSE "idle"]

\* Over either context the operations keep the promise of an operation state:
\* whatever is outstanding, cancelled or lost in the kernel, the receiver is
\* completed once for each start(), with set_stopped() only when that was
\* asked for.
Promise == INSTANCE Operation WITH phase <- PhaseOf, asked <- stopped
KeepsPromise == Promise!Spec

\* The counter of the ring context counts the entries between the rings, and
\* every failed io_uring_enter() leaves one entry behind for good: each later
\* call submits an older one.
RingAccounts ==
    /\ d_count = Used(sq) + Cardinality(kernel) + Len(cq)
    /\ Used(sq) = failures + (IF holder = Nobody THEN 0 ELSE 1)
    /\ Used(sq) = Cardinality(SqEntries)

\* run() returns with nothing left to do: no wait is queued and every operation
\* is completed, but for one whose stop callback, on another thread, is about
\* to submit the cancellation.  That one is completed by the next run() only.
ReturnsDrained ==
    [][run = "running" /\ run' = "drained" =>
        /\ \A w \in Waits : wait[w] = "idle"
        /\ \A o \in Ops : Pending(o) => todo[o] = <<CancelOf(o)>>]_vars

\* handle_io() reads d_poll through a valid iterator unless run() is called
\* again after poll() returned false.
UndefinedOnlyWhenRunAgain == d_context = "poll" /\ run = "undefined" => again

\* The cancellation of o is to be counted, submitted or handled.
CancelOnTheWay(o) ==
    callback[o] = "called" \/ CancelOf(o) \in ToSet(ops) \cup Unsubmitted

\* A stop request that reaches the callback, because stop() does not spin, is
\* lost in one way only: on the ring the cancellation is given to the kernel
\* before the operation itself.  That happens when start() finds
\* the stop requested, when the callback runs between its registration and the
\* submission, and when a failed io_uring_enter() left the operation behind.  In
\* every other case the cancellation of a pending operation is on the way, or
\* the operation has its result.
LostOnlyWhenEarly ==
    \A o \in Ops : o \in stopped /\ Pending(o) =>
        \/ CancelOnTheWay(o)
        \/ d_context = "ring" /\ (o \in missed \/ IoOf(o) \notin Unsubmitted \cup kernel)

\* The operation is with the context, and its cancellation on the way.
Stopping(o) == IoOf(o) \in Held \ Unsubmitted /\ CancelOnTheWay(o)

\* Something else is to be handled or submitted first, perhaps.
Overtaken(o) ==
    \E e \in ToSet(timers) \cup {f \in ToSet(ops) : f.kind \in Scheduled} \cup Unsubmitted :
        e.of # o

\* A stop request that finds the operation submitted completes it, as long as
\* run() goes on and io_uring_enter() works, unless user code overtakes it for
\* ever: poll_context takes timers first and then what was scheduled last.
StopIsHeard ==
    \A o \in Ops : <>[]~Overtaken(o) =>
        ((Stopping(o) /\ run = "running")
            ~> (Completed(o) \/ run # "running" \/ failures > 0))

=============================================================================
