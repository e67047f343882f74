------------------------------ MODULE RunLoop ------------------------------
(***************************************************************************)
(* nstd::execution::run_loop (execution/run_loop.hpp, run_loop.cpp): a     *)
(* queue of operation states guarded by a mutex.  Any thread starts        *)
(* operations and calls finish(); the Runners call run(), which executes   *)
(* queued operations until the loop is finishing and the queue is empty.   *)
(*                                                                         *)
(* A critical section of d_guard is one step.  A thread blocked in         *)
(* d_cond.wait() leaves it when it is notified or spuriously; it then      *)
(* evaluates the predicate again.  push_back() notifies nobody.            *)
(*                                                                         *)
(* The client destroys the loop when no thread is in run() or finish().    *)
(***************************************************************************)
EXTENDS Naturals, Sequences, SequencesExt

CONSTANTS
    Runners,    \* the threads that call run()
    Ops,        \* the storage locations of operation states
    MaxStarts,  \* how many operations are started in each location
    MaxFinish   \* how often finish() is called

ASSUME BoundsAssumption == MaxStarts \in Nat /\ MaxFinish \in Nat

VARIABLES
    d_list,     \* the queued operation states
    d_phase,    \* "starting", "finishing"; the phase running is never set
    alive,      \* "alive", "destroyed", "terminated" by the destructor
    op,         \* op[o]: where the operation in o is in its life
    starts,     \* starts[o]: how often start() was called in o
    runs,       \* runs[o]: how often execute() was called in o
    stop,       \* stop[o]: the stop token of o's receiver is requested
    pc,         \* pc[t]: where runner t is
    cur,        \* cur[t]: the operation pop_front() returned to runner t
    finishes,   \* how often finish() was called
    notifying,  \* how many finish() are between the unlock and notify_one()
    before,     \* auxiliary: the operations queued when finish() was called
    returned    \* auxiliary: some run() returned since then

vars == <<d_list, d_phase, alive, op, starts, runs, stop, pc, cur, finishes,
          notifying, before, returned>>

None == "none"  \* cur of a runner that executes nothing

ASSUME NoneAssumption == None \notin Ops

Life == {"raw", "connected", "queued", "taken", "value", "stopped"}

Init ==
    /\ d_list = <<>>
    /\ d_phase = "starting"
    /\ alive = "alive"
    /\ op = [o \in Ops |-> "raw"]
    /\ starts = [o \in Ops |-> 0]
    /\ runs = [o \in Ops |-> 0]
    /\ stop \in [Ops -> BOOLEAN]
    /\ pc = [t \in Runners |-> "idle"]
    /\ cur = [t \in Runners |-> None]
    /\ finishes = 0
    /\ notifying = 0
    /\ before = {}
    /\ returned = FALSE

InRun(t) == pc[t] \in {"pop", "waiting", "execute"}

-----------------------------------------------------------------------------
(* Operation states                                                        *)

\* connect(schedule(loop.get_scheduler()), receiver), in fresh storage or in
\* that of a completed operation.
Connect(o) ==
    /\ alive = "alive"
    /\ op[o] \in {"raw", "value", "stopped"}
    /\ starts[o] < MaxStarts
    /\ op' = [op EXCEPT ![o] = "connected"]
    /\ before' = before \ {o}
    /\ UNCHANGED <<d_list, d_phase, alive, starts, runs, stop, pc, cur, finishes,
                   notifying, returned>>

\* start(): push_back() under the lock, in whatever phase the loop is.
Start(o) ==
    /\ alive = "alive"
    /\ op[o] = "connected"
    /\ op' = [op EXCEPT ![o] = "queued"]
    /\ starts' = [starts EXCEPT ![o] = @ + 1]
    /\ d_list' = Append(d_list, o)
    /\ UNCHANGED <<d_phase, alive, runs, stop, pc, cur, finishes, notifying,
                   before, returned>>

\* The source of the receiver's stop token is asked to stop.
RequestStop(o) ==
    /\ ~stop[o]
    /\ stop' = [stop EXCEPT ![o] = TRUE]
    /\ UNCHANGED <<d_list, d_phase, alive, op, starts, runs, pc, cur, finishes,
                   notifying, before, returned>>

-----------------------------------------------------------------------------
(* run()                                                                   *)

RunBegin(t) ==
    /\ alive = "alive"
    /\ pc[t] = "idle"
    /\ pc' = [pc EXCEPT ![t] = "pop"]
    /\ UNCHANGED <<d_list, d_phase, alive, op, starts, runs, stop, cur, finishes,
                   notifying, before, returned>>

\* Fault: the predicate looks at the queue only.
PopFrontWaitsForWork(t) ==
    /\ pc[t] = "pop"
    /\ d_list = <<>>
    /\ pc' = [pc EXCEPT ![t] = "waiting"]
    /\ UNCHANGED <<d_list, d_phase, alive, op, starts, runs, stop, cur, finishes,
                   notifying, before, returned>>

\* pop_front(): the predicate does not hold, the thread waits.
PopFrontWaits(t) ==
    /\ pc[t] = "pop"
    /\ d_list = <<>>
    /\ d_phase # "finishing"
    /\ pc' = [pc EXCEPT ![t] = "waiting"]
    /\ UNCHANGED <<d_list, d_phase, alive, op, starts, runs, stop, cur, finishes,
                   notifying, before, returned>>

\* wait() returns without a notification.
SpuriousWakeup(t) ==
    /\ pc[t] = "waiting"
    /\ pc' = [pc EXCEPT ![t] = "pop"]
    /\ UNCHANGED <<d_list, d_phase, alive, op, starts, runs, stop, cur, finishes,
                   notifying, before, returned>>

PopFront(t) ==
    /\ pc[t] = "pop"
    /\ d_list # <<>>
    /\ cur' = [cur EXCEPT ![t] = Head(d_list)]
    /\ op' = [op EXCEPT ![Head(d_list)] = "taken"]
    /\ d_list' = Tail(d_list)
    /\ pc' = [pc EXCEPT ![t] = "execute"]
    /\ UNCHANGED <<d_phase, alive, starts, runs, stop, finishes, notifying,
                   before, returned>>

\* Fault: a finishing loop returns without looking at the queue.
PopFrontEndsEarly(t) ==
    /\ pc[t] = "pop"
    /\ d_phase = "finishing"
    /\ returned' = TRUE
    /\ pc' = [pc EXCEPT ![t] = "idle"]
    /\ UNCHANGED <<d_list, d_phase, alive, op, starts, runs, stop, cur, finishes,
                   notifying, before>>

\* pop_front() returns nullptr and run() returns.
PopFrontEnds(t) ==
    /\ pc[t] = "pop"
    /\ d_list = <<>>
    /\ d_phase = "finishing"
    /\ returned' = TRUE
    /\ pc' = [pc EXCEPT ![t] = "idle"]
    /\ UNCHANGED <<d_list, d_phase, alive, op, starts, runs, stop, cur, finishes,
                   notifying, before>>

\* Fault: an operation that is not stopped is queued again after its execution.
ExecuteRequeues(t) ==
    /\ pc[t] = "execute"
    /\ runs' = [runs EXCEPT ![cur[t]] = @ + 1]
    /\ op' = [op EXCEPT ![cur[t]] = IF stop[cur[t]] THEN "stopped" ELSE "queued"]
    /\ d_list' = IF stop[cur[t]] THEN d_list ELSE Append(d_list, cur[t])
    /\ cur' = [cur EXCEPT ![t] = None]
    /\ pc' = [pc EXCEPT ![t] = "pop"]
    /\ UNCHANGED <<d_phase, alive, starts, stop, finishes, notifying, before, returned>>

\* do_execute(): the receiver is completed, as the stop token says.
Execute(t) ==
    /\ pc[t] = "execute"
    /\ runs' = [runs EXCEPT ![cur[t]] = @ + 1]
    /\ op' = [op EXCEPT ![cur[t]] = IF stop[cur[t]] THEN "stopped" ELSE "value"]
    /\ cur' = [cur EXCEPT ![t] = None]
    /\ pc' = [pc EXCEPT ![t] = "pop"]
    /\ UNCHANGED <<d_list, d_phase, alive, starts, stop, finishes, notifying,
                   before, returned>>

-----------------------------------------------------------------------------
(* finish() and the destructor                                             *)

\* The phase is set under the lock.
Finish ==
    /\ alive = "alive"
    /\ finishes < MaxFinish
    /\ finishes' = finishes + 1
    /\ d_phase' = "finishing"
    /\ notifying' = notifying + 1
    /\ before' = before \cup (IF d_phase = "finishing" THEN {} ELSE ToSet(d_list))
    /\ UNCHANGED <<d_list, alive, op, starts, runs, stop, pc, cur, returned>>

\* Fault: nobody is notified.
NotifyNobody ==
    /\ notifying > 0
    /\ notifying' = notifying - 1
    /\ UNCHANGED <<d_list, d_phase, alive, op, starts, runs, stop, pc, cur, finishes,
                   before, returned>>

\* notify_one() after the lock was released: one waiting thread wakes up.
Notify ==
    /\ notifying > 0
    /\ notifying' = notifying - 1
    /\ \/ \E t \in Runners :
            /\ pc[t] = "waiting"
            /\ pc' = [pc EXCEPT ![t] = "pop"]
       \/ /\ \A t \in Runners : pc[t] # "waiting"
          /\ UNCHANGED pc
    /\ UNCHANGED <<d_list, d_phase, alive, op, starts, runs, stop, cur, finishes,
                   before, returned>>

\* ~run_loop() terminates the program when operations are queued.
Destroy ==
    /\ alive = "alive"
    /\ notifying = 0
    /\ \A t \in Runners : pc[t] = "idle"
    /\ alive' = IF d_list = <<>> THEN "destroyed" ELSE "terminated"
    /\ UNCHANGED <<d_list, d_phase, op, starts, runs, stop, pc, cur, finishes,
                   notifying, before, returned>>

-----------------------------------------------------------------------------

\* The steps of run() itself.
Run(t) == PopFrontWaits(t) \/ PopFront(t) \/ PopFrontEnds(t) \/ Execute(t)

Next ==
    \/ \E o \in Ops : Connect(o) \/ Start(o) \/ RequestStop(o)
    \/ \E t \in Runners : RunBegin(t) \/ SpuriousWakeup(t) \/ Run(t)
    \/ Finish \/ Notify \/ Destroy

Spec == Init /\ [][Next]_vars

\* A thread in run() that is not blocked keeps running, receivers return, and
\* finish() goes on to its notification.  Spurious wakeups are not assumed.
FairSpec == Spec /\ WF_vars(Notify) /\ \A t \in Runners : WF_vars(Run(t))

-----------------------------------------------------------------------------
(* Properties                                                              *)

\* The values the members of run_loop and of its operation states take.
TypeOK ==
    /\ d_list \in Seq(Ops)
    /\ d_phase \in {"starting", "finishing"}
    /\ alive \in {"alive", "destroyed", "terminated"}
    /\ op \in [Ops -> Life]
    /\ starts \in [Ops -> 0..MaxStarts]
    /\ runs \in [Ops -> 0..MaxStarts]
    /\ stop \in [Ops -> BOOLEAN]
    /\ pc \in [Runners -> {"idle", "pop", "waiting", "execute"}]
    /\ cur \in [Runners -> Ops \cup {None}]
    /\ finishes \in 0..MaxFinish
    /\ notifying \in 0..MaxFinish
    /\ before \subseteq Ops
    /\ returned \in BOOLEAN

\* An operation that is waiting for its execution.
Pending(o) == op[o] \in {"queued", "taken"}

\* Every start() of an operation leads to at most one execution: a queued
\* operation is in the list once, a removed one belongs to one runner, and all
\* the earlier starts in the same storage were executed exactly once.
ExecutedOnce ==
    /\ \A i, j \in DOMAIN d_list : d_list[i] = d_list[j] => i = j
    /\ \A o \in Ops : op[o] = "queued" <=> \E i \in DOMAIN d_list : d_list[i] = o
    /\ \A o \in Ops : op[o] = "taken" <=> \E t \in Runners : cur[t] = o
    /\ \A t, u \in Runners : cur[t] # None /\ cur[t] = cur[u] => t = u
    /\ \A o \in Ops : runs[o] + (IF Pending(o) THEN 1 ELSE 0) = starts[o]

\* Once some run() returned no operation that was queued when finish() was
\* called is left in the queue.
DrainedOnReturn ==
    returned => \A o \in before : op[o] # "queued"

\* What the receiver of an operation sees of it.
PhaseOf == [o \in Ops |->
    CASE op[o] \in {"raw", "connected"} -> "idle"
      [] op[o] \in {"queued", "taken"} -> "started"
      [] OTHER -> op[o]]
Asked == {o \in Ops : stop[o]}

\* The operations of the scheduler keep the promise of an operation state:
\* with any number of threads in run() the receiver is completed once for
\* each start(), with set_stopped() only when that was asked for.
Promise == INSTANCE Operation WITH phase <- PhaseOf, asked <- Asked
KeepsPromise == Promise!Spec

\* With a thread in run(), an operation queued when finish() is called is
\* completed, also when it was queued while every runner slept: finish() wakes
\* a runner, which empties the queue before it returns.
FinishDrains ==
    \A o \in Ops :
        (o \in before /\ op[o] = "queued" /\ \E t \in Runners : InRun(t))
            ~> op[o] \in {"value", "stopped"}

\* finish() makes at least one of the threads in run() return.
FinishEndsRun ==
    (d_phase = "finishing" /\ \E t \in Runners : InRun(t)) ~> returned

=============================================================================
