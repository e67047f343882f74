----------------------------- MODULE RingContext -----------------------------
(***************************************************************************)
(* file/ring_context.hpp, ring_context.cpp and ring.hpp: the I/O context   *)
(* over io_uring.  One thread starts operations and runs the context; stop *)
(* callbacks run on other threads and submit cancellations under d_mutex.  *)
(* in_place_stop_source calls such a callback in two steps: it marks it as *)
(* called, which lets its destructor return at once, and then enters it.   *)
(* submit() is two steps: it fills a slot of the submission ring, counts   *)
(* the entry and moves the tail, then calls io_uring_enter(), whose result *)
(* it ignores.  The kernel is external: it takes one entry per call, looks *)
(* for the operation of a cancellation at once, and completes everything   *)
(* else later, in any order.                                               *)
(***************************************************************************)
EXTENDS AsyncIo, SequencesExt

CONSTANTS
    Size,           \* the number of slots of the submission ring
    Wrap,           \* the counters of the ring are unsigned: 2^32, a multiple of Size
    MaxFailures     \* so many calls of io_uring_enter() fail

ASSUME RingAssumption ==
    /\ Size \in Nat \ {0} /\ Wrap \in Nat /\ Wrap > Size /\ Wrap % Size = 0
    /\ MaxFailures \in Nat /\ MaxFailures < Size

VARIABLES
    sq,         \* the submission ring: head, tail and slots
    cq,         \* the completion ring, the oldest result first
    kernel,     \* the entries the kernel works on
    d_count,    \* ring_context::d_outstanding
    todo,       \* todo[a]: what the thread still has to submit
    holder,     \* who holds d_mutex, between filling the slot and unlocking
    failures,   \* the number of failed calls of io_uring_enter()
    callback,   \* callback[o]: "called", stop() is about to enter the callback of
                \* o, "dangling", the operation state was destroyed since, or "none"
    missed      \* auxiliary: the operations whose cancellation the kernel took
                \* before it was given the operation

ringVars == <<sq, cq, kernel, d_count, todo, holder, failures, callback, missed>>

\* The thread of the context, and the threads that run a stop callback.
Context == "context"
Threads == {Context} \cup Ops
Nobody == "nobody"

ASSUME ThreadsDiffer == {Context, Nobody} \cap Ops = {}

Empty == [kind |-> "none"]

RingInit ==
    /\ sq = [head |-> 0, tail |-> 0, slot |-> [i \in 0..(Size - 1) |-> Empty]]
    /\ cq = <<>>
    /\ kernel = {}
    /\ d_count = 0
    /\ todo = [a \in Threads |-> <<>>]
    /\ holder = Nobody
    /\ failures = 0
    /\ callback = [o \in Ops |-> "none"]
    /\ missed = {}

\* ring::mask(); the number of slots is a power of two.
Mask(i) == i % Size

\* Fault: the last slot is never used.
PutOffByOne(r, e) == [r EXCEPT !.slot[r.tail % (Size - 1)] = e, !.tail = (@ + 1) % Wrap]

\* A new entry, and advance_tail().
Put(r, e) == [r EXCEPT !.slot[Mask(r.tail)] = e, !.tail = (@ + 1) % Wrap]

\* The kernel takes the entry at the head; nobody looks at the slot again.
First(r) == r.slot[Mask(r.head)]
Drop(r) == [r EXCEPT !.slot[Mask(r.head)] = Empty, !.head = (@ + 1) % Wrap]

Used(r) == (r.tail + Wrap - r.head) % Wrap

\* What is to be submitted and what was but the kernel did not take.
SqEntries == {sq.slot[i] : i \in 0..(Size - 1)} \ {Empty}
Unsubmitted == (UNION {ToSet(todo[a]) : a \in Threads}) \cup SqEntries

\* The thread of the context is not inside submit() and not lost.
ContextFree == todo[Context] = <<>> /\ run # "spinning"

-----------------------------------------------------------------------------
(* submit()                                                                *)

\* Fault: the entry is not counted.
FillUncounted(a) ==
    /\ todo[a] # <<>> /\ holder = Nobody
    /\ holder' = a
    /\ sq' = Put(sq, Head(todo[a]))
    /\ UNCHANGED <<ioVars, cq, kernel, d_count, todo, failures, callback, missed>>

\* The lock, the slot, the count and the tail.
Fill(a) ==
    /\ todo[a] # <<>> /\ holder = Nobody
    /\ holder' = a
    /\ sq' = Put(sq, Head(todo[a]))
    /\ d_count' = d_count + 1
    /\ UNCHANGED <<ioVars, cq, kernel, todo, failures, callback, missed>>

\* submit() returns.
Unlock(a) ==
    /\ holder = a
    /\ holder' = Nobody
    /\ todo' = [todo EXCEPT ![a] = Tail(@)]
    /\ UNCHANGED <<ioVars, d_count, callback>>

Done(e, r) == [kind |-> e.kind, of |-> e.of, result |-> r]

\* io_uring_enter(): the kernel takes the oldest entry, which is not always
\* the one just submitted.
Enter(a) ==
    /\ Unlock(a)
    /\ sq' = Drop(sq)
    /\ UNCHANGED failures
    /\ LET e == First(sq)
       IN  IF e.kind # "cancel"
           THEN kernel' = kernel \cup {e} /\ UNCHANGED <<cq, missed>>
           ELSE IF IoOf(e.of) \notin kernel
           THEN /\ cq' = Append(cq, Done(e, "ignored"))
                /\ missed' = IF IoOf(e.of) \in Unsubmitted THEN missed \cup {e.of} ELSE missed
                /\ UNCHANGED kernel
           ELSE \* both complete, the operation unless it is just finishing with ECANCELED
                /\ kernel' = kernel \ {IoOf(e.of)}
                /\ UNCHANGED missed
                /\ \E r \in Results \cup {"ECANCELED"} :
                     LET x == Done(IoOf(e.of), r)  y == Done(e, "ignored")
                     IN  cq' \in {cq \o <<x, y>>, cq \o <<y, x>>}

\* It fails; nobody looks at that and the entry stays in the ring.
EnterFails(a) ==
    /\ failures < MaxFailures
    /\ Unlock(a)
    /\ failures' = failures + 1
    /\ UNCHANGED <<sq, cq, kernel, missed>>

-----------------------------------------------------------------------------
(* Operations                                                              *)

\* start(): with a stop requested already the callback submits the
\* cancellation before the operation itself is submitted.
RingStart(o) ==
    /\ ContextFree
    /\ ~st[o].engaged
    /\ callback[o] = "none"
    /\ LET s == Engaged(st[o])
           early == o \in stopped
       IN  /\ st' = [st EXCEPT ![o] = IF early THEN Counted(s) ELSE s]
           /\ todo' = [todo EXCEPT ![Context] =
                IF early THEN <<CancelOf(o), IoOf(o)>> ELSE <<IoOf(o)>>]
    /\ UNCHANGED <<stopped, wait, run, sq, cq, kernel, d_count, holder, failures,
                   callback, missed, again>>

\* start() while stop() has not returned: the registration of the callback
\* meets the marker and spins for ever, see InPlaceStop.  When stop() returns
\* from the last callback is not represented.
RingStartSpins(o) ==
    /\ ContextFree
    /\ ~st[o].engaged
    /\ o \in stopped
    /\ run' = "spinning"
    /\ UNCHANGED <<st, stopped, wait, ringVars, again>>

\* A stop is requested on another thread, which calls the callback.  A stop()
\* that spins calls none and is no stop request here.
RingStop(o) ==
    /\ o \notin stopped
    /\ stopped' = stopped \cup {o}
    /\ callback' = IF st[o].engaged THEN [callback EXCEPT ![o] = "called"] ELSE callback
    /\ UNCHANGED <<st, wait, run, sq, cq, kernel, d_count, todo, holder, failures,
                   missed, again>>

\* cancel::operator() is entered.
CancelCounts(o) ==
    /\ callback[o] = "called"
    /\ callback' = [callback EXCEPT ![o] = "none"]
    /\ LET s == Counted(st[o])
       IN  /\ st' = [st EXCEPT ![o] = s]
           /\ todo' = IF Cancels(s) THEN [todo EXCEPT ![o] = <<CancelOf(o)>>] ELSE todo
    /\ UNCHANGED <<stopped, wait, run, sq, cq, kernel, d_count, holder, failures,
                   missed, again>>

\* It counts in an operation state that is gone.
CancelDangles(o) ==
    /\ callback[o] = "dangling"
    /\ callback' = [callback EXCEPT ![o] = "none"]
    /\ run' = "undefined"
    /\ UNCHANGED <<st, stopped, wait, sq, cq, kernel, d_count, todo, holder, failures,
                   missed, again>>

\* The destructor of a callback does not wait for one that was called.
RingDestroy(o) ==
    /\ ContextFree
    /\ Destroy(o)
    /\ callback' = [callback EXCEPT ![o] = IF @ = "called" THEN "dangling" ELSE @]
    /\ missed' = missed \ {o}
    /\ UNCHANGED <<sq, cq, kernel, d_count, todo, holder, failures>>

\* do_nop() and do_timer(): one entry without cancellation.
RingWait(w) ==
    /\ ContextFree
    /\ wait[w] = "idle"
    /\ wait' = [wait EXCEPT ![w] = "queued"]
    /\ todo' = [todo EXCEPT ![Context] = <<TimerOf(w)>>]
    /\ UNCHANGED <<st, stopped, run, sq, cq, kernel, d_count, holder, failures,
                   callback, missed, again>>

-----------------------------------------------------------------------------
(* run_one()                                                               *)

\* The kernel completes an entry.
KernelCompletes(e, r) ==
    /\ e \in kernel
    /\ kernel' = kernel \ {e}
    /\ cq' = Append(cq, Done(e, r))
    /\ UNCHANGED <<ioVars, sq, d_count, todo, holder, failures, callback, missed>>

\* process_result()
ProcessResult ==
    /\ run = "running" /\ ContextFree
    /\ d_count # 0
    /\ cq # <<>>
    /\ cq' = Tail(cq)
    /\ d_count' = d_count - 1
    /\ LET e == Head(cq)
       IN  CASE e.kind = "io" ->
                  st' = [st EXCEPT ![e.of] = Result(@, e.result)] /\ UNCHANGED wait
             [] e.kind = "cancel" ->
                  st' = [st EXCEPT ![e.of] = CancelResult(@)] /\ UNCHANGED wait
             [] OTHER ->
                  wait' = [wait EXCEPT ![e.of] = "idle"] /\ UNCHANGED st
    /\ UNCHANGED <<stopped, run, sq, kernel, todo, holder, failures, callback,
                   missed, again>>

\* Nothing is outstanding: run_one() returns 0 and io_context::run() returns.
RingDrained ==
    /\ run = "running" /\ ContextFree
    /\ d_count = 0
    /\ run' = "drained"
    /\ UNCHANGED <<st, stopped, wait, ringVars, again>>

\* The wait is interrupted: run_one() finds no result and returns 0, at which
\* io_context::run() returns.  (ring_context::run() would go on.)
RingInterrupted ==
    /\ run = "running" /\ ContextFree
    /\ d_count # 0
    /\ cq = <<>>
    /\ run' = "failed"
    /\ UNCHANGED <<st, stopped, wait, ringVars, again>>

-----------------------------------------------------------------------------

RingUser ==
    \/ \E o \in Ops : RingStart(o) \/ RingStartSpins(o) \/ RingStop(o) \/ RingDestroy(o)
    \/ \E w \in Waits : RingWait(w)
    \/ RunBegin /\ UNCHANGED ringVars

RingRun == ProcessResult \/ RingDrained

\* The stop callback of o, once stop() has called it.
Callback(o) == CancelCounts(o) \/ CancelDangles(o)

Submit(a) == Fill(a) \/ Enter(a)

Kernel == \E e \in kernel, r \in Results : (e.kind = "io" \/ r = "value") /\ KernelCompletes(e, r)

=============================================================================
