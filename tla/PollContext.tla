----------------------------- MODULE PollContext -----------------------------
(***************************************************************************)
(* file/poll_context.cpp: the I/O context over poll(2).  The operations    *)
(* are in one list, those on a descriptor in front and the scheduled ones  *)
(* behind.  A single thread uses the context and runs it: user code runs   *)
(* before run(), or inside run() when a receiver is completed, and then    *)
(* starts and stops operations.  A step is one handler or one operation.   *)
(* The self-pipe is left out: its entry is always the only one behind the  *)
(* operations on descriptors, it is not counted by poll(), and its events  *)
(* only make poll(2) return early.                                         *)
(***************************************************************************)
EXTENDS AsyncIo, SequencesExt

CONSTANT Fd     \* Fd[o]: the descriptor of operation o

VARIABLES
    ops,        \* d_outstanding
    timers,     \* d_timers, the earliest first
    polled,     \* the descriptors with events in d_poll, from d_next_poll on
    polling,    \* poll() was called and no operation completed since
    valid       \* d_next_poll is an iterator of d_poll

pollVars == <<ops, timers, polled, polling, valid>>

PollInit ==
    /\ ops = <<>>
    /\ timers = <<>>
    /\ polled = <<>>
    /\ polling = FALSE
    /\ valid = TRUE

Scheduled == {"cancel", "nop"}
TopIs(kind) == ops # <<>> /\ Last(ops).kind = kind
NothingScheduled == ~\E k \in Scheduled : TopIs(k)
DescriptorOps == SelectSeq(ops, LAMBDA e : e.kind = "io")
OnDescriptor == \E i \in 1..Len(ops) : ops[i].kind = "io"

\* Fault: scheduled operations are put in front.
SubmitInFront(list, e) == <<e>> \o list

\* submit_io()
SubmitIo(list, e) == IF e.kind \in Scheduled THEN Append(list, e) ELSE <<e>> \o list

\* User code runs: no handler is working.
UserCode == ~polling /\ run # "undefined"

-----------------------------------------------------------------------------
(* Operations                                                              *)

\* start() of an operation up to its submission.  With a stop requested
\* already the callback runs while it is engaged and schedules the
\* cancellation, before the operation is submitted.
PollEngage(o) ==
    LET s == Engaged(st[o])
    IN  IF o \in stopped THEN [s |-> Counted(s), list |-> SubmitIo(ops, CancelOf(o))]
        ELSE [s |-> s, list |-> ops]

PollStart(o) ==
    /\ UserCode
    /\ ~st[o].engaged
    /\ UNCHANGED <<stopped, wait, run, timers, polled, polling, valid, again>>

\* submit(), do_connect() and do_open_at(): the operation is done at once.
PollStartInline(o, r) ==
    /\ PollStart(o)
    /\ st' = [st EXCEPT ![o] = Result(PollEngage(o).s, r)]
    /\ ops' = PollEngage(o).list

\* The operation would block, or is an accept, which is always queued.
PollStartQueued(o) ==
    /\ PollStart(o)
    /\ st' = [st EXCEPT ![o] = PollEngage(o).s]
    /\ ops' = SubmitIo(PollEngage(o).list, IoOf(o))

\* A stop is requested; do_cancel() schedules the cancellation.
PollStop(o) ==
    /\ UserCode
    /\ o \notin stopped
    /\ stopped' = stopped \cup {o}
    /\ IF st[o].engaged
       THEN LET s == Counted(st[o])
            IN  /\ st' = [st EXCEPT ![o] = s]
                /\ ops' = IF Cancels(s) THEN SubmitIo(ops, CancelOf(o)) ELSE ops
       ELSE UNCHANGED <<st, ops>>
    /\ UNCHANGED <<wait, run, timers, polled, polling, valid, again>>

\* do_nop()
PollSchedule(w) ==
    /\ UserCode
    /\ wait[w] = "idle"
    /\ wait' = [wait EXCEPT ![w] = "queued"]
    /\ ops' = SubmitIo(ops, NopOf(w))
    /\ UNCHANGED <<st, stopped, run, timers, polled, polling, valid, again>>

\* do_timer(): the k-th timer to expire.
PollTimer(w, k) ==
    /\ UserCode
    /\ wait[w] = "idle"
    /\ wait' = [wait EXCEPT ![w] = "queued"]
    /\ timers' = InsertAt(timers, k, TimerOf(w))
    /\ UNCHANGED <<st, stopped, run, ops, polled, polling, valid, again>>

-----------------------------------------------------------------------------
(* run_one()                                                               *)

HandleTimer ==
    /\ run = "running"
    /\ timers # <<>>
    /\ wait' = [wait EXCEPT ![Head(timers).of] = "idle"]
    /\ timers' = Tail(timers)
    /\ polling' = FALSE
    /\ UNCHANGED <<st, stopped, run, ops, polled, valid, again>>

\* handle_scheduled() takes the last operation of the list.
HandleNop ==
    /\ run = "running"
    /\ TopIs("nop")
    /\ wait' = [wait EXCEPT ![Last(ops).of] = "idle"]
    /\ ops' = Front(ops)
    /\ polling' = FALSE
    /\ UNCHANGED <<st, stopped, run, timers, polled, valid, again>>

\* The operation scheduled by do_cancel(): the cancellation gets its result
\* first, then the operation, if it is still in the list.  The code erases the
\* entry after the receiver was completed; what the receiver adds to the list
\* in between comes behind it, so the list is the same in the end.
HandleCancel ==
    /\ run = "running"
    /\ TopIs("cancel")
    /\ LET o == Last(ops).of
           found == \E i \in 1..Len(ops) : ops[i] = IoOf(o)
           s == CancelResult(st[o])
       IN  /\ st' = [st EXCEPT ![o] = IF found THEN Result(s, "ECANCELED") ELSE s]
           /\ ops' = RemoveFirst(Front(ops), IoOf(o))
    /\ polling' = FALSE
    /\ UNCHANGED <<stopped, wait, run, timers, polled, valid, again>>

\* Neither a timer nor a scheduled operation is ready: handle_io() is called.
AtIo == run = "running" /\ NothingScheduled

\* handle_io(): nothing came of the descriptors before the k-th, and an
\* operation on that one completes.  It need not be the operation the entry
\* was made for.
HandleIo(k, o, r) ==
    /\ AtIo /\ valid
    /\ polled[k] = Fd[o]
    /\ \E i \in 1..Len(ops) : ops[i] = IoOf(o)
    /\ st' = [st EXCEPT ![o] = Result(st[o], r)]
    /\ ops' = RemoveFirst(ops, IoOf(o))
    /\ polled' = SubSeq(polled, k + 1, Len(polled))
    /\ polling' = FALSE
    /\ UNCHANGED <<stopped, wait, run, timers, valid, again>>

\* handle_io() reads through a d_next_poll that is no iterator of d_poll.
HandleIoUndefined ==
    /\ AtIo /\ ~valid
    /\ run' = "undefined"
    /\ UNCHANGED <<st, stopped, wait, pollVars, again>>

\* Fault: d_next_poll is not set.
PollKeepsNext(ready) ==
    /\ AtIo /\ valid
    /\ OnDescriptor \/ timers # <<>>
    /\ polled' = <<>>
    /\ valid' = FALSE
    /\ polling' = TRUE
    /\ UNCHANGED <<ioVars, ops, timers>>

\* The handlers found nothing; poll(2) returns events for some of the
\* descriptors, or for none.
Poll(ready) ==
    /\ AtIo /\ valid
    /\ OnDescriptor \/ timers # <<>>
    /\ polled' = LET fds == [i \in 1..Len(DescriptorOps) |-> Fd[DescriptorOps[i].of]]
                 IN  SelectSeq(fds, LAMBDA f : f \in ready)
    /\ polling' = TRUE
    /\ UNCHANGED <<ioVars, ops, timers, valid>>

\* poll() returns false and with it run().  d_poll was filled again and
\* d_next_poll is left as it was.
PollReturnsFalse(how) ==
    /\ AtIo /\ valid
    /\ run' = how
    /\ polling' = FALSE
    /\ polled' = <<>>
    /\ valid' = FALSE
    /\ UNCHANGED <<st, stopped, wait, ops, timers, again>>

\* Fault: timers are forgotten.
PollDrainedWithTimers == ~OnDescriptor /\ PollReturnsFalse("drained")

\* Only the self-pipe is left, and no timer.
PollDrained == ~OnDescriptor /\ timers = <<>> /\ PollReturnsFalse("drained")

\* poll(2) fails, because of a signal for example.
PollFails == (OnDescriptor \/ timers # <<>>) /\ PollReturnsFalse("failed")

-----------------------------------------------------------------------------

PollUser ==
    \/ \E o \in Ops :
         \/ \E r \in Results : PollStartInline(o, r)
         \/ PollStartQueued(o)
         \/ PollStop(o)
         \/ UserCode /\ Destroy(o) /\ UNCHANGED pollVars
    \/ \E w \in Waits :
         \/ PollSchedule(w)
         \/ \E k \in 1..(Len(timers) + 1) : PollTimer(w, k)
    \/ RunBegin /\ UNCHANGED pollVars

PollRun ==
    \/ HandleTimer \/ HandleNop \/ HandleCancel \/ HandleIoUndefined \/ PollDrained
    \/ \E k \in 1..Len(polled), o \in Ops, r \in Results : HandleIo(k, o, r)
    \/ \E ready \in SUBSET {Fd[o] : o \in Ops} : Poll(ready)

=============================================================================
