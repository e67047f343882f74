----------------------------- MODULE StopState -----------------------------
(***************************************************************************)
(* nstd::stop_token_ns::stop_source, stop_callback and the shared          *)
(* stop_state (stop_token/stop_state.hpp, stop_source.cpp,                 *)
(* stop_callback.hpp): a list of callbacks guarded by the spin lock d_busy,*)
(* which is held while a callback runs, and a flag set without the lock.   *)
(* The intrusive list is represented by the sequence of its elements;      *)
(* erasing an element that was popped before does nothing, because a       *)
(* popped element is linked to itself.                                     *)
(*                                                                         *)
(* The body of a callback returns and does not register or destroy         *)
(* callbacks of the same source: it would wait for the lock its own thread *)
(* holds.                                                                  *)
(***************************************************************************)
EXTENDS Naturals, Sequences, SequencesExt

CONSTANTS
    Threads,    \* the threads sharing the state
    Callbacks,  \* the storage locations of stop_callback objects
    MaxLives    \* how often an object is constructed in each location

ASSUME MaxLivesAssumption == MaxLives \in Nat

VARIABLES
    d_list,
    d_stop_requested,
    d_busy,
    life,       \* life[c]: "raw" storage, in its "ctor", "live", in its "dtor"
    lives,      \* lives[c]: how many objects were constructed in c
    ran,        \* ran[c]: how often the callback in c was called
    window,     \* auxiliary: c was linked after the request, before call()
    over,       \* auxiliary: call() has emptied the list
    pc,
    arg         \* arg[t]: the callback thread t registers, erases or calls

vars == <<d_list, d_stop_requested, d_busy, life, lives, ran, window, over, pc, arg>>

None == "none"  \* arg of a thread outside the operations

PC == {"idle", "call_lock", "call_loop", "call_body",
       "ins_lock", "ins_link", "ins_body", "ins_unlock", "ins_return",
       "erase_lock", "erase_do"}

Init ==
    /\ d_list = <<>>
    /\ d_stop_requested = FALSE
    /\ d_busy = FALSE
    /\ life = [c \in Callbacks |-> "raw"]
    /\ lives = [c \in Callbacks |-> 0]
    /\ ran = [c \in Callbacks |-> 0]
    /\ window = [c \in Callbacks |-> FALSE]
    /\ over = FALSE
    /\ pc = [t \in Threads |-> "idle"]
    /\ arg = [t \in Threads |-> None]

Goto(t, label) == pc' = [pc EXCEPT ![t] = label]

\* Fault: the spin lock is read and set in two steps.
AcquireUnchecked(t, label, next) ==
    /\ pc[t] = label
    /\ d_busy' = TRUE
    /\ Goto(t, next)

\* while (d_busy.exchange(true)) {}
Acquire(t, label, next) ==
    /\ pc[t] = label
    /\ ~d_busy
    /\ d_busy' = TRUE
    /\ Goto(t, next)

-----------------------------------------------------------------------------
(* stop_source::request_stop and stop_state::call                          *)

\* A request after the first one returns false and changes nothing.
RequestStop(t) ==
    /\ pc[t] = "idle"
    /\ ~d_stop_requested
    /\ d_stop_requested' = TRUE
    /\ Goto(t, "call_lock")
    /\ UNCHANGED <<d_list, d_busy, life, lives, ran, window, over, arg>>

CallLock(t) ==
    /\ Acquire(t, "call_lock", "call_loop")
    /\ UNCHANGED <<d_list, d_stop_requested, life, lives, ran, window, over, arg>>

\* d_list.front().call()
CallFront(t) ==
    /\ pc[t] = "call_loop"
    /\ d_list # <<>>
    /\ arg' = [arg EXCEPT ![t] = Head(d_list)]
    /\ ran' = [ran EXCEPT ![Head(d_list)] = @ + 1]
    /\ Goto(t, "call_body")
    /\ UNCHANGED <<d_list, d_stop_requested, d_busy, life, lives, window, over>>

\* Fault: the list is dropped after the first callback was called.
CallPopStops(t) ==
    /\ pc[t] = "call_body"
    /\ d_list' = <<>>
    /\ arg' = [arg EXCEPT ![t] = None]
    /\ Goto(t, "call_loop")
    /\ UNCHANGED <<d_stop_requested, d_busy, life, lives, ran, window, over>>

\* The callback returned: d_list.pop_front().
CallPop(t) ==
    /\ pc[t] = "call_body"
    /\ d_list' = Tail(d_list)
    /\ arg' = [arg EXCEPT ![t] = None]
    /\ Goto(t, "call_loop")
    /\ UNCHANGED <<d_stop_requested, d_busy, life, lives, ran, window, over>>

\* Fault: the lock is not released.
CallEndKeepsLock(t) ==
    /\ pc[t] = "call_loop"
    /\ d_list = <<>>
    /\ over' = TRUE
    /\ Goto(t, "idle")
    /\ UNCHANGED <<d_list, d_stop_requested, d_busy, life, lives, ran, window, arg>>

CallEnd(t) ==
    /\ pc[t] = "call_loop"
    /\ d_list = <<>>
    /\ d_busy' = FALSE
    /\ over' = TRUE
    /\ Goto(t, "idle")
    /\ UNCHANGED <<d_list, d_stop_requested, life, lives, ran, window, arg>>

-----------------------------------------------------------------------------
(* The constructor of stop_callback: register_callback and insert          *)

Construct(t, c) ==
    /\ pc[t] = "idle"
    /\ life[c] = "raw"
    /\ lives[c] < MaxLives
    /\ life' = [life EXCEPT ![c] = "ctor"]
    /\ lives' = [lives EXCEPT ![c] = @ + 1]
    /\ ran' = [ran EXCEPT ![c] = 0]
    /\ arg' = [arg EXCEPT ![t] = c]
    /\ Goto(t, "ins_lock")
    /\ UNCHANGED <<d_list, d_stop_requested, d_busy, window, over>>

InsertLock(t) ==
    /\ Acquire(t, "ins_lock", "ins_link")
    /\ UNCHANGED <<d_list, d_stop_requested, life, lives, ran, window, over, arg>>

\* Fault: a callback registered after the request is not called.
InsertLinkOnly(t) ==
    /\ pc[t] = "ins_link"
    /\ d_list' = Append(d_list, arg[t])
    /\ window' = [window EXCEPT ![arg[t]] = d_stop_requested /\ ~over]
    /\ Goto(t, "ins_unlock")
    /\ UNCHANGED <<d_stop_requested, d_busy, life, lives, ran, over, arg>>

\* The callback is linked last, and called at once when a stop was requested.
InsertLink(t) ==
    /\ pc[t] = "ins_link"
    /\ d_list' = Append(d_list, arg[t])
    /\ window' = [window EXCEPT ![arg[t]] = d_stop_requested /\ ~over]
    /\ IF d_stop_requested
       THEN /\ ran' = [ran EXCEPT ![arg[t]] = @ + 1]
            /\ Goto(t, "ins_body")
       ELSE /\ Goto(t, "ins_unlock")
            /\ UNCHANGED ran
    /\ UNCHANGED <<d_stop_requested, d_busy, life, lives, over, arg>>

InsertBodyReturns(t) ==
    /\ pc[t] = "ins_body"
    /\ Goto(t, "ins_unlock")
    /\ UNCHANGED <<d_list, d_stop_requested, d_busy, life, lives, ran, window, over, arg>>

InsertUnlock(t) ==
    /\ pc[t] = "ins_unlock"
    /\ d_busy' = FALSE
    /\ Goto(t, "ins_return")
    /\ UNCHANGED <<d_list, d_stop_requested, life, lives, ran, window, over, arg>>

\* d_iterator is assigned and the constructor returns.
InsertReturn(t) ==
    /\ pc[t] = "ins_return"
    /\ life' = [life EXCEPT ![arg[t]] = "live"]
    /\ arg' = [arg EXCEPT ![t] = None]
    /\ Goto(t, "idle")
    /\ UNCHANGED <<d_list, d_stop_requested, d_busy, lives, ran, window, over>>

-----------------------------------------------------------------------------
(* The destructor of stop_callback and stop_state::erase                   *)

Destroy(t, c) ==
    /\ pc[t] = "idle"
    /\ life[c] = "live"
    /\ life' = [life EXCEPT ![c] = "dtor"]
    /\ arg' = [arg EXCEPT ![t] = c]
    /\ Goto(t, "erase_lock")
    /\ UNCHANGED <<d_list, d_stop_requested, d_busy, lives, ran, window, over>>

\* Fault: the destructor does not wait when a stop was requested.
EraseLockSkipped(t) ==
    /\ pc[t] = "erase_lock"
    /\ IF d_stop_requested
       THEN /\ life' = [life EXCEPT ![arg[t]] = "raw"]
            /\ arg' = [arg EXCEPT ![t] = None]
            /\ Goto(t, "idle")
            /\ UNCHANGED d_busy
       ELSE /\ Acquire(t, "erase_lock", "erase_do")
            /\ UNCHANGED <<life, arg>>
    /\ UNCHANGED <<d_list, d_stop_requested, lives, ran, window, over>>

EraseLock(t) ==
    /\ Acquire(t, "erase_lock", "erase_do")
    /\ UNCHANGED <<d_list, d_stop_requested, life, lives, ran, window, over, arg>>

Erase(t) ==
    /\ pc[t] = "erase_do"
    /\ d_list' = RemoveFirst(d_list, arg[t])
    /\ d_busy' = FALSE
    /\ life' = [life EXCEPT ![arg[t]] = "raw"]
    /\ arg' = [arg EXCEPT ![t] = None]
    /\ Goto(t, "idle")
    /\ UNCHANGED <<d_stop_requested, lives, ran, window, over>>

-----------------------------------------------------------------------------

Continue(t) ==
    \/ CallLock(t) \/ CallFront(t) \/ CallPop(t) \/ CallEnd(t)
    \/ InsertLock(t) \/ InsertLink(t) \/ InsertBodyReturns(t)
    \/ InsertUnlock(t) \/ InsertReturn(t)
    \/ EraseLock(t) \/ Erase(t)

Next == \E t \in Threads :
    \/ RequestStop(t)
    \/ \E c \in Callbacks : Construct(t, c) \/ Destroy(t, c)
    \/ Continue(t)

Spec == Init /\ [][Next]_vars

\* A thread inside an operation keeps running, and callbacks return.
FairSpec == Spec /\ \A t \in Threads : WF_vars(Continue(t))

-----------------------------------------------------------------------------
(* Properties                                                              *)

\* The values the members of stop_state and the running operations take.
TypeOK ==
    /\ d_list \in Seq(Callbacks)
    /\ {d_stop_requested, d_busy, over} \subseteq BOOLEAN
    /\ life \in [Callbacks -> {"raw", "ctor", "live", "dtor"}]
    /\ lives \in [Callbacks -> 0..MaxLives]
    /\ ran \in [Callbacks -> 0..2]
    /\ window \in [Callbacks -> BOOLEAN]
    /\ pc \in [Threads -> PC]
    /\ arg \in [Threads -> Callbacks \cup {None}]

Holding == {"call_loop", "call_body", "ins_link", "ins_body", "ins_unlock",
            "erase_do"}

\* d_busy is a lock: it is set exactly while one thread works on the list or
\* runs a callback.
BusyExclusion ==
    /\ d_busy <=> \E t \in Threads : pc[t] \in Holding
    /\ \A t, u \in Threads : pc[t] \in Holding /\ pc[u] \in Holding => t = u

\* The destructor of stop_callback waits for a running callback, and no
\* destroyed object stays in the list.
NoCallAfterDestruction ==
    /\ \A t \in Threads : pc[t] \in {"call_body", "ins_body"} => life[arg[t]] # "raw"
    /\ \A c \in Callbacks : life[c] = "raw" => ~Contains(d_list, c)

\* How often a callback runs.  Registered before the request or after call()
\* is done it runs once.  Registered in between it is called by insert(),
\* stays in the list, and is called a second time by call().
CallCount ==
    /\ \A c \in Callbacks : ran[c] <= (IF window[c] THEN 2 ELSE 1)
    /\ over => \A c \in Callbacks :
         life[c] = "live" => ran[c] = (IF window[c] THEN 2 ELSE 1)

\* The state of the abstract stop source the variables represent: a callback
\* counts as registered from the end of its constructor.  One that insert()
\* called and call() is going to call is in phase "again".
PhaseOf == [c \in Callbacks |->
    IF life[c] = "raw" THEN "none"
    ELSE IF ran[c] = 1 /\ window[c] THEN "again"
    ELSE IF ran[c] > 0 THEN "invoked"
    ELSE IF life[c] = "live" /\ Contains(d_list, c) THEN "registered" ELSE "none"]

Promise == INSTANCE StopSource WITH
    Twice <- TRUE,
    requested <- d_stop_requested,
    phase <- PhaseOf

\* stop_source keeps the weaker promise of StopSource: callbacks are called
\* only after a request, none stays registered when the request was processed,
\* and a callback is called once but for one that is registered while the
\* request is processed, which insert() calls and then call() as well.
KeepsPromise == Promise!Spec

\* With finitely many registrations every operation that waits for the lock
\* gets it and returns: request_stop() processes the list and every
\* destructor returns.
OperationsReturn ==
    /\ d_stop_requested ~> over
    /\ \A c \in Callbacks : life[c] \in {"ctor", "dtor"} ~> life[c] \in {"live", "raw"}

=============================================================================
