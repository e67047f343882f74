------------------------------ MODULE AsyncScope ------------------------------
(***************************************************************************)
(* nstd::execution::async_scope (execution/async_scope.hpp and .cpp) at    *)
(* the level of the links of its list d_on_empty.  The operation states of *)
(* upon_empty() register with insert(), which completes them right away    *)
(* when nothing is outstanding; complete() swaps the list with a local one *)
(* and completes what it finds there.  nest() counts outstanding work,     *)
(* which nothing counts down again.                                        *)
(*                                                                         *)
(* The owner destroys the scope when no thread is inside it and no         *)
(* operation state waits.                                                  *)
(***************************************************************************)
EXTENDS Naturals, Sequences, IntrusiveLinks

CONSTANTS
    States,     \* the operation states of upon_empty()
    Threads,    \* the threads that use the scope
    Scope,      \* d_head of d_on_empty
    Local(_),   \* Local(t): d_head of the local list in complete() on thread t
    Null,       \* an uninitialised pointer
    MaxNested   \* nest() is called so often at most

VARIABLES
    link,           \* the links of operation states and heads
    d_outstanding,
    state,          \* state[s]: "idle", "waiting" or "completed"
    pc,             \* pc[t]: "idle", or where in complete() thread t is
    arg,            \* arg[t]: the operation state t is inserting
    scope           \* "alive", "destroyed" or "terminated"

vars == <<link, d_outstanding, state, pc, arg, scope>>

Unset == [d_next |-> Null, d_prev |-> Null]

Init ==
    /\ link = Connect([x \in States \cup {Local(t) : t \in Threads} \cup {Scope} |-> Unset],
                      Scope, Scope)
    /\ d_outstanding = 0
    /\ state = [s \in States |-> "idle"]
    /\ pc = [t \in Threads |-> "idle"]
    /\ arg = [t \in Threads |-> Null]
    /\ scope = "alive"

Idle(t) == scope = "alive" /\ pc[t] = "idle"

\* nest()
Nest(t) ==
    /\ Idle(t)
    /\ d_outstanding < MaxNested
    /\ d_outstanding' = d_outstanding + 1
    /\ UNCHANGED <<link, state, pc, arg, scope>>

\* insert() with work outstanding: the state is put into the list.
InsertWaits(t, s) ==
    /\ Idle(t) /\ state[s] = "idle"
    /\ d_outstanding # 0
    /\ link' = LinkBefore(link, Scope, s)
    /\ state' = [state EXCEPT ![s] = "waiting"]
    /\ UNCHANGED <<d_outstanding, pc, arg, scope>>

\* insert() with none outstanding: the state is put into the list, taken out
\* again, and complete() is called.
InsertEmpty(t, s) ==
    /\ Idle(t) /\ state[s] = "idle"
    /\ d_outstanding = 0
    /\ link' = Unlink(LinkBefore(link, Scope, s), s)
    /\ state' = [state EXCEPT ![s] = "waiting"]
    /\ arg' = [arg EXCEPT ![t] = s]
    /\ pc' = [pc EXCEPT ![t] = "swap"]
    /\ UNCHANGED <<d_outstanding, scope>>

\* complete(): the local list is constructed and swapped with d_on_empty.
CompleteSwap(t) ==
    /\ pc[t] = "swap"
    /\ link' = Swap(Connect(link, Local(t), Local(t)), Scope, Local(t))
    /\ pc' = [pc EXCEPT ![t] = "loop"]
    /\ UNCHANGED <<d_outstanding, state, arg, scope>>

\* One turn of the loop completes the first state of the local list, if that
\* is one: pop_front() of a head unlinks that head.
CompleteLoop(t) ==
    /\ pc[t] = "loop"
    /\ ~Empty(link, Local(t))
    /\ LET first == link[Local(t)].d_next
       IN  /\ link' = Unlink(link, first)
           /\ state' = IF first \in States THEN [state EXCEPT ![first] = "completed"]
                       ELSE state
    /\ UNCHANGED <<d_outstanding, pc, arg, scope>>

\* The local list is empty; insert() returns false and the caller completes
\* the state it wanted to insert.
CompleteReturns(t) ==
    /\ pc[t] = "loop"
    /\ Empty(link, Local(t))
    /\ state' = [state EXCEPT ![arg[t]] = "completed"]
    /\ arg' = [arg EXCEPT ![t] = Null]
    /\ pc' = [pc EXCEPT ![t] = "idle"]
    /\ UNCHANGED <<link, d_outstanding, scope>>

\* erase()
Erase(t, s) ==
    /\ Idle(t)
    /\ state[s] = "waiting" /\ \A u \in Threads : arg[u] # s
    /\ link' = Unlink(link, s)
    /\ state' = [state EXCEPT ![s] = "idle"]
    /\ UNCHANGED <<d_outstanding, pc, arg, scope>>

\* ~async_scope() terminates the program when work is outstanding.
Destroy ==
    /\ scope = "alive"
    /\ \A t \in Threads : pc[t] = "idle"
    /\ \A s \in States : state[s] # "waiting"
    /\ scope' = IF d_outstanding = 0 THEN "destroyed" ELSE "terminated"
    /\ UNCHANGED <<link, d_outstanding, state, pc, arg>>

\* complete(), step by step
Complete(t) == CompleteSwap(t) \/ CompleteLoop(t) \/ CompleteReturns(t)

Next ==
    \/ \E t \in Threads :
         \/ Nest(t) \/ Complete(t)
         \/ \E s \in States : InsertWaits(t, s) \/ InsertEmpty(t, s) \/ Erase(t, s)
    \/ Destroy

\* A thread inside complete() keeps running.
FairSpec == Init /\ [][Next]_vars /\ \A t \in Threads : WF_vars(Complete(t))

-----------------------------------------------------------------------------

\* What the test of upon_empty() is called: it "immediately completes for an
\* empty async_scope".  A state inserted while nothing is outstanding is
\* completed, whatever the other threads do.
CompletesOnEmpty ==
    \A t \in Threads, s \in States : arg[t] = s ~> state[s] = "completed"

=============================================================================
