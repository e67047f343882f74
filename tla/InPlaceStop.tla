---------------------------- MODULE InPlaceStop ----------------------------
(***************************************************************************)
(* nstd::stop_token_ns::in_place_stop_source together with the objects     *)
(* in_place_stop_callback that register with it                            *)
(* (stop_token/in_place_stop_token.hpp): a lock-free list of callbacks     *)
(* whose head d_list is replaced by the address of d_marker while remove() *)
(* or stop() works on the list, and by nullptr once stop() called          *)
(* everything.  Any thread may call stop(), construct a callback (insert)  *)
(* or destroy one (remove).  One step is one access to an atomic object,   *)
(* together with the accesses to thread-local data around it.              *)
(*                                                                         *)
(* The body of a callback is the user's code.  It may return or destroy    *)
(* its own callback object first; it does not register or destroy other    *)
(* callbacks of the same source (on the stopping thread that would wait    *)
(* for the marker this very thread holds).                                 *)
(***************************************************************************)
EXTENDS Naturals, Sequences, SequencesExt

CONSTANTS
    Threads,    \* the threads using the source
    Callbacks,  \* the storage locations in which callback objects live
    End,        \* &d_end, the last node of every list
    Marker,     \* &d_marker
    Null        \* nullptr

ASSUME PointersDiffer ==
    /\ End # Marker /\ End # Null /\ Marker # Null
    /\ {End, Marker, Null} \cap Callbacks = {}

VARIABLES
    d_stop_requested,
    d_list,
    d_next,     \* d_next[c]: the link of callback c
    d_called,   \* d_called[c]
    life,       \* life[c]: "raw" storage, in its "ctor", "live", in its "dtor"
    ran,        \* ran[c]: how often do_call() ran for the object in c
    pc,         \* pc[t]: the next step of thread t
    head,       \* head[t]: the local variable of stop(), insert(), remove()
    node,       \* node[t]: the local variable of stop() and remove()
    arg,        \* arg[t]: the callback t registers, removes or calls
    nodes       \* auxiliary: the callbacks linked into the list and not yet
                \* reached by stop(), in list order; no step reads it

shared == <<d_stop_requested, d_list, d_next, d_called>>
vars == <<d_stop_requested, d_list, d_next, d_called, life, ran,
          pc, head, node, arg, nodes>>

Pointer == Callbacks \cup {End, Marker, Null}

PC == {"idle", "stop_load", "stop_cas", "stop_loop", "stop_do", "stop_body",
       "ins_cas", "ins_do", "ins_body",
       "rm_load", "rm_cas", "rm_unlink", "rm_walk", "rm_store"}

Init ==
    /\ d_stop_requested = FALSE
    /\ d_list = End
    /\ d_next = [c \in Callbacks |-> Null]
    /\ d_called = [c \in Callbacks |-> FALSE]
    /\ life = [c \in Callbacks |-> "raw"]
    /\ ran = [c \in Callbacks |-> 0]
    /\ pc = [t \in Threads |-> "idle"]
    /\ head = [t \in Threads |-> Null]
    /\ node = [t \in Threads |-> Null]
    /\ arg = [t \in Threads |-> Null]
    /\ nodes = <<>>

Goto(t, label) == pc' = [pc EXCEPT ![t] = label]

\* The operation of t returns; its local variables go out of scope.
Return(t) ==
    /\ Goto(t, "idle")
    /\ head' = [head EXCEPT ![t] = Null]
    /\ node' = [node EXCEPT ![t] = Null]
    /\ arg' = [arg EXCEPT ![t] = Null]

Linked(c) == \E i \in 1..Len(nodes) : nodes[i] = c

\* The list without callback c.
Unlinked(c) ==
    IF Linked(c) THEN RemoveAt(nodes, CHOOSE i \in 1..Len(nodes) : nodes[i] = c)
    ELSE nodes

-----------------------------------------------------------------------------
(* in_place_stop_source::stop                                              *)

\* Only the call that sets the flag goes on, every other one returns.
StopRequest(t) ==
    /\ pc[t] = "idle"
    /\ ~d_stop_requested
    /\ d_stop_requested' = TRUE
    /\ Goto(t, "stop_load")
    /\ UNCHANGED <<d_list, d_next, d_called, life, ran, head, node, arg, nodes>>

StopLoad(t) ==
    /\ pc[t] = "stop_load"
    /\ head' = [head EXCEPT ![t] = d_list]
    /\ Goto(t, "stop_cas")
    /\ UNCHANGED <<shared, life, ran, node, arg, nodes>>

\* The compare-exchange of the loop; a failing one overwrites head with the
\* current d_list.  A null head, at which the loop ends as well, is only ever
\* stored by this call.
StopCas(t) ==
    /\ pc[t] = "stop_cas"
    /\ head[t] \notin {Null, Marker}
    /\ IF d_list = head[t]
       THEN /\ d_list' = Marker
            /\ node' = [node EXCEPT ![t] = head[t]]
            /\ Goto(t, "stop_loop")
            /\ UNCHANGED head
       ELSE /\ head' = [head EXCEPT ![t] = d_list]
            /\ UNCHANGED <<d_list, node, pc>>
    /\ UNCHANGED <<d_stop_requested, d_next, d_called, life, ran, arg, nodes>>

\* One turn of the loop up to do_call(): tmp = node->d_next is kept in node,
\* the callback being called in arg.
StopCall(t) ==
    /\ pc[t] = "stop_loop"
    /\ node[t] \in Callbacks
    /\ arg' = [arg EXCEPT ![t] = node[t]]
    /\ node' = [node EXCEPT ![t] = d_next[node[t]]]
    /\ d_called' = [d_called EXCEPT ![node[t]] = TRUE]
    /\ nodes' = Tail(nodes)
    /\ Goto(t, "stop_do")
    /\ UNCHANGED <<d_stop_requested, d_list, d_next, life, ran, head>>

\* The last node is d_end, whose do_call() does nothing and whose d_next is
\* nullptr: the loop ends and the list is closed.
StopEnd(t) ==
    /\ pc[t] = "stop_loop"
    /\ node[t] = End
    /\ d_list' = Null
    /\ Return(t)
    /\ UNCHANGED <<d_stop_requested, d_next, d_called, life, ran, nodes>>

-----------------------------------------------------------------------------
(* in_place_stop_callback_base::call: d_called is set, do_call() follows.  *)

DoCall(t) ==
    /\ pc[t] \in {"stop_do", "ins_do"}
    /\ ran' = [ran EXCEPT ![arg[t]] = @ + 1]
    /\ Goto(t, IF pc[t] = "stop_do" THEN "stop_body" ELSE "ins_body")
    /\ UNCHANGED <<shared, life, head, node, arg, nodes>>

\* The callback called by stop() returns to the loop.
StopBodyReturns(t) ==
    /\ pc[t] = "stop_body"
    /\ Goto(t, "stop_loop")
    /\ UNCHANGED <<shared, life, ran, head, node, arg, nodes>>

\* The callback called by stop() destroys its own object: remove() finds
\* d_called set and returns.
StopBodyDestroysSelf(t) ==
    /\ pc[t] = "stop_body"
    /\ life[arg[t]] = "live"
    /\ d_called[arg[t]]
    /\ life' = [life EXCEPT ![arg[t]] = "raw"]
    /\ Goto(t, "stop_loop")
    /\ UNCHANGED <<shared, ran, head, node, arg, nodes>>

\* The callback called by insert() returns, and so does the constructor.
InsertBodyReturns(t) ==
    /\ pc[t] = "ins_body"
    /\ life' = [life EXCEPT ![arg[t]] = "live"]
    /\ Return(t)
    /\ UNCHANGED <<shared, ran, nodes>>

-----------------------------------------------------------------------------
(* in_place_stop_source::insert, called by the constructor of a callback.  *)

\* The storage of an object that is being called is not reused before the
\* call returns.
InsertBegin(t, c) ==
    /\ pc[t] = "idle"
    /\ life[c] = "raw"
    /\ \A u \in Threads : pc[u] \in {"stop_do", "stop_body"} => arg[u] # c
    /\ life' = [life EXCEPT ![c] = "ctor"]
    /\ d_called' = [d_called EXCEPT ![c] = FALSE]
    /\ ran' = [ran EXCEPT ![c] = 0]
    /\ head' = [head EXCEPT ![t] = d_list]
    /\ arg' = [arg EXCEPT ![t] = c]
    /\ Goto(t, "ins_cas")
    /\ UNCHANGED <<d_stop_requested, d_list, d_next, node, nodes>>

\* Fault: the marker is taken for a closed list.
InsertCallsOnMarker(t) ==
    /\ pc[t] = "ins_cas"
    /\ head[t] \in {Null, Marker}
    /\ d_called' = [d_called EXCEPT ![arg[t]] = TRUE]
    /\ Goto(t, "ins_do")
    /\ UNCHANGED <<d_stop_requested, d_list, d_next, life, ran,
                   head, node, arg, nodes>>

\* Fault: a callback registered after the stop is not called.
InsertForgets(t) ==
    /\ pc[t] = "ins_cas"
    /\ head[t] = Null
    /\ life' = [life EXCEPT ![arg[t]] = "live"]
    /\ Return(t)
    /\ UNCHANGED <<shared, ran, nodes>>

\* The loop ended because the list is closed: the callback is called here.
InsertCalls(t) ==
    /\ pc[t] = "ins_cas"
    /\ head[t] = Null
    /\ d_called' = [d_called EXCEPT ![arg[t]] = TRUE]
    /\ Goto(t, "ins_do")
    /\ UNCHANGED <<d_stop_requested, d_list, d_next, life, ran,
                   head, node, arg, nodes>>

\* Fault: the successful compare-exchange leaves the loop without returning.
InsertCasFallsThrough(t) ==
    /\ pc[t] = "ins_cas"
    /\ head[t] \notin {Null, Marker}
    /\ d_list = head[t]
    /\ d_next' = [d_next EXCEPT ![arg[t]] = head[t]]
    /\ d_list' = arg[t]
    /\ life' = [life EXCEPT ![arg[t]] = "live"]
    /\ nodes' = <<arg[t]>> \o nodes
    /\ head' = [head EXCEPT ![t] = Null]
    /\ Goto(t, "ins_do")
    /\ UNCHANGED <<d_stop_requested, d_called, ran, node, arg>>

InsertCas(t) ==
    /\ pc[t] = "ins_cas"
    /\ head[t] \notin {Null, Marker}
    /\ d_next' = [d_next EXCEPT ![arg[t]] = head[t]]
    /\ IF d_list = head[t]
       THEN /\ d_list' = arg[t]
            /\ life' = [life EXCEPT ![arg[t]] = "live"]
            /\ nodes' = <<arg[t]>> \o nodes
            /\ Return(t)
       ELSE /\ head' = [head EXCEPT ![t] = d_list]
            /\ UNCHANGED <<d_list, life, nodes, pc, node, arg>>
    /\ UNCHANGED <<d_stop_requested, d_called, ran>>

\* stop() and insert() test the marker in their local head only, and nothing
\* in their loops loads it again.
SpinOnMarker(t) ==
    /\ pc[t] \in {"stop_cas", "ins_cas"}
    /\ head[t] = Marker
    /\ UNCHANGED vars

-----------------------------------------------------------------------------
(* in_place_stop_source::remove, called by the destructor of a callback.   *)

RemoveBegin(t, c) ==
    /\ pc[t] = "idle"
    /\ life[c] = "live"
    /\ IF d_called[c]
       THEN /\ life' = [life EXCEPT ![c] = "raw"]
            /\ UNCHANGED <<pc, arg>>
       ELSE /\ life' = [life EXCEPT ![c] = "dtor"]
            /\ arg' = [arg EXCEPT ![t] = c]
            /\ Goto(t, "rm_load")
    /\ UNCHANGED <<shared, ran, head, node, nodes>>

\* Fault: neither the marker nor the closed list is told from a node.
RemoveLoadUnchecked(t) ==
    /\ pc[t] = "rm_load"
    /\ head' = [head EXCEPT ![t] = d_list]
    /\ Goto(t, "rm_cas")
    /\ UNCHANGED <<shared, life, ran, node, arg, nodes>>

\* Fault: a closed list is not told from a node.
RemoveLoadIgnoresNull(t) ==
    /\ pc[t] = "rm_load"
    /\ head' = [head EXCEPT ![t] = d_list]
    /\ Goto(t, IF d_list = Marker THEN "rm_load" ELSE "rm_cas")
    /\ UNCHANGED <<shared, life, ran, node, arg, nodes>>

RemoveLoad(t) ==
    /\ pc[t] = "rm_load"
    /\ IF d_list = Null
       THEN /\ life' = [life EXCEPT ![arg[t]] = "raw"]
            /\ Return(t)
       ELSE /\ head' = [head EXCEPT ![t] = d_list]
            /\ Goto(t, IF d_list = Marker THEN "rm_load" ELSE "rm_cas")
            /\ UNCHANGED <<life, node, arg>>
    /\ UNCHANGED <<shared, ran, nodes>>

RemoveCas(t) ==
    /\ pc[t] = "rm_cas"
    /\ IF d_list = head[t]
       THEN /\ d_list' = Marker
            /\ Goto(t, "rm_unlink")
       ELSE /\ Goto(t, "rm_load")
            /\ UNCHANGED d_list
    /\ UNCHANGED <<d_stop_requested, d_next, d_called, life, ran,
                   head, node, arg, nodes>>

\* Fault: the first node is unlinked without advancing head.
RemoveUnlinkKeepsHead(t) ==
    /\ pc[t] = "rm_unlink"
    /\ IF head[t] = arg[t]
       THEN /\ nodes' = Unlinked(arg[t])
            /\ Goto(t, "rm_store")
            /\ UNCHANGED node
       ELSE /\ node' = [node EXCEPT ![t] = head[t]]
            /\ Goto(t, "rm_walk")
            /\ UNCHANGED nodes
    /\ UNCHANGED <<shared, life, ran, head, arg>>

\* The callback is the first node, or the search for its predecessor starts.
RemoveUnlink(t) ==
    /\ pc[t] = "rm_unlink"
    /\ IF head[t] = arg[t]
       THEN /\ head' = [head EXCEPT ![t] = d_next[arg[t]]]
            /\ nodes' = Unlinked(arg[t])
            /\ Goto(t, "rm_store")
            /\ UNCHANGED node
       ELSE /\ node' = [node EXCEPT ![t] = head[t]]
            /\ Goto(t, "rm_walk")
            /\ UNCHANGED <<head, nodes>>
    /\ UNCHANGED <<shared, life, ran, arg>>

\* One turn of the search; at d_end the callback was not found.
RemoveWalk(t) ==
    /\ pc[t] = "rm_walk"
    /\ IF node[t] = End
       THEN /\ Goto(t, "rm_store")
            /\ UNCHANGED <<d_next, node, nodes>>
       ELSE IF d_next[node[t]] = arg[t]
       THEN /\ d_next' = [d_next EXCEPT ![node[t]] = d_next[arg[t]]]
            /\ nodes' = Unlinked(arg[t])
            /\ Goto(t, "rm_store")
            /\ UNCHANGED node
       ELSE /\ node' = [node EXCEPT ![t] = d_next[node[t]]]
            /\ UNCHANGED <<d_next, nodes, pc>>
    /\ UNCHANGED <<d_stop_requested, d_list, d_called, life, ran, head, arg>>

\* Fault: the list is left locked.
RemoveStoreForgets(t) ==
    /\ pc[t] = "rm_store"
    /\ life' = [life EXCEPT ![arg[t]] = "raw"]
    /\ Return(t)
    /\ UNCHANGED <<shared, ran, nodes>>

RemoveStore(t) ==
    /\ pc[t] = "rm_store"
    /\ d_list' = head[t]
    /\ life' = [life EXCEPT ![arg[t]] = "raw"]
    /\ Return(t)
    /\ UNCHANGED <<d_stop_requested, d_next, d_called, ran, nodes>>

-----------------------------------------------------------------------------

\* The steps that continue an operation; the others start one.
Continue(t) ==
    \/ StopLoad(t) \/ StopCas(t) \/ StopCall(t) \/ StopEnd(t)
    \/ DoCall(t) \/ StopBodyReturns(t) \/ StopBodyDestroysSelf(t)
    \/ InsertBodyReturns(t) \/ InsertCalls(t) \/ InsertCas(t) \/ SpinOnMarker(t)
    \/ RemoveLoad(t) \/ RemoveCas(t) \/ RemoveUnlink(t) \/ RemoveWalk(t)
    \/ RemoveStore(t)

Next == \E t \in Threads :
    \/ StopRequest(t)
    \/ \E c \in Callbacks : InsertBegin(t, c) \/ RemoveBegin(t, c)
    \/ Continue(t)

Spec == Init /\ [][Next]_vars

\* A thread inside stop(), insert() or remove() keeps running, and the body
\* of a callback returns.
FairSpec == Spec /\ \A t \in Threads : WF_vars(Continue(t))

-----------------------------------------------------------------------------
(* Properties                                                              *)

\* The values the variables of in_place_stop_source, of the callbacks and of
\* the running operations take.
TypeOK ==
    /\ d_stop_requested \in BOOLEAN
    /\ d_list \in Pointer
    /\ d_next \in [Callbacks -> Callbacks \cup {End, Null}]
    /\ d_called \in [Callbacks -> BOOLEAN]
    /\ life \in [Callbacks -> {"raw", "ctor", "live", "dtor"}]
    /\ ran \in [Callbacks -> Nat]
    /\ pc \in [Threads -> PC]
    /\ head \in [Threads -> Pointer]
    /\ node \in [Threads -> Callbacks \cup {End, Null}]
    /\ arg \in [Threads -> Callbacks \cup {Null}]
    /\ nodes \in Seq(Callbacks)

\* Where a thread has replaced the head of the list by the marker.
Holding == {"stop_loop", "stop_do", "stop_body",
            "rm_unlink", "rm_walk", "rm_store"}
Holds(t) == pc[t] \in Holding

\* The marker is a lock: d_list is the marker exactly while some stop() or
\* remove() works on the list, and there is never more than one of them.
MarkerExclusion ==
    /\ (d_list = Marker) <=> \E t \in Threads : Holds(t)
    /\ \A t, u \in Threads : Holds(t) /\ Holds(u) => t = u

\* The compare-exchange of insert() publishes a node whose d_next was written
\* before, from a head that may have been unlinked, destroyed and registered
\* again in between: following the links from the published head, from the
\* head remove() is about to store, or from the node stop() is about to visit
\* yields exactly the registered callbacks, and none twice.
At(i) == IF i \in 1..Len(nodes) THEN nodes[i] ELSE End
ListIntact ==
    /\ \A i, j \in 1..Len(nodes) : nodes[i] = nodes[j] => i = j
    /\ \A i \in 1..Len(nodes) : d_next[nodes[i]] = At(i + 1)
    /\ d_list \notin {Marker, Null} => d_list = At(1)
    /\ d_list = Null => nodes = <<>>
    /\ \A t \in Threads :
         /\ pc[t] \in {"rm_unlink", "rm_walk", "rm_store"} => head[t] = At(1)
         /\ pc[t] \in {"stop_loop", "stop_do", "stop_body"} => node[t] = At(1)

\* stop() and remove() follow links only through callbacks that are not
\* destroyed: a linked callback is live or waits in its destructor, and it was
\* not called yet.
LinkedNotDestroyed ==
    \A c \in Callbacks :
        Linked(c) => life[c] \in {"live", "dtor"} /\ ~d_called[c]

\* No registration is called twice, by stop() or by insert() or by both.
RunOnce == \A c \in Callbacks : ran[c] <= 1

\* Once stop() closed the list every registered callback was called, those
\* that were being inserted while stop() ran included.
NoMissedCallback ==
    d_list = Null => \A c \in Callbacks : life[c] = "live" => ran[c] = 1

\* A closed list stays closed: a remove() or insert() that read the list
\* before stop() closed it never opens it again.
ClosedForGood == [][d_list = Null => d_list' = Null]_vars

\* The marker is always released: neither stop() nor remove() leaves the list
\* locked, whatever the other threads do.
MarkerReleased == (d_list = Marker) ~> (d_list # Marker)

\* The state of the abstract stop source the variables represent.
PhaseOf == [c \in Callbacks |->
    IF life[c] = "raw" THEN "none"
    ELSE IF d_called[c] THEN "invoked"
    ELSE IF Linked(c) THEN "registered" ELSE "none"]

Promise == INSTANCE StopSource WITH
    Twice <- FALSE,
    requested <- d_stop_requested,
    over <- d_list = Null,
    phase <- PhaseOf

\* The source implements the promise of StopSource: every registration is
\* called at most once and only after a request, and when stop() has closed
\* the list none is left registered.
KeepsPromise == Promise!Spec

\* What the comment in stop() says the marker is for: a callback is not
\* destroyed by another thread between d_called being set and the end of its
\* do_call().
NotDestroyedWhileCalled ==
    \A t \in Threads : pc[t] \in {"stop_do", "stop_body"} => life[arg[t]] # "raw"

\* What the tests "callbacks get called" expect of stop(): a callback
\* registered when a stop is requested, or being registered afterwards, is
\* eventually called unless it is removed first.
CallbacksGetCalled ==
    \A c \in Callbacks :
        (d_stop_requested /\ life[c] \in {"ctor", "live"})
            ~> (d_called[c] \/ life[c] = "raw")

=============================================================================
