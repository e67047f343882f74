------------------------------ MODULE WhenAll ------------------------------
(***************************************************************************)
(* The operation state of nstd::execution::when_all                        *)
(* (execution/when_all.hpp).  It starts its children one after the other;  *)
(* each child completes once, on any thread, also inside start() or inside *)
(* a stop callback.  The first child that fails decides how the whole      *)
(* completes and asks the others to stop through d_stop_source, and so     *)
(* does the stop token of the downstream receiver through on_stop.  The    *)
(* last child to call complete() completes the downstream receiver, which  *)
(* may then destroy the operation state.                                   *)
(*                                                                         *)
(* d_stop_source is the abstract StopSource that InPlaceStop implements,   *)
(* together with the marker of in_place_stop_source: stop() and remove()   *)
(* put it into d_list while they work on the list, remove() waits for the  *)
(* marker of another to go, but stop() and insert() read it once and then  *)
(* spin on what they read for ever.  A child that listens registers while  *)
(* it is started and deregisters before it completes.                      *)
(***************************************************************************)
EXTENDS Integers, FiniteSets

CONSTANT N      \* sizeof...(Sender)

ASSUME NAssumption == N \in Nat \ {0}

Children == 1..N

VARIABLES
    d_kind,     \* completion_kind
    d_count,    \* the children that did not call complete() yet
    d_error,    \* the child whose error is stored, or Nobody
    d_result,   \* the children with a stored result
    requested, over, phase,     \* d_stop_source
    stopper,    \* who is in d_stop_source.stop(): a child, Outer or Nobody
    marker,     \* who put the marker into d_list, or Nobody
    spinning,   \* those who spin on the marker in stop() or insert() for ever
    onstop,     \* "no", "stopping", "done": the call of on_stop
    listens,    \* listens[c]: child c registers a stop callback
    started,    \* how many children start() has started
    pc,         \* pc[c]: where child c and its receiver are
    how,        \* auxiliary, how[c]: how child c completed
    outcome,    \* how the downstream receiver was completed, or "pending"
    alive       \* the operation state is not destroyed

vars == <<d_kind, d_count, d_error, d_result, requested, over, phase, stopper,
          marker, spinning, onstop, listens, started, pc, how, outcome, alive>>

source == <<requested, over, phase>>

Source == INSTANCE StopSource WITH Callbacks <- Children, Twice <- FALSE

Outer == 0      \* the downstream stop source, as the caller of stop()
Nobody == -1    \* nobody is in stop() or holds the marker, no error is stored

Init ==
    /\ d_kind = "set_value"
    /\ d_count = N
    /\ d_error = Nobody
    /\ d_result = {}
    /\ Source!Init
    /\ stopper = Nobody
    /\ marker = Nobody
    /\ spinning = {}
    /\ onstop = "no"
    /\ listens \in [Children -> BOOLEAN]
    /\ started = 0
    /\ pc = [c \in Children |-> "idle"]
    /\ how = [c \in Children |-> "pending"]
    /\ outcome = "pending"
    /\ alive = TRUE

Goto(c, label) == pc' = [pc EXCEPT ![c] = label]

-----------------------------------------------------------------------------
(* start()                                                                 *)

\* The next child is started.  A listening child registers its callback; it is
\* told at once when the stop request was processed before, and it spins, and
\* start() with it, when insert() meets the marker.
StartChild(c) ==
    /\ c = started + 1
    /\ spinning \cap Children \subseteq {stopper}
    /\ started' = c
    /\ Goto(c, "running")
    /\ \/ ~listens[c] /\ UNCHANGED <<source, spinning>>
       \/ listens[c] /\ over /\ Source!Invoke(c) /\ UNCHANGED spinning
       \/ /\ listens[c] /\ ~over
          /\ IF marker = Nobody
             THEN Source!Register(c) /\ UNCHANGED spinning
             ELSE spinning' = spinning \cup {c} /\ UNCHANGED source
    /\ UNCHANGED <<d_kind, d_count, d_error, d_result, stopper, marker,
                   onstop, listens, how, outcome, alive>>

-----------------------------------------------------------------------------
(* The stop callback of a child that ends: remove()                        *)

\* remove() waits until it can put the marker into the list.
Remove(c) ==
    /\ pc[c] = "running"
    /\ phase[c] = "registered"
    /\ marker = Nobody
    /\ marker' = c
    /\ Goto(c, "removing")
    /\ UNCHANGED <<d_kind, d_count, d_error, d_result, source, stopper,
                   spinning, onstop, listens, started, how, outcome, alive>>

\* The callback is unlinked and the marker taken away.
Removed(c) ==
    /\ pc[c] = "removing"
    /\ Source!Drop(c)
    /\ marker' = Nobody
    /\ Goto(c, "ending")
    /\ UNCHANGED <<d_kind, d_count, d_error, d_result, stopper, spinning,
                   onstop, listens, started, how, outcome, alive>>

-----------------------------------------------------------------------------
(* The receiver of a child                                                 *)

\* The child has ended and calls the receiver.  Its stop callback is removed;
\* remove() returns at once for one that was called.
ChildEnds(c, kind) ==
    /\ \/ pc[c] = "ending"
       \/ pc[c] = "running" /\ phase[c] # "registered" /\ c \notin spinning
    /\ how' = [how EXCEPT ![c] = kind]
    /\ Source!Drop(c)
    /\ UNCHANGED <<d_count, d_error, stopper, onstop, marker, spinning,
                   listens, started, outcome, alive>>

SetValue(c) ==
    /\ ChildEnds(c, "set_value")
    /\ d_result' = d_result \cup {c}
    /\ Goto(c, "complete")
    /\ UNCHANGED d_kind

\* Fault: the kind is stored without looking at what is there.
FailUnchecked(c, kind, next) ==
    /\ ChildEnds(c, kind)
    /\ d_kind' = kind
    /\ Goto(c, IF d_kind = "set_value" THEN next ELSE "complete")
    /\ UNCHANGED d_result

\* d_kind.compare_exchange_strong(set_value, kind): the first failure asks the
\* other children to stop.
Fail(c, kind, next) ==
    /\ ChildEnds(c, kind)
    /\ IF d_kind = "set_value"
       THEN d_kind' = kind /\ Goto(c, next)
       ELSE UNCHANGED d_kind /\ Goto(c, "complete")
    /\ UNCHANGED d_result

SetError(c) == Fail(c, "set_error", "stop")

SetStopped(c) == Fail(c, "set_stopped", "stop")

\* Fault: the error is not stored.
AfterStopForgets(c) == "complete"

\* Where the receiver of a failed child continues after stop().
AfterStop(c) == IF how[c] = "set_error" THEN "emplace" ELSE "complete"

\* d_stop_source.stop() returns at once when a stop was requested before.
StopReturns(c) ==
    /\ pc[c] = "stop"
    /\ requested
    /\ Goto(c, AfterStop(c))
    /\ UNCHANGED <<d_kind, d_count, d_error, d_result, source, stopper,
                   onstop, marker, spinning, listens, started, how, outcome,
                   alive>>

\* Fault: the failing child does not ask the others to stop.
StopSkipped(c) ==
    /\ pc[c] = "stop"
    /\ ~requested
    /\ Goto(c, AfterStop(c))
    /\ UNCHANGED <<d_kind, d_count, d_error, d_result, source, stopper,
                   onstop, marker, spinning, listens, started, how, outcome,
                   alive>>

StopBegin(c) ==
    /\ pc[c] = "stop"
    /\ ~requested
    /\ Source!Request
    /\ stopper' = c
    /\ Goto(c, "stopping")
    /\ UNCHANGED <<d_kind, d_count, d_error, d_result, onstop, marker,
                   spinning, listens, started, how, outcome, alive>>

\* stop() puts the marker into the list, or spins because it met one.
StopTakes ==
    /\ stopper # Nobody
    /\ marker # stopper
    /\ stopper \notin spinning
    /\ IF marker = Nobody
       THEN marker' = stopper /\ UNCHANGED spinning
       ELSE spinning' = spinning \cup {stopper} /\ UNCHANGED marker
    /\ UNCHANGED <<d_kind, d_count, d_error, d_result, source, stopper,
                   onstop, listens, started, pc, how, outcome, alive>>

\* stop() calls the stop callback of child d.
StopCalls(d) ==
    /\ stopper # Nobody
    /\ marker = stopper
    /\ phase[d] = "registered"
    /\ Source!Invoke(d)
    /\ UNCHANGED <<d_kind, d_count, d_error, d_result, stopper, onstop,
                   marker, spinning, listens, started, pc, how, outcome, alive>>

\* stop() has called every callback and returns to the receiver of a child.
StopEnd(c) ==
    /\ stopper = c
    /\ marker = c
    /\ Source!Complete
    /\ stopper' = Nobody
    /\ marker' = Nobody
    /\ Goto(c, AfterStop(c))
    /\ UNCHANGED <<d_kind, d_count, d_error, d_result, spinning, onstop,
                   listens, started, how, outcome, alive>>

EmplaceError(c) ==
    /\ pc[c] = "emplace"
    /\ d_error' = c
    /\ Goto(c, "complete")
    /\ UNCHANGED <<d_kind, d_count, d_result, source, stopper, onstop, marker,
                   spinning, listens, started, how, outcome, alive>>

\* do_complete(): the downstream receiver is completed the way d_kind says.
DoComplete == outcome' = d_kind

\* Fault: the downstream receiver is completed when one child is left.
CompleteEarly(c) ==
    /\ pc[c] = "complete"
    /\ d_count' = d_count - 1
    /\ IF d_count' <= 1 THEN DoComplete ELSE UNCHANGED outcome
    /\ Goto(c, "done")
    /\ UNCHANGED <<d_kind, d_error, d_result, source, stopper, onstop, marker,
                   spinning, listens, started, how, alive>>

\* complete(): the last child completes the downstream receiver.
Complete(c) ==
    /\ pc[c] = "complete"
    /\ d_count' = d_count - 1
    /\ IF d_count' = 0 THEN DoComplete ELSE UNCHANGED outcome
    /\ Goto(c, "done")
    /\ UNCHANGED <<d_kind, d_error, d_result, source, stopper, onstop, marker,
                   spinning, listens, started, how, alive>>

-----------------------------------------------------------------------------
(* The downstream receiver                                                 *)

\* Its stop token calls on_stop, which calls d_stop_source.stop().
OnStop ==
    /\ alive
    /\ onstop = "no"
    /\ IF requested
       THEN onstop' = "done" /\ UNCHANGED <<source, stopper>>
       ELSE onstop' = "stopping" /\ Source!Request /\ stopper' = Outer
    /\ UNCHANGED <<d_kind, d_count, d_error, d_result, marker, spinning,
                   listens, started, pc, how, outcome, alive>>

OnStopEnd ==
    /\ stopper = Outer
    /\ marker = Outer
    /\ Source!Complete
    /\ stopper' = Nobody
    /\ marker' = Nobody
    /\ onstop' = "done"
    /\ UNCHANGED <<d_kind, d_count, d_error, d_result, spinning, listens,
                   started, pc, how, outcome, alive>>

\* Once it is completed it may destroy the operation state.
Destroy ==
    /\ alive
    /\ outcome # "pending"
    /\ alive' = FALSE
    /\ UNCHANGED <<d_kind, d_count, d_error, d_result, source, stopper,
                   onstop, marker, spinning, listens, started, pc, how,
                   outcome>>

-----------------------------------------------------------------------------

\* The child ends by itself, or because it was asked to.
End(c) == SetValue(c) \/ SetError(c) \/ SetStopped(c)

\* The rest of an end that began with remove().
Ending(c) == Removed(c) \/ (pc[c] = "ending" /\ End(c))

\* The steps of a receiver that was called.
Receiver(c) == StopReturns(c) \/ StopBegin(c) \/ StopEnd(c) \/ EmplaceError(c) \/ Complete(c)

Next ==
    \/ \E c \in Children :
         \/ StartChild(c) \/ Remove(c) \/ Removed(c) \/ End(c)
         \/ Receiver(c) \/ StopCalls(c)
    \/ StopTakes \/ OnStop \/ OnStopEnd \/ Destroy

Spec == Init /\ [][Next]_vars

\* Running threads keep running.  A child that does not listen ends by itself,
\* one that listens ends when it was asked to.
FairSpec ==
    /\ Spec
    /\ WF_vars(StopTakes)
    /\ WF_vars(OnStopEnd)
    /\ \A c \in Children :
        /\ WF_vars(StartChild(c))
        /\ WF_vars(StopCalls(c))
        /\ WF_vars(Receiver(c))
        /\ WF_vars(Ending(c))
        /\ WF_vars(End(c) /\ (~listens[c] \/ phase[c] = "invoked"))

-----------------------------------------------------------------------------
(* Properties                                                              *)

Kind == {"set_value", "set_error", "set_stopped"}

\* The values the members of the operation state take; d_count, a size_t,
\* does not wrap.
TypeOK ==
    /\ d_kind \in Kind
    /\ d_count \in 0..N
    /\ d_error \in Children \cup {Nobody}
    /\ d_result \subseteq Children
    /\ requested \in BOOLEAN
    /\ over \in BOOLEAN
    /\ phase \in [Children -> Source!Phase]
    /\ stopper \in Children \cup {Outer, Nobody}
    /\ marker \in Children \cup {Outer, Nobody}
    /\ spinning \subseteq Children \cup {Outer}
    /\ onstop \in {"no", "stopping", "done"}
    /\ listens \in [Children -> BOOLEAN]
    /\ started \in 0..N
    /\ pc \in [Children -> {"idle", "running", "removing", "ending", "stop",
                            "stopping", "emplace", "complete", "done"}]
    /\ how \in [Children -> Kind \cup {"pending"}]
    /\ outcome \in Kind \cup {"pending"}
    /\ alive \in BOOLEAN

\* What the downstream receiver is given exists when complete() passes it on:
\* set_value finds the result of every child, set_error the error of a child
\* that failed with one, set_stopped comes from a stopped child, and no
\* failure is passed on as a value.
OutcomeHonest ==
    /\ outcome = "set_value" => d_result = Children
    /\ outcome = "set_error" => d_error \in Children /\ how[d_error] = "set_error"
    /\ outcome = "set_stopped" => \E c \in Children : how[c] = "set_stopped"
    /\ outcome # "pending" =>
         (outcome = "set_value" <=> \A c \in Children : how[c] = "set_value")

\* The downstream receiver is completed when, and not before, every child was
\* started and its receiver is done: destroying the operation state then takes
\* nothing away from a child, a receiver or start().
LastChildCompletes ==
    /\ outcome # "pending" <=> \A c \in Children : pc[c] = "done"
    /\ ~alive => started = N /\ stopper \notin Children

\* The first failure decides: its kind and its error are never replaced.
FirstFailureDecides ==
    [][/\ d_kind # "set_value" => UNCHANGED d_kind
       /\ d_error # Nobody => UNCHANGED d_error
       /\ outcome # "pending" => UNCHANGED outcome]_vars

\* A failure, or a stop from downstream, ends the whole: every child that
\* waits for a stop is told and the downstream receiver is completed.  That
\* holds unless stop() or insert() meets the marker of another operation on
\* d_stop_source (in_place_stop_token.hpp:87 and 101) and spins: the thread
\* never returns then.
FailureEndsAll ==
    (d_kind # "set_value" \/ onstop # "no") ~> (outcome # "pending" \/ spinning # {})

=============================================================================
