--------------------------- MODULE WhenAll_proofs ---------------------------
(***************************************************************************)
(* Proofs about WhenAll, for every number of children.                     *)
(***************************************************************************)
EXTENDS WhenAll, FiniteSetTheorems, TLAPS

\* The children that have not called complete().
Open == {c \in Children : pc[c] # "done"}

\* A receiver that has decided how the whole completes and is on its way to
\* complete().
Deciding(c) == pc[c] \in {"stop", "stopping", "emplace"}

\* d_count counts the open children, and the downstream receiver is completed
\* when there are none.
Counting ==
    /\ d_count = Cardinality(Open)
    /\ outcome # "pending" <=> Open = {}
    /\ outcome # "pending" => outcome = d_kind
    /\ ~alive => outcome # "pending"

\* How far a child is agrees with what start() and its receiver have done.
Progress(c) ==
    /\ pc[c] = "idle" <=> c > started
    /\ pc[c] \in {"idle", "running", "removing", "ending"} <=> how[c] = "pending"
    /\ c \in d_result <=> how[c] = "set_value"
    /\ Deciding(c) => how[c] = d_kind /\ d_kind # "set_value"
    /\ pc[c] = "emplace" => how[c] = "set_error"
    /\ stopper = c => pc[c] = "stopping"
    /\ how[c] \in {"set_error", "set_stopped"} => d_kind # "set_value"

\* One receiver decides; until it has stored its error there is none.
Deciders ==
    /\ \A c, d \in Children : Deciding(c) /\ Deciding(d) => c = d
    /\ d_error # Nobody => /\ how[d_error] = "set_error"
                           /\ d_kind = "set_error"
                           /\ \A c \in Children : ~Deciding(c)

\* The kind of the completion has its reason.
Reason ==
    /\ d_kind = "set_stopped" => \E c \in Children : how[c] = "set_stopped"
    /\ d_kind = "set_error" =>
         \/ d_error # Nobody
         \/ \E c \in Children : Deciding(c) /\ how[c] = "set_error"

Progressing == \A c \in Children : Progress(c)

IInv == TypeOK /\ Counting /\ Progressing /\ Deciders /\ Reason

-----------------------------------------------------------------------------

\* The set of children is finite.
LEMMA ChildrenFinite == IsFiniteSet(Children) /\ Cardinality(Children) = N
BY FS_Interval, NAssumption DEF Children

\* The facts about 1..N and the special values the proofs use.
LEMMA Numbers ==
    /\ Children \subseteq Nat
    /\ Nobody \notin Children
    /\ Outer \notin Children
    /\ N \in Nat
    /\ \A c \in Children : c \in 1..N
BY NAssumption DEF Children, Nobody, Outer

\* Initially nothing is counted, stored or decided.
LEMMA InitIInv == Init => IInv
<1> SUFFICES ASSUME Init PROVE IInv
  OBVIOUS
<1>a. d_count \in 0..N /\ started \in 0..N
  BY NAssumption DEF Init
<1>b. phase \in [Children -> Source!Phase] /\ requested \in BOOLEAN /\ over \in BOOLEAN
  BY DEF Init, Source!Init, Source!Phase
<1>c. /\ pc \in [Children -> {"idle", "running", "removing", "ending", "stop",
                              "stopping", "emplace", "complete", "done"}]
      /\ how \in [Children -> Kind \cup {"pending"}]
      /\ listens \in [Children -> BOOLEAN]
  BY DEF Init
<1>d. /\ d_kind \in Kind /\ outcome \in Kind \cup {"pending"} /\ alive \in BOOLEAN
      /\ onstop \in {"no", "stopping", "done"}
      /\ d_error \in Children \cup {Nobody}
      /\ d_result \subseteq Children
      /\ stopper \in Children \cup {Outer, Nobody}
      /\ marker \in Children \cup {Outer, Nobody}
      /\ spinning \subseteq Children \cup {Outer}
  BY DEF Init, Kind
<1>1. TypeOK
  BY <1>a, <1>b, <1>c, <1>d DEF TypeOK
<1>2. Open = Children
  BY DEF Init, Open
<1>3. Children # {}
  BY NAssumption DEF Children
<1>4. Counting
  BY <1>2, <1>3, ChildrenFinite DEF Init, Counting
<1>5. Progressing
  BY Numbers DEF Init, Progressing, Progress, Deciding
<1>6. Deciders /\ Reason
  BY DEF Init, Deciders, Reason, Deciding
<1> QED
  BY <1>1, <1>4, <1>5, <1>6 DEF IInv

\* A step that neither lets a child call complete() nor changes the counter
\* keeps Counting.
LEMMA CountingKept ==
    ASSUME TypeOK, Counting, TypeOK',
           \A c \in Children : pc'[c] = "done" <=> pc[c] = "done",
           UNCHANGED <<d_count, outcome, alive>>,
           outcome # "pending" => UNCHANGED d_kind
    PROVE  Counting'
<1>1. Open' = Open
  BY DEF Open
<1> QED
  BY <1>1 DEF Counting

\* When every child is done no child runs.
LEMMA NobodyRuns ==
    ASSUME IInv, outcome # "pending", NEW c \in Children
    PROVE  pc[c] = "done"
BY DEF IInv, Counting, Open

\* start() of a child keeps the inductive invariant.
LEMMA KeepsStartChild ==
    ASSUME IInv, NEW c \in Children, StartChild(c)
    PROVE  IInv'
<1> USE Numbers, NAssumption
<1>0. TypeOK /\ Counting /\ Progressing /\ Deciders /\ Reason
  BY DEF IInv
<1>1. TypeOK'
  <2>1. phase' \in [Children -> Source!Phase]
    BY <1>0 DEF TypeOK, StartChild, source, Source!Register, Source!Invoke, Source!Phase
  <2>2. spinning' \subseteq Children \cup {Outer}
    BY <1>0 DEF TypeOK, StartChild
  <2>3. requested' = requested /\ over' = over
    BY DEF StartChild, source, Source!Register, Source!Invoke
  <2> QED BY <1>0, <2>1, <2>2, <2>3 DEF TypeOK, StartChild, Goto
<1>2. pc[c] = "idle"
  BY <1>0 DEF Progressing, Progress, TypeOK, StartChild, Goto, source, Source!Register, Source!Invoke
<1>3. Counting'
  BY <1>0, <1>1, <1>2, CountingKept, NobodyRuns DEF TypeOK, StartChild, Goto, source, Source!Register, Source!Invoke
<1>7. Progressing'
  <2> SUFFICES ASSUME NEW d \in Children PROVE Progress(d)'
    BY DEF Progressing
  <2>1. Progress(d) /\ Progress(c)
    BY <1>0 DEF Progressing
  <2> QED
    BY <2>1, <1>0 DEF Progress, Deciding, TypeOK, Kind, Deciders, StartChild, Goto, source, Source!Register, Source!Invoke
<1>8. Deciders'
  BY <1>0 DEF Deciders, Deciding, Progressing, Progress, TypeOK, Kind, StartChild, Goto, source, Source!Register, Source!Invoke
<1>9. Reason'
  BY <1>0 DEF Reason, Deciding, Progressing, Progress, TypeOK, Kind, StartChild, Goto, source, Source!Register, Source!Invoke
<1> QED
  BY <1>1, <1>3, <1>7, <1>8, <1>9 DEF IInv

\* Taking the marker in remove() keeps the inductive invariant.
LEMMA KeepsRemove ==
    ASSUME IInv, NEW c \in Children, Remove(c)
    PROVE  IInv'
<1> USE Numbers, NAssumption
<1>0. TypeOK /\ Counting /\ Progressing /\ Deciders /\ Reason
  BY DEF IInv
<1>1. TypeOK'
  BY <1>0 DEF TypeOK, Kind, Source!Phase, Remove, Goto, source
<1>2. Counting'
  BY <1>0, <1>1, CountingKept, NobodyRuns DEF TypeOK, Remove, Goto, source
<1>7. Progressing'
  <2> SUFFICES ASSUME NEW d \in Children PROVE Progress(d)'
    BY DEF Progressing
  <2>1. Progress(d) /\ Progress(c)
    BY <1>0 DEF Progressing
  <2> QED
    BY <2>1, <1>0 DEF Progress, Deciding, TypeOK, Kind, Deciders, Remove, Goto, source
<1>8. Deciders'
  BY <1>0 DEF Deciders, Deciding, Progressing, Progress, TypeOK, Kind, Remove, Goto, source
<1>9. Reason'
  BY <1>0 DEF Reason, Deciding, Progressing, Progress, TypeOK, Kind, Remove, Goto, source
<1> QED
  BY <1>1, <1>2, <1>7, <1>8, <1>9 DEF IInv

\* The end of remove() keeps the inductive invariant.
LEMMA KeepsRemoved ==
    ASSUME IInv, NEW c \in Children, Removed(c)
    PROVE  IInv'
<1> USE Numbers, NAssumption
<1>0. TypeOK /\ Counting /\ Progressing /\ Deciders /\ Reason
  BY DEF IInv
<1>1. TypeOK'
  BY <1>0 DEF TypeOK, Kind, Source!Phase, Removed, Goto, Source!Drop
<1>2. Counting'
  BY <1>0, <1>1, CountingKept, NobodyRuns DEF TypeOK, Removed, Goto, Source!Drop
<1>7. Progressing'
  <2> SUFFICES ASSUME NEW d \in Children PROVE Progress(d)'
    BY DEF Progressing
  <2>1. Progress(d) /\ Progress(c)
    BY <1>0 DEF Progressing
  <2> QED
    BY <2>1, <1>0 DEF Progress, Deciding, TypeOK, Kind, Deciders, Removed, Goto, Source!Drop
<1>8. Deciders'
  BY <1>0 DEF Deciders, Deciding, Progressing, Progress, TypeOK, Kind, Removed, Goto, Source!Drop
<1>9. Reason'
  BY <1>0 DEF Reason, Deciding, Progressing, Progress, TypeOK, Kind, Removed, Goto, Source!Drop
<1> QED
  BY <1>1, <1>2, <1>7, <1>8, <1>9 DEF IInv

\* set_value of a child keeps the inductive invariant.
LEMMA KeepsSetValue ==
    ASSUME IInv, NEW c \in Children, SetValue(c)
    PROVE  IInv'
<1> USE Numbers, NAssumption
<1>0. TypeOK /\ Counting /\ Progressing /\ Deciders /\ Reason
  BY DEF IInv
<1>1. TypeOK'
  BY <1>0 DEF TypeOK, Kind, Source!Phase, SetValue, ChildEnds, Goto, Source!Drop
<1>2. Counting'
  BY <1>0, <1>1, CountingKept, NobodyRuns DEF TypeOK, SetValue, ChildEnds, Goto, Source!Drop
<1>7. Progressing'
  <2> SUFFICES ASSUME NEW d \in Children PROVE Progress(d)'
    BY DEF Progressing
  <2>1. Progress(d) /\ Progress(c)
    BY <1>0 DEF Progressing
  <2> QED
    BY <2>1, <1>0 DEF Progress, Deciding, TypeOK, Kind, Deciders, SetValue, ChildEnds, Goto, Source!Drop
<1>8. Deciders'
  BY <1>0 DEF Deciders, Deciding, Progressing, Progress, TypeOK, Kind, SetValue, ChildEnds, Goto, Source!Drop
<1>9. Reason'
  BY <1>0 DEF Reason, Deciding, Progressing, Progress, TypeOK, Kind, SetValue, ChildEnds, Goto, Source!Drop
<1> QED
  BY <1>1, <1>2, <1>7, <1>8, <1>9 DEF IInv

\* set_error of a child keeps the inductive invariant.
LEMMA KeepsSetError ==
    ASSUME IInv, NEW c \in Children, SetError(c)
    PROVE  IInv'
<1> USE Numbers, NAssumption
<1>0. TypeOK /\ Counting /\ Progressing /\ Deciders /\ Reason
  BY DEF IInv
<1>1. TypeOK'
  BY <1>0 DEF TypeOK, Kind, Source!Phase, SetError, Fail, ChildEnds, Goto, Source!Drop
<1>2. Counting'
  BY <1>0, <1>1, CountingKept, NobodyRuns DEF TypeOK, SetError, Fail, ChildEnds, Goto, Source!Drop
<1>7. Progressing'
  <2> SUFFICES ASSUME NEW d \in Children PROVE Progress(d)'
    BY DEF Progressing
  <2>1. Progress(d) /\ Progress(c)
    BY <1>0 DEF Progressing
  <2> QED
    BY <2>1, <1>0 DEF Progress, Deciding, TypeOK, Kind, Deciders, SetError, Fail, ChildEnds, Goto, Source!Drop
<1>8. Deciders'
  BY <1>0 DEF Deciders, Deciding, Progressing, Progress, TypeOK, Kind, SetError, Fail, ChildEnds, Goto, Source!Drop
<1>9. Reason'
  BY <1>0 DEF Reason, Deciding, Progressing, Progress, TypeOK, Kind, SetError, Fail, ChildEnds, Goto, Source!Drop
<1> QED
  BY <1>1, <1>2, <1>7, <1>8, <1>9 DEF IInv

\* set_stopped of a child keeps the inductive invariant.
LEMMA KeepsSetStopped ==
    ASSUME IInv, NEW c \in Children, SetStopped(c)
    PROVE  IInv'
<1> USE Numbers, NAssumption
<1>0. TypeOK /\ Counting /\ Progressing /\ Deciders /\ Reason
  BY DEF IInv
<1>1. TypeOK'
  BY <1>0 DEF TypeOK, Kind, Source!Phase, SetStopped, Fail, ChildEnds, Goto, Source!Drop
<1>2. Counting'
  BY <1>0, <1>1, CountingKept, NobodyRuns DEF TypeOK, SetStopped, Fail, ChildEnds, Goto, Source!Drop
<1>7. Progressing'
  <2> SUFFICES ASSUME NEW d \in Children PROVE Progress(d)'
    BY DEF Progressing
  <2>1. Progress(d) /\ Progress(c)
    BY <1>0 DEF Progressing
  <2> QED
    BY <2>1, <1>0 DEF Progress, Deciding, TypeOK, Kind, Deciders, SetStopped, Fail, ChildEnds, Goto, Source!Drop
<1>8. Deciders'
  BY <1>0 DEF Deciders, Deciding, Progressing, Progress, TypeOK, Kind, SetStopped, Fail, ChildEnds, Goto, Source!Drop
<1>9. Reason'
  BY <1>0 DEF Reason, Deciding, Progressing, Progress, TypeOK, Kind, SetStopped, Fail, ChildEnds, Goto, Source!Drop
<1> QED
  BY <1>1, <1>2, <1>7, <1>8, <1>9 DEF IInv

\* A stop() that was requested before keeps the inductive invariant.
LEMMA KeepsStopReturns ==
    ASSUME IInv, NEW c \in Children, StopReturns(c)
    PROVE  IInv'
<1> USE Numbers, NAssumption
<1>0. TypeOK /\ Counting /\ Progressing /\ Deciders /\ Reason
  BY DEF IInv
<1>1. TypeOK'
  BY <1>0 DEF TypeOK, Kind, Source!Phase, StopReturns, AfterStop, Goto, source
<1>2. Counting'
  BY <1>0, <1>1, CountingKept, NobodyRuns DEF TypeOK, StopReturns, AfterStop, Goto, source
<1>7. Progressing'
  <2> SUFFICES ASSUME NEW d \in Children PROVE Progress(d)'
    BY DEF Progressing
  <2>1. Progress(d) /\ Progress(c)
    BY <1>0 DEF Progressing
  <2> QED
    BY <2>1, <1>0 DEF Progress, Deciding, TypeOK, Kind, Deciders, StopReturns, AfterStop, Goto, source
<1>8. Deciders'
  BY <1>0 DEF Deciders, Deciding, Progressing, Progress, TypeOK, Kind, StopReturns, AfterStop, Goto, source
<1>9. Reason'
  BY <1>0 DEF Reason, Deciding, Progressing, Progress, TypeOK, Kind, StopReturns, AfterStop, Goto, source
<1> QED
  BY <1>1, <1>2, <1>7, <1>8, <1>9 DEF IInv

\* The stop() of the deciding child keeps the inductive invariant.
LEMMA KeepsStopBegin ==
    ASSUME IInv, NEW c \in Children, StopBegin(c)
    PROVE  IInv'
<1> USE Numbers, NAssumption
<1>0. TypeOK /\ Counting /\ Progressing /\ Deciders /\ Reason
  BY DEF IInv
<1>1. TypeOK'
  BY <1>0 DEF TypeOK, Kind, Source!Phase, StopBegin, Goto, Source!Request
<1>2. Counting'
  BY <1>0, <1>1, CountingKept, NobodyRuns DEF TypeOK, StopBegin, Goto, Source!Request
<1>7. Progressing'
  <2> SUFFICES ASSUME NEW d \in Children PROVE Progress(d)'
    BY DEF Progressing
  <2>1. Progress(d) /\ Progress(c)
    BY <1>0 DEF Progressing
  <2> QED
    BY <2>1, <1>0 DEF Progress, Deciding, TypeOK, Kind, Deciders, StopBegin, Goto, Source!Request
<1>8. Deciders'
  BY <1>0 DEF Deciders, Deciding, Progressing, Progress, TypeOK, Kind, StopBegin, Goto, Source!Request
<1>9. Reason'
  BY <1>0 DEF Reason, Deciding, Progressing, Progress, TypeOK, Kind, StopBegin, Goto, Source!Request
<1> QED
  BY <1>1, <1>2, <1>7, <1>8, <1>9 DEF IInv

\* The end of the deciding child's stop() keeps the inductive invariant.
LEMMA KeepsStopEnd ==
    ASSUME IInv, NEW c \in Children, StopEnd(c)
    PROVE  IInv'
<1> USE Numbers, NAssumption
<1>0. TypeOK /\ Counting /\ Progressing /\ Deciders /\ Reason
  BY DEF IInv
<1>1. TypeOK'
  BY <1>0 DEF TypeOK, Kind, Source!Phase, StopEnd, AfterStop, Goto, Source!Complete
<1>2. pc[c] = "stopping"
  BY <1>0 DEF Progressing, Progress, TypeOK, StopEnd, AfterStop, Goto, Source!Complete
<1>3. Counting'
  BY <1>0, <1>1, <1>2, CountingKept, NobodyRuns DEF TypeOK, StopEnd, AfterStop, Goto, Source!Complete
<1>7. Progressing'
  <2> SUFFICES ASSUME NEW d \in Children PROVE Progress(d)'
    BY DEF Progressing
  <2>1. Progress(d) /\ Progress(c)
    BY <1>0 DEF Progressing
  <2> QED
    BY <2>1, <1>0 DEF Progress, Deciding, TypeOK, Kind, Deciders, StopEnd, AfterStop, Goto, Source!Complete
<1>8. Deciders'
  BY <1>0 DEF Deciders, Deciding, Progressing, Progress, TypeOK, Kind, StopEnd, AfterStop, Goto, Source!Complete
<1>9. Reason'
  BY <1>0 DEF Reason, Deciding, Progressing, Progress, TypeOK, Kind, StopEnd, AfterStop, Goto, Source!Complete
<1> QED
  BY <1>1, <1>3, <1>7, <1>8, <1>9 DEF IInv

\* Storing the error keeps the inductive invariant.
LEMMA KeepsEmplaceError ==
    ASSUME IInv, NEW c \in Children, EmplaceError(c)
    PROVE  IInv'
<1> USE Numbers, NAssumption
<1>0. TypeOK /\ Counting /\ Progressing /\ Deciders /\ Reason
  BY DEF IInv
<1>1. TypeOK'
  BY <1>0 DEF TypeOK, Kind, Source!Phase, EmplaceError, Goto, source
<1>2. Counting'
  BY <1>0, <1>1, CountingKept, NobodyRuns DEF TypeOK, EmplaceError, Goto, source
<1>7. Progressing'
  <2> SUFFICES ASSUME NEW d \in Children PROVE Progress(d)'
    BY DEF Progressing
  <2>1. Progress(d) /\ Progress(c)
    BY <1>0 DEF Progressing
  <2> QED
    BY <2>1, <1>0 DEF Progress, Deciding, TypeOK, Kind, Deciders, EmplaceError, Goto, source
<1>8. Deciders'
  BY <1>0 DEF Deciders, Deciding, Progressing, Progress, TypeOK, Kind, EmplaceError, Goto, source
<1>9. Reason'
  BY <1>0 DEF Reason, Deciding, Progressing, Progress, TypeOK, Kind, EmplaceError, Goto, source
<1> QED
  BY <1>1, <1>2, <1>7, <1>8, <1>9 DEF IInv

\* complete() keeps the inductive invariant.
LEMMA KeepsComplete ==
    ASSUME IInv, NEW c \in Children, Complete(c)
    PROVE  IInv'
<1> USE Numbers, NAssumption
<1>0. TypeOK /\ Counting /\ Progressing /\ Deciders /\ Reason
  BY DEF IInv
<1>2. Open' = Open \ {c} /\ c \in Open
  BY <1>0 DEF TypeOK, Open, Complete, Goto
<1>3. Cardinality(Open') = Cardinality(Open) - 1 /\ IsFiniteSet(Open')
  <2>1. IsFiniteSet(Open)
    BY ChildrenFinite, FS_Subset DEF Open
  <2> QED
    BY <1>2, <2>1, FS_RemoveElement
<1>4. Cardinality(Open') = 0 <=> Open' = {}
  BY <1>3, FS_EmptySet
<1>5. d_count' = Cardinality(Open') /\ outcome = "pending"
  BY <1>0, <1>2, <1>3 DEF Counting, Complete
<1>1. TypeOK'
  <2>1. Cardinality(Open') \in Nat
    BY <1>3, FS_CardinalityType
  <2>2. d_count' \in 0..N
    BY <1>0, <1>5, <2>1 DEF TypeOK, Complete
  <2> QED
    BY <1>0, <2>2 DEF TypeOK, Kind, Complete, DoComplete, Goto, source
<1>6. Counting'
  <2>1. CASE Open' = {}
    BY <2>1, <1>0, <1>4, <1>5 DEF TypeOK, Kind, Counting, Complete, DoComplete
  <2>2. CASE Open' # {}
    BY <2>2, <1>0, <1>4, <1>5 DEF TypeOK, Kind, Counting, Complete, DoComplete
  <2> QED
    BY <2>1, <2>2
<1>7. Progressing'
  <2> SUFFICES ASSUME NEW d \in Children PROVE Progress(d)'
    BY DEF Progressing
  <2>1. Progress(d) /\ Progress(c)
    BY <1>0 DEF Progressing
  <2> QED
    BY <2>1, <1>0 DEF Progress, Deciding, TypeOK, Kind, Deciders, Complete, DoComplete, Goto, source
<1>8. Deciders'
  BY <1>0 DEF Deciders, Deciding, Progressing, Progress, TypeOK, Kind, Complete, DoComplete, Goto, source
<1>9. Reason'
  BY <1>0 DEF Reason, Deciding, Progressing, Progress, TypeOK, Kind, Complete, DoComplete, Goto, source
<1> QED
  BY <1>1, <1>6, <1>7, <1>8, <1>9 DEF IInv

\* Taking the marker in stop() keeps the inductive invariant.
LEMMA KeepsStopTakes ==
    ASSUME IInv, StopTakes
    PROVE  IInv'
<1> USE Numbers, NAssumption
<1>0. TypeOK /\ Counting /\ Progressing /\ Deciders /\ Reason
  BY DEF IInv
<1>1. TypeOK'
  BY <1>0 DEF TypeOK, Kind, Source!Phase, StopTakes, source
<1>2. Counting'
  BY <1>0, <1>1, CountingKept, NobodyRuns DEF TypeOK, StopTakes, source
<1>7. Progressing'
  <2> SUFFICES ASSUME NEW d \in Children PROVE Progress(d)'
    BY DEF Progressing
  <2>1. Progress(d)
    BY <1>0 DEF Progressing
  <2> QED
    BY <2>1, <1>0 DEF Progress, Deciding, TypeOK, Kind, Deciders, StopTakes, source
<1>8. Deciders'
  BY <1>0 DEF Deciders, Deciding, Progressing, Progress, TypeOK, Kind, StopTakes, source
<1>9. Reason'
  BY <1>0 DEF Reason, Deciding, Progressing, Progress, TypeOK, Kind, StopTakes, source
<1> QED
  BY <1>1, <1>2, <1>7, <1>8, <1>9 DEF IInv

\* A stop callback keeps the inductive invariant.
LEMMA KeepsStopCalls ==
    ASSUME IInv, NEW c \in Children, StopCalls(c)
    PROVE  IInv'
<1> USE Numbers, NAssumption
<1>0. TypeOK /\ Counting /\ Progressing /\ Deciders /\ Reason
  BY DEF IInv
<1>1. TypeOK'
  BY <1>0 DEF TypeOK, Kind, Source!Phase, StopCalls, Source!Invoke
<1>2. Counting'
  BY <1>0, <1>1, CountingKept, NobodyRuns DEF TypeOK, StopCalls, Source!Invoke
<1>7. Progressing'
  <2> SUFFICES ASSUME NEW d \in Children PROVE Progress(d)'
    BY DEF Progressing
  <2>1. Progress(d) /\ Progress(c)
    BY <1>0 DEF Progressing
  <2> QED
    BY <2>1, <1>0 DEF Progress, Deciding, TypeOK, Kind, Deciders, StopCalls, Source!Invoke
<1>8. Deciders'
  BY <1>0 DEF Deciders, Deciding, Progressing, Progress, TypeOK, Kind, StopCalls, Source!Invoke
<1>9. Reason'
  BY <1>0 DEF Reason, Deciding, Progressing, Progress, TypeOK, Kind, StopCalls, Source!Invoke
<1> QED
  BY <1>1, <1>2, <1>7, <1>8, <1>9 DEF IInv

\* on_stop keeps the inductive invariant.
LEMMA KeepsOnStop ==
    ASSUME IInv, OnStop
    PROVE  IInv'
<1> USE Numbers, NAssumption
<1>0. TypeOK /\ Counting /\ Progressing /\ Deciders /\ Reason
  BY DEF IInv
<1>1. TypeOK'
  BY <1>0 DEF TypeOK, Kind, Source!Phase, OnStop, source, Source!Request
<1>2. Counting'
  BY <1>0, <1>1, CountingKept, NobodyRuns DEF TypeOK, OnStop, source, Source!Request
<1>7. Progressing'
  <2> SUFFICES ASSUME NEW d \in Children PROVE Progress(d)'
    BY DEF Progressing
  <2>1. Progress(d)
    BY <1>0 DEF Progressing
  <2> QED
    BY <2>1, <1>0 DEF Progress, Deciding, TypeOK, Kind, Deciders, OnStop, source, Source!Request
<1>8. Deciders'
  BY <1>0 DEF Deciders, Deciding, Progressing, Progress, TypeOK, Kind, OnStop, source, Source!Request
<1>9. Reason'
  BY <1>0 DEF Reason, Deciding, Progressing, Progress, TypeOK, Kind, OnStop, source, Source!Request
<1> QED
  BY <1>1, <1>2, <1>7, <1>8, <1>9 DEF IInv

\* The end of on_stop keeps the inductive invariant.
LEMMA KeepsOnStopEnd ==
    ASSUME IInv, OnStopEnd
    PROVE  IInv'
<1> USE Numbers, NAssumption
<1>0. TypeOK /\ Counting /\ Progressing /\ Deciders /\ Reason
  BY DEF IInv
<1>1. TypeOK'
  BY <1>0 DEF TypeOK, Kind, Source!Phase, OnStopEnd, Source!Complete
<1>2. Counting'
  BY <1>0, <1>1, CountingKept, NobodyRuns DEF TypeOK, OnStopEnd, Source!Complete
<1>7. Progressing'
  <2> SUFFICES ASSUME NEW d \in Children PROVE Progress(d)'
    BY DEF Progressing
  <2>1. Progress(d)
    BY <1>0 DEF Progressing
  <2> QED
    BY <2>1, <1>0 DEF Progress, Deciding, TypeOK, Kind, Deciders, OnStopEnd, Source!Complete
<1>8. Deciders'
  BY <1>0 DEF Deciders, Deciding, Progressing, Progress, TypeOK, Kind, OnStopEnd, Source!Complete
<1>9. Reason'
  BY <1>0 DEF Reason, Deciding, Progressing, Progress, TypeOK, Kind, OnStopEnd, Source!Complete
<1> QED
  BY <1>1, <1>2, <1>7, <1>8, <1>9 DEF IInv

\* The destruction of the operation state keeps the inductive invariant.
LEMMA KeepsDestroy ==
    ASSUME IInv, Destroy
    PROVE  IInv'
<1> USE Numbers, NAssumption
<1>0. TypeOK /\ Counting /\ Progressing /\ Deciders /\ Reason
  BY DEF IInv
<1>1. TypeOK'
  BY <1>0 DEF TypeOK, Kind, Source!Phase, Destroy, source
<1>2. Counting'
  <2>1. Open' = Open
    BY DEF Destroy, Open
  <2> QED
    BY <1>0, <2>1 DEF Counting, Destroy
<1>7. Progressing'
  <2> SUFFICES ASSUME NEW d \in Children PROVE Progress(d)'
    BY DEF Progressing
  <2>1. Progress(d)
    BY <1>0 DEF Progressing
  <2> QED
    BY <2>1, <1>0 DEF Progress, Deciding, TypeOK, Kind, Deciders, Destroy, source
<1>8. Deciders'
  BY <1>0 DEF Deciders, Deciding, Progressing, Progress, TypeOK, Kind, Destroy, source
<1>9. Reason'
  BY <1>0 DEF Reason, Deciding, Progressing, Progress, TypeOK, Kind, Destroy, source
<1> QED
  BY <1>1, <1>2, <1>7, <1>8, <1>9 DEF IInv

-----------------------------------------------------------------------------

\* Every step keeps the inductive invariant.
LEMMA NextIInv == IInv /\ [Next]_vars => IInv'
<1> SUFFICES ASSUME IInv, [Next]_vars PROVE IInv'
  OBVIOUS
<1>1. ASSUME NEW c \in Children, StartChild(c) PROVE IInv'
  BY <1>1, KeepsStartChild
<1>2. ASSUME NEW c \in Children, End(c) PROVE IInv'
  BY <1>2, KeepsSetValue, KeepsSetError, KeepsSetStopped DEF End
<1>3. ASSUME NEW c \in Children, Receiver(c) PROVE IInv'
  BY <1>3, KeepsStopReturns, KeepsStopBegin, KeepsStopEnd, KeepsEmplaceError,
     KeepsComplete DEF Receiver
<1>4. ASSUME NEW c \in Children, StopCalls(c) PROVE IInv'
  BY <1>4, KeepsStopCalls
<1>5. CASE OnStop
  BY <1>5, KeepsOnStop
<1>6. CASE OnStopEnd
  BY <1>6, KeepsOnStopEnd
<1>7. CASE Destroy
  BY <1>7, KeepsDestroy
<1>8. CASE StopTakes
  BY <1>8, KeepsStopTakes
<1>9. ASSUME NEW c \in Children, Remove(c) \/ Removed(c) PROVE IInv'
  BY <1>9, KeepsRemove, KeepsRemoved
<1>10. CASE UNCHANGED vars
  BY <1>10 DEF vars, IInv, TypeOK, Counting, Open, Progressing, Progress, Deciding,
     Deciders, Reason
<1> QED
  BY <1>1, <1>2, <1>3, <1>4, <1>5, <1>6, <1>7, <1>8, <1>9, <1>10 DEF Next

\* IInv holds in every reachable state.
THEOREM Invariant == Spec => []IInv
<1>1. Init => IInv
  BY InitIInv
<1>2. IInv /\ [Next]_vars => IInv'
  BY NextIInv
<1> QED
  BY <1>1, <1>2, PTL DEF Spec

\* The members of the operation state keep their types; the counter of
\* outstanding children never wraps.
THEOREM TypeCorrect == Spec => []TypeOK
<1>1. IInv => TypeOK
  BY DEF IInv
<1> QED
  BY <1>1, Invariant, PTL

\* With any number of children the downstream receiver gets what the children
\* completed with: all the results, a stored error, or stopped.
THEOREM HonestOutcome == Spec => []OutcomeHonest
<1>1. IInv => OutcomeHonest
  <2> SUFFICES ASSUME IInv, outcome # "pending" PROVE OutcomeHonest
    BY DEF OutcomeHonest
  <2>1. outcome = d_kind /\ \A c \in Children : pc[c] = "done"
    BY NobodyRuns DEF IInv, Counting
  <2>2. \A c \in Children : how[c] \in Kind /\ ~Deciding(c) /\ Progress(c)
    BY <2>1 DEF IInv, Progressing, Progress, Deciding, TypeOK
  <2>3. d_kind = "set_value" => \A c \in Children : how[c] = "set_value"
    BY <2>2 DEF Progress, Kind
  <2>4. d_kind = "set_value" => d_result = Children
    BY <2>2, <2>3 DEF Progress, IInv, TypeOK
  <2>5. d_kind = "set_error" => d_error \in Children /\ how[d_error] = "set_error"
    BY <2>2 DEF IInv, Reason, Deciders, TypeOK
  <2>6. d_kind = "set_stopped" => \E c \in Children : how[c] = "set_stopped"
    BY DEF IInv, Reason
  <2> QED
    BY <2>1, <2>3, <2>4, <2>5, <2>6 DEF OutcomeHonest, IInv, TypeOK, Kind
<1> QED
  BY <1>1, Invariant, PTL

\* The downstream receiver is completed by the last receiver to finish; nothing
\* but on_stop is left to use the operation state when it is destroyed.
THEOREM CompletedByLast == Spec => []LastChildCompletes
<1>1. IInv => LastChildCompletes
  <2> SUFFICES ASSUME IInv PROVE LastChildCompletes
    OBVIOUS
  <2>1. outcome # "pending" <=> \A c \in Children : pc[c] = "done"
    BY DEF IInv, Counting, Open
  <2>2. ASSUME ~alive PROVE started = N /\ stopper \notin Children
    <3>1. \A c \in Children : pc[c] = "done" /\ Progress(c)
      BY <2>1, <2>2 DEF IInv, Counting, Progressing
    <3>2. stopper \notin Children
      BY <3>1 DEF Progress
    <3>3. N \in Children /\ started \in 0..N
      BY NAssumption DEF Children, IInv, TypeOK
    <3> QED
      BY <3>1, <3>2, <3>3, NAssumption DEF Progress
  <2> QED
    BY <2>1, <2>2 DEF LastChildCompletes
<1> QED
  BY <1>1, Invariant, PTL

\* The decision of the first failing child is never replaced, and the
\* downstream receiver is completed once.
THEOREM FirstFailure == Spec => FirstFailureDecides
<1> DEFINE Kept ==
      /\ d_kind # "set_value" => UNCHANGED d_kind
      /\ d_error # Nobody => UNCHANGED d_error
      /\ outcome # "pending" => UNCHANGED outcome
<1>1. IInv /\ [Next]_vars => [Kept]_vars
  <2> SUFFICES ASSUME IInv, Next PROVE Kept
    OBVIOUS
  <2>1. ASSUME NEW c \in Children,
               StartChild(c) \/ Remove(c) \/ Removed(c) \/ StopCalls(c)
        PROVE  Kept
    BY <2>1 DEF StartChild, Remove, Removed, StopCalls
  <2>2. ASSUME NEW c \in Children, End(c) PROVE Kept
    BY <2>2 DEF End, SetValue, SetError, SetStopped, Fail, ChildEnds
  <2>3. ASSUME NEW c \in Children, StopReturns(c) \/ StopBegin(c) \/ StopEnd(c) PROVE Kept
    BY <2>3 DEF StopReturns, StopBegin, StopEnd
  <2>4. ASSUME NEW c \in Children, EmplaceError(c) PROVE Kept
    BY <2>4 DEF EmplaceError, IInv, Deciders, Deciding
  <2>5. ASSUME NEW c \in Children, Complete(c) PROVE Kept
    BY <2>5, NobodyRuns DEF Complete
  <2>6. CASE StopTakes \/ OnStop \/ OnStopEnd \/ Destroy
    BY <2>6 DEF StopTakes, OnStop, OnStopEnd, Destroy
  <2> QED
    BY <2>1, <2>2, <2>3, <2>4, <2>5, <2>6 DEF Next, Receiver
<1> QED
  BY <1>1, Invariant, PTL DEF Spec, FirstFailureDecides

-----------------------------------------------------------------------------
(* A failure reaches every child                                           *)

\* After a failure, or a stop from downstream, a child that waits for a stop
\* was told, is registered while stop() is still at work, or somebody is about
\* to call stop(), unless stop() or insert() met a marker and spins.
EveryChildIsTold ==
    (d_kind # "set_value" \/ onstop # "no") /\ spinning = {} =>
        \A c \in Children : pc[c] = "running" /\ listens[c] =>
            \/ phase[c] = "invoked"
            \/ phase[c] = "registered" /\ stopper # Nobody
            \/ \E d \in Children : pc[d] = "stop"

\* A child that listens is registered until it is told, if insert() returns.
Registered ==
    \A c \in Children : pc[c] = "running" /\ listens[c] /\ c \notin spinning =>
        phase[c] \in {"registered", "invoked"}

\* A request is processed or being processed, and when it is processed nobody
\* is left to be told.
Processed ==
    /\ over => \A c \in Children : phase[c] # "registered"
    /\ requested => over \/ stopper # Nobody

\* A failure and a stop from downstream lead to a request.
Requested ==
    /\ d_kind # "set_value" => requested \/ \E d \in Children : pc[d] = "stop"
    /\ onstop # "no" => requested

Told == Registered /\ Processed /\ Requested

\* Every step keeps what is known of the children's callbacks.
LEMMA ToldStep == IInv /\ Told /\ [Next]_vars => Told'
<1> SUFFICES ASSUME IInv, Told, [Next]_vars PROVE Told'
  OBVIOUS
<1>0. TypeOK /\ Registered /\ Processed /\ Requested
  BY DEF IInv, Told
<1> USE Numbers DEF Told, TypeOK, Goto, source
<1>1. ASSUME NEW c \in Children, StartChild(c) PROVE Told'
  <2>1. pc[c] = "idle"
    <3>1. c > started
      BY <1>0, <1>1 DEF StartChild, Children
    <3> QED BY <3>1 DEF IInv, Progressing, Progress
  <2>2. /\ pc' = [pc EXCEPT ![c] = "running"]
        /\ UNCHANGED <<d_kind, stopper, onstop, listens, requested, over>>
        /\ spinning \subseteq spinning'
    BY <1>1 DEF StartChild, Source!Register, Source!Invoke
  <2>3. CASE (~listens[c] \/ c \in spinning') /\ phase' = phase
    BY <1>0, <2>1, <2>2, <2>3 DEF Registered, Processed, Requested
  <2>4. CASE ~over /\ phase' = [phase EXCEPT ![c] = "registered"]
    BY <1>0, <2>1, <2>2, <2>4 DEF Registered, Processed, Requested
  <2>5. CASE phase' = [phase EXCEPT ![c] = "invoked"]
    BY <1>0, <2>1, <2>2, <2>5 DEF Registered, Processed, Requested
  <2> QED BY <1>1, <2>3, <2>4, <2>5 DEF StartChild, Source!Register, Source!Invoke
<1>2. ASSUME NEW c \in Children, End(c) PROVE Told'
  <2>1. /\ pc[c] \in {"running", "ending"} /\ phase' = [phase EXCEPT ![c] = "none"]
        /\ UNCHANGED <<stopper, spinning, onstop, listens, requested, over>>
    BY <1>2 DEF End, SetValue, SetError, SetStopped, Fail, ChildEnds, Source!Drop
  <2>2. /\ \E l \in {"complete", "stop"} : pc' = [pc EXCEPT ![c] = l]
        /\ d_kind' # "set_value" => d_kind # "set_value" \/ pc'[c] = "stop"
    BY <1>0, <1>2 DEF End, SetValue, SetError, SetStopped, Fail
  <2>3. Registered' /\ Processed'
    BY <1>0, <2>1, <2>2 DEF Registered, Processed
  <2>4. Requested'
    <3>1. \A d \in Children : pc[d] = "stop" => pc'[d] = "stop"
      BY <1>0, <2>1, <2>2
    <3> QED BY <1>0, <2>1, <2>2, <3>1 DEF Requested
  <2> QED BY <2>3, <2>4
<1>3. ASSUME NEW c \in Children, StopReturns(c) PROVE Told'
  BY <1>0, <1>3 DEF StopReturns, AfterStop, Registered, Processed, Requested
<1>4. ASSUME NEW c \in Children, StopBegin(c) PROVE Told'
  BY <1>0, <1>4 DEF StopBegin, Source!Request, Registered, Processed, Requested
<1>5. ASSUME NEW c \in Children, StopEnd(c) PROVE Told'
  <2>1. pc[c] = "stopping"
    BY <1>5 DEF StopEnd, IInv, Progressing, Progress
  <2> QED BY <1>0, <1>5, <2>1
         DEF StopEnd, AfterStop, Source!Complete, Registered, Processed, Requested
<1>6. ASSUME NEW c \in Children, EmplaceError(c) \/ Complete(c) PROVE Told'
  BY <1>0, <1>6 DEF EmplaceError, Complete, Registered, Processed, Requested
<1>7. ASSUME NEW c \in Children, StopCalls(c) PROVE Told'
  BY <1>0, <1>7 DEF StopCalls, Source!Invoke, Registered, Processed, Requested
<1>8. CASE OnStop
  BY <1>0, <1>8 DEF OnStop, Source!Request, Registered, Processed, Requested, Outer, Nobody
<1>9. CASE OnStopEnd
  BY <1>0, <1>9 DEF OnStopEnd, Source!Complete, Registered, Processed, Requested
<1>10. CASE Destroy \/ UNCHANGED vars
  BY <1>0, <1>10 DEF Destroy, vars, Registered, Processed, Requested
<1>11. ASSUME NEW c \in Children, Remove(c) \/ Removed(c) PROVE Told'
  BY <1>0, <1>11
     DEF Remove, Removed, Source!Drop, Registered, Processed, Requested
<1>12. CASE StopTakes
  BY <1>0, <1>12 DEF StopTakes, Registered, Processed, Requested
<1> QED
  BY <1>1, <1>2, <1>3, <1>4, <1>5, <1>6, <1>7, <1>8, <1>9, <1>10, <1>11, <1>12
     DEF Next, Receiver

\* The safety part of FailureEndsAll: no child is forgotten by the stop, be
\* it started, registered or ended before, while or after stop() runs.
THEOREM NobodyForgotten == Spec => []EveryChildIsTold
<1>1. Init => Told
  BY DEF Init, Told, Registered, Processed, Requested, Source!Init
<1>2. Told => EveryChildIsTold
  BY DEF Told, Registered, Processed, Requested, EveryChildIsTold
<1> QED BY <1>1, <1>2, ToldStep, Invariant, PTL DEF Spec

=============================================================================
