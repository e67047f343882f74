--------------------------- MODULE RunLoop_proofs ---------------------------
(***************************************************************************)
(* Proofs about RunLoop, for any runners, operations and bounds.           *)
(***************************************************************************)
EXTENDS RunLoop, SequenceTheorems, TLAPS

\* The element o is in the sequence s.
In(s, o) == \E i \in DOMAIN s : s[i] = o

\* No element is in the sequence s twice.
Distinct(s) == \A i, j \in DOMAIN s : s[i] = s[j] => i = j

\* The queue holds exactly the queued operations, each once.
Queue ==
    /\ Distinct(d_list)
    /\ \A o \in Ops : op[o] = "queued" <=> In(d_list, o)

\* An operation taken off the queue belongs to the one runner executing it.
Taken ==
    /\ \A t \in Runners : pc[t] = "execute" <=> cur[t] # None
    /\ \A o \in Ops : op[o] = "taken" <=> \E t \in Runners : cur[t] = o
    /\ \A t, u \in Runners : cur[t] # None /\ cur[t] = cur[u] => t = u

\* The executions account for the starts of the storage location o.
Account(o) ==
    /\ runs[o] + (IF Pending(o) THEN 1 ELSE 0) = starts[o]
    /\ op[o] = "connected" => starts[o] < MaxStarts

Accounts == \A o \in Ops : Account(o)

\* What is known of the operations queued at finish(), before and after run()
\* returns.
Ending ==
    /\ d_phase = "starting" => before = {} /\ ~returned
    /\ \A o \in before : op[o] \notin {"raw", "connected"}
    /\ returned => \A o \in before : op[o] # "queued"

\* A loop is destroyed when nobody uses it.
Quiet ==
    /\ alive # "alive" => notifying = 0 /\ \A t \in Runners : pc[t] = "idle"
    /\ alive = "terminated" => d_list # <<>>
    /\ notifying <= finishes

IInv == TypeOK /\ Queue /\ Taken /\ Accounts /\ Ending /\ Quiet

-----------------------------------------------------------------------------

\* Appending a new element keeps the elements distinct.
LEMMA AppendElement ==
    ASSUME NEW s \in Seq(Ops), NEW o \in Ops, Distinct(s), ~In(s, o)
    PROVE  /\ Append(s, o) \in Seq(Ops)
           /\ Distinct(Append(s, o))
           /\ \A x \in Ops : In(Append(s, o), x) <=> In(s, x) \/ x = o
<1>1. /\ Append(s, o) \in Seq(Ops)
      /\ Len(Append(s, o)) = Len(s) + 1
      /\ \A i \in 1..Len(s) : Append(s, o)[i] = s[i]
      /\ Append(s, o)[Len(s) + 1] = o
  BY AppendProperties
<1>2. DOMAIN s = 1..Len(s) /\ DOMAIN Append(s, o) = 1..(Len(s) + 1) /\ Len(s) \in Nat
  BY <1>1, LenProperties
<1>3. Distinct(Append(s, o))
  BY <1>1, <1>2 DEF Distinct, In
<1>4. \A x \in Ops : In(Append(s, o), x) <=> In(s, x) \/ x = o
  <2> SUFFICES ASSUME NEW x \in Ops PROVE In(Append(s, o), x) <=> In(s, x) \/ x = o
    OBVIOUS
  <2>1. In(s, x) => In(Append(s, o), x)
    BY <1>1, <1>2 DEF In
  <2>2. In(Append(s, o), o)
    BY <1>1, <1>2 DEF In
  <2>3. In(Append(s, o), x) => In(s, x) \/ x = o
    BY <1>1, <1>2 DEF In
  <2> QED
    BY <2>1, <2>2, <2>3
<1> QED
  BY <1>1, <1>3, <1>4

\* Removing the front element keeps the others, and them distinct.
LEMMA TailElements ==
    ASSUME NEW s \in Seq(Ops), s # <<>>, Distinct(s)
    PROVE  /\ Head(s) \in Ops /\ In(s, Head(s))
           /\ Tail(s) \in Seq(Ops)
           /\ Distinct(Tail(s))
           /\ \A x \in Ops : In(Tail(s), x) <=> In(s, x) /\ x # Head(s)
<1>1. /\ Head(s) \in Ops /\ Tail(s) \in Seq(Ops)
      /\ Len(Tail(s)) = Len(s) - 1
      /\ \A i \in 1..(Len(s) - 1) : Tail(s)[i] = s[i + 1]
      /\ Head(s) = s[1]
  BY HeadTailProperties
<1>2. /\ DOMAIN s = 1..Len(s) /\ DOMAIN Tail(s) = 1..(Len(s) - 1)
      /\ Len(s) \in Nat /\ Len(s) >= 1
  BY <1>1, LenProperties, EmptySeq
<1>3. In(s, Head(s))
  BY <1>1, <1>2 DEF In
<1>4. Distinct(Tail(s))
  BY <1>1, <1>2 DEF Distinct
<1>5. \A x \in Ops : In(Tail(s), x) <=> In(s, x) /\ x # Head(s)
  <2> SUFFICES ASSUME NEW x \in Ops PROVE In(Tail(s), x) <=> In(s, x) /\ x # Head(s)
    OBVIOUS
  <2>1. ASSUME NEW i \in DOMAIN Tail(s), Tail(s)[i] = x PROVE In(s, x) /\ x # Head(s)
    BY <1>1, <1>2, <2>1 DEF In, Distinct
  <2>2. ASSUME NEW i \in DOMAIN s, s[i] = x, x # Head(s) PROVE In(Tail(s), x)
    <3>1. i - 1 \in DOMAIN Tail(s) /\ Tail(s)[i - 1] = x
      BY <1>1, <1>2, <2>2
    <3> QED
      BY <3>1 DEF In
  <2> QED
    BY <2>1, <2>2 DEF In
<1> QED
  BY <1>1, <1>3, <1>4, <1>5

\* Initially nothing is queued.
LEMMA InitIInv == Init => IInv
<1> SUFFICES ASSUME Init PROVE IInv
  OBVIOUS
<1>a. 0 \in 0..MaxStarts /\ 0 \in 0..MaxFinish
  BY BoundsAssumption
<1>e. d_list \in Seq(Ops)
  BY DEF Init
<1>b. /\ d_phase = "starting" /\ alive = "alive"
      /\ before \subseteq Ops /\ returned \in BOOLEAN
      /\ finishes = 0 /\ notifying = 0
  BY DEF Init
<1>c. /\ op \in [Ops -> Life] /\ stop \in [Ops -> BOOLEAN]
      /\ starts \in [Ops -> 0..MaxStarts] /\ runs \in [Ops -> 0..MaxStarts]
  BY <1>a DEF Init, Life
<1>d. /\ pc \in [Runners -> {"idle", "pop", "waiting", "execute"}]
      /\ cur \in [Runners -> Ops \cup {None}]
  BY DEF Init
<1>1. TypeOK
  BY <1>a, <1>b, <1>c, <1>d, <1>e DEF TypeOK
<1>2. Queue
  BY DEF Init, Queue, Distinct, In
<1>3. Taken
  BY NoneAssumption DEF Init, Taken
<1>4. Accounts
  BY DEF Init, Accounts, Account, Pending
<1>5. Ending /\ Quiet
  BY DEF Init, Ending, Quiet
<1> QED
  BY <1>1, <1>2, <1>3, <1>4, <1>5 DEF IInv

\* connect() keeps the inductive invariant.
LEMMA KeepsConnect ==
    ASSUME IInv, NEW o \in Ops, Connect(o)
    PROVE  IInv'
<1> USE NoneAssumption, BoundsAssumption
<1>0. TypeOK /\ Queue /\ Taken /\ Accounts /\ Ending /\ Quiet
  BY DEF IInv
<1>3. TypeOK'
  BY <1>0 DEF TypeOK, Life, Quiet, Connect
<1>4. Queue'
  BY <1>0 DEF Queue, In, Distinct, TypeOK, Connect
<1>5. Taken'
  BY <1>0 DEF Taken, TypeOK, Connect
<1>6. Accounts'
  BY <1>0 DEF Accounts, Account, Pending, TypeOK, Connect
<1>7. Ending'
  BY <1>0 DEF Ending, TypeOK, Connect
<1>8. Quiet'
  BY <1>0 DEF Quiet, TypeOK, Connect
<1> QED
  BY <1>3, <1>4, <1>5, <1>6, <1>7, <1>8 DEF IInv

\* start() keeps the inductive invariant.
LEMMA KeepsStart ==
    ASSUME IInv, NEW o \in Ops, Start(o)
    PROVE  IInv'
<1> USE NoneAssumption, BoundsAssumption
<1>0. TypeOK /\ Queue /\ Taken /\ Accounts /\ Ending /\ Quiet
  BY DEF IInv
<1>1. ~In(d_list, o)
  BY <1>0 DEF Queue, Start
<1>2. /\ d_list' \in Seq(Ops)
      /\ Distinct(d_list')
      /\ \A x \in Ops : In(d_list', x) <=> In(d_list, x) \/ x = o
  BY <1>0, <1>1, AppendElement DEF Queue, Start, TypeOK
<1>3. TypeOK'
  BY <1>0, <1>2 DEF TypeOK, Life, Quiet, Accounts, Account, Start
<1>4. Queue'
  BY <1>0, <1>2 DEF Queue, TypeOK, Start
<1>5. Taken'
  BY <1>0, <1>2 DEF Taken, TypeOK, Start
<1>6. Accounts'
  BY <1>0, <1>2 DEF Accounts, Account, Pending, TypeOK, Start
<1>7. Ending'
  BY <1>0, <1>2 DEF Ending, TypeOK, Start
<1>8. Quiet'
  BY <1>0, <1>2 DEF Quiet, TypeOK, Start
<1> QED
  BY <1>3, <1>4, <1>5, <1>6, <1>7, <1>8 DEF IInv

\* A stop request keeps the inductive invariant.
LEMMA KeepsRequestStop ==
    ASSUME IInv, NEW o \in Ops, RequestStop(o)
    PROVE  IInv'
<1> USE NoneAssumption, BoundsAssumption
<1>0. TypeOK /\ Queue /\ Taken /\ Accounts /\ Ending /\ Quiet
  BY DEF IInv
<1>3. TypeOK'
  BY <1>0 DEF TypeOK, Life, Quiet, RequestStop
<1>4. Queue'
  BY <1>0 DEF Queue, In, Distinct, TypeOK, RequestStop
<1>5. Taken'
  BY <1>0 DEF Taken, TypeOK, RequestStop
<1>6. Accounts'
  BY <1>0 DEF Accounts, Account, Pending, TypeOK, RequestStop
<1>7. Ending'
  BY <1>0 DEF Ending, TypeOK, RequestStop
<1>8. Quiet'
  BY <1>0 DEF Quiet, TypeOK, RequestStop
<1> QED
  BY <1>3, <1>4, <1>5, <1>6, <1>7, <1>8 DEF IInv

\* Calling run() keeps the inductive invariant.
LEMMA KeepsRunBegin ==
    ASSUME IInv, NEW t \in Runners, RunBegin(t)
    PROVE  IInv'
<1> USE NoneAssumption, BoundsAssumption
<1>0. TypeOK /\ Queue /\ Taken /\ Accounts /\ Ending /\ Quiet
  BY DEF IInv
<1>3. TypeOK'
  BY <1>0 DEF TypeOK, Life, Quiet, RunBegin
<1>4. Queue'
  BY <1>0 DEF Queue, In, Distinct, TypeOK, RunBegin
<1>5. Taken'
  BY <1>0 DEF Taken, TypeOK, RunBegin
<1>6. Accounts'
  BY <1>0 DEF Accounts, Account, Pending, TypeOK, RunBegin
<1>7. Ending'
  BY <1>0 DEF Ending, TypeOK, RunBegin
<1>8. Quiet'
  BY <1>0 DEF Quiet, TypeOK, RunBegin
<1> QED
  BY <1>3, <1>4, <1>5, <1>6, <1>7, <1>8 DEF IInv

\* Waiting in pop_front() keeps the inductive invariant.
LEMMA KeepsPopFrontWaits ==
    ASSUME IInv, NEW t \in Runners, PopFrontWaits(t)
    PROVE  IInv'
<1> USE NoneAssumption, BoundsAssumption
<1>0. TypeOK /\ Queue /\ Taken /\ Accounts /\ Ending /\ Quiet
  BY DEF IInv
<1>3. TypeOK'
  BY <1>0 DEF TypeOK, Life, Quiet, PopFrontWaits
<1>4. Queue'
  BY <1>0 DEF Queue, In, Distinct, TypeOK, PopFrontWaits
<1>5. Taken'
  BY <1>0 DEF Taken, TypeOK, PopFrontWaits
<1>6. Accounts'
  BY <1>0 DEF Accounts, Account, Pending, TypeOK, PopFrontWaits
<1>7. Ending'
  BY <1>0 DEF Ending, TypeOK, PopFrontWaits
<1>8. Quiet'
  BY <1>0 DEF Quiet, TypeOK, PopFrontWaits
<1> QED
  BY <1>3, <1>4, <1>5, <1>6, <1>7, <1>8 DEF IInv

\* A spurious wakeup keeps the inductive invariant.
LEMMA KeepsSpuriousWakeup ==
    ASSUME IInv, NEW t \in Runners, SpuriousWakeup(t)
    PROVE  IInv'
<1> USE NoneAssumption, BoundsAssumption
<1>0. TypeOK /\ Queue /\ Taken /\ Accounts /\ Ending /\ Quiet
  BY DEF IInv
<1>3. TypeOK'
  BY <1>0 DEF TypeOK, Life, Quiet, SpuriousWakeup
<1>4. Queue'
  BY <1>0 DEF Queue, In, Distinct, TypeOK, SpuriousWakeup
<1>5. Taken'
  BY <1>0 DEF Taken, TypeOK, SpuriousWakeup
<1>6. Accounts'
  BY <1>0 DEF Accounts, Account, Pending, TypeOK, SpuriousWakeup
<1>7. Ending'
  BY <1>0 DEF Ending, TypeOK, SpuriousWakeup
<1>8. Quiet'
  BY <1>0 DEF Quiet, TypeOK, SpuriousWakeup
<1> QED
  BY <1>3, <1>4, <1>5, <1>6, <1>7, <1>8 DEF IInv

\* pop_front() with an element keeps the inductive invariant.
LEMMA KeepsPopFront ==
    ASSUME IInv, NEW t \in Runners, PopFront(t)
    PROVE  IInv'
<1> USE NoneAssumption, BoundsAssumption
<1>0. TypeOK /\ Queue /\ Taken /\ Accounts /\ Ending /\ Quiet
  BY DEF IInv
<1>2. /\ Head(d_list) \in Ops /\ In(d_list, Head(d_list))
      /\ d_list' \in Seq(Ops)
      /\ Distinct(d_list')
      /\ \A x \in Ops : In(d_list', x) <=> In(d_list, x) /\ x # Head(d_list)
  BY <1>0, TailElements DEF Queue, PopFront, TypeOK
<1>a. op[Head(d_list)] = "queued"
  BY <1>0, <1>2 DEF Queue
<1>3. TypeOK'
  BY <1>0, <1>2, <1>a DEF TypeOK, Life, Quiet, PopFront
<1>4. Queue'
  BY <1>0, <1>2, <1>a DEF Queue, TypeOK, PopFront
<1>5. Taken'
  <2>1. \A u \in Runners : cur[u] # Head(d_list)
    BY <1>0, <1>2, <1>a DEF Taken
  <2>2. /\ cur' = [cur EXCEPT ![t] = Head(d_list)]
        /\ op' = [op EXCEPT ![Head(d_list)] = "taken"]
        /\ pc' = [pc EXCEPT ![t] = "execute"]
        /\ cur \in [Runners -> Ops \cup {None}] /\ op \in [Ops -> Life]
        /\ pc \in [Runners -> {"idle", "pop", "waiting", "execute"}]
        /\ cur[t] = None
    BY <1>0 DEF PopFront, TypeOK, Taken
  <2>3. \A u \in Runners : pc'[u] = "execute" <=> cur'[u] # None
    BY <1>0, <1>2, <2>2 DEF Taken
  <2>4. \A o \in Ops : op'[o] = "taken" <=> \E u \in Runners : cur'[u] = o
    <3> SUFFICES ASSUME NEW o \in Ops
                 PROVE  op'[o] = "taken" <=> \E u \in Runners : cur'[u] = o
      OBVIOUS
    <3>1. CASE o = Head(d_list)
      BY <1>2, <2>2, <3>1
    <3>2. CASE o # Head(d_list)
      BY <1>0, <1>2, <2>2, <3>2 DEF Taken
    <3> QED
      BY <3>1, <3>2
  <2>5. \A u, v \in Runners : cur'[u] # None /\ cur'[u] = cur'[v] => u = v
    BY <1>0, <1>2, <2>1, <2>2 DEF Taken
  <2> QED
    BY <2>3, <2>4, <2>5 DEF Taken
<1>6. Accounts'
  BY <1>0, <1>2, <1>a DEF Accounts, Account, Pending, TypeOK, PopFront
<1>7. Ending'
  BY <1>0, <1>2, <1>a DEF Ending, TypeOK, PopFront
<1>8. Quiet'
  BY <1>0, <1>2, <1>a DEF Quiet, TypeOK, PopFront
<1> QED
  BY <1>3, <1>4, <1>5, <1>6, <1>7, <1>8 DEF IInv

\* The return of run() keeps the inductive invariant.
LEMMA KeepsPopFrontEnds ==
    ASSUME IInv, NEW t \in Runners, PopFrontEnds(t)
    PROVE  IInv'
<1> USE NoneAssumption, BoundsAssumption
<1>0. TypeOK /\ Queue /\ Taken /\ Accounts /\ Ending /\ Quiet
  BY DEF IInv
<1>2. \A x \in Ops : op[x] # "queued"
  BY <1>0 DEF Queue, In, PopFrontEnds
<1>3. TypeOK'
  BY <1>0, <1>2 DEF TypeOK, Life, Quiet, PopFrontEnds
<1>4. Queue'
  BY <1>0, <1>2 DEF Queue, In, Distinct, TypeOK, PopFrontEnds
<1>5. Taken'
  BY <1>0, <1>2 DEF Taken, TypeOK, PopFrontEnds
<1>6. Accounts'
  BY <1>0, <1>2 DEF Accounts, Account, Pending, TypeOK, PopFrontEnds
<1>7. Ending'
  BY <1>0, <1>2 DEF Ending, TypeOK, PopFrontEnds
<1>8. Quiet'
  BY <1>0, <1>2 DEF Quiet, TypeOK, PopFrontEnds
<1> QED
  BY <1>3, <1>4, <1>5, <1>6, <1>7, <1>8 DEF IInv

\* execute() keeps the inductive invariant.
LEMMA KeepsExecute ==
    ASSUME IInv, NEW t \in Runners, Execute(t)
    PROVE  IInv'
<1> USE NoneAssumption, BoundsAssumption
<1>0. TypeOK /\ Queue /\ Taken /\ Accounts /\ Ending /\ Quiet
  BY DEF IInv
<1>2. cur[t] \in Ops /\ op[cur[t]] = "taken"
  BY <1>0 DEF Taken, TypeOK, Execute
<1>a. runs[cur[t]] < MaxStarts
  BY <1>0, <1>2 DEF Accounts, Account, Pending, TypeOK
<1>3. TypeOK'
  BY <1>0, <1>2, <1>a DEF TypeOK, Life, Quiet, Execute
<1>4. Queue'
  BY <1>0, <1>2, <1>a DEF Queue, In, Distinct, TypeOK, Execute
<1>5. Taken'
  BY <1>0, <1>2, <1>a DEF Taken, TypeOK, Execute
<1>6. Accounts'
  BY <1>0, <1>2, <1>a DEF Accounts, Account, Pending, TypeOK, Execute
<1>7. Ending'
  BY <1>0, <1>2, <1>a DEF Ending, TypeOK, Execute
<1>8. Quiet'
  BY <1>0, <1>2, <1>a DEF Quiet, TypeOK, Execute
<1> QED
  BY <1>3, <1>4, <1>5, <1>6, <1>7, <1>8 DEF IInv

\* finish() keeps the inductive invariant.
LEMMA KeepsFinish ==
    ASSUME IInv, Finish
    PROVE  IInv'
<1> USE NoneAssumption, BoundsAssumption
<1>0. TypeOK /\ Queue /\ Taken /\ Accounts /\ Ending /\ Quiet
  BY DEF IInv
<1>2. /\ ToSet(d_list) \subseteq Ops
      /\ \A x \in ToSet(d_list) : op[x] = "queued"
  <2>1. \A i \in DOMAIN d_list : d_list[i] \in Ops
    BY <1>0, ElementOfSeq, LenProperties DEF TypeOK
  <2> QED
    BY <1>0, <2>1 DEF Queue, In, ToSet
<1>3. TypeOK'
  BY <1>0, <1>2 DEF TypeOK, Life, Quiet, Finish
<1>4. Queue'
  BY <1>0, <1>2 DEF Queue, In, Distinct, TypeOK, Finish
<1>5. Taken'
  BY <1>0, <1>2 DEF Taken, TypeOK, Finish
<1>6. Accounts'
  BY <1>0, <1>2 DEF Accounts, Account, Pending, TypeOK, Finish
<1>7. Ending'
  BY <1>0, <1>2 DEF Ending, TypeOK, Finish
<1>8. Quiet'
  BY <1>0, <1>2 DEF Quiet, TypeOK, Finish
<1> QED
  BY <1>3, <1>4, <1>5, <1>6, <1>7, <1>8 DEF IInv

\* notify_one() keeps the inductive invariant.
LEMMA KeepsNotify ==
    ASSUME IInv, Notify
    PROVE  IInv'
<1> USE NoneAssumption, BoundsAssumption
<1>0. TypeOK /\ Queue /\ Taken /\ Accounts /\ Ending /\ Quiet
  BY DEF IInv
<1>3. TypeOK'
  <2>1. pc' \in [Runners -> {"idle", "pop", "waiting", "execute"}]
    BY <1>0 DEF TypeOK, Notify
  <2>2. notifying' \in 0..MaxFinish
    BY <1>0 DEF TypeOK, Notify
  <2> QED
    BY <1>0, <2>1, <2>2 DEF TypeOK, Notify
<1>4. Queue'
  BY <1>0 DEF Queue, In, Distinct, TypeOK, Notify
<1>5. Taken'
  BY <1>0 DEF Taken, TypeOK, Notify
<1>6. Accounts'
  BY <1>0 DEF Accounts, Account, Pending, TypeOK, Notify
<1>7. Ending'
  BY <1>0 DEF Ending, TypeOK, Notify
<1>8. Quiet'
  BY <1>0 DEF Quiet, TypeOK, Notify
<1> QED
  BY <1>3, <1>4, <1>5, <1>6, <1>7, <1>8 DEF IInv

\* The destructor keeps the inductive invariant.
LEMMA KeepsDestroy ==
    ASSUME IInv, Destroy
    PROVE  IInv'
<1> USE NoneAssumption, BoundsAssumption
<1>0. TypeOK /\ Queue /\ Taken /\ Accounts /\ Ending /\ Quiet
  BY DEF IInv
<1>3. TypeOK'
  BY <1>0 DEF TypeOK, Life, Quiet, Destroy
<1>4. Queue'
  BY <1>0 DEF Queue, In, Distinct, TypeOK, Destroy
<1>5. Taken'
  BY <1>0 DEF Taken, TypeOK, Destroy
<1>6. Accounts'
  BY <1>0 DEF Accounts, Account, Pending, TypeOK, Destroy
<1>7. Ending'
  BY <1>0 DEF Ending, TypeOK, Destroy
<1>8. Quiet'
  BY <1>0 DEF Quiet, TypeOK, Destroy
<1> QED
  BY <1>3, <1>4, <1>5, <1>6, <1>7, <1>8 DEF IInv

-----------------------------------------------------------------------------

\* Every step keeps the inductive invariant.
LEMMA NextIInv == IInv /\ [Next]_vars => IInv'
<1> SUFFICES ASSUME IInv, [Next]_vars PROVE IInv'
  OBVIOUS
<1>1. ASSUME NEW o \in Ops, Connect(o) \/ Start(o) \/ RequestStop(o) PROVE IInv'
  BY <1>1, KeepsConnect, KeepsStart, KeepsRequestStop
<1>2. ASSUME NEW t \in Runners, RunBegin(t) \/ SpuriousWakeup(t) PROVE IInv'
  BY <1>2, KeepsRunBegin, KeepsSpuriousWakeup
<1>3. ASSUME NEW t \in Runners, Run(t) PROVE IInv'
  BY <1>3, KeepsPopFrontWaits, KeepsPopFront, KeepsPopFrontEnds, KeepsExecute DEF Run
<1>4. CASE Finish
  BY <1>4, KeepsFinish
<1>5. CASE Notify
  BY <1>5, KeepsNotify
<1>6. CASE Destroy
  BY <1>6, KeepsDestroy
<1>7. CASE UNCHANGED vars
  BY <1>7 DEF vars, IInv, TypeOK, Queue, Taken, Accounts, Account, Pending, Ending, Quiet
<1> QED
  BY <1>1, <1>2, <1>3, <1>4, <1>5, <1>6, <1>7 DEF Next

\* IInv holds in every reachable state.
THEOREM Invariant == Spec => []IInv
<1>1. Init => IInv
  BY InitIInv
<1>2. IInv /\ [Next]_vars => IInv'
  BY NextIInv
<1> QED
  BY <1>1, <1>2, PTL DEF Spec

\* The members of run_loop and of its operation states keep their types.
THEOREM TypeCorrect == Spec => []TypeOK
<1>1. IInv => TypeOK
  BY DEF IInv
<1> QED
  BY <1>1, Invariant, PTL

\* With any number of threads in run(), every start() of an operation leads to
\* at most one execution and none is dropped from the queue.
THEOREM OncePerStart == Spec => []ExecutedOnce
<1>1. IInv => ExecutedOnce
  BY DEF IInv, ExecutedOnce, Queue, Distinct, In, Taken, Accounts, Account
<1> QED
  BY <1>1, Invariant, PTL

\* run() does not return before the operations queued at finish() were taken
\* off the queue.
THEOREM Drained == Spec => []DrainedOnReturn
<1>1. IInv => DrainedOnReturn
  BY DEF IInv, Ending, DrainedOnReturn
<1> QED
  BY <1>1, Invariant, PTL

-----------------------------------------------------------------------------
(* finish() is heard                                                       *)

\* A loop that is finishing does not leave every thread in run() asleep: as
\* long as none has returned, one is awake or the notification is to come.
FinishIsHeard ==
    d_phase = "finishing" /\ ~returned /\ (\E t \in Runners : InRun(t)) =>
        notifying > 0 \/ \E t \in Runners : pc[t] \in {"pop", "execute"}

\* No step puts the last thread to sleep once finish() was called.
LEMMA HeardStep == IInv /\ FinishIsHeard /\ [Next]_vars => FinishIsHeard'
<1> SUFFICES ASSUME IInv, FinishIsHeard, [Next]_vars PROVE FinishIsHeard'
  OBVIOUS
<1> USE DEF FinishIsHeard, InRun
<1>1. ASSUME NEW o \in Ops, Connect(o) \/ Start(o) \/ RequestStop(o) PROVE FinishIsHeard'
  BY <1>1 DEF Connect, Start, RequestStop
<1>2. ASSUME NEW t \in Runners, RunBegin(t) \/ SpuriousWakeup(t) \/ PopFront(t) \/ Execute(t)
      PROVE  FinishIsHeard'
  <2>1. pc'[t] \in {"pop", "execute"}
    BY <1>2 DEF RunBegin, SpuriousWakeup, PopFront, Execute, IInv, TypeOK
  <2> QED BY <2>1
<1>3. ASSUME NEW t \in Runners, PopFrontWaits(t) PROVE FinishIsHeard'
  BY <1>3 DEF PopFrontWaits
<1>4. ASSUME NEW t \in Runners, PopFrontEnds(t) PROVE FinishIsHeard'
  BY <1>4 DEF PopFrontEnds
<1>5. CASE Finish
  <2>1. notifying' > 0
    BY <1>5 DEF Finish, IInv, TypeOK
  <2> QED BY <2>1
<1>6. CASE Notify
  <2>1. CASE \E t \in Runners : pc[t] = "waiting" /\ pc' = [pc EXCEPT ![t] = "pop"]
    <3>1. PICK t \in Runners : pc' = [pc EXCEPT ![t] = "pop"]
      BY <2>1
    <3>2. pc'[t] = "pop"
      BY <3>1 DEF IInv, TypeOK
    <3> QED BY <3>2
  <2>2. CASE (\A t \in Runners : pc[t] # "waiting") /\ UNCHANGED pc
    BY <2>2
  <2> QED BY <1>6, <2>1, <2>2 DEF Notify
<1>7. CASE Destroy
  BY <1>7 DEF Destroy
<1>8. CASE UNCHANGED vars
  BY <1>8 DEF vars
<1> QED BY <1>1, <1>2, <1>3, <1>4, <1>5, <1>6, <1>7, <1>8 DEF Next, Run

\* The safety part of FinishDrains and FinishEndsRun: although finish()
\* notifies one thread, and after it gave up the lock, the notification is
\* not lost on all of them.
THEOREM NotificationArrives == Spec => []FinishIsHeard
<1>1. Init => FinishIsHeard
  BY DEF Init, FinishIsHeard
<1> QED BY <1>1, HeardStep, Invariant, PTL DEF Spec

-----------------------------------------------------------------------------
(* The operations keep the promise of Operation                            *)

\* What the receiver sees of one operation.
LEMMA Phases ==
    \A o \in Ops :
        /\ op[o] \in {"raw", "connected"} => PhaseOf[o] = "idle"
        /\ op[o] \in {"queued", "taken"} => PhaseOf[o] = "started"
        /\ op[o] \in {"value", "stopped"} => PhaseOf[o] = op[o]
BY DEF PhaseOf

\* The same in the next state.
LEMMA PhasesNext ==
    \A o \in Ops :
        /\ op'[o] \in {"raw", "connected"} => PhaseOf'[o] = "idle"
        /\ op'[o] \in {"queued", "taken"} => PhaseOf'[o] = "started"
        /\ op'[o] \in {"value", "stopped"} => PhaseOf'[o] = op'[o]
BY DEF PhaseOf

\* A step that gives one operation another place in its life leaves the
\* others as they are to their receivers.
LEMMA PhaseChange ==
    ASSUME TypeOK, NEW o \in Ops, NEW l \in Life, op' = [op EXCEPT ![o] = l]
    PROVE  PhaseOf' = [PhaseOf EXCEPT ![o] = PhaseOf'[o]] /\ op'[o] = l
<1>1. op'[o] = l /\ \A x \in Ops : x # o => op'[x] = op[x]
  BY DEF TypeOK
<1>2. \A x \in Ops : x # o => PhaseOf'[x] = PhaseOf[x]
  BY <1>1 DEF PhaseOf
<1>3. /\ PhaseOf = [x \in Ops |-> PhaseOf[x]]
      /\ PhaseOf' = [x \in Ops |-> PhaseOf'[x]]
  BY DEF PhaseOf
<1> QED BY <1>1, <1>2, <1>3

\* Each step of the loop is a step of the abstract operations or none.
LEMMA PromiseStep == IInv /\ [Next]_vars => [Promise!Next]_Promise!vars
<1> SUFFICES ASSUME IInv, [Next]_vars
             PROVE  Promise!Next \/ UNCHANGED <<PhaseOf, Asked>>
  BY DEF Promise!vars
<1>0. TypeOK /\ Taken
  BY DEF IInv
<1>1. ASSUME NEW o \in Ops, Connect(o) PROVE Promise!Next \/ UNCHANGED <<PhaseOf, Asked>>
  <2>1. PhaseOf' = [PhaseOf EXCEPT ![o] = "idle"] /\ stop' = stop
    BY <1>0, <1>1, PhaseChange, PhasesNext DEF Connect, Life
  <2>2. CASE op[o] = "raw"
    <3>1. PhaseOf[o] = "idle"
      BY <2>2, Phases
    <3> QED BY <2>1, <3>1 DEF PhaseOf, Asked
  <2>3. CASE op[o] \in {"value", "stopped"}
    BY <2>1, <2>3, Phases DEF Promise!Next, Promise!Renew, Promise!Outcome, Asked
  <2> QED BY <1>1, <2>2, <2>3 DEF Connect
<1>2. ASSUME NEW o \in Ops, Start(o) PROVE Promise!Next
  <2>1. PhaseOf' = [PhaseOf EXCEPT ![o] = "started"] /\ stop' = stop
    BY <1>0, <1>2, PhaseChange, PhasesNext DEF Start, Life
  <2>2. PhaseOf[o] = "idle"
    BY <1>2, Phases DEF Start
  <2> QED BY <2>1, <2>2 DEF Promise!Next, Promise!Start, Asked
<1>3. ASSUME NEW o \in Ops, RequestStop(o) PROVE Promise!Next
  <2>1. PhaseOf' = PhaseOf /\ stop' = [stop EXCEPT ![o] = TRUE]
    BY <1>3 DEF RequestStop, PhaseOf
  <2>2. Asked' = Asked \cup {o}
    BY <1>0, <2>1 DEF Asked, TypeOK
  <2> QED BY <2>1, <2>2 DEF Promise!Next, Promise!Ask
<1>4. ASSUME NEW t \in Runners, PopFront(t) PROVE UNCHANGED <<PhaseOf, Asked>>
  <2>1. Head(d_list) \in Ops /\ op[Head(d_list)] = "queued"
    BY <1>4, TailElements DEF PopFront, IInv, TypeOK, Queue
  <2>2. /\ PhaseOf' = [PhaseOf EXCEPT ![Head(d_list)] = PhaseOf'[Head(d_list)]]
        /\ op'[Head(d_list)] = "taken"
    BY <1>0, <1>4, <2>1, PhaseChange DEF PopFront, Life
  <2>3. PhaseOf'[Head(d_list)] = "started" /\ PhaseOf[Head(d_list)] = "started"
    BY <2>1, <2>2, Phases, PhasesNext
  <2>4. PhaseOf' = PhaseOf
    BY <2>2, <2>3 DEF PhaseOf
  <2> QED BY <1>4, <2>4 DEF PopFront, Asked
<1>5. ASSUME NEW t \in Runners, Execute(t) PROVE Promise!Next
  <2>1. PICK o \in Ops : o = cur[t]
    BY <1>0, <1>5 DEF Execute, Taken, TypeOK
  <2>2. PICK l \in {"value", "stopped"} : l = IF stop[o] THEN "stopped" ELSE "value"
    OBVIOUS
  <2>3. op[o] = "taken" /\ op' = [op EXCEPT ![o] = l] /\ stop' = stop
    BY <1>0, <1>5, <2>1, <2>2 DEF Execute, Taken
  <2>4. PhaseOf' = [PhaseOf EXCEPT ![o] = PhaseOf'[o]] /\ op'[o] = l
    BY <1>0, <2>3, PhaseChange DEF Life
  <2>5. PhaseOf' = [PhaseOf EXCEPT ![o] = l]
    BY <2>4, PhasesNext
  <2>6. PhaseOf[o] = "started"
    BY <2>3, Phases
  <2>7. Promise!Complete(o, l)
    BY <2>2, <2>3, <2>5, <2>6 DEF Promise!Complete, Asked
  <2> QED BY <2>7 DEF Promise!Next, Promise!Outcome
<1>6. ASSUME op' = op, stop' = stop PROVE UNCHANGED <<PhaseOf, Asked>>
  BY <1>6 DEF PhaseOf, Asked
<1>7. ASSUME NEW t \in Runners,
             RunBegin(t) \/ SpuriousWakeup(t) \/ PopFrontWaits(t) \/ PopFrontEnds(t)
      PROVE  UNCHANGED <<PhaseOf, Asked>>
  BY <1>6, <1>7 DEF RunBegin, SpuriousWakeup, PopFrontWaits, PopFrontEnds
<1>8. CASE Finish \/ Notify \/ Destroy \/ UNCHANGED vars
  BY <1>6, <1>8 DEF Finish, Notify, Destroy, vars
<1> QED BY <1>1, <1>2, <1>3, <1>4, <1>5, <1>7, <1>8 DEF Next, Run

\* The operations of run_loop's scheduler implement the abstract operation
\* state, with any number of threads in run().
THEOREM Refinement == Spec => KeepsPromise
<1>1. Init => Promise!Init
  BY DEF Init, Promise!Init, PhaseOf, Asked
<1> QED BY <1>1, PromiseStep, Invariant, PTL DEF Spec, KeepsPromise, Promise!Spec

=============================================================================
