-------------------------- MODULE StopState_proofs --------------------------
(***************************************************************************)
(* Proofs about StopState, for every set of threads and callbacks.         *)
(***************************************************************************)
EXTENDS StopState, SequenceTheorems, TLAPS

\* Where a thread is inside the constructor, the destructor and call().
Inserting == {"ins_lock", "ins_link", "ins_body", "ins_unlock", "ins_return"}
Erasing == {"erase_lock", "erase_do"}
Calling == {"call_lock", "call_loop", "call_body"}

\* The constructor has not linked the callback of thread t yet.
Before(t) == pc[t] \in {"ins_lock", "ins_link"}

Distinct(s) == \A i, j \in 1..Len(s) : s[i] = s[j] => i = j

\* Each constructor and destructor has a callback to itself.
Owners ==
    /\ \A t \in Threads : pc[t] \in Inserting =>
         arg[t] \in Callbacks /\ life[arg[t]] = "ctor"
    /\ \A t \in Threads : pc[t] \in Erasing =>
         arg[t] \in Callbacks /\ life[arg[t]] = "dtor"
    /\ \A t, u \in Threads :
         /\ pc[t] \in Inserting \cup Erasing
         /\ pc[u] \in Inserting \cup Erasing
         /\ arg[t] = arg[u]
         => t = u

\* The list holds a callback once, from its linking until it is called by
\* call() or destroyed; the one that call() runs is its first.
Listed ==
    /\ Distinct(d_list)
    /\ \A c \in Callbacks : Contains(d_list, c) => life[c] # "raw"
    /\ \A t \in Threads : Before(t) => ~Contains(d_list, arg[t])
    /\ \A t \in Threads : pc[t] = "call_body" =>
         d_list # <<>> /\ Head(d_list) = arg[t]

\* One thread processes the request, until the list is empty.
Processing ==
    /\ over => d_stop_requested
    /\ \A t \in Threads : pc[t] \in Calling => d_stop_requested /\ ~over
    /\ \A t, u \in Threads : pc[t] \in Calling /\ pc[u] \in Calling => t = u
    /\ \A t \in Threads : pc[t] = "ins_body" => d_stop_requested

\* How often a callback is to run.
Quota(c) == IF window[c] THEN 2 ELSE 1

\* The call of c by call() is done, under way or not to happen any more.
Through(c) ==
    \/ over
    \/ ~Contains(d_list, c)
    \/ \E t \in Threads : pc[t] = "call_body" /\ arg[t] = c

\* The constructor of c has linked it.
Linked(c) == life[c] # "raw" /\ \A t \in Threads : Before(t) => arg[t] # c

\* A callback in the list has one call to come, which is the one by call().
Due(c) == Linked(c) => ran[c] = IF Through(c) THEN Quota(c) ELSE Quota(c) - 1

Counts ==
    /\ \A c \in Callbacks : ran[c] <= Quota(c) /\ Due(c)
    /\ \A t \in Threads : Before(t) => ran[arg[t]] = 0

IInv == TypeOK /\ BusyExclusion /\ Owners /\ Listed /\ Processing /\ Counts


-----------------------------------------------------------------------------
(* What the operations on the list do to its elements.                     *)

\* The first element of a list is in it.
LEMMA HeadFacts ==
    ASSUME NEW S, NEW s \in Seq(S), s # <<>>
    PROVE  Head(s) \in S /\ Contains(s, Head(s))
BY DEF Contains

\* pop_front() takes away the first element and no other.
LEMMA TailFacts ==
    ASSUME NEW S, NEW s \in Seq(S), s # <<>>, Distinct(s)
    PROVE  /\ Tail(s) \in Seq(S)
           /\ Distinct(Tail(s))
           /\ \A c : Contains(Tail(s), c) <=> Contains(s, c) /\ c # Head(s)
<1>1. /\ Tail(s) \in Seq(S) /\ Len(Tail(s)) = Len(s) - 1 /\ Len(s) \in Nat \ {0}
      /\ \A i \in 1..(Len(s) - 1) : Tail(s)[i] = s[i + 1]
  OBVIOUS
<1>2. Distinct(Tail(s))
  BY <1>1 DEF Distinct
<1>3. ASSUME NEW c, Contains(Tail(s), c) PROVE Contains(s, c) /\ c # Head(s)
  <2>1. PICK i \in 1..(Len(s) - 1) : s[i + 1] = c
    BY <1>1, <1>3 DEF Contains
  <2>2. i + 1 \in 1..Len(s) /\ 1 \in 1..Len(s) /\ i + 1 # 1 /\ Head(s) = s[1]
    BY <1>1
  <2> QED BY <2>1, <2>2 DEF Distinct, Contains
<1>4. ASSUME NEW c, Contains(s, c), c # Head(s) PROVE Contains(Tail(s), c)
  <2>1. PICK i \in 1..Len(s) : s[i] = c
    BY <1>4 DEF Contains
  <2>2. i # 1
    BY <2>1, <1>4
  <2>3. i - 1 \in 1..(Len(s) - 1) /\ Tail(s)[i - 1] = c
    BY <1>1, <2>1, <2>2
  <2> QED BY <1>1, <2>3 DEF Contains
<1> QED BY <1>1, <1>2, <1>3, <1>4

\* Linking an element that is not in the list puts it behind the others.
LEMMA AppendFacts ==
    ASSUME NEW S, NEW s \in Seq(S), NEW e \in S, Distinct(s), ~Contains(s, e)
    PROVE  /\ Append(s, e) \in Seq(S)
           /\ Distinct(Append(s, e))
           /\ \A c : Contains(Append(s, e), c) <=> Contains(s, c) \/ c = e
<1>1. /\ Append(s, e) \in Seq(S) /\ Len(Append(s, e)) = Len(s) + 1 /\ Len(s) \in Nat
      /\ \A i \in 1..Len(s) : Append(s, e)[i] = s[i]
      /\ Append(s, e)[Len(s) + 1] = e
  OBVIOUS
<1>2. \A i \in 1..(Len(s) + 1) : i \in 1..Len(s) \/ i = Len(s) + 1
  BY <1>1
<1> QED BY <1>1, <1>2 DEF Distinct, Contains

\* Unlinking takes away the one element, wherever it is, and nothing when it
\* is not in the list.
LEMMA RemoveFacts ==
    ASSUME NEW S, NEW s \in Seq(S), NEW e, Distinct(s)
    PROVE  /\ RemoveFirst(s, e) \in Seq(S)
           /\ Distinct(RemoveFirst(s, e))
           /\ \A c : Contains(RemoveFirst(s, e), c) <=> Contains(s, c) /\ c # e
<1>1. CASE ~Contains(s, e)
  BY <1>1 DEF RemoveFirst, Contains
<1>2. ASSUME NEW k \in 1..Len(s), s[k] = e
      PROVE  /\ RemoveFirst(s, e) \in Seq(S)
             /\ Distinct(RemoveFirst(s, e))
             /\ \A c : Contains(RemoveFirst(s, e), c) <=> Contains(s, c) /\ c # e
  <2> DEFINE I == {i \in 1..Len(s) : s[i] = e}
             r == RemoveFirst(s, e)
             a == SubSeq(s, 1, k - 1)
             b == SubSeq(s, k + 1, Len(s))
  <2>1. I = {k}
    BY <1>2 DEF Distinct
  <2>2. Min(I) = k
    BY <2>1 DEF Min
  <2>3. SelectInSeq(s, LAMBDA v : v = e) = Min(I)
    BY <2>1 DEF SelectInSeq
  <2>4. r = RemoveAt(s, SelectInSeq(s, LAMBDA v : v = e))
    BY <1>2 DEF RemoveFirst
  <2>5. r = a \o b
    BY <2>2, <2>3, <2>4 DEF RemoveAt
  <2>6. a \in Seq(S) /\ Len(a) = k - 1 /\ \A i \in 1..(k - 1) : a[i] = s[i]
    OBVIOUS
  <2>7. /\ b \in Seq(S) /\ Len(b) = Len(s) - k
        /\ \A i \in 1..(Len(s) - k) : b[i] = s[i + k]
    OBVIOUS
  <2> HIDE DEF r, a, b, I
  <2>8. r \in Seq(S) /\ Len(r) = Len(s) - 1
    <3>1. r \in Seq(S) /\ Len(r) = Len(a) + Len(b)
      BY <2>5, <2>6, <2>7, ConcatProperties
    <3>2. (k - 1) + (Len(s) - k) = Len(s) - 1
      OBVIOUS
    <3> QED BY <2>6, <2>7, <3>1, <3>2
  <2>9. \A i \in 1..(Len(s) - 1) : r[i] = IF i < k THEN s[i] ELSE s[i + 1]
    <3> SUFFICES ASSUME NEW i \in 1..(Len(s) - 1)
                 PROVE  r[i] = IF i < k THEN s[i] ELSE s[i + 1]
      OBVIOUS
    <3>1. CASE i < k
      BY <2>5, <2>6, <2>7, <3>1
    <3>2. CASE ~(i < k)
      <4>1. r[i] = b[i - (k - 1)] /\ i - (k - 1) \in 1..(Len(s) - k)
        BY <2>5, <2>6, <2>7, <3>2
      <4>2. (i - (k - 1)) + k = i + 1
        OBVIOUS
      <4> QED BY <2>7, <3>2, <4>1, <4>2
    <3> QED BY <3>1, <3>2
  <2>10. Distinct(r)
    <3> SUFFICES ASSUME NEW i \in 1..(Len(s) - 1), NEW j \in 1..(Len(s) - 1),
                        r[i] = r[j], i # j
                 PROVE  FALSE
      BY <2>8 DEF Distinct
    <3> DEFINE f(n) == IF n < k THEN n ELSE n + 1
    <3>1. \A n \in 1..(Len(s) - 1) : f(n) \in 1..Len(s) /\ r[n] = s[f(n)]
      BY <2>9
    <3>2. f(i) # f(j)
      OBVIOUS
    <3> HIDE DEF f
    <3> QED BY <3>1, <3>2 DEF Distinct
  <2>11. ASSUME NEW c, Contains(r, c) PROVE Contains(s, c) /\ c # e
    <3>1. PICK i \in 1..(Len(s) - 1) : r[i] = c
      BY <2>8, <2>11 DEF Contains
    <3>2. PICK j \in 1..Len(s) : s[j] = c /\ j # k
      BY <2>9, <3>1
    <3> QED BY <1>2, <3>2 DEF Contains, Distinct
  <2>12. ASSUME NEW c, Contains(s, c), c # e PROVE Contains(r, c)
    <3>1. PICK j \in 1..Len(s) : s[j] = c /\ j # k
      BY <1>2, <2>12 DEF Contains
    <3>2. CASE j < k
      BY <2>8, <2>9, <3>1, <3>2 DEF Contains
    <3>3. CASE j > k
      <4>1. j - 1 \in 1..(Len(s) - 1) /\ ~(j - 1 < k) /\ (j - 1) + 1 = j
        BY <3>3
      <4>2. r[j - 1] = c
        BY <2>9, <3>1, <4>1
      <4> QED BY <2>8, <4>1, <4>2 DEF Contains
    <3> QED BY <3>1, <3>2, <3>3
  <2> QED BY <2>8, <2>10, <2>11, <2>12 DEF r
<1> QED BY <1>1, <1>2 DEF Contains

\* Nothing is in the empty list.
LEMMA EmptyFacts == \A c : ~Contains(<<>>, c)
BY DEF Contains

-----------------------------------------------------------------------------

\* Initially nothing is registered, running or counted.
LEMMA InitIInv == Init => IInv
<1> SUFFICES ASSUME Init PROVE IInv
  OBVIOUS
<1> USE MaxLivesAssumption DEF Init
<1>1. TypeOK
  <2>1. pc \in [Threads -> PC] /\ arg \in [Threads -> Callbacks \cup {None}]
    BY DEF PC
  <2>6. 0 \in 0..MaxLives
    OBVIOUS
  <2>2. /\ lives \in [Callbacks -> 0..MaxLives] /\ ran \in [Callbacks -> 0..2]
    BY <2>6
  <2>4. /\ life \in [Callbacks -> {"raw", "ctor", "live", "dtor"}]
        /\ window \in [Callbacks -> BOOLEAN]
    OBVIOUS
  <2>3. d_list \in Seq(Callbacks)
    OBVIOUS
  <2>5. {d_stop_requested, d_busy, over} \subseteq BOOLEAN
    OBVIOUS
  <2> QED BY <2>1, <2>2, <2>3, <2>4, <2>5 DEF TypeOK
<1>2. BusyExclusion
  BY DEF BusyExclusion, Holding
<1>3. Owners /\ Processing
  BY DEF Owners, Processing, Inserting, Erasing, Calling
<1>4. Listed
  BY EmptyFacts DEF Listed, Distinct, Before
<1>5. Counts
  BY DEF Counts, Due, Linked, Quota, Before
<1> QED BY <1>1, <1>2, <1>3, <1>4, <1>5 DEF IInv


\* What call() finds at the front of the list has one call to come.
LEMMA FrontDue ==
    ASSUME IInv, NEW t \in Threads, pc[t] = "call_loop", d_list # <<>>
    PROVE  ran[Head(d_list)] = Quota(Head(d_list)) - 1
<1> DEFINE c == Head(d_list)
<1>1. c \in Callbacks /\ Contains(d_list, c)
  BY HeadFacts DEF IInv, TypeOK
<1>2. Linked(c)
  BY <1>1 DEF IInv, Listed, Linked
<1>3. \A u \in Threads : pc[u] # "call_body"
  BY DEF IInv, BusyExclusion, Holding
<1>4. ~over
  BY DEF IInv, Processing, Calling
<1> QED BY <1>1, <1>2, <1>3, <1>4 DEF IInv, Counts, Due, Through

\* Every step keeps the types.
LEMMA TypeStep == IInv /\ [Next]_vars => TypeOK'
<1> SUFFICES ASSUME IInv, [Next]_vars PROVE TypeOK'
  OBVIOUS
<1>1. ASSUME NEW t \in Threads, RequestStop(t) PROVE TypeOK'
  BY <1>1 DEF RequestStop, Goto, IInv, TypeOK, PC
<1>2. ASSUME NEW t \in Threads, CallLock(t) PROVE TypeOK'
  BY <1>2 DEF CallLock, Acquire, Goto, IInv, TypeOK, PC
<1>3. ASSUME NEW t \in Threads, CallFront(t) PROVE TypeOK'
  <2>1. Head(d_list) \in Callbacks
    BY <1>3, HeadFacts DEF CallFront, IInv, TypeOK
  <2>2. ran[Head(d_list)] = Quota(Head(d_list)) - 1
    BY <1>3, FrontDue DEF CallFront
  <2>3. Quota(Head(d_list)) \in 1..2
    BY DEF Quota
  <2>4. ran[Head(d_list)] + 1 \in 0..2
    BY <2>2, <2>3
  <2> QED BY <1>3, <2>1, <2>4 DEF CallFront, Goto, IInv, TypeOK, PC
<1>4. ASSUME NEW t \in Threads, CallPop(t) PROVE TypeOK'
  <2>1. Tail(d_list) \in Seq(Callbacks)
    BY <1>4 DEF CallPop, IInv, TypeOK, Listed
  <2> QED BY <1>4, <2>1 DEF CallPop, Goto, IInv, TypeOK, PC
<1>5. ASSUME NEW t \in Threads, CallEnd(t) PROVE TypeOK'
  BY <1>5 DEF CallEnd, Goto, IInv, TypeOK, PC
<1>6. ASSUME NEW t \in Threads, NEW c \in Callbacks, Construct(t, c)
      PROVE  TypeOK'
  <2>1. lives[c] + 1 \in 0..MaxLives
    BY <1>6, MaxLivesAssumption DEF Construct, IInv, TypeOK
  <2> QED BY <1>6, <2>1 DEF Construct, Goto, IInv, TypeOK, PC
<1>7. ASSUME NEW t \in Threads, InsertLock(t) PROVE TypeOK'
  BY <1>7 DEF InsertLock, Acquire, Goto, IInv, TypeOK, PC
<1>8. ASSUME NEW t \in Threads, InsertLink(t) PROVE TypeOK'
  <2>1. arg[t] \in Callbacks /\ ran[arg[t]] = 0
    BY <1>8 DEF InsertLink, IInv, Owners, Inserting, Counts, Before
  <2>2. Append(d_list, arg[t]) \in Seq(Callbacks)
    BY <2>1 DEF IInv, TypeOK
  <2>3. (d_stop_requested /\ ~over) \in BOOLEAN
    OBVIOUS
  <2>4. ran' = [ran EXCEPT ![arg[t]] = 1] \/ ran' = ran
    BY <1>8, <2>1 DEF InsertLink, IInv, TypeOK
  <2>5. ran' \in [Callbacks -> 0..2]
    BY <2>1, <2>4 DEF IInv, TypeOK
  <2>6. pc' \in [Threads -> PC]
    BY <1>8 DEF InsertLink, Goto, IInv, TypeOK, PC
  <2> QED BY <1>8, <2>1, <2>2, <2>3, <2>5, <2>6 DEF InsertLink, IInv, TypeOK
<1>9. ASSUME NEW t \in Threads, InsertBodyReturns(t) PROVE TypeOK'
  BY <1>9 DEF InsertBodyReturns, Goto, IInv, TypeOK, PC
<1>10. ASSUME NEW t \in Threads, InsertUnlock(t) PROVE TypeOK'
  BY <1>10 DEF InsertUnlock, Goto, IInv, TypeOK, PC
<1>11. ASSUME NEW t \in Threads, InsertReturn(t) PROVE TypeOK'
  BY <1>11 DEF InsertReturn, Goto, IInv, TypeOK, PC
<1>12. ASSUME NEW t \in Threads, NEW c \in Callbacks, Destroy(t, c)
       PROVE  TypeOK'
  BY <1>12 DEF Destroy, Goto, IInv, TypeOK, PC
<1>13. ASSUME NEW t \in Threads, EraseLock(t) PROVE TypeOK'
  BY <1>13 DEF EraseLock, Acquire, Goto, IInv, TypeOK, PC
<1>14. ASSUME NEW t \in Threads, Erase(t) PROVE TypeOK'
  <2>1. RemoveFirst(d_list, arg[t]) \in Seq(Callbacks)
    BY RemoveFacts DEF IInv, TypeOK, Listed
  <2> QED BY <1>14, <2>1 DEF Erase, Goto, IInv, TypeOK, PC
<1>15. CASE UNCHANGED vars
  BY <1>15 DEF vars, IInv, TypeOK
<1> QED
  BY <1>1, <1>2, <1>3, <1>4, <1>5, <1>6, <1>7, <1>8, <1>9, <1>10, <1>11,
     <1>12, <1>13, <1>14, <1>15
     DEF Next, Continue

\* The lock is taken when it is free and released by its holder.
LEMMA BusyStep == IInv /\ [Next]_vars => BusyExclusion'
<1> SUFFICES ASSUME IInv, [Next]_vars PROVE BusyExclusion'
  OBVIOUS
<1>1. ASSUME NEW t \in Threads, RequestStop(t) PROVE BusyExclusion'
  BY <1>1 DEF RequestStop, Goto, IInv, TypeOK, BusyExclusion, Holding
<1>2. ASSUME NEW t \in Threads, CallLock(t) PROVE BusyExclusion'
  BY <1>2 DEF CallLock, Acquire, Goto, IInv, TypeOK, BusyExclusion, Holding
<1>3. ASSUME NEW t \in Threads, CallFront(t) PROVE BusyExclusion'
  BY <1>3 DEF CallFront, Goto, IInv, TypeOK, BusyExclusion, Holding
<1>4. ASSUME NEW t \in Threads, CallPop(t) PROVE BusyExclusion'
  BY <1>4 DEF CallPop, Goto, IInv, TypeOK, BusyExclusion, Holding
<1>5. ASSUME NEW t \in Threads, CallEnd(t) PROVE BusyExclusion'
  BY <1>5 DEF CallEnd, Goto, IInv, TypeOK, BusyExclusion, Holding
<1>6. ASSUME NEW t \in Threads, NEW c \in Callbacks, Construct(t, c)
      PROVE  BusyExclusion'
  BY <1>6 DEF Construct, Goto, IInv, TypeOK, BusyExclusion, Holding
<1>7. ASSUME NEW t \in Threads, InsertLock(t) PROVE BusyExclusion'
  BY <1>7 DEF InsertLock, Acquire, Goto, IInv, TypeOK, BusyExclusion, Holding
<1>8. ASSUME NEW t \in Threads, InsertLink(t) PROVE BusyExclusion'
  BY <1>8 DEF InsertLink, Goto, IInv, TypeOK, BusyExclusion, Holding
<1>9. ASSUME NEW t \in Threads, InsertBodyReturns(t) PROVE BusyExclusion'
  BY <1>9 DEF InsertBodyReturns, Goto, IInv, TypeOK, BusyExclusion, Holding
<1>10. ASSUME NEW t \in Threads, InsertUnlock(t) PROVE BusyExclusion'
  BY <1>10 DEF InsertUnlock, Goto, IInv, TypeOK, BusyExclusion, Holding
<1>11. ASSUME NEW t \in Threads, InsertReturn(t) PROVE BusyExclusion'
  BY <1>11 DEF InsertReturn, Goto, IInv, TypeOK, BusyExclusion, Holding
<1>12. ASSUME NEW t \in Threads, NEW c \in Callbacks, Destroy(t, c)
       PROVE  BusyExclusion'
  BY <1>12 DEF Destroy, Goto, IInv, TypeOK, BusyExclusion, Holding
<1>13. ASSUME NEW t \in Threads, EraseLock(t) PROVE BusyExclusion'
  BY <1>13 DEF EraseLock, Acquire, Goto, IInv, TypeOK, BusyExclusion, Holding
<1>14. ASSUME NEW t \in Threads, Erase(t) PROVE BusyExclusion'
  BY <1>14 DEF Erase, Goto, IInv, TypeOK, BusyExclusion, Holding
<1>15. CASE UNCHANGED vars
  BY <1>15 DEF vars, IInv, TypeOK, BusyExclusion, Holding
<1> QED
  BY <1>1, <1>2, <1>3, <1>4, <1>5, <1>6, <1>7, <1>8, <1>9, <1>10, <1>11,
     <1>12, <1>13, <1>14, <1>15
     DEF Next, Continue

\* A constructor takes raw storage, a destructor a live object: neither is taken
\* by another thread before it returns.
LEMMA OwnersStep == IInv /\ [Next]_vars => Owners'
<1> SUFFICES ASSUME IInv, [Next]_vars PROVE Owners'
  OBVIOUS
<1>1. ASSUME NEW t \in Threads, RequestStop(t) PROVE Owners'
  BY <1>1 DEF RequestStop, Goto, IInv, TypeOK, Owners, Inserting, Erasing
<1>2. ASSUME NEW t \in Threads, CallLock(t) PROVE Owners'
  BY <1>2
     DEF CallLock, Acquire, Goto, IInv, TypeOK, Owners, Inserting, Erasing
<1>3. ASSUME NEW t \in Threads, CallFront(t) PROVE Owners'
  BY <1>3 DEF CallFront, Goto, IInv, TypeOK, Owners, Inserting, Erasing
<1>4. ASSUME NEW t \in Threads, CallPop(t) PROVE Owners'
  BY <1>4 DEF CallPop, Goto, IInv, TypeOK, Owners, Inserting, Erasing
<1>5. ASSUME NEW t \in Threads, CallEnd(t) PROVE Owners'
  BY <1>5 DEF CallEnd, Goto, IInv, TypeOK, Owners, Inserting, Erasing
<1>6. ASSUME NEW t \in Threads, NEW c \in Callbacks, Construct(t, c)
      PROVE  Owners'
  BY <1>6 DEF Construct, Goto, IInv, TypeOK, Owners, Inserting, Erasing
<1>7. ASSUME NEW t \in Threads, InsertLock(t) PROVE Owners'
  BY <1>7
     DEF InsertLock, Acquire, Goto, IInv, TypeOK, Owners, Inserting, Erasing
<1>8. ASSUME NEW t \in Threads, InsertLink(t) PROVE Owners'
  <2>1. /\ life' = life /\ arg' = arg
        /\ \A u \in Threads : u # t => pc'[u] = pc[u]
        /\ pc'[t] \in Inserting
    BY <1>8 DEF InsertLink, Goto, IInv, TypeOK, Inserting
  <2>2. pc[t] \in Inserting
    BY <1>8 DEF InsertLink, Inserting
  <2>3. \A u \in Threads : /\ pc'[u] \in Inserting <=> pc[u] \in Inserting
                           /\ pc'[u] \in Erasing <=> pc[u] \in Erasing
    BY <2>1, <2>2 DEF Inserting, Erasing
  <2> QED BY <2>1, <2>3 DEF IInv, Owners
<1>9. ASSUME NEW t \in Threads, InsertBodyReturns(t) PROVE Owners'
  BY <1>9
     DEF InsertBodyReturns, Goto, IInv, TypeOK, Owners, Inserting, Erasing
<1>10. ASSUME NEW t \in Threads, InsertUnlock(t) PROVE Owners'
  BY <1>10 DEF InsertUnlock, Goto, IInv, TypeOK, Owners, Inserting, Erasing
<1>11. ASSUME NEW t \in Threads, InsertReturn(t) PROVE Owners'
  BY <1>11 DEF InsertReturn, Goto, IInv, TypeOK, Owners, Inserting, Erasing
<1>12. ASSUME NEW t \in Threads, NEW c \in Callbacks, Destroy(t, c)
       PROVE  Owners'
  BY <1>12 DEF Destroy, Goto, IInv, TypeOK, Owners, Inserting, Erasing
<1>13. ASSUME NEW t \in Threads, EraseLock(t) PROVE Owners'
  BY <1>13
     DEF EraseLock, Acquire, Goto, IInv, TypeOK, Owners, Inserting, Erasing
<1>14. ASSUME NEW t \in Threads, Erase(t) PROVE Owners'
  BY <1>14 DEF Erase, Goto, IInv, TypeOK, Owners, Inserting, Erasing
<1>15. CASE UNCHANGED vars
  BY <1>15 DEF vars, IInv, TypeOK, Owners, Inserting, Erasing
<1> QED
  BY <1>1, <1>2, <1>3, <1>4, <1>5, <1>6, <1>7, <1>8, <1>9, <1>10, <1>11,
     <1>12, <1>13, <1>14, <1>15
     DEF Next, Continue

\* The flag goes up once, and whoever put it up processes the request.
LEMMA ProcessingStep == IInv /\ [Next]_vars => Processing'
<1> SUFFICES ASSUME IInv, [Next]_vars PROVE Processing'
  OBVIOUS
<1>1. ASSUME NEW t \in Threads, RequestStop(t) PROVE Processing'
  BY <1>1
     DEF RequestStop, Goto, IInv, TypeOK, BusyExclusion, Holding, Processing,
         Calling
<1>2. ASSUME NEW t \in Threads, CallLock(t) PROVE Processing'
  BY <1>2
     DEF CallLock, Acquire, Goto, IInv, TypeOK, BusyExclusion, Holding,
         Processing, Calling
<1>3. ASSUME NEW t \in Threads, CallFront(t) PROVE Processing'
  BY <1>3
     DEF CallFront, Goto, IInv, TypeOK, BusyExclusion, Holding, Processing,
         Calling
<1>4. ASSUME NEW t \in Threads, CallPop(t) PROVE Processing'
  BY <1>4
     DEF CallPop, Goto, IInv, TypeOK, BusyExclusion, Holding, Processing,
         Calling
<1>5. ASSUME NEW t \in Threads, CallEnd(t) PROVE Processing'
  BY <1>5
     DEF CallEnd, Goto, IInv, TypeOK, BusyExclusion, Holding, Processing,
         Calling
<1>6. ASSUME NEW t \in Threads, NEW c \in Callbacks, Construct(t, c)
      PROVE  Processing'
  BY <1>6
     DEF Construct, Goto, IInv, TypeOK, BusyExclusion, Holding, Processing,
         Calling
<1>7. ASSUME NEW t \in Threads, InsertLock(t) PROVE Processing'
  BY <1>7
     DEF InsertLock, Acquire, Goto, IInv, TypeOK, BusyExclusion, Holding,
         Processing, Calling
<1>8. ASSUME NEW t \in Threads, InsertLink(t) PROVE Processing'
  BY ZenonT(60), <1>8
     DEF InsertLink, Goto, IInv, TypeOK, BusyExclusion, Holding, Processing,
         Calling
<1>9. ASSUME NEW t \in Threads, InsertBodyReturns(t) PROVE Processing'
  BY <1>9
     DEF InsertBodyReturns, Goto, IInv, TypeOK, BusyExclusion, Holding,
         Processing, Calling
<1>10. ASSUME NEW t \in Threads, InsertUnlock(t) PROVE Processing'
  BY <1>10
     DEF InsertUnlock, Goto, IInv, TypeOK, BusyExclusion, Holding,
         Processing, Calling
<1>11. ASSUME NEW t \in Threads, InsertReturn(t) PROVE Processing'
  BY <1>11
     DEF InsertReturn, Goto, IInv, TypeOK, BusyExclusion, Holding,
         Processing, Calling
<1>12. ASSUME NEW t \in Threads, NEW c \in Callbacks, Destroy(t, c)
       PROVE  Processing'
  BY <1>12
     DEF Destroy, Goto, IInv, TypeOK, BusyExclusion, Holding, Processing,
         Calling
<1>13. ASSUME NEW t \in Threads, EraseLock(t) PROVE Processing'
  BY <1>13
     DEF EraseLock, Acquire, Goto, IInv, TypeOK, BusyExclusion, Holding,
         Processing, Calling
<1>14. ASSUME NEW t \in Threads, Erase(t) PROVE Processing'
  BY <1>14
     DEF Erase, Goto, IInv, TypeOK, BusyExclusion, Holding, Processing,
         Calling
<1>15. CASE UNCHANGED vars
  BY <1>15 DEF vars, IInv, TypeOK, BusyExclusion, Holding, Processing, Calling
<1> QED
  BY <1>1, <1>2, <1>3, <1>4, <1>5, <1>6, <1>7, <1>8, <1>9, <1>10, <1>11,
     <1>12, <1>13, <1>14, <1>15
     DEF Next, Continue

\* The list is changed under the lock, and holds what is neither unlinked yet
\* nor destroyed.
LEMMA ListedStep == IInv /\ [Next]_vars => Listed'
<1> SUFFICES ASSUME IInv, [Next]_vars PROVE Listed'
  OBVIOUS
<1>1. ASSUME NEW t \in Threads, RequestStop(t) PROVE Listed'
  BY <1>1
     DEF RequestStop, Goto, IInv, TypeOK, BusyExclusion, Holding, Owners,
         Inserting, Erasing, Listed, Before
<1>2. ASSUME NEW t \in Threads, CallLock(t) PROVE Listed'
  BY <1>2
     DEF CallLock, Acquire, Goto, IInv, TypeOK, BusyExclusion, Holding,
         Owners, Inserting, Erasing, Listed, Before
<1>3. ASSUME NEW t \in Threads, CallFront(t) PROVE Listed'
  <2>1. Head(d_list) \in Callbacks
    BY <1>3, HeadFacts DEF CallFront, IInv, TypeOK
  <2> QED BY <1>3, <2>1
             DEF CallFront, Goto, IInv, TypeOK, BusyExclusion, Holding,
                 Owners, Inserting, Erasing, Listed, Before
<1>4. ASSUME NEW t \in Threads, CallPop(t) PROVE Listed'
  <2>1. /\ Distinct(Tail(d_list))
        /\ \A c : Contains(Tail(d_list), c) => Contains(d_list, c)
    BY <1>4, TailFacts DEF CallPop, IInv, TypeOK, Listed
  <2>2. \A u \in Threads : pc'[u] # "call_body"
    BY <1>4 DEF CallPop, Goto, IInv, TypeOK, BusyExclusion, Holding
  <2>3. \A u \in Threads : Before(u)' => Before(u) /\ arg'[u] = arg[u]
    BY <1>4 DEF CallPop, Goto, IInv, TypeOK, Before
  <2> QED BY <1>4, <2>1, <2>2, <2>3 DEF CallPop, IInv, Listed
<1>5. ASSUME NEW t \in Threads, CallEnd(t) PROVE Listed'
  BY <1>5
     DEF CallEnd, Goto, IInv, TypeOK, BusyExclusion, Holding, Owners,
         Inserting, Erasing, Listed, Before
<1>6. ASSUME NEW t \in Threads, NEW c \in Callbacks, Construct(t, c)
      PROVE  Listed'
  BY <1>6
     DEF Construct, Goto, IInv, TypeOK, BusyExclusion, Holding, Owners,
         Inserting, Erasing, Listed, Before
<1>7. ASSUME NEW t \in Threads, InsertLock(t) PROVE Listed'
  BY <1>7
     DEF InsertLock, Acquire, Goto, IInv, TypeOK, BusyExclusion, Holding,
         Owners, Inserting, Erasing, Listed, Before
<1>8. ASSUME NEW t \in Threads, InsertLink(t) PROVE Listed'
  <2>1. arg[t] \in Callbacks /\ life[arg[t]] = "ctor" /\ ~Contains(d_list, arg[t])
    BY <1>8 DEF InsertLink, IInv, Owners, Inserting, Listed, Before
  <2>2. /\ Distinct(d_list')
        /\ \A c : Contains(d_list', c) <=> Contains(d_list, c) \/ c = arg[t]
    BY <1>8, <2>1, AppendFacts DEF InsertLink, IInv, TypeOK, Listed
  <2>3. \A u \in Threads : pc'[u] # "call_body"
    BY <1>8 DEF InsertLink, Goto, IInv, TypeOK, BusyExclusion, Holding
  <2>4. \A u \in Threads : Before(u)' => Before(u) /\ u # t
    BY <1>8 DEF InsertLink, Goto, IInv, TypeOK, Before
  <2>5. \A u \in Threads : Before(u)' => arg[u] # arg[t]
    BY <1>8, <2>4 DEF InsertLink, IInv, Owners, Inserting, Before
  <2>6. life' = life /\ arg' = arg
    BY <1>8 DEF InsertLink
  <2>7. \A u \in Threads : Before(u)' => ~Contains(d_list, arg[u])
    BY <2>4 DEF IInv, Listed
  <2>8. \A c \in Callbacks : Contains(d_list', c) => life'[c] # "raw"
    BY <2>1, <2>2, <2>6 DEF IInv, Listed
  <2>9. \A u \in Threads : Before(u)' => ~Contains(d_list', arg'[u])
    BY <2>2, <2>5, <2>6, <2>7
  <2> QED BY <2>2, <2>3, <2>8, <2>9 DEF Listed
<1>9. ASSUME NEW t \in Threads, InsertBodyReturns(t) PROVE Listed'
  BY <1>9
     DEF InsertBodyReturns, Goto, IInv, TypeOK, BusyExclusion, Holding,
         Owners, Inserting, Erasing, Listed, Before
<1>10. ASSUME NEW t \in Threads, InsertUnlock(t) PROVE Listed'
  BY <1>10
     DEF InsertUnlock, Goto, IInv, TypeOK, BusyExclusion, Holding, Owners,
         Inserting, Erasing, Listed, Before
<1>11. ASSUME NEW t \in Threads, InsertReturn(t) PROVE Listed'
  BY <1>11
     DEF InsertReturn, Goto, IInv, TypeOK, BusyExclusion, Holding, Owners,
         Inserting, Erasing, Listed, Before
<1>12. ASSUME NEW t \in Threads, NEW c \in Callbacks, Destroy(t, c)
       PROVE  Listed'
  BY <1>12
     DEF Destroy, Goto, IInv, TypeOK, BusyExclusion, Holding, Owners,
         Inserting, Erasing, Listed, Before
<1>13. ASSUME NEW t \in Threads, EraseLock(t) PROVE Listed'
  BY <1>13
     DEF EraseLock, Acquire, Goto, IInv, TypeOK, BusyExclusion, Holding,
         Owners, Inserting, Erasing, Listed, Before
<1>14. ASSUME NEW t \in Threads, Erase(t) PROVE Listed'
  <2>1. /\ Distinct(d_list')
        /\ \A c : Contains(d_list', c) <=> Contains(d_list, c) /\ c # arg[t]
    BY <1>14, RemoveFacts DEF Erase, IInv, TypeOK, Listed
  <2>2. \A u \in Threads : pc'[u] # "call_body"
    BY <1>14 DEF Erase, Goto, IInv, TypeOK, BusyExclusion, Holding
  <2>3. \A u \in Threads : Before(u)' => Before(u) /\ arg'[u] = arg[u]
    BY <1>14 DEF Erase, Goto, IInv, TypeOK, Before
  <2>4. \A c \in Callbacks : c # arg[t] => life'[c] = life[c]
    BY <1>14 DEF Erase, IInv, TypeOK
  <2> QED BY <1>14, <2>1, <2>2, <2>3, <2>4 DEF IInv, Listed
<1>15. CASE UNCHANGED vars
  BY <1>15
     DEF vars, IInv, TypeOK, BusyExclusion, Holding, Owners, Inserting,
         Erasing, Listed, Before
<1> QED
  BY <1>1, <1>2, <1>3, <1>4, <1>5, <1>6, <1>7, <1>8, <1>9, <1>10, <1>11,
     <1>12, <1>13, <1>14, <1>15
     DEF Next, Continue


\* What an action leaves alone about a callback stays due.
LEMMA DueFrame ==
    ASSUME IInv, NEW c \in Callbacks, ran'[c] = ran[c], window'[c] = window[c],
           Linked(c)' => Linked(c), Through(c)' <=> Through(c)
    PROVE  ran'[c] <= Quota(c)' /\ Due(c)'
BY DEF IInv, Counts, Due, Quota

\* Every call is one that was due.
LEMMA CountsStep == IInv /\ [Next]_vars => Counts'
<1> SUFFICES ASSUME IInv, [Next]_vars PROVE Counts'
  OBVIOUS
<1>1. ASSUME NEW t \in Threads, RequestStop(t) PROVE Counts'
  BY <1>1
     DEF RequestStop, Goto, IInv, TypeOK, BusyExclusion, Holding, Counts,
         Due, Linked, Quota, Through, Before
<1>2. ASSUME NEW t \in Threads, CallLock(t) PROVE Counts'
  BY <1>2
     DEF CallLock, Acquire, Goto, IInv, TypeOK, BusyExclusion, Holding,
         Counts, Due, Linked, Quota, Through, Before
<1>3. ASSUME NEW t \in Threads, CallFront(t) PROVE Counts'
  <2>a. PICK f \in Callbacks : f = Head(d_list)
    BY <1>3, HeadFacts DEF CallFront, IInv, TypeOK
  <2>1. ran[f] = Quota(f) - 1
    BY <1>3, <2>a, FrontDue DEF CallFront
  <2>2. /\ ran'[f] = Quota(f)
        /\ \A c \in Callbacks : c # f => ran'[c] = ran[c]
        /\ window' = window /\ d_list' = d_list /\ over' = over /\ life' = life
    BY <1>3, <2>a, <2>1 DEF CallFront, IInv, TypeOK, Quota
  <2>3. /\ \A u \in Threads : pc[u] # "call_body"
        /\ \A u \in Threads : pc'[u] = "call_body" <=> u = t
        /\ arg'[t] = f
        /\ \A u \in Threads : Before(u)' <=> Before(u)
        /\ \A u \in Threads : Before(u) => arg'[u] = arg[u]
    BY <1>3, <2>a
       DEF CallFront, Goto, IInv, TypeOK, BusyExclusion, Holding, Before
  <2>4. ASSUME NEW c \in Callbacks, c # f
        PROVE  ran'[c] <= Quota(c)' /\ Due(c)'
    <3>1. Through(c)' <=> Through(c)
      BY <2>2, <2>3, <2>4 DEF Through
    <3>2. Linked(c)' <=> Linked(c)
      BY <2>2, <2>3 DEF Linked
    <3> QED BY <2>2, <2>4, <3>1, <3>2, DueFrame
  <2>5. ran'[f] <= Quota(f)' /\ Due(f)'
    <3>1. Through(f)'
      BY <2>3 DEF Through
    <3>2. Quota(f)' = Quota(f) /\ Quota(f) \in 1..2
      BY <2>2 DEF Quota
    <3> QED BY <2>2, <3>1, <3>2 DEF Due
  <2>6. \A u \in Threads : Before(u)' => ran'[arg'[u]] = 0
    <3> SUFFICES ASSUME NEW u \in Threads, Before(u) PROVE ran'[arg[u]] = 0
      BY <2>3
    <3>1. arg[u] \in Callbacks /\ ran[arg[u]] = 0 /\ ~Contains(d_list, arg[u])
      BY DEF IInv, Counts, Listed, Owners, Inserting, Before
    <3>2. Contains(d_list, f)
      BY <1>3, <2>a, HeadFacts DEF CallFront, IInv, TypeOK
    <3> QED BY <2>2, <3>1, <3>2
  <2> QED BY <2>4, <2>5, <2>6 DEF Counts
<1>4. ASSUME NEW t \in Threads, CallPop(t) PROVE Counts'
  <2>1. /\ \A c : Contains(d_list', c) <=> Contains(d_list, c) /\ c # arg[t]
    BY <1>4, TailFacts DEF CallPop, IInv, TypeOK, Listed
  <2>2. /\ ran' = ran /\ window' = window /\ over' = over /\ life' = life
        /\ \A u \in Threads : pc[u] = "call_body" <=> u = t
        /\ \A u \in Threads : pc'[u] # "call_body"
        /\ \A u \in Threads : Before(u)' <=> Before(u)
        /\ \A u \in Threads : Before(u) => arg'[u] = arg[u]
    BY <1>4 DEF CallPop, Goto, IInv, TypeOK, BusyExclusion, Holding, Before
  <2>3. ASSUME NEW c \in Callbacks PROVE ran'[c] <= Quota(c)' /\ Due(c)'
    <3>1. Through(c)' <=> Through(c)
      BY <2>1, <2>2 DEF Through
    <3>2. Linked(c)' <=> Linked(c)
      BY <2>2 DEF Linked
    <3> QED BY <2>2, <3>1, <3>2, DueFrame
  <2> QED BY <2>2, <2>3 DEF IInv, Counts
<1>5. ASSUME NEW t \in Threads, CallEnd(t) PROVE Counts'
  <2>1. /\ ran' = ran /\ window' = window /\ life' = life /\ arg' = arg
        /\ over' /\ d_list = <<>>
        /\ \A u \in Threads : Before(u)' <=> Before(u)
    BY <1>5 DEF CallEnd, Goto, IInv, TypeOK, Before
  <2>2. ASSUME NEW c \in Callbacks PROVE ran'[c] <= Quota(c)' /\ Due(c)'
    <3>1. Through(c)' /\ Through(c)
      BY <2>1, EmptyFacts DEF Through
    <3>2. Linked(c)' <=> Linked(c)
      BY <2>1 DEF Linked
    <3> QED BY <2>1, <3>1, <3>2, DueFrame
  <2> QED BY <2>1, <2>2 DEF IInv, Counts
<1>6. ASSUME NEW t \in Threads, NEW c \in Callbacks, Construct(t, c)
      PROVE  Counts'
  <2>1. /\ ran'[c] = 0
        /\ \A b \in Callbacks : b # c => ran'[b] = ran[b] /\ life'[b] = life[b]
        /\ window' = window /\ d_list' = d_list /\ over' = over
    BY <1>6 DEF Construct, IInv, TypeOK
  <2>2. /\ Before(t)' /\ arg'[t] = c /\ pc[t] = "idle" /\ pc'[t] = "ins_lock"
        /\ \A u \in Threads : u # t => pc'[u] = pc[u] /\ arg'[u] = arg[u]
    BY <1>6 DEF Construct, Goto, IInv, TypeOK, Before
  <2>3. ASSUME NEW b \in Callbacks, b # c
        PROVE  ran'[b] <= Quota(b)' /\ Due(b)'
    <3>1. Through(b)' <=> Through(b)
      BY <2>1, <2>2 DEF Through
    <3>2. Linked(b)' => Linked(b)
      BY <2>1, <2>2, <2>3 DEF Linked, Before
    <3> QED BY <2>1, <2>3, <3>1, <3>2, DueFrame
  <2>4. ran'[c] <= Quota(c)' /\ Due(c)'
    BY <2>1, <2>2 DEF Due, Linked, Quota
  <2>5. \A u \in Threads : Before(u)' => ran'[arg'[u]] = 0
    <3> SUFFICES ASSUME NEW u \in Threads, u # t, Before(u)
                 PROVE  ran'[arg[u]] = 0
      BY <2>1, <2>2 DEF Before
    <3>1. arg[u] \in Callbacks /\ ran[arg[u]] = 0
      BY DEF IInv, Counts, Owners, Inserting, Before
    <3> QED BY <2>1, <3>1
  <2> QED BY <2>3, <2>4, <2>5 DEF Counts
<1>7. ASSUME NEW t \in Threads, InsertLock(t) PROVE Counts'
  BY <1>7
     DEF InsertLock, Acquire, Goto, IInv, TypeOK, BusyExclusion, Holding,
         Counts, Due, Linked, Quota, Through, Before
<1>8. ASSUME NEW t \in Threads, InsertLink(t) PROVE Counts'
  <2>a. PICK n \in Callbacks : n = arg[t]
    BY <1>8 DEF InsertLink, IInv, Owners, Inserting
  <2>1. ran[n] = 0 /\ ~Contains(d_list, n)
    BY <1>8, <2>a DEF InsertLink, IInv, Counts, Listed, Before
  <2>2. \A c : Contains(d_list', c) <=> Contains(d_list, c) \/ c = n
    BY <1>8, <2>a, <2>1, AppendFacts DEF InsertLink, IInv, TypeOK, Listed
  <2>3. /\ life' = life /\ over' = over /\ arg' = arg
        /\ window'[n] = (d_stop_requested /\ ~over)
        /\ ran'[n] = IF d_stop_requested THEN 1 ELSE 0
        /\ \A c \in Callbacks : c # n => ran'[c] = ran[c] /\ window'[c] = window[c]
    BY <1>8, <2>a, <2>1 DEF InsertLink, IInv, TypeOK
  <2>4. /\ \A u \in Threads : u # t => (Before(u)' <=> Before(u))
        /\ Before(t) /\ ~Before(t)'
        /\ \A u \in Threads : pc[u] # "call_body" /\ pc'[u] # "call_body"
    BY <1>8 DEF InsertLink, Goto, IInv, TypeOK, BusyExclusion, Holding, Before
  <2>5. ASSUME NEW c \in Callbacks, c # n
        PROVE  ran'[c] <= Quota(c)' /\ Due(c)'
    <3>1. Through(c)' <=> Through(c)
      BY <2>2, <2>3, <2>4, <2>5 DEF Through
    <3>2. Linked(c)' => Linked(c)
      BY <2>a, <2>3, <2>4, <2>5 DEF Linked
    <3> QED BY <2>3, <2>5, <3>1, <3>2, DueFrame
  <2>6. ran'[n] <= Quota(n)' /\ Due(n)'
    <3>1. Through(n)' <=> over
      BY <2>2, <2>3, <2>4 DEF Through
    <3>2. over => d_stop_requested
      BY DEF IInv, Processing
    <3>3. Quota(n)' = IF d_stop_requested /\ ~over THEN 2 ELSE 1
      BY <2>3 DEF Quota
    <3> QED BY <2>3, <3>1, <3>2, <3>3 DEF Due
  <2>7. \A u \in Threads : Before(u)' => ran'[arg'[u]] = 0
    <3> SUFFICES ASSUME NEW u \in Threads, u # t, Before(u)
                 PROVE  ran'[arg[u]] = 0
      BY <2>3, <2>4
    <3>1. arg[u] \in Callbacks /\ ran[arg[u]] = 0 /\ arg[u] # n
      BY <2>a, <2>4 DEF IInv, Counts, Owners, Inserting, Before
    <3> QED BY <2>3, <3>1
  <2> QED BY <2>5, <2>6, <2>7 DEF Counts
<1>9. ASSUME NEW t \in Threads, InsertBodyReturns(t) PROVE Counts'
  BY <1>9
     DEF InsertBodyReturns, Goto, IInv, TypeOK, BusyExclusion, Holding,
         Counts, Due, Linked, Quota, Through, Before
<1>10. ASSUME NEW t \in Threads, InsertUnlock(t) PROVE Counts'
  BY <1>10
     DEF InsertUnlock, Goto, IInv, TypeOK, BusyExclusion, Holding, Counts,
         Due, Linked, Quota, Through, Before
<1>11. ASSUME NEW t \in Threads, InsertReturn(t) PROVE Counts'
  <2>1. /\ ran' = ran /\ window' = window /\ d_list' = d_list /\ over' = over
        /\ \A c \in Callbacks : life'[c] # "raw" => life[c] # "raw"
        /\ \A u \in Threads : Before(u)' <=> Before(u)
        /\ \A u \in Threads : pc'[u] = "call_body" <=> pc[u] = "call_body"
        /\ \A u \in Threads : Before(u) \/ pc[u] = "call_body" => arg'[u] = arg[u]
    BY <1>11 DEF InsertReturn, Goto, IInv, TypeOK, Owners, Inserting, Before
  <2>2. ASSUME NEW b \in Callbacks PROVE ran'[b] <= Quota(b)' /\ Due(b)'
    <3>1. Through(b)' <=> Through(b)
      BY <2>1 DEF Through
    <3>2. Linked(b)' => Linked(b)
      BY <2>1 DEF Linked
    <3> QED BY <2>1, <3>1, <3>2, DueFrame
  <2> QED BY <2>1, <2>2 DEF IInv, Counts
<1>12. ASSUME NEW t \in Threads, NEW c \in Callbacks, Destroy(t, c)
       PROVE  Counts'
  <2>1. /\ ran' = ran /\ window' = window /\ d_list' = d_list /\ over' = over
        /\ \A b \in Callbacks : life'[b] # "raw" => life[b] # "raw"
        /\ \A u \in Threads : Before(u)' <=> Before(u)
        /\ \A u \in Threads : pc'[u] = "call_body" <=> pc[u] = "call_body"
        /\ \A u \in Threads : Before(u) \/ pc[u] = "call_body" => arg'[u] = arg[u]
    BY <1>12 DEF Destroy, Goto, IInv, TypeOK, Owners, Inserting, Before
  <2>2. ASSUME NEW b \in Callbacks PROVE ran'[b] <= Quota(b)' /\ Due(b)'
    <3>1. Through(b)' <=> Through(b)
      BY <2>1 DEF Through
    <3>2. Linked(b)' => Linked(b)
      BY <2>1 DEF Linked
    <3> QED BY <2>1, <3>1, <3>2, DueFrame
  <2> QED BY <2>1, <2>2 DEF IInv, Counts
<1>13. ASSUME NEW t \in Threads, EraseLock(t) PROVE Counts'
  BY <1>13
     DEF EraseLock, Acquire, Goto, IInv, TypeOK, BusyExclusion, Holding,
         Counts, Due, Linked, Quota, Through, Before
<1>14. ASSUME NEW t \in Threads, Erase(t) PROVE Counts'
  <2>1. \A c : Contains(d_list', c) <=> Contains(d_list, c) /\ c # arg[t]
    BY <1>14, RemoveFacts DEF Erase, IInv, TypeOK, Listed
  <2>2. /\ ran' = ran /\ window' = window /\ over' = over
        /\ \A c \in Callbacks : c # arg[t] => life'[c] = life[c]
        /\ arg[t] \in Callbacks => life'[arg[t]] = "raw"
        /\ \A u \in Threads : Before(u)' <=> Before(u)
        /\ \A u \in Threads : pc'[u] # "call_body" /\ pc[u] # "call_body"
        /\ \A u \in Threads : Before(u) => arg'[u] = arg[u]
    BY <1>14 DEF Erase, Goto, IInv, TypeOK, BusyExclusion, Holding, Before
  <2>3. ASSUME NEW c \in Callbacks, c # arg[t]
        PROVE  ran'[c] <= Quota(c)' /\ Due(c)'
    <3>1. Through(c)' <=> Through(c)
      BY <2>1, <2>2, <2>3 DEF Through
    <3>2. Linked(c)' => Linked(c)
      BY <2>2, <2>3 DEF Linked
    <3> QED BY <2>2, <3>1, <3>2, DueFrame
  <2>4. ASSUME NEW c \in Callbacks, c = arg[t]
        PROVE  ran'[c] <= Quota(c)' /\ Due(c)'
    BY <2>2, <2>4 DEF IInv, Counts, Due, Linked, Quota
  <2> QED BY <2>2, <2>3, <2>4 DEF IInv, Counts
<1>15. CASE UNCHANGED vars
  BY <1>15
     DEF vars, IInv, TypeOK, BusyExclusion, Holding, Counts, Due, Linked,
         Quota, Through, Before
<1> QED
  BY <1>1, <1>2, <1>3, <1>4, <1>5, <1>6, <1>7, <1>8, <1>9, <1>10, <1>11,
     <1>12, <1>13, <1>14, <1>15
     DEF Next, Continue


-----------------------------------------------------------------------------

\* The invariant is inductive.
THEOREM Invariant == Spec => []IInv
<1>1. IInv /\ [Next]_vars => IInv'
  BY TypeStep, BusyStep, OwnersStep, ListedStep, ProcessingStep, CountsStep
     DEF IInv
<1> QED BY InitIInv, <1>1, PTL DEF Spec

\* The members of stop_state and the running operations have their types.
THEOREM TypeCorrect == Spec => []TypeOK
<1>1. IInv => TypeOK
  BY DEF IInv
<1> QED BY Invariant, <1>1, PTL

\* d_busy is a lock, for any number of threads.
THEOREM Exclusion == Spec => []BusyExclusion
<1>1. IInv => BusyExclusion
  BY DEF IInv
<1> QED BY Invariant, <1>1, PTL

\* No callback runs when its object is destroyed, and the list holds no
\* destroyed object.
THEOREM DestructorWaits == Spec => []NoCallAfterDestruction
<1>1. IInv => NoCallAfterDestruction
  <2> SUFFICES ASSUME IInv PROVE NoCallAfterDestruction
    OBVIOUS
  <2>1. ASSUME NEW t \in Threads, pc[t] = "call_body"
        PROVE  life[arg[t]] # "raw"
    BY <2>1, HeadFacts DEF IInv, TypeOK, Listed
  <2>2. ASSUME NEW t \in Threads, pc[t] = "ins_body"
        PROVE  life[arg[t]] # "raw"
    BY <2>2 DEF IInv, Owners, Inserting
  <2> QED BY <2>1, <2>2 DEF IInv, Listed, NoCallAfterDestruction
<1> QED BY Invariant, <1>1, PTL

\* A callback runs once, or twice when it was linked between the request and
\* call(); when call() is over every live callback has run so often.
THEOREM Calls == Spec => []CallCount
<1>1. IInv => CallCount
  <2> SUFFICES ASSUME IInv, NEW c \in Callbacks
               PROVE  /\ ran[c] <= Quota(c)
                      /\ over /\ life[c] = "live" => ran[c] = Quota(c)
    BY DEF CallCount, Quota
  <2>1. life[c] = "live" => Linked(c)
    BY DEF IInv, Owners, Linked, Before, Inserting
  <2> QED BY <2>1 DEF IInv, Counts, Due, Through
<1> QED BY Invariant, <1>1, PTL


-----------------------------------------------------------------------------
(* Refinement                                                              *)

\* What each step means for the abstract stop source: a callback is registered
\* at the end of its constructor, and what insert() calls while the request is
\* processed is called once more by call().
LEMMA PromiseStep == IInv /\ [Next]_vars => [Promise!Next]_(Promise!vars)
<1> SUFFICES ASSUME IInv, [Next]_vars PROVE [Promise!Next]_(Promise!vars)
  OBVIOUS
<1>1. ASSUME NEW t \in Threads, RequestStop(t)
      PROVE  [Promise!Next]_(Promise!vars)
  <2>1. PhaseOf' = PhaseOf
    BY <1>1 DEF RequestStop, PhaseOf
  <2> QED BY <1>1, <2>1 DEF RequestStop, Promise!Next, Promise!Request
<1>2. ASSUME NEW t \in Threads, CallLock(t)
      PROVE  [Promise!Next]_(Promise!vars)
  <2>1. PhaseOf' = PhaseOf
    BY <1>2 DEF CallLock, Goto, PhaseOf
  <2> QED BY <1>2, <2>1 DEF CallLock, Promise!vars
<1>3. ASSUME NEW t \in Threads, CallFront(t)
      PROVE  [Promise!Next]_(Promise!vars)
  <2>1. PICK f \in Callbacks : f = Head(d_list)
    BY <1>3, HeadFacts DEF CallFront, IInv, TypeOK
  <2>2. life[f] # "raw" /\ d_stop_requested
    BY <1>3, <2>1, HeadFacts
       DEF CallFront, IInv, TypeOK, Listed, Processing, Calling
  <2>3. ran[f] = Quota(f) - 1
    BY <1>3, <2>1, FrontDue DEF CallFront
  <2>4. PhaseOf' = [PhaseOf EXCEPT ![f] = "invoked"]
    <3> SUFFICES ASSUME NEW d \in Callbacks
                 PROVE  PhaseOf'[d] = IF d = f THEN "invoked" ELSE PhaseOf[d]
      BY DEF PhaseOf
    <3>1. /\ ran'[f] = Quota(f) /\ life' = life /\ d_list' = d_list
          /\ window' = window
          /\ \A c \in Callbacks : c # f => ran'[c] = ran[c]
      BY <1>3, <2>1, <2>3 DEF CallFront, IInv, TypeOK, Quota
    <3> QED BY <2>2, <3>1 DEF PhaseOf, Quota
  <2>5. PhaseOf[f] # "invoked"
    BY <2>3 DEF PhaseOf, Quota
  <2> QED BY <1>3, <2>2, <2>4, <2>5 DEF CallFront, Promise!Next, Promise!Invoke
<1>4. ASSUME NEW t \in Threads, CallPop(t) PROVE [Promise!Next]_(Promise!vars)
  <2>1. PICK f \in Callbacks : f = arg[t] /\ d_list # <<>> /\ f = Head(d_list)
    BY <1>4, HeadFacts DEF CallPop, IInv, TypeOK, Listed
  <2>2. \A c : Contains(d_list', c) <=> Contains(d_list, c) /\ c # f
    BY <1>4, <2>1, TailFacts DEF CallPop, IInv, TypeOK, Listed
  <2>3. ran[f] > 0
    <3>1. Linked(f) /\ Through(f)
      BY <1>4, <2>1, HeadFacts
         DEF CallPop, IInv, TypeOK, Listed, Linked, Through
    <3> QED BY <3>1 DEF IInv, Counts, Due, Quota
  <2>4. PhaseOf' = PhaseOf
    BY <1>4, <2>2, <2>3 DEF CallPop, PhaseOf
  <2> QED BY <1>4, <2>4 DEF CallPop, Promise!vars
<1>5. ASSUME NEW t \in Threads, CallEnd(t) PROVE [Promise!Next]_(Promise!vars)
  <2>1. PhaseOf' = PhaseOf
    BY <1>5 DEF CallEnd, PhaseOf
  <2>2. \A c \in Callbacks : PhaseOf[c] \notin {"registered", "again"}
    <3> SUFFICES ASSUME NEW c \in Callbacks
                 PROVE  PhaseOf[c] \notin {"registered", "again"}
      OBVIOUS
    <3>1. ~Contains(d_list, c)
      BY <1>5, EmptyFacts DEF CallEnd
    <3>2. Linked(c) => ran[c] = Quota(c)
      BY <3>1 DEF IInv, Counts, Due, Through
    <3>3. life[c] # "raw" /\ ~Linked(c) => ran[c] = 0
      BY DEF IInv, Counts, Linked
    <3> QED BY <3>1, <3>2, <3>3 DEF PhaseOf, Quota
  <2>3. d_stop_requested
    BY <1>5 DEF CallEnd, IInv, Processing, Calling
  <2> QED BY <1>5, <2>1, <2>2, <2>3
             DEF CallEnd, Promise!Next, Promise!Complete
<1>6. ASSUME NEW t \in Threads, NEW c \in Callbacks, Construct(t, c)
      PROVE  [Promise!Next]_(Promise!vars)
  <2>1. PhaseOf' = PhaseOf
    BY <1>6 DEF Construct, PhaseOf, IInv, TypeOK
  <2> QED BY <1>6, <2>1 DEF Construct, Promise!vars
<1>7. ASSUME NEW t \in Threads, InsertLock(t)
      PROVE  [Promise!Next]_(Promise!vars)
  <2>1. PhaseOf' = PhaseOf
    BY <1>7 DEF InsertLock, Goto, PhaseOf
  <2> QED BY <1>7, <2>1 DEF InsertLock, Promise!vars
<1>8. ASSUME NEW t \in Threads, InsertLink(t)
      PROVE  [Promise!Next]_(Promise!vars)
  <2>1. PICK n \in Callbacks : n = arg[t]
    BY <1>8 DEF InsertLink, IInv, Owners, Inserting
  <2>2. life[n] = "ctor" /\ ran[n] = 0 /\ ~Contains(d_list, n)
    BY <1>8, <2>1
       DEF InsertLink, IInv, Owners, Inserting, Counts, Listed, Before
  <2>3. \A c : Contains(d_list', c) <=> Contains(d_list, c) \/ c = n
    BY <1>8, <2>1, <2>2, AppendFacts DEF InsertLink, IInv, TypeOK, Listed
  <2>4. /\ window'[n] = (d_stop_requested /\ ~over)
        /\ \A d \in Callbacks : d # n => window'[d] = window[d]
    BY <1>8, <2>1 DEF InsertLink, IInv, TypeOK
  <2>5. CASE d_stop_requested
    <3> DEFINE called == IF over THEN "invoked" ELSE "again"
    <3>1. /\ ran'[n] = 1 /\ life' = life
          /\ \A d \in Callbacks : d # n => ran'[d] = ran[d]
      BY <1>8, <2>1, <2>2, <2>5 DEF InsertLink, IInv, TypeOK
    <3>2. PhaseOf' = [PhaseOf EXCEPT ![n] = called]
      <4> SUFFICES ASSUME NEW d \in Callbacks
                   PROVE  PhaseOf'[d] = IF d = n THEN called ELSE PhaseOf[d]
        BY DEF PhaseOf
      <4>1. CASE d = n
        <5>1. window'[n] <=> ~over
          BY <2>5, <2>4
        <5> QED BY <2>2, <3>1, <4>1, <5>1 DEF PhaseOf
      <4>2. CASE d # n
        BY <2>3, <2>4, <3>1, <4>2 DEF PhaseOf
      <4> QED BY <4>1, <4>2
    <3>3. PhaseOf[n] = "none"
      BY <2>2 DEF PhaseOf
    <3>4. CASE over
      BY <1>8, <2>5, <3>2, <3>3, <3>4
         DEF InsertLink, Promise!Next, Promise!Invoke
    <3>5. CASE ~over
      BY <1>8, <2>5, <3>2, <3>3, <3>5
         DEF InsertLink, Promise!Next, Promise!InvokeEarly
    <3> QED BY <3>4, <3>5
  <2>6. CASE ~d_stop_requested
    <3>1. PhaseOf' = PhaseOf
      <4> SUFFICES ASSUME NEW d \in Callbacks PROVE PhaseOf'[d] = PhaseOf[d]
        BY DEF PhaseOf
      <4>1. ran' = ran /\ life' = life
        BY <1>8, <2>6 DEF InsertLink
      <4> QED BY <2>2, <2>3, <2>4, <4>1 DEF PhaseOf
    <3> QED BY <1>8, <3>1 DEF InsertLink, Promise!vars
  <2> QED BY <2>5, <2>6
<1>9. ASSUME NEW t \in Threads, InsertBodyReturns(t)
      PROVE  [Promise!Next]_(Promise!vars)
  <2>1. PhaseOf' = PhaseOf
    BY <1>9 DEF InsertBodyReturns, Goto, PhaseOf
  <2> QED BY <1>9, <2>1 DEF InsertBodyReturns, Promise!vars
<1>10. ASSUME NEW t \in Threads, InsertUnlock(t)
       PROVE  [Promise!Next]_(Promise!vars)
  <2>1. PhaseOf' = PhaseOf
    BY <1>10 DEF InsertUnlock, Goto, PhaseOf
  <2> QED BY <1>10, <2>1 DEF InsertUnlock, Promise!vars
<1>11. ASSUME NEW t \in Threads, InsertReturn(t)
       PROVE  [Promise!Next]_(Promise!vars)
  <2>1. PICK n \in Callbacks : n = arg[t] /\ life[n] = "ctor"
    BY <1>11 DEF InsertReturn, IInv, Owners, Inserting
  <2>2. Linked(n)
    BY <1>11, <2>1 DEF InsertReturn, IInv, Owners, Inserting, Linked, Before
  <2>3. ran[n] = 0 => Contains(d_list, n) /\ ~over
    BY <2>2 DEF IInv, Counts, Due, Quota, Through
  <2>4. ran[n] \in 0..2
    BY DEF IInv, TypeOK
  <2>5. CASE ran[n] = 0
    <3>1. PhaseOf' = [PhaseOf EXCEPT ![n] = "registered"]
      <4> SUFFICES ASSUME NEW d \in Callbacks
                   PROVE  PhaseOf'[d] = IF d = n THEN "registered" ELSE PhaseOf[d]
        BY DEF PhaseOf
      <4> QED BY <1>11, <2>1, <2>3, <2>5
                 DEF InsertReturn, PhaseOf, IInv, TypeOK
    <3>2. PhaseOf[n] = "none"
      BY <2>1, <2>5 DEF PhaseOf
    <3> QED BY <1>11, <2>3, <2>5, <3>1, <3>2
               DEF InsertReturn, Promise!Next, Promise!Register
  <2>6. CASE ran[n] > 0
    <3>1. PhaseOf' = PhaseOf
      BY <1>11, <2>1, <2>6 DEF InsertReturn, PhaseOf, IInv, TypeOK
    <3> QED BY <1>11, <3>1 DEF InsertReturn, Promise!vars
  <2> QED BY <2>4, <2>5, <2>6
<1>12. ASSUME NEW t \in Threads, NEW c \in Callbacks, Destroy(t, c)
       PROVE  [Promise!Next]_(Promise!vars)
  <2>1. ran[c] \in 0..2 /\ life[c] = "live"
    BY <1>12 DEF Destroy, IInv, TypeOK
  <2>2. CASE ran[c] = 0
    <3>1. PhaseOf' = [PhaseOf EXCEPT ![c] = "none"]
      <4> SUFFICES ASSUME NEW d \in Callbacks
                   PROVE  PhaseOf'[d] = IF d = c THEN "none" ELSE PhaseOf[d]
        BY DEF PhaseOf
      <4> QED BY <1>12, <2>2 DEF Destroy, PhaseOf, IInv, TypeOK
    <3> QED BY <1>12, <3>1 DEF Destroy, Promise!Next, Promise!Drop
  <2>3. CASE ran[c] > 0
    <3>1. PhaseOf' = PhaseOf
      BY <1>12, <2>1, <2>3 DEF Destroy, PhaseOf, IInv, TypeOK
    <3> QED BY <1>12, <3>1 DEF Destroy, Promise!vars
  <2> QED BY <2>1, <2>2, <2>3
<1>13. ASSUME NEW t \in Threads, EraseLock(t)
       PROVE  [Promise!Next]_(Promise!vars)
  <2>1. PhaseOf' = PhaseOf
    BY <1>13 DEF EraseLock, Goto, PhaseOf
  <2> QED BY <1>13, <2>1 DEF EraseLock, Promise!vars
<1>14. ASSUME NEW t \in Threads, Erase(t) PROVE [Promise!Next]_(Promise!vars)
  <2>1. PICK n \in Callbacks : n = arg[t]
    BY <1>14 DEF Erase, IInv, Owners, Erasing
  <2>2. \A c : Contains(d_list', c) <=> Contains(d_list, c) /\ c # n
    BY <1>14, <2>1, RemoveFacts DEF Erase, IInv, TypeOK, Listed
  <2>3. PhaseOf' = [PhaseOf EXCEPT ![n] = "none"]
    <3> SUFFICES ASSUME NEW d \in Callbacks
                 PROVE  PhaseOf'[d] = IF d = n THEN "none" ELSE PhaseOf[d]
      BY DEF PhaseOf
    <3> QED BY <1>14, <2>1, <2>2 DEF Erase, PhaseOf, IInv, TypeOK
  <2> QED BY <1>14, <2>3 DEF Erase, Promise!Next, Promise!Drop
<1>15. CASE UNCHANGED vars
  BY <1>15 DEF vars, PhaseOf, Promise!vars
<1> QED
  BY <1>1, <1>2, <1>3, <1>4, <1>5, <1>6, <1>7, <1>8, <1>9, <1>10, <1>11,
     <1>12, <1>13, <1>14, <1>15
     DEF Next, Continue


\* stop_state implements the abstract stop source that may call a callback
\* twice, and does so only for one registered while the request is processed.
THEOREM Refinement == Spec => KeepsPromise
<1>1. Init => Promise!Init
  BY DEF Init, Promise!Init, PhaseOf
<1> QED BY <1>1, Invariant, PromiseStep, PTL
           DEF Spec, KeepsPromise, Promise!Spec

=============================================================================
