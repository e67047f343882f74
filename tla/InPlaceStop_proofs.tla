------------------------- MODULE InPlaceStop_proofs -------------------------
(***************************************************************************)
(* The safety properties of InPlaceStop for any number of threads and      *)
(* callbacks, from one inductive invariant.                                *)
(***************************************************************************)
EXTENDS InPlaceStop, SequenceTheorems, TLAPS

InStop(t) == pc[t] \in {"stop_load", "stop_cas",
                        "stop_loop", "stop_do", "stop_body"}
InInsert(t) == pc[t] \in {"ins_cas", "ins_do", "ins_body"}
InRemove(t) == pc[t] \in {"rm_load", "rm_cas", "rm_unlink", "rm_walk", "rm_store"}
Calling(t) == pc[t] \in {"stop_do", "stop_body"}

\* A thread in a constructor or destructor owns the object it works on, and
\* the storage of an object stop() is calling is not under construction.
Ownership ==
    /\ \A t \in Threads :
         /\ InInsert(t) => arg[t] \in Callbacks /\ life[arg[t]] = "ctor"
         /\ InRemove(t) => arg[t] \in Callbacks /\ life[arg[t]] = "dtor"
         /\ Calling(t) => arg[t] \in Callbacks
    /\ \A t, u \in Threads :
         /\ (InInsert(t) /\ InInsert(u) /\ arg[t] = arg[u]) => t = u
         /\ (InRemove(t) /\ InRemove(u) /\ arg[t] = arg[u]) => t = u
         /\ ~(InInsert(t) /\ Calling(u) /\ arg[t] = arg[u])

\* One thread at most processes the stop request; the list is closed only
\* after a request and when that thread is done; a null head was read from
\* the closed list, and remove() never exchanges the marker or null.
Request ==
    /\ \A t, u \in Threads : InStop(t) /\ InStop(u) => t = u
    /\ \A t \in Threads : InStop(t) => d_stop_requested /\ d_list # Null
    /\ d_list = Null => d_stop_requested
    /\ \A t \in Threads :
         /\ pc[t] = "ins_cas" /\ head[t] = Null => d_list = Null
         /\ pc[t] = "rm_cas" => head[t] \notin {Marker, Null}

\* How far remove() has searched, and that its callback is unlinked when the
\* head is about to be stored.
Search ==
    \A t \in Threads :
        /\ pc[t] = "rm_walk" =>
             \E k \in 1..(Len(nodes) + 1) :
                /\ node[t] = At(k)
                /\ \A i \in 1..Len(nodes) : i <= k => nodes[i] # arg[t]
        /\ pc[t] = "rm_store" => ~Linked(arg[t])

\* do_call() runs once after d_called is set, and only then; a live callback
\* that was not called is linked.
CallbackCalls(c) ==
    /\ ran[c] \in {0, 1}
    /\ ~d_called[c] => ran[c] = 0
    /\ life[c] = "live" /\ ~d_called[c] => Linked(c)
    /\ life[c] = "live" /\ d_called[c] =>
         ran[c] = 1 \/ \E t \in Threads : pc[t] = "stop_do" /\ arg[t] = c
ThreadCalls(t) ==
    /\ pc[t] \in {"stop_do", "ins_do"} => d_called[arg[t]] /\ ran[arg[t]] = 0
    /\ pc[t] \in {"stop_body", "ins_body"} => d_called[arg[t]] /\ ran[arg[t]] = 1
    /\ pc[t] = "ins_cas" => ~d_called[arg[t]]
Calls ==
    /\ \A c \in Callbacks : CallbackCalls(c)
    /\ \A t \in Threads : ThreadCalls(t)

\* The inductive invariant.
IInv ==
    /\ TypeOK /\ MarkerExclusion /\ ListIntact /\ LinkedNotDestroyed
    /\ Ownership /\ Request /\ Search /\ Calls

-----------------------------------------------------------------------------
(* The list                                                                *)

\* The positions of a list from which one element was taken.
LEMMA RemoveAtProperties ==
    ASSUME NEW S, NEW s \in Seq(S), NEW j \in 1..Len(s)
    PROVE  /\ RemoveAt(s, j) \in Seq(S)
           /\ Len(RemoveAt(s, j)) = Len(s) - 1
           /\ \A i \in 1..(Len(s) - 1) :
                RemoveAt(s, j)[i] = IF i < j THEN s[i] ELSE s[i + 1]
<1> DEFINE a == SubSeq(s, 1, j - 1)
           b == SubSeq(s, j + 1, Len(s))
<1>1. /\ a \in Seq(S) /\ Len(a) = j - 1
      /\ \A i \in 1..(j - 1) : a[i] = s[i]
  <2>1. \A i \in 1..(j - 1) : s[i] \in S
    BY ElementOfSeq
  <2> QED BY <2>1, SubSeqProperties
<1>2. /\ b \in Seq(S) /\ Len(b) = Len(s) - j
      /\ \A i \in 1..(Len(s) - j) : b[i] = s[j + i]
  <2>1. \A i \in (j + 1)..Len(s) : s[i] \in S
    BY ElementOfSeq
  <2> QED BY <2>1, SubSeqProperties, LenProperties
<1>3. /\ a \o b \in Seq(S)
      /\ Len(a \o b) = Len(s) - 1
      /\ \A i \in 1..(Len(s) - 1) :
           (a \o b)[i] = IF i <= j - 1 THEN a[i] ELSE b[i - (j - 1)]
  <2> HIDE DEF a, b
  <2>1. /\ a \o b \in Seq(S)
        /\ Len(a \o b) = Len(a) + Len(b)
        /\ \A i \in 1..(Len(a) + Len(b)) :
             (a \o b)[i] = IF i <= Len(a) THEN a[i] ELSE b[i - Len(a)]
    BY <1>1, <1>2, ConcatProperties
  <2>2. Len(s) \in Nat /\ Len(a) + Len(b) = Len(s) - 1
    BY <1>1, <1>2, LenProperties
  <2> QED BY <1>1, <2>1, <2>2
<1>4. RemoveAt(s, j) = a \o b
    BY DEF RemoveAt
<1>5. ASSUME NEW i \in 1..(Len(s) - 1)
      PROVE  (a \o b)[i] = IF i < j THEN s[i] ELSE s[i + 1]
  <2> HIDE DEF a, b
  <2>1. Len(s) \in Nat
    BY LenProperties
  <2>2. CASE i < j
    BY <1>1, <1>3, <2>1, <2>2
  <2>3. CASE i >= j
    <3>1. i - (j - 1) \in 1..(Len(s) - j) /\ j + (i - (j - 1)) = i + 1
      BY <2>1, <2>3
    <3> QED BY <1>2, <1>3, <2>1, <2>3, <3>1
  <2>4. i \in Int /\ j \in Int
    BY <2>1
  <2>5. i < j \/ i >= j
    BY <2>4
  <2> QED BY <2>2, <2>3, <2>5
<1> HIDE DEF a, b
<1> QED BY <1>3, <1>4, <1>5

\* What a list link points to.
LEMMA AtType ==
    ASSUME TypeOK, NEW i
    PROVE  At(i) \in Callbacks \cup {End}
    BY ElementOfSeq DEF TypeOK, At

\* Unlinking the callback at position j of the list.
LEMMA UnlinkedAt ==
    ASSUME TypeOK, ListIntact, NEW j \in 1..Len(nodes)
    PROVE  /\ Unlinked(nodes[j]) \in Seq(Callbacks)
           /\ Len(Unlinked(nodes[j])) = Len(nodes) - 1
           /\ \A i \in 1..(Len(nodes) - 1) :
                Unlinked(nodes[j])[i] = IF i < j THEN nodes[i] ELSE nodes[i + 1]
<1>1. (CHOOSE i \in 1..Len(nodes) : nodes[i] = nodes[j]) = j
    BY DEF ListIntact
<1>2. Unlinked(nodes[j]) = RemoveAt(nodes, j)
    BY <1>1 DEF Unlinked, Linked
<1> QED BY <1>2, RemoveAtProperties DEF TypeOK

\* Whatever is unlinked, the list stays a list of callbacks.
LEMMA UnlinkedType ==
    ASSUME TypeOK, ListIntact, NEW c
    PROVE  Unlinked(c) \in Seq(Callbacks)
<1>1. CASE Linked(c)
    BY <1>1, UnlinkedAt DEF Linked
<1>2. CASE ~Linked(c)
    BY <1>2 DEF Unlinked, TypeOK
<1> QED BY <1>1, <1>2

\* stop() takes the first callback off the list.
LEMMA StopCallList ==
    ASSUME IInv, NEW t \in Threads, StopCall(t)
    PROVE  /\ Len(nodes) \in Nat \ {0} /\ node[t] = nodes[1]
           /\ Len(nodes') = Len(nodes) - 1
           /\ \A i \in 1..(Len(nodes) - 1) : nodes'[i] = nodes[i + 1]
           /\ \A c \in Callbacks : Linked(c)' <=> (Linked(c) /\ c # node[t])
<1>1. Len(nodes) \in Nat \ {0} /\ node[t] = nodes[1]
    BY PointersDiffer DEF StopCall, IInv, TypeOK, ListIntact, At
<1>2. /\ Len(nodes') = Len(nodes) - 1
      /\ \A i \in 1..(Len(nodes) - 1) : nodes'[i] = nodes[i + 1]
    BY <1>1, HeadTailProperties DEF StopCall, IInv, TypeOK
<1>3. ASSUME NEW c \in Callbacks PROVE Linked(c)' <=> (Linked(c) /\ c # node[t])
  <2>1. ASSUME Linked(c)' PROVE Linked(c) /\ c # node[t]
    <3>1. PICK i \in 1..(Len(nodes) - 1) : nodes'[i] = c
      BY <2>1, <1>2 DEF Linked
    <3>2. i + 1 \in 1..Len(nodes) /\ i + 1 # 1 /\ nodes[i + 1] = c
      BY <3>1, <1>1, <1>2
    <3> QED BY <3>2, <1>1 DEF Linked, IInv, ListIntact
  <2>2. ASSUME Linked(c), c # node[t] PROVE Linked(c)'
    <3>1. PICK i \in 1..Len(nodes) : nodes[i] = c
      BY <2>2 DEF Linked
    <3>2. i - 1 \in 1..(Len(nodes) - 1) /\ nodes'[i - 1] = c
      BY <3>1, <2>2, <1>1, <1>2
    <3> QED BY <3>2, <1>2 DEF Linked
  <2> QED BY <2>1, <2>2
<1> QED BY <1>1, <1>2, <1>3

\* insert() puts its callback in front of the list.
LEMMA InsertCasList ==
    ASSUME IInv, NEW t \in Threads, InsertCas(t), d_list = head[t]
    PROVE  /\ arg[t] \in Callbacks /\ Len(nodes) \in Nat
           /\ Len(nodes') = Len(nodes) + 1 /\ nodes'[1] = arg[t]
           /\ \A i \in 1..Len(nodes) : nodes'[i + 1] = nodes[i]
           /\ \A c \in Callbacks : Linked(c)' <=> (Linked(c) \/ c = arg[t])
<1>1. arg[t] \in Callbacks /\ Len(nodes) \in Nat
    BY DEF InsertCas, IInv, Ownership, InInsert, TypeOK
<1>2. nodes' = <<arg[t]>> \o nodes
    BY DEF InsertCas
<1>3. /\ Len(nodes') = Len(nodes) + 1
      /\ \A i \in 1..(Len(nodes) + 1) :
           nodes'[i] = IF i <= 1 THEN arg[t] ELSE nodes[i - 1]
  <2>1. <<arg[t]>> \in Seq(Callbacks) /\ Len(<<arg[t]>>) = 1 /\ <<arg[t]>>[1] = arg[t]
    BY <1>1
  <2> QED BY <1>1, <1>2, <2>1, ConcatProperties DEF IInv, TypeOK
<1>4. nodes'[1] = arg[t] /\ \A i \in 1..Len(nodes) : nodes'[i + 1] = nodes[i]
  <2>1. nodes'[1] = arg[t]
    BY <1>1, <1>3
  <2>2. ASSUME NEW i \in 1..Len(nodes) PROVE nodes'[i + 1] = nodes[i]
    <3>1. i + 1 \in 1..(Len(nodes) + 1) /\ ~(i + 1 <= 1) /\ (i + 1) - 1 = i
      BY <1>1
    <3> QED BY <3>1, <1>3
  <2> QED BY <2>1, <2>2
<1>5. ASSUME NEW c \in Callbacks PROVE Linked(c)' <=> (Linked(c) \/ c = arg[t])
  <2>1. ASSUME Linked(c)' PROVE Linked(c) \/ c = arg[t]
    <3>1. PICK i \in 1..(Len(nodes) + 1) : nodes'[i] = c
      BY <2>1, <1>3 DEF Linked
    <3>2. CASE i = 1
      BY <3>1, <3>2, <1>4
    <3>3. CASE i # 1
      <4>1. i - 1 \in 1..Len(nodes) /\ nodes[i - 1] = c
        BY <3>1, <3>3, <1>1, <1>3
      <4> QED BY <4>1 DEF Linked
    <3> QED BY <3>2, <3>3
  <2>2. ASSUME Linked(c) PROVE Linked(c)'
    <3>1. PICK i \in 1..Len(nodes) : nodes[i] = c
      BY <2>2 DEF Linked
    <3>2. i + 1 \in 1..Len(nodes') /\ nodes'[i + 1] = c
      BY <3>1, <1>1, <1>3, <1>4
    <3> QED BY <3>2 DEF Linked
  <2>3. ASSUME c = arg[t] PROVE Linked(c)'
    <3>1. 1 \in 1..Len(nodes') /\ nodes'[1] = c
      BY <2>3, <1>1, <1>3, <1>4
    <3> QED BY <3>1 DEF Linked
  <2> QED BY <2>1, <2>2, <2>3
<1> QED BY <1>1, <1>3, <1>4, <1>5

\* remove() takes exactly its callback off the list.
LEMMA UnlinkList ==
    ASSUME TypeOK, ListIntact, NEW j \in 1..Len(nodes),
           nodes' = Unlinked(nodes[j])
    PROVE  /\ Len(nodes) \in Nat \ {0} /\ Len(nodes') = Len(nodes) - 1
           /\ \A i \in 1..(Len(nodes) - 1) :
                nodes'[i] = IF i < j THEN nodes[i] ELSE nodes[i + 1]
           /\ \A c \in Callbacks : Linked(c)' <=> (Linked(c) /\ c # nodes[j])
<1>1. Len(nodes) \in Nat \ {0} /\ j \in Int
    BY DEF TypeOK
<1>2. /\ Len(nodes') = Len(nodes) - 1
      /\ \A i \in 1..(Len(nodes) - 1) :
           nodes'[i] = IF i < j THEN nodes[i] ELSE nodes[i + 1]
    BY UnlinkedAt
<1>3. ASSUME NEW c \in Callbacks PROVE Linked(c)' <=> (Linked(c) /\ c # nodes[j])
  <2>1. ASSUME Linked(c)' PROVE Linked(c) /\ c # nodes[j]
    <3>1. PICK i \in 1..(Len(nodes) - 1) : nodes'[i] = c
      BY <2>1, <1>2 DEF Linked
    <3>2. PICK k \in 1..Len(nodes) : k # j /\ nodes[k] = c
      <4>1. CASE i < j
        BY SMTT(30), <3>1, <4>1, <1>1, <1>2
      <4>2. CASE ~(i < j)
        <5>1. i + 1 \in 1..Len(nodes) /\ i + 1 # j /\ nodes[i + 1] = c
          BY <3>1, <4>2, <1>1, <1>2
        <5> QED BY <5>1
      <4> QED BY <4>1, <4>2
    <3> QED BY <3>2 DEF Linked, ListIntact
  <2>2. ASSUME Linked(c), c # nodes[j] PROVE Linked(c)'
    <3>1. PICK k \in 1..Len(nodes) : nodes[k] = c
      BY <2>2 DEF Linked
    <3>2. CASE k < j
      <4>1. k \in 1..Len(nodes') /\ nodes'[k] = c
        BY <3>1, <3>2, <1>1, <1>2
      <4> QED BY <4>1 DEF Linked
    <3>3. CASE k > j
      <4>1. k - 1 \in 1..Len(nodes') /\ nodes'[k - 1] = c
        BY <3>1, <3>3, <1>1, <1>2
      <4> QED BY <4>1 DEF Linked
    <3> QED BY <3>1, <3>2, <3>3, <2>2, <1>1
  <2> QED BY <2>1, <2>2
<1> QED BY <1>1, <1>2, <1>3

\* remove() unlinks its callback when it is the first node.
LEMMA UnlinkFirst ==
    ASSUME IInv, NEW t \in Threads, RemoveUnlink(t), head[t] = arg[t]
    PROVE  /\ 1 \in 1..Len(nodes) /\ arg[t] = nodes[1]
           /\ nodes' = Unlinked(nodes[1])
<1>1. arg[t] \in Callbacks /\ head[t] = At(1)
    BY DEF RemoveUnlink, IInv, Ownership, InRemove, ListIntact
<1> QED BY <1>1, PointersDiffer DEF RemoveUnlink, At

\* remove() unlinks its callback behind the node it stopped at.
LEMMA UnlinkLater ==
    ASSUME IInv, NEW t \in Threads, RemoveWalk(t),
           node[t] # End, d_next[node[t]] = arg[t]
    PROVE  \E k \in 1..(Len(nodes) - 1) :
             /\ node[t] = nodes[k] /\ arg[t] = nodes[k + 1]
             /\ nodes' = Unlinked(nodes[k + 1])
<1>1. arg[t] \in Callbacks /\ Len(nodes) \in Nat
    BY DEF RemoveWalk, IInv, Ownership, InRemove, TypeOK
<1>2. PICK k \in 1..(Len(nodes) + 1) : node[t] = At(k)
    BY DEF RemoveWalk, IInv, Search
<1>3. k \in 1..Len(nodes) /\ node[t] = nodes[k]
    BY <1>1, <1>2 DEF At
<1>4. arg[t] = At(k + 1)
    BY <1>3 DEF IInv, ListIntact
<1>5. k + 1 \in 1..Len(nodes) /\ arg[t] = nodes[k + 1]
    BY <1>1, <1>3, <1>4, PointersDiffer DEF At
<1> QED BY <1>1, <1>3, <1>5 DEF RemoveWalk

-----------------------------------------------------------------------------
(* Every step preserves each part of the invariant.                        *)

\* The types are preserved.
LEMMA TypeStep == IInv /\ [Next]_vars => TypeOK'
<1> SUFFICES ASSUME IInv, [Next]_vars PROVE TypeOK'
    OBVIOUS
<1>1. ASSUME NEW t \in Threads, StopRequest(t) PROVE TypeOK'
    BY <1>1, PointersDiffer
       DEF StopRequest, IInv, TypeOK, PC, Pointer, Goto, Return, shared
<1>2. ASSUME NEW t \in Threads, StopLoad(t) PROVE TypeOK'
    BY <1>2, PointersDiffer
       DEF StopLoad, IInv, TypeOK, PC, Pointer, Goto, Return, shared
<1>3. ASSUME NEW t \in Threads, StopCas(t) PROVE TypeOK'
    BY ZenonT(60), <1>3, PointersDiffer
       DEF StopCas, IInv, TypeOK, PC, Pointer, Goto, Return, shared
<1>4. ASSUME NEW t \in Threads, StopCall(t) PROVE TypeOK'
  <2>1. nodes # <<>> /\ Tail(nodes) \in Seq(Callbacks)
    BY <1>4, HeadTailProperties, PointersDiffer
       DEF StopCall, IInv, TypeOK, ListIntact, At
  <2> QED BY <1>4, <2>1 DEF StopCall, IInv, TypeOK, PC, Goto, shared
<1>5. ASSUME NEW t \in Threads, StopEnd(t) PROVE TypeOK'
    BY <1>5, PointersDiffer
       DEF StopEnd, IInv, TypeOK, PC, Pointer, Goto, Return, shared
<1>6. ASSUME NEW t \in Threads, DoCall(t) PROVE TypeOK'
    BY <1>6
       DEF DoCall, IInv, TypeOK, PC, Goto, shared, Ownership, InInsert,
           Calling
<1>7. ASSUME NEW t \in Threads, StopBodyReturns(t) PROVE TypeOK'
    BY <1>7, PointersDiffer
       DEF StopBodyReturns, IInv, TypeOK, PC, Pointer, Goto, Return, shared
<1>8. ASSUME NEW t \in Threads, StopBodyDestroysSelf(t) PROVE TypeOK'
    BY <1>8, PointersDiffer
       DEF StopBodyDestroysSelf, IInv, TypeOK, PC, Pointer, Goto, Return,
           shared
<1>9. ASSUME NEW t \in Threads, InsertBodyReturns(t) PROVE TypeOK'
    BY <1>9, PointersDiffer
       DEF InsertBodyReturns, IInv, TypeOK, PC, Pointer, Goto, Return, shared
<1>10. ASSUME NEW t \in Threads, NEW c \in Callbacks, InsertBegin(t, c)
      PROVE  TypeOK'
    BY <1>10, PointersDiffer
       DEF InsertBegin, IInv, TypeOK, PC, Pointer, Goto, Return, shared
<1>11. ASSUME NEW t \in Threads, InsertCalls(t) PROVE TypeOK'
    BY <1>11, PointersDiffer
       DEF InsertCalls, IInv, TypeOK, PC, Pointer, Goto, Return, shared
<1>12. ASSUME NEW t \in Threads, InsertCas(t) PROVE TypeOK'
  <2>1. arg[t] \in Callbacks
    BY <1>12 DEF InsertCas, IInv, Ownership, InInsert
  <2>2. <<arg[t]>> \o nodes \in Seq(Callbacks)
    BY <2>1, ConcatProperties DEF IInv, TypeOK
  <2>3. CASE d_list = head[t]
    <3>1. pc' \in [Threads -> PC]
      BY <1>12, <2>3 DEF InsertCas, IInv, TypeOK, PC, Goto, Return
    <3>2. /\ d_list' \in Pointer
          /\ d_next' \in [Callbacks -> Callbacks \cup {End, Null}]
          /\ life' \in [Callbacks -> {"raw", "ctor", "live", "dtor"}]
      BY <1>12, <2>1, <2>3 DEF InsertCas, IInv, TypeOK, Pointer
    <3>3. /\ head' \in [Threads -> Pointer]
          /\ node' \in [Threads -> Callbacks \cup {End, Null}]
          /\ arg' \in [Threads -> Callbacks \cup {Null}]
      BY <1>12, <2>3 DEF InsertCas, IInv, TypeOK, Pointer, Return
    <3> QED BY <1>12, <2>2, <2>3, <3>1, <3>2, <3>3 DEF InsertCas, IInv, TypeOK
  <2>4. CASE d_list # head[t]
    BY ZenonT(60), <1>12, <2>1, <2>4, PointersDiffer
       DEF InsertCas, IInv, TypeOK, PC, Pointer
  <2> QED BY <2>3, <2>4
<1>13. ASSUME NEW t \in Threads, SpinOnMarker(t) PROVE TypeOK'
    BY <1>13 DEF SpinOnMarker, vars, IInv, TypeOK
<1>14. ASSUME NEW t \in Threads, NEW c \in Callbacks, RemoveBegin(t, c)
      PROVE  TypeOK'
  <2>1. CASE d_called[c]
    BY <1>14, <2>1 DEF RemoveBegin, IInv, TypeOK, shared
  <2>2. CASE ~d_called[c]
    <3>1. pc' \in [Threads -> PC]
      BY ZenonT(60), <1>14, <2>2 DEF RemoveBegin, IInv, TypeOK, PC, Goto
    <3>2. /\ life' \in [Callbacks -> {"raw", "ctor", "live", "dtor"}]
          /\ arg' \in [Threads -> Callbacks \cup {Null}]
      BY <1>14, <2>2 DEF RemoveBegin, IInv, TypeOK
    <3> QED BY <1>14, <2>2, <3>1, <3>2 DEF RemoveBegin, IInv, TypeOK, shared
  <2> QED BY <2>1, <2>2
<1>15. ASSUME NEW t \in Threads, RemoveLoad(t) PROVE TypeOK'
    BY ZenonT(60), <1>15, PointersDiffer
       DEF RemoveLoad, IInv, TypeOK, PC, Pointer, Goto, Return, shared
<1>16. ASSUME NEW t \in Threads, RemoveCas(t) PROVE TypeOK'
    BY <1>16, PointersDiffer
       DEF RemoveCas, IInv, TypeOK, PC, Pointer, Goto, Return, shared
<1>17. ASSUME NEW t \in Threads, RemoveUnlink(t) PROVE TypeOK'
  <2>1. arg[t] \in Callbacks /\ Unlinked(arg[t]) \in Seq(Callbacks)
    BY <1>17, UnlinkedType DEF RemoveUnlink, IInv, Ownership, InRemove
  <2>2. CASE head[t] = arg[t]
    <3>1. pc' \in [Threads -> PC]
      BY <1>17, <2>2 DEF RemoveUnlink, IInv, TypeOK, PC, Goto
    <3>2. head' \in [Threads -> Pointer]
      BY <1>17, <2>1, <2>2 DEF RemoveUnlink, IInv, TypeOK, Pointer
    <3> QED BY <1>17, <2>1, <2>2, <3>1, <3>2 DEF RemoveUnlink, IInv, TypeOK, shared
  <2>3. CASE head[t] # arg[t]
    <3>1. pc' \in [Threads -> PC]
      BY ZenonT(60), <1>17, <2>3 DEF RemoveUnlink, IInv, TypeOK, PC, Goto
    <3>2. node' \in [Threads -> Callbacks \cup {End, Null}]
      <4>1. head[t] \in Callbacks \cup {End}
        BY <1>17, AtType DEF RemoveUnlink, IInv, ListIntact
      <4> QED BY <1>17, <2>3, <4>1 DEF RemoveUnlink, IInv, TypeOK
    <3> QED BY <1>17, <2>3, <3>1, <3>2 DEF RemoveUnlink, IInv, TypeOK, shared
  <2> QED BY <2>2, <2>3
<1>18. ASSUME NEW t \in Threads, RemoveWalk(t) PROVE TypeOK'
  <2> USE DEF IInv
  <2>1. arg[t] \in Callbacks /\ Unlinked(arg[t]) \in Seq(Callbacks)
    BY <1>18, UnlinkedType DEF RemoveWalk, Ownership, InRemove
  <2>2. node[t] # End => node[t] \in Callbacks
    BY <1>18 DEF RemoveWalk, Search, At, TypeOK
  <2>3. CASE node[t] = End
    BY <1>18, <2>3 DEF RemoveWalk, TypeOK, PC, Goto
  <2>4. CASE node[t] # End /\ d_next[node[t]] = arg[t]
    BY ZenonT(60), <1>18, <2>1, <2>2, <2>4 DEF RemoveWalk, TypeOK, PC, Goto
  <2>5. CASE node[t] # End /\ d_next[node[t]] # arg[t]
    BY <1>18, <2>2, <2>5 DEF RemoveWalk, TypeOK
  <2> QED BY <2>3, <2>4, <2>5
<1>19. ASSUME NEW t \in Threads, RemoveStore(t) PROVE TypeOK'
    BY <1>19, PointersDiffer
       DEF RemoveStore, IInv, TypeOK, PC, Pointer, Goto, Return, shared
<1>20. CASE UNCHANGED vars
    BY <1>20, PointersDiffer
       DEF vars, IInv, TypeOK, PC, Pointer, Goto, Return, shared
<1> QED
    BY <1>1, <1>2, <1>3, <1>4, <1>5, <1>6, <1>7, <1>8, <1>9, <1>10, <1>11,
       <1>12, <1>13, <1>14, <1>15, <1>16, <1>17, <1>18, <1>19, <1>20 DEF
       Next, Continue

\* The marker stays exclusive.
LEMMA MarkerStep == IInv /\ [Next]_vars => MarkerExclusion'
<1> SUFFICES ASSUME IInv, [Next]_vars PROVE MarkerExclusion'
    OBVIOUS
<1>1. ASSUME NEW t \in Threads, StopRequest(t) PROVE MarkerExclusion'
    BY <1>1, PointersDiffer
       DEF StopRequest, MarkerExclusion, Holds, Holding, IInv, TypeOK, PC,
           ListIntact, At, Goto, Return, shared, Request
<1>2. ASSUME NEW t \in Threads, StopLoad(t) PROVE MarkerExclusion'
    BY <1>2, PointersDiffer
       DEF StopLoad, MarkerExclusion, Holds, Holding, IInv, TypeOK, PC,
           ListIntact, At, Goto, Return, shared, Request
<1>3. ASSUME NEW t \in Threads, StopCas(t) PROVE MarkerExclusion'
    BY <1>3, PointersDiffer
       DEF StopCas, MarkerExclusion, Holds, Holding, IInv, TypeOK, PC,
           ListIntact, At, Goto, Return, shared, Request
<1>4. ASSUME NEW t \in Threads, StopCall(t) PROVE MarkerExclusion'
    BY <1>4, PointersDiffer
       DEF StopCall, MarkerExclusion, Holds, Holding, IInv, TypeOK, PC,
           ListIntact, At, Goto, Return, shared, Request
<1>5. ASSUME NEW t \in Threads, StopEnd(t) PROVE MarkerExclusion'
    BY <1>5, PointersDiffer
       DEF StopEnd, MarkerExclusion, Holds, Holding, IInv, TypeOK, PC,
           ListIntact, At, Goto, Return, shared, Request
<1>6. ASSUME NEW t \in Threads, DoCall(t) PROVE MarkerExclusion'
    BY <1>6, PointersDiffer
       DEF DoCall, MarkerExclusion, Holds, Holding, IInv, TypeOK, PC,
           ListIntact, At, Goto, Return, shared, Request
<1>7. ASSUME NEW t \in Threads, StopBodyReturns(t) PROVE MarkerExclusion'
    BY <1>7, PointersDiffer
       DEF StopBodyReturns, MarkerExclusion, Holds, Holding, IInv, TypeOK,
           PC, ListIntact, At, Goto, Return, shared, Request
<1>8. ASSUME NEW t \in Threads, StopBodyDestroysSelf(t) PROVE MarkerExclusion'
    BY <1>8, PointersDiffer
       DEF StopBodyDestroysSelf, MarkerExclusion, Holds, Holding, IInv,
           TypeOK, PC, ListIntact, At, Goto, Return, shared, Request
<1>9. ASSUME NEW t \in Threads, InsertBodyReturns(t) PROVE MarkerExclusion'
    BY <1>9, PointersDiffer
       DEF InsertBodyReturns, MarkerExclusion, Holds, Holding, IInv, TypeOK,
           PC, ListIntact, At, Goto, Return, shared, Request
<1>10. ASSUME NEW t \in Threads, NEW c \in Callbacks, InsertBegin(t, c)
      PROVE  MarkerExclusion'
    BY <1>10, PointersDiffer
       DEF InsertBegin, MarkerExclusion, Holds, Holding, IInv, TypeOK, PC,
           ListIntact, At, Goto, Return, shared, Request
<1>11. ASSUME NEW t \in Threads, InsertCalls(t) PROVE MarkerExclusion'
    BY <1>11, PointersDiffer
       DEF InsertCalls, MarkerExclusion, Holds, Holding, IInv, TypeOK, PC,
           ListIntact, At, Goto, Return, shared, Request
<1>12. ASSUME NEW t \in Threads, InsertCas(t) PROVE MarkerExclusion'
    BY <1>12, PointersDiffer
       DEF InsertCas, MarkerExclusion, Holds, Holding, IInv, TypeOK, PC,
           ListIntact, At, Goto, Return, shared, Request
<1>13. ASSUME NEW t \in Threads, SpinOnMarker(t) PROVE MarkerExclusion'
    BY <1>13 DEF SpinOnMarker, vars, IInv, MarkerExclusion, Holds
<1>14. ASSUME NEW t \in Threads, NEW c \in Callbacks, RemoveBegin(t, c)
      PROVE  MarkerExclusion'
    BY <1>14, PointersDiffer
       DEF RemoveBegin, MarkerExclusion, Holds, Holding, IInv, TypeOK, PC,
           ListIntact, At, Goto, Return, shared, Request
<1>15. ASSUME NEW t \in Threads, RemoveLoad(t) PROVE MarkerExclusion'
    BY <1>15, PointersDiffer
       DEF RemoveLoad, MarkerExclusion, Holds, Holding, IInv, TypeOK, PC,
           ListIntact, At, Goto, Return, shared, Request
<1>16. ASSUME NEW t \in Threads, RemoveCas(t) PROVE MarkerExclusion'
    BY SMTT(30), <1>16, PointersDiffer
       DEF RemoveCas, MarkerExclusion, Holds, Holding, IInv, TypeOK, PC,
           ListIntact, At, Goto, Return, shared, Request
<1>17. ASSUME NEW t \in Threads, RemoveUnlink(t) PROVE MarkerExclusion'
  <2>1. \A u \in Threads : Holds(u)' <=> Holds(u)
    <3> TAKE u \in Threads
    <3>1. CASE u = t
      BY <1>17, <3>1 DEF RemoveUnlink, Holds, Holding, Goto, IInv, TypeOK
    <3>2. CASE u # t
      BY <1>17, <3>2 DEF RemoveUnlink, Holds, Goto, IInv, TypeOK
    <3> QED BY <3>1, <3>2
  <2> QED BY <1>17, <2>1 DEF RemoveUnlink, IInv, MarkerExclusion, shared
<1>18. ASSUME NEW t \in Threads, RemoveWalk(t) PROVE MarkerExclusion'
    BY <1>18, PointersDiffer
       DEF RemoveWalk, MarkerExclusion, Holds, Holding, IInv, TypeOK, PC,
           ListIntact, At, Goto, Return, shared, Request
<1>19. ASSUME NEW t \in Threads, RemoveStore(t) PROVE MarkerExclusion'
    BY <1>19, PointersDiffer
       DEF RemoveStore, MarkerExclusion, Holds, Holding, IInv, TypeOK, PC,
           ListIntact, At, Goto, Return, shared, Request
<1>20. CASE UNCHANGED vars
    BY <1>20, PointersDiffer
       DEF vars, MarkerExclusion, Holds, Holding, IInv, TypeOK, PC,
           ListIntact, At, Goto, Return, shared, Request
<1> QED
    BY <1>1, <1>2, <1>3, <1>4, <1>5, <1>6, <1>7, <1>8, <1>9, <1>10, <1>11,
       <1>12, <1>13, <1>14, <1>15, <1>16, <1>17, <1>18, <1>19, <1>20 DEF
       Next, Continue

\* Ownership of the objects is preserved.
LEMMA OwnershipStep == IInv /\ [Next]_vars => Ownership'
<1> SUFFICES ASSUME IInv, [Next]_vars PROVE Ownership'
    OBVIOUS
<1>1. ASSUME NEW t \in Threads, StopRequest(t) PROVE Ownership'
    BY <1>1
       DEF StopRequest, Ownership, InInsert, InRemove, Calling, IInv, TypeOK,
           Goto, Return, shared
<1>2. ASSUME NEW t \in Threads, StopLoad(t) PROVE Ownership'
    BY <1>2
       DEF StopLoad, Ownership, InInsert, InRemove, Calling, IInv, TypeOK,
           Goto, Return, shared
<1>3. ASSUME NEW t \in Threads, StopCas(t) PROVE Ownership'
    BY <1>3
       DEF StopCas, Ownership, InInsert, InRemove, Calling, IInv, TypeOK,
           Goto, Return, shared
<1>4. ASSUME NEW t \in Threads, StopCall(t) PROVE Ownership'
  <2>1. Linked(node[t])
    BY <1>4, StopCallList DEF Linked
  <2>2. life[node[t]] # "ctor"
    BY <1>4, <2>1 DEF StopCall, IInv, LinkedNotDestroyed
  <2> QED BY <1>4, <2>2
          DEF StopCall, Ownership, InInsert, InRemove, Calling, IInv, TypeOK, Goto
<1>5. ASSUME NEW t \in Threads, StopEnd(t) PROVE Ownership'
    BY <1>5
       DEF StopEnd, Ownership, InInsert, InRemove, Calling, IInv, TypeOK,
           Goto, Return, shared
<1>6. ASSUME NEW t \in Threads, DoCall(t) PROVE Ownership'
    BY <1>6
       DEF DoCall, Ownership, InInsert, InRemove, Calling, IInv, TypeOK,
           Goto, Return, shared
<1>7. ASSUME NEW t \in Threads, StopBodyReturns(t) PROVE Ownership'
    BY <1>7
       DEF StopBodyReturns, Ownership, InInsert, InRemove, Calling, IInv,
           TypeOK, Goto, Return, shared
<1>8. ASSUME NEW t \in Threads, StopBodyDestroysSelf(t) PROVE Ownership'
    BY <1>8
       DEF StopBodyDestroysSelf, Ownership, InInsert, InRemove, Calling,
           IInv, TypeOK, Goto, Return, shared
<1>9. ASSUME NEW t \in Threads, InsertBodyReturns(t) PROVE Ownership'
    BY <1>9
       DEF InsertBodyReturns, Ownership, InInsert, InRemove, Calling, IInv,
           TypeOK, Goto, Return, shared
<1>10. ASSUME NEW t \in Threads, NEW c \in Callbacks, InsertBegin(t, c)
      PROVE  Ownership'
    BY <1>10
       DEF InsertBegin, Ownership, InInsert, InRemove, Calling, IInv, TypeOK,
           Goto, Return, shared
<1>11. ASSUME NEW t \in Threads, InsertCalls(t) PROVE Ownership'
    BY <1>11
       DEF InsertCalls, Ownership, InInsert, InRemove, Calling, IInv, TypeOK,
           Goto, Return, shared
<1>12. ASSUME NEW t \in Threads, InsertCas(t) PROVE Ownership'
  <2>1. CASE d_list = head[t]
    <3>1. ~InInsert(t)' /\ ~InRemove(t)' /\ ~Calling(t)'
      BY <1>12, <2>1
         DEF InsertCas, Return, Goto, IInv, TypeOK, InInsert, InRemove,
             Calling
    <3>2. \A u \in Threads : u # t =>
            /\ InInsert(u)' <=> InInsert(u)
            /\ InRemove(u)' <=> InRemove(u)
            /\ Calling(u)' <=> Calling(u)
            /\ arg'[u] = arg[u]
      BY <1>12, <2>1
         DEF InsertCas, Return, Goto, IInv, TypeOK, InInsert, InRemove,
             Calling
    <3>3. \A u \in Threads : u # t =>
            /\ InInsert(u) => life'[arg[u]] = "ctor"
            /\ InRemove(u) => life'[arg[u]] = "dtor"
      BY <1>12, <2>1
         DEF InsertCas, IInv, TypeOK, Ownership, InInsert, InRemove
    <3> QED BY <3>1, <3>2, <3>3 DEF IInv, Ownership
  <2>2. CASE d_list # head[t]
    BY <1>12, <2>2
       DEF InsertCas, Ownership, InInsert, InRemove, Calling, IInv, TypeOK,
           Goto
  <2> QED BY <2>1, <2>2
<1>13. ASSUME NEW t \in Threads, SpinOnMarker(t) PROVE Ownership'
    BY <1>13
       DEF SpinOnMarker, vars, IInv, MarkerExclusion, Ownership, InInsert,
           InRemove, Calling, Request, InStop, LinkedNotDestroyed, Calls,
           CallbackCalls, ThreadCalls, Linked, ListIntact, At, Search
<1>14. ASSUME NEW t \in Threads, NEW c \in Callbacks, RemoveBegin(t, c)
      PROVE  Ownership'
  <2>1. CASE d_called[c]
    BY <1>14, <2>1
       DEF RemoveBegin, shared, Ownership, InInsert, InRemove, Calling, IInv,
           TypeOK, Goto
  <2>2. CASE ~d_called[c]
    <3>1. ~InInsert(t)' /\ InRemove(t)' /\ ~Calling(t)' /\ arg'[t] = c
      BY <1>14, <2>2
         DEF RemoveBegin, Goto, IInv, TypeOK, InInsert, InRemove, Calling
    <3>2. \A u \in Threads : u # t =>
            /\ InInsert(u)' <=> InInsert(u)
            /\ InRemove(u)' <=> InRemove(u)
            /\ Calling(u)' <=> Calling(u)
            /\ arg'[u] = arg[u]
      BY <1>14, <2>2
         DEF RemoveBegin, Goto, IInv, TypeOK, InInsert, InRemove, Calling
    <3>3. \A u \in Threads :
            /\ InInsert(u) => arg[u] # c
            /\ InRemove(u) => arg[u] # c
      BY <1>14 DEF RemoveBegin, IInv, Ownership
    <3>4. life'[c] = "dtor" /\ \A d \in Callbacks : d # c => life'[d] = life[d]
      BY <1>14, <2>2 DEF RemoveBegin, IInv, TypeOK
    <3> QED BY <3>1, <3>2, <3>3, <3>4 DEF IInv, Ownership
  <2> QED BY <2>1, <2>2
<1>15. ASSUME NEW t \in Threads, RemoveLoad(t) PROVE Ownership'
  <2>1. CASE d_list = Null
    <3>1. ~InInsert(t)' /\ ~InRemove(t)' /\ ~Calling(t)'
      BY <1>15, <2>1
         DEF RemoveLoad, Return, Goto, IInv, TypeOK, InInsert, InRemove,
             Calling
    <3>2. \A u \in Threads : u # t =>
            /\ InInsert(u)' <=> InInsert(u)
            /\ InRemove(u)' <=> InRemove(u)
            /\ Calling(u)' <=> Calling(u)
            /\ arg'[u] = arg[u]
      BY <1>15, <2>1
         DEF RemoveLoad, Return, Goto, IInv, TypeOK, InInsert, InRemove,
             Calling
    <3>3. \A u \in Threads : u # t =>
            /\ InInsert(u) => life'[arg[u]] = "ctor"
            /\ InRemove(u) => life'[arg[u]] = "dtor"
      BY <1>15, <2>1
         DEF RemoveLoad, IInv, TypeOK, Ownership, InInsert, InRemove
    <3> QED BY <3>1, <3>2, <3>3 DEF IInv, Ownership
  <2>2. CASE d_list # Null
    BY <1>15, <2>2
       DEF RemoveLoad, shared, Ownership, InInsert, InRemove, Calling, IInv,
           TypeOK, Goto
  <2> QED BY <2>1, <2>2
<1>16. ASSUME NEW t \in Threads, RemoveCas(t) PROVE Ownership'
    BY <1>16
       DEF RemoveCas, Ownership, InInsert, InRemove, Calling, IInv, TypeOK,
           Goto, Return, shared
<1>17. ASSUME NEW t \in Threads, RemoveUnlink(t) PROVE Ownership'
    BY <1>17
       DEF RemoveUnlink, Ownership, InInsert, InRemove, Calling, IInv,
           TypeOK, Goto, Return, shared
<1>18. ASSUME NEW t \in Threads, RemoveWalk(t) PROVE Ownership'
    BY <1>18
       DEF RemoveWalk, Ownership, InInsert, InRemove, Calling, IInv, TypeOK,
           Goto, Return, shared
<1>19. ASSUME NEW t \in Threads, RemoveStore(t) PROVE Ownership'
    BY <1>19
       DEF RemoveStore, Ownership, InInsert, InRemove, Calling, IInv, TypeOK,
           Goto, Return, shared
<1>20. CASE UNCHANGED vars
    BY <1>20
       DEF vars, Ownership, InInsert, InRemove, Calling, IInv, TypeOK, Goto,
           Return, shared
<1> QED
    BY <1>1, <1>2, <1>3, <1>4, <1>5, <1>6, <1>7, <1>8, <1>9, <1>10, <1>11,
       <1>12, <1>13, <1>14, <1>15, <1>16, <1>17, <1>18, <1>19, <1>20 DEF
       Next, Continue

\* The handling of the request is preserved.
LEMMA RequestStep == IInv /\ [Next]_vars => Request'
<1> SUFFICES ASSUME IInv, [Next]_vars PROVE Request'
    OBVIOUS
<1>1. ASSUME NEW t \in Threads, StopRequest(t) PROVE Request'
    BY <1>1, PointersDiffer
       DEF StopRequest, Request, InStop, IInv, TypeOK, MarkerExclusion,
           Holds, Holding, Goto, Return, shared
<1>2. ASSUME NEW t \in Threads, StopLoad(t) PROVE Request'
    BY <1>2, PointersDiffer
       DEF StopLoad, Request, InStop, IInv, TypeOK, MarkerExclusion, Holds,
           Holding, Goto, Return, shared
<1>3. ASSUME NEW t \in Threads, StopCas(t) PROVE Request'
    BY <1>3, PointersDiffer
       DEF StopCas, Request, InStop, IInv, TypeOK, MarkerExclusion, Holds,
           Holding, Goto, Return, shared
<1>4. ASSUME NEW t \in Threads, StopCall(t) PROVE Request'
    BY <1>4, PointersDiffer
       DEF StopCall, Request, InStop, IInv, TypeOK, MarkerExclusion, Holds,
           Holding, Goto, Return, shared
<1>5. ASSUME NEW t \in Threads, StopEnd(t) PROVE Request'
    BY <1>5, PointersDiffer
       DEF StopEnd, Request, InStop, IInv, TypeOK, MarkerExclusion, Holds,
           Holding, Goto, Return, shared
<1>6. ASSUME NEW t \in Threads, DoCall(t) PROVE Request'
    BY <1>6, PointersDiffer
       DEF DoCall, Request, InStop, IInv, TypeOK, MarkerExclusion, Holds,
           Holding, Goto, Return, shared
<1>7. ASSUME NEW t \in Threads, StopBodyReturns(t) PROVE Request'
    BY <1>7, PointersDiffer
       DEF StopBodyReturns, Request, InStop, IInv, TypeOK, MarkerExclusion,
           Holds, Holding, Goto, Return, shared
<1>8. ASSUME NEW t \in Threads, StopBodyDestroysSelf(t) PROVE Request'
    BY <1>8, PointersDiffer
       DEF StopBodyDestroysSelf, Request, InStop, IInv, TypeOK,
           MarkerExclusion, Holds, Holding, Goto, Return, shared
<1>9. ASSUME NEW t \in Threads, InsertBodyReturns(t) PROVE Request'
    BY <1>9, PointersDiffer
       DEF InsertBodyReturns, Request, InStop, IInv, TypeOK, MarkerExclusion,
           Holds, Holding, Goto, Return, shared
<1>10. ASSUME NEW t \in Threads, NEW c \in Callbacks, InsertBegin(t, c)
      PROVE  Request'
    BY <1>10, PointersDiffer
       DEF InsertBegin, Request, InStop, IInv, TypeOK, MarkerExclusion,
           Holds, Holding, Goto, Return, shared
<1>11. ASSUME NEW t \in Threads, InsertCalls(t) PROVE Request'
    BY <1>11, PointersDiffer
       DEF InsertCalls, Request, InStop, IInv, TypeOK, MarkerExclusion,
           Holds, Holding, Goto, Return, shared
<1>12. ASSUME NEW t \in Threads, InsertCas(t) PROVE Request'
  <2>1. CASE d_list = head[t]
    <3>1. d_list # Null /\ d_list' # Null
      BY <1>12, <2>1, PointersDiffer DEF InsertCas, IInv, Ownership, InInsert
    <3>2. ~InStop(t)' /\ pc'[t] \notin {"ins_cas", "rm_cas"}
      BY <1>12, <2>1 DEF InsertCas, Return, Goto, IInv, TypeOK, InStop
    <3>3. \A u \in Threads : u # t =>
            pc'[u] = pc[u] /\ head'[u] = head[u] /\ (InStop(u)' <=> InStop(u))
      BY <1>12, <2>1 DEF InsertCas, Return, Goto, IInv, TypeOK, InStop
    <3>4. d_stop_requested' = d_stop_requested
      BY <1>12 DEF InsertCas
    <3> QED BY <3>1, <3>2, <3>3, <3>4 DEF IInv, Request
  <2>2. CASE d_list # head[t]
    BY <1>12, <2>2 DEF InsertCas, Request, InStop, IInv, TypeOK, Goto
  <2> QED BY <2>1, <2>2
<1>13. ASSUME NEW t \in Threads, SpinOnMarker(t) PROVE Request'
    BY <1>13
       DEF SpinOnMarker, vars, IInv, MarkerExclusion, Ownership, InInsert,
           InRemove, Calling, Request, InStop, LinkedNotDestroyed, Calls,
           CallbackCalls, ThreadCalls, Linked, ListIntact, At, Search
<1>14. ASSUME NEW t \in Threads, NEW c \in Callbacks, RemoveBegin(t, c)
      PROVE  Request'
    BY <1>14, PointersDiffer
       DEF RemoveBegin, Request, InStop, IInv, TypeOK, MarkerExclusion,
           Holds, Holding, Goto, Return, shared
<1>15. ASSUME NEW t \in Threads, RemoveLoad(t) PROVE Request'
  <2>1. CASE d_list = Null
    BY <1>15, <2>1
       DEF RemoveLoad, Return, shared, Request, InStop, IInv, TypeOK, Goto
  <2>2. CASE d_list # Null
    BY <1>15, <2>2 DEF RemoveLoad, shared, Request, InStop, IInv, TypeOK, Goto
  <2> QED BY <2>1, <2>2
<1>16. ASSUME NEW t \in Threads, RemoveCas(t) PROVE Request'
    BY <1>16, PointersDiffer
       DEF RemoveCas, Request, InStop, IInv, TypeOK, MarkerExclusion, Holds,
           Holding, Goto, Return, shared
<1>17. ASSUME NEW t \in Threads, RemoveUnlink(t) PROVE Request'
  <2>1. CASE head[t] = arg[t]
    BY ZenonT(60), <1>17, <2>1
       DEF RemoveUnlink, shared, Request, InStop, IInv, TypeOK, Goto
  <2>2. CASE head[t] # arg[t]
    BY <1>17, <2>2
       DEF RemoveUnlink, shared, Request, InStop, IInv, TypeOK, Goto
  <2> QED BY <2>1, <2>2
<1>18. ASSUME NEW t \in Threads, RemoveWalk(t) PROVE Request'
    BY <1>18, PointersDiffer
       DEF RemoveWalk, Request, InStop, IInv, TypeOK, MarkerExclusion, Holds,
           Holding, Goto, Return, shared
<1>19. ASSUME NEW t \in Threads, RemoveStore(t) PROVE Request'
  <2>1. d_list = Marker /\ d_list' # Null
    BY <1>19, AtType, PointersDiffer
       DEF RemoveStore, IInv, MarkerExclusion, Holds, Holding, ListIntact
  <2>2. ~InStop(t)' /\ pc'[t] \notin {"ins_cas", "rm_cas"}
    BY <1>19 DEF RemoveStore, Return, Goto, IInv, TypeOK, InStop
  <2>3. \A u \in Threads : u # t =>
          pc'[u] = pc[u] /\ head'[u] = head[u] /\ (InStop(u)' <=> InStop(u))
    BY <1>19 DEF RemoveStore, Return, Goto, IInv, TypeOK, InStop
  <2>4. d_stop_requested' = d_stop_requested
    BY <1>19 DEF RemoveStore
  <2> QED BY <2>1, <2>2, <2>3, <2>4, PointersDiffer DEF IInv, Request
<1>20. CASE UNCHANGED vars
    BY <1>20, PointersDiffer
       DEF vars, Request, InStop, IInv, TypeOK, MarkerExclusion, Holds,
           Holding, Goto, Return, shared
<1> QED
    BY <1>1, <1>2, <1>3, <1>4, <1>5, <1>6, <1>7, <1>8, <1>9, <1>10, <1>11,
       <1>12, <1>13, <1>14, <1>15, <1>16, <1>17, <1>18, <1>19, <1>20 DEF
       Next, Continue

\* Linked callbacks stay valid.
LEMMA LinkedStep == IInv /\ [Next]_vars => LinkedNotDestroyed'
<1> SUFFICES ASSUME IInv, [Next]_vars PROVE LinkedNotDestroyed'
    OBVIOUS
<1>1. ASSUME NEW t \in Threads, StopRequest(t) PROVE LinkedNotDestroyed'
    BY <1>1
       DEF StopRequest, LinkedNotDestroyed, Linked, IInv, TypeOK, Ownership,
           InInsert, InRemove, Goto, Return, shared
<1>2. ASSUME NEW t \in Threads, StopLoad(t) PROVE LinkedNotDestroyed'
    BY <1>2
       DEF StopLoad, LinkedNotDestroyed, Linked, IInv, TypeOK, Ownership,
           InInsert, InRemove, Goto, Return, shared
<1>3. ASSUME NEW t \in Threads, StopCas(t) PROVE LinkedNotDestroyed'
    BY <1>3
       DEF StopCas, LinkedNotDestroyed, Linked, IInv, TypeOK, Ownership,
           InInsert, InRemove, Goto, Return, shared
<1>4. ASSUME NEW t \in Threads, StopCall(t) PROVE LinkedNotDestroyed'
  <2>1. \A c \in Callbacks : Linked(c)' => Linked(c) /\ c # node[t]
    BY <1>4, StopCallList
  <2> QED BY <1>4, <2>1 DEF StopCall, IInv, TypeOK, LinkedNotDestroyed
<1>5. ASSUME NEW t \in Threads, StopEnd(t) PROVE LinkedNotDestroyed'
    BY <1>5
       DEF StopEnd, LinkedNotDestroyed, Linked, IInv, TypeOK, Ownership,
           InInsert, InRemove, Goto, Return, shared
<1>6. ASSUME NEW t \in Threads, DoCall(t) PROVE LinkedNotDestroyed'
    BY <1>6
       DEF DoCall, LinkedNotDestroyed, Linked, IInv, TypeOK, Ownership,
           InInsert, InRemove, Goto, Return, shared
<1>7. ASSUME NEW t \in Threads, StopBodyReturns(t) PROVE LinkedNotDestroyed'
    BY <1>7
       DEF StopBodyReturns, LinkedNotDestroyed, Linked, IInv, TypeOK,
           Ownership, InInsert, InRemove, Goto, Return, shared
<1>8. ASSUME NEW t \in Threads, StopBodyDestroysSelf(t)
      PROVE  LinkedNotDestroyed'
    BY <1>8
       DEF StopBodyDestroysSelf, LinkedNotDestroyed, Linked, IInv, TypeOK,
           Ownership, InInsert, InRemove, Goto, Return, shared
<1>9. ASSUME NEW t \in Threads, InsertBodyReturns(t) PROVE LinkedNotDestroyed'
    BY <1>9
       DEF InsertBodyReturns, LinkedNotDestroyed, Linked, IInv, TypeOK,
           Ownership, InInsert, InRemove, Goto, Return, shared
<1>10. ASSUME NEW t \in Threads, NEW c \in Callbacks, InsertBegin(t, c)
      PROVE  LinkedNotDestroyed'
    BY <1>10
       DEF InsertBegin, LinkedNotDestroyed, Linked, IInv, TypeOK, Ownership,
           InInsert, InRemove, Goto, Return, shared
<1>11. ASSUME NEW t \in Threads, InsertCalls(t) PROVE LinkedNotDestroyed'
    BY <1>11
       DEF InsertCalls, LinkedNotDestroyed, Linked, IInv, TypeOK, Ownership,
           InInsert, InRemove, Goto, Return, shared
<1>12. ASSUME NEW t \in Threads, InsertCas(t) PROVE LinkedNotDestroyed'
  <2>1. CASE d_list = head[t]
    <3>1. \A c \in Callbacks : Linked(c)' => Linked(c) \/ c = arg[t]
      BY <1>12, <2>1, InsertCasList
    <3>2. arg[t] \in Callbacks /\ ~d_called[arg[t]]
      BY <1>12
         DEF InsertCas, IInv, Ownership, InInsert, Calls, CallbackCalls,
             ThreadCalls
    <3> QED BY <1>12, <2>1, <3>1, <3>2
            DEF InsertCas, IInv, TypeOK, LinkedNotDestroyed
  <2>2. CASE d_list # head[t]
    BY <1>12, <2>2 DEF InsertCas, IInv, LinkedNotDestroyed, Linked
  <2> QED BY <2>1, <2>2
<1>13. ASSUME NEW t \in Threads, SpinOnMarker(t) PROVE LinkedNotDestroyed'
    BY <1>13
       DEF SpinOnMarker, vars, IInv, MarkerExclusion, Ownership, InInsert,
           InRemove, Calling, Request, InStop, LinkedNotDestroyed, Calls,
           CallbackCalls, ThreadCalls, Linked, ListIntact, At, Search
<1>14. ASSUME NEW t \in Threads, NEW c \in Callbacks, RemoveBegin(t, c)
      PROVE  LinkedNotDestroyed'
    BY <1>14
       DEF RemoveBegin, LinkedNotDestroyed, Linked, IInv, TypeOK, Ownership,
           InInsert, InRemove, Goto, Return, shared
<1>15. ASSUME NEW t \in Threads, RemoveLoad(t) PROVE LinkedNotDestroyed'
  <2>1. CASE d_list = Null
    <3>1. \A c \in Callbacks : ~Linked(c)'
      BY <1>15, <2>1 DEF RemoveLoad, IInv, ListIntact, Linked
    <3> QED BY <3>1 DEF LinkedNotDestroyed
  <2>2. CASE d_list # Null
    BY <1>15, <2>2 DEF RemoveLoad, shared, IInv, LinkedNotDestroyed, Linked
  <2> QED BY <2>1, <2>2
<1>16. ASSUME NEW t \in Threads, RemoveCas(t) PROVE LinkedNotDestroyed'
    BY <1>16
       DEF RemoveCas, LinkedNotDestroyed, Linked, IInv, TypeOK, Ownership,
           InInsert, InRemove, Goto, Return, shared
<1>17. ASSUME NEW t \in Threads, RemoveUnlink(t) PROVE LinkedNotDestroyed'
  <2>1. CASE head[t] = arg[t]
    <3>1. \A c \in Callbacks : Linked(c)' => Linked(c)
      BY <1>17, <2>1, UnlinkFirst, UnlinkList DEF IInv
    <3> QED BY <1>17, <3>1 DEF RemoveUnlink, shared, IInv, LinkedNotDestroyed
  <2>2. CASE head[t] # arg[t]
    BY <1>17, <2>2 DEF RemoveUnlink, shared, IInv, LinkedNotDestroyed, Linked
  <2> QED BY <2>1, <2>2
<1>18. ASSUME NEW t \in Threads, RemoveWalk(t) PROVE LinkedNotDestroyed'
  <2>1. CASE node[t] # End /\ d_next[node[t]] = arg[t]
    <3>1. PICK k \in 1..(Len(nodes) - 1) : nodes' = Unlinked(nodes[k + 1])
      BY <1>18, <2>1, UnlinkLater
    <3>2. k + 1 \in 1..Len(nodes)
      BY DEF IInv, TypeOK
    <3>3. \A c \in Callbacks : Linked(c)' => Linked(c)
      BY <3>1, <3>2, UnlinkList DEF IInv
    <3> QED BY <1>18, <3>3 DEF RemoveWalk, IInv, LinkedNotDestroyed
  <2>2. CASE ~(node[t] # End /\ d_next[node[t]] = arg[t])
    BY <1>18, <2>2 DEF RemoveWalk, IInv, LinkedNotDestroyed, Linked
  <2> QED BY <2>1, <2>2
<1>19. ASSUME NEW t \in Threads, RemoveStore(t) PROVE LinkedNotDestroyed'
  <2>1. arg[t] \in Callbacks /\ ~Linked(arg[t])
    BY <1>19 DEF RemoveStore, IInv, Ownership, InRemove, Search
  <2>2. \A c \in Callbacks : Linked(c)' <=> Linked(c)
    BY <1>19 DEF RemoveStore, Linked
  <2> QED BY <1>19, <2>1, <2>2 DEF RemoveStore, IInv, TypeOK, LinkedNotDestroyed
<1>20. CASE UNCHANGED vars
    BY <1>20
       DEF vars, LinkedNotDestroyed, Linked, IInv, TypeOK, Ownership,
           InInsert, InRemove, Goto, Return, shared
<1> QED
    BY <1>1, <1>2, <1>3, <1>4, <1>5, <1>6, <1>7, <1>8, <1>9, <1>10, <1>11,
       <1>12, <1>13, <1>14, <1>15, <1>16, <1>17, <1>18, <1>19, <1>20 DEF
       Next, Continue

\* The accounting of calls is preserved.
LEMMA CallsStep == IInv /\ [Next]_vars => Calls'
<1> SUFFICES ASSUME IInv, [Next]_vars PROVE Calls'
    OBVIOUS
<1>1. ASSUME NEW t \in Threads, StopRequest(t) PROVE Calls'
    BY <1>1
       DEF StopRequest, Calls, CallbackCalls, ThreadCalls, Ownership,
           InInsert, InRemove, Calling, IInv, TypeOK, Goto, Return, shared,
           Linked, LinkedNotDestroyed
<1>2. ASSUME NEW t \in Threads, StopLoad(t) PROVE Calls'
    BY <1>2
       DEF StopLoad, Calls, CallbackCalls, ThreadCalls, Ownership, InInsert,
           InRemove, Calling, IInv, TypeOK, Goto, Return, shared, Linked,
           LinkedNotDestroyed
<1>3. ASSUME NEW t \in Threads, StopCas(t) PROVE Calls'
    BY <1>3
       DEF StopCas, Calls, CallbackCalls, ThreadCalls, Ownership, InInsert,
           InRemove, Calling, IInv, TypeOK, Goto, Return, shared, Linked,
           LinkedNotDestroyed
<1>4. ASSUME NEW t \in Threads, StopCall(t) PROVE Calls'
  <2>1. /\ node[t] \in Callbacks /\ Linked(node[t]) /\ ~d_called[node[t]]
        /\ life[node[t]] # "ctor"
    <3>1. node[t] \in Callbacks /\ Linked(node[t])
      <4>1. node[t] \in Callbacks
        BY <1>4 DEF StopCall
      <4>2. Linked(node[t])
        BY <1>4, StopCallList DEF Linked
      <4> QED BY <4>1, <4>2
    <3> QED BY <3>1 DEF IInv, LinkedNotDestroyed
  <2>2. /\ pc'[t] = "stop_do" /\ arg'[t] = node[t]
        /\ \A u \in Threads : u # t => pc'[u] = pc[u] /\ arg'[u] = arg[u]
    BY <1>4 DEF StopCall, Goto, IInv, TypeOK
  <2>3. /\ d_called'[node[t]]
        /\ \A c \in Callbacks : c # node[t] => (d_called'[c] <=> d_called[c])
        /\ ran' = ran /\ life' = life
    BY <1>4 DEF StopCall, IInv, TypeOK
  <2>4. ASSUME NEW c \in Callbacks
        PROVE  CallbackCalls(c)'
    <3>1. CASE c = node[t]
      BY <3>1, <2>2, <2>3 DEF IInv, Calls, CallbackCalls, ThreadCalls
    <3>2. CASE c # node[t]
      <4>1. Linked(c)' <=> Linked(c)
        BY <1>4, <3>2, StopCallList
      <4>2. \A u \in Threads : pc[u] = "stop_do" => pc'[u] = "stop_do" /\ arg'[u] = arg[u]
        BY <1>4, <2>2 DEF StopCall
      <4> QED BY <3>2, <4>1, <4>2, <2>3 DEF IInv, Calls, CallbackCalls, ThreadCalls
    <3> QED BY <3>1, <3>2
  <2>5. ASSUME NEW u \in Threads
        PROVE  ThreadCalls(u)'
    <3>1. CASE u = t
      BY <3>1, <2>1, <2>2, <2>3 DEF IInv, Calls, CallbackCalls, ThreadCalls
    <3>2. CASE u # t
      <4>1. pc[u] \in {"stop_do", "ins_do", "stop_body", "ins_body", "ins_cas"} =>
              arg[u] \in Callbacks
        BY DEF IInv, Ownership, InInsert, Calling
      <4>2. pc[u] = "ins_cas" => arg[u] # node[t]
        BY <2>1 DEF IInv, Ownership, InInsert
      <4> QED BY <3>2, <4>1, <4>2, <2>2, <2>3 DEF IInv, Calls, CallbackCalls, ThreadCalls
    <3> QED BY <3>1, <3>2
  <2> QED BY <2>4, <2>5 DEF Calls
<1>5. ASSUME NEW t \in Threads, StopEnd(t) PROVE Calls'
    BY <1>5
       DEF StopEnd, Calls, CallbackCalls, ThreadCalls, Ownership, InInsert,
           InRemove, Calling, IInv, TypeOK, Goto, Return, shared, Linked,
           LinkedNotDestroyed
<1>6. ASSUME NEW t \in Threads, DoCall(t) PROVE Calls'
  <2>1. arg[t] \in Callbacks /\ d_called[arg[t]] /\ ran[arg[t]] = 0
    BY <1>6
       DEF DoCall, IInv, Ownership, InInsert, Calling, Calls, CallbackCalls,
           ThreadCalls
  <2>2. /\ ran'[arg[t]] = 1
        /\ \A c \in Callbacks : c # arg[t] => ran'[c] = ran[c]
        /\ d_called' = d_called /\ life' = life /\ arg' = arg /\ nodes' = nodes
    BY <1>6, <2>1 DEF DoCall, shared, IInv, TypeOK
  <2>3. /\ pc'[t] \in {"stop_body", "ins_body"}
        /\ \A u \in Threads : u # t => pc'[u] = pc[u]
    BY <1>6 DEF DoCall, Goto, IInv, TypeOK
  <2>4. \A u \in Threads : u # t /\ pc[u] \in {"stop_do", "ins_do"} => arg[u] # arg[t]
    BY <1>6
       DEF DoCall, IInv, Ownership, InInsert, Calling, MarkerExclusion,
           Holds, Holding
  <2>5. \A c \in Callbacks : Linked(c)' <=> Linked(c)
    BY <2>2 DEF Linked
  <2>6. ASSUME NEW c \in Callbacks
        PROVE  CallbackCalls(c)'
    <3>1. CASE c = arg[t]
      BY <3>1, <2>1, <2>2 DEF CallbackCalls
    <3>2. CASE c # arg[t]
      <4>1. \A u \in Threads : pc[u] = "stop_do" /\ arg[u] = c => pc'[u] = "stop_do" /\ arg'[u] = c
        BY <3>2, <2>2, <2>3
      <4> QED BY <3>2, <4>1, <2>2, <2>5 DEF IInv, Calls, CallbackCalls, ThreadCalls
    <3> QED BY <3>1, <3>2
  <2>7. ASSUME NEW u \in Threads
        PROVE  ThreadCalls(u)'
    <3>1. CASE u = t
      BY <3>1, <2>1, <2>2, <2>3 DEF ThreadCalls
    <3>2. CASE u # t
      <4>1. pc[u] \in {"stop_do", "ins_do", "stop_body", "ins_body", "ins_cas"} =>
              arg[u] \in Callbacks
        BY DEF IInv, Ownership, InInsert, Calling
      <4> QED BY <3>2, <4>1, <2>1, <2>2, <2>3, <2>4 DEF IInv, Calls, CallbackCalls, ThreadCalls
    <3> QED BY <3>1, <3>2
  <2> QED BY <2>6, <2>7 DEF Calls
<1>7. ASSUME NEW t \in Threads, StopBodyReturns(t) PROVE Calls'
    BY <1>7
       DEF StopBodyReturns, Calls, CallbackCalls, ThreadCalls, Ownership,
           InInsert, InRemove, Calling, IInv, TypeOK, Goto, Return, shared,
           Linked, LinkedNotDestroyed
<1>8. ASSUME NEW t \in Threads, StopBodyDestroysSelf(t) PROVE Calls'
    BY <1>8
       DEF StopBodyDestroysSelf, Calls, CallbackCalls, ThreadCalls,
           Ownership, InInsert, InRemove, Calling, IInv, TypeOK, Goto,
           Return, shared, Linked, LinkedNotDestroyed
<1>9. ASSUME NEW t \in Threads, InsertBodyReturns(t) PROVE Calls'
    BY <1>9
       DEF InsertBodyReturns, Calls, CallbackCalls, ThreadCalls, Ownership,
           InInsert, InRemove, Calling, IInv, TypeOK, Goto, Return, shared,
           Linked, LinkedNotDestroyed
<1>10. ASSUME NEW t \in Threads, NEW c \in Callbacks, InsertBegin(t, c)
      PROVE  Calls'
    BY <1>10
       DEF InsertBegin, Calls, CallbackCalls, ThreadCalls, Ownership,
           InInsert, InRemove, Calling, IInv, TypeOK, Goto, Return, shared,
           Linked, LinkedNotDestroyed
<1>11. ASSUME NEW t \in Threads, InsertCalls(t) PROVE Calls'
    BY <1>11
       DEF InsertCalls, Calls, CallbackCalls, ThreadCalls, Ownership,
           InInsert, InRemove, Calling, IInv, TypeOK, Goto, Return, shared,
           Linked, LinkedNotDestroyed
<1>12. ASSUME NEW t \in Threads, InsertCas(t) PROVE Calls'
  <2>1. CASE d_list = head[t]
    <3>1. arg[t] \in Callbacks /\ ~d_called[arg[t]]
      BY <1>12
         DEF InsertCas, IInv, Ownership, InInsert, Calls, CallbackCalls,
             ThreadCalls
    <3>2. /\ d_called' = d_called /\ ran' = ran
          /\ \A c \in Callbacks : c # arg[t] => life'[c] = life[c]
      BY <1>12, <2>1 DEF InsertCas, IInv, TypeOK
    <3>3. /\ pc'[t] = "idle"
          /\ \A u \in Threads : u # t => pc'[u] = pc[u] /\ arg'[u] = arg[u]
      BY <1>12, <2>1 DEF InsertCas, Goto, Return, IInv, TypeOK
    <3>4. \A c \in Callbacks : Linked(c)' <=> (Linked(c) \/ c = arg[t])
      BY <1>12, <2>1, InsertCasList
    <3>5. pc[t] # "stop_do"
      BY <1>12 DEF InsertCas
    <3> QED BY <3>1, <3>2, <3>3, <3>4, <3>5 DEF IInv, Calls, CallbackCalls, ThreadCalls
  <2>2. CASE d_list # head[t]
    BY <1>12, <2>2
       DEF InsertCas, IInv, Calls, CallbackCalls, ThreadCalls, Linked
  <2> QED BY <2>1, <2>2
<1>13. ASSUME NEW t \in Threads, SpinOnMarker(t) PROVE Calls'
    BY <1>13
       DEF SpinOnMarker, vars, IInv, MarkerExclusion, Ownership, InInsert,
           InRemove, Calling, Request, InStop, LinkedNotDestroyed, Calls,
           CallbackCalls, ThreadCalls, Linked, ListIntact, At, Search
<1>14. ASSUME NEW t \in Threads, NEW c \in Callbacks, RemoveBegin(t, c)
      PROVE  Calls'
  <2>1. CASE d_called[c]
    <3>1. /\ d_called' = d_called /\ ran' = ran
          /\ \A d \in Callbacks : life'[d] = "live" => life[d] = "live"
      BY <1>14, <2>1 DEF RemoveBegin, shared, IInv, TypeOK
    <3>2. \A u \in Threads :
            /\ pc'[u] \in {"stop_do", "stop_body", "ins_do", "ins_body", "ins_cas"} =>
                 pc'[u] = pc[u] /\ arg'[u] = arg[u]
            /\ pc[u] = "stop_do" => pc'[u] = pc[u] /\ arg'[u] = arg[u]
      BY <1>14, <2>1 DEF RemoveBegin, Goto, Return, IInv, TypeOK
    <3>3. \A d \in Callbacks : life'[d] = "live" /\ Linked(d) => Linked(d)'
      BY <1>14, <2>1 DEF RemoveBegin, Linked
    <3> QED BY <3>1, <3>2, <3>3 DEF IInv, Calls, CallbackCalls, ThreadCalls
  <2>2. CASE ~d_called[c]
    <3>1. /\ d_called' = d_called /\ ran' = ran
          /\ \A d \in Callbacks : life'[d] = "live" => life[d] = "live"
      BY <1>14, <2>2 DEF RemoveBegin, shared, IInv, TypeOK
    <3>2. \A u \in Threads :
            /\ pc'[u] \in {"stop_do", "stop_body", "ins_do", "ins_body", "ins_cas"} =>
                 pc'[u] = pc[u] /\ arg'[u] = arg[u]
            /\ pc[u] = "stop_do" => pc'[u] = pc[u] /\ arg'[u] = arg[u]
      BY <1>14, <2>2 DEF RemoveBegin, Goto, Return, IInv, TypeOK
    <3>3. \A d \in Callbacks : life'[d] = "live" /\ Linked(d) => Linked(d)'
      BY <1>14, <2>2 DEF RemoveBegin, Linked
    <3> QED BY <3>1, <3>2, <3>3 DEF IInv, Calls, CallbackCalls, ThreadCalls
  <2> QED BY <2>1, <2>2
<1>15. ASSUME NEW t \in Threads, RemoveLoad(t) PROVE Calls'
  <2>1. CASE d_list = Null
    <3>1. /\ d_called' = d_called /\ ran' = ran
          /\ \A c \in Callbacks : life'[c] = "live" => life[c] = "live"
      BY <1>15, <2>1 DEF RemoveLoad, shared, IInv, TypeOK
    <3>2. \A u \in Threads :
            /\ pc'[u] \in {"stop_do", "stop_body", "ins_do", "ins_body", "ins_cas"} =>
                 pc'[u] = pc[u] /\ arg'[u] = arg[u]
            /\ pc[u] = "stop_do" => pc'[u] = pc[u] /\ arg'[u] = arg[u]
      BY <1>15, <2>1 DEF RemoveLoad, Goto, Return, IInv, TypeOK
    <3>3. \A c \in Callbacks : life'[c] = "live" /\ Linked(c) => Linked(c)'
      BY <1>15, <2>1 DEF RemoveLoad, Linked
    <3> QED BY <3>1, <3>2, <3>3 DEF IInv, Calls, CallbackCalls, ThreadCalls
  <2>2. CASE d_list # Null
    <3>1. /\ d_called' = d_called /\ ran' = ran
          /\ \A c \in Callbacks : life'[c] = "live" => life[c] = "live"
      BY <1>15, <2>2 DEF RemoveLoad, shared, IInv, TypeOK
    <3>2. \A u \in Threads :
            /\ pc'[u] \in {"stop_do", "stop_body", "ins_do", "ins_body", "ins_cas"} =>
                 pc'[u] = pc[u] /\ arg'[u] = arg[u]
            /\ pc[u] = "stop_do" => pc'[u] = pc[u] /\ arg'[u] = arg[u]
      BY <1>15, <2>2 DEF RemoveLoad, Goto, Return, IInv, TypeOK
    <3>3. \A c \in Callbacks : life'[c] = "live" /\ Linked(c) => Linked(c)'
      BY <1>15, <2>2 DEF RemoveLoad, Linked
    <3> QED BY <3>1, <3>2, <3>3 DEF IInv, Calls, CallbackCalls, ThreadCalls
  <2> QED BY <2>1, <2>2
<1>16. ASSUME NEW t \in Threads, RemoveCas(t) PROVE Calls'
    BY <1>16
       DEF RemoveCas, Calls, CallbackCalls, ThreadCalls, Ownership, InInsert,
           InRemove, Calling, IInv, TypeOK, Goto, Return, shared, Linked,
           LinkedNotDestroyed
<1>17. ASSUME NEW t \in Threads, RemoveUnlink(t) PROVE Calls'
  <2>1. CASE head[t] = arg[t]
    <3>1. /\ d_called' = d_called /\ ran' = ran
          /\ \A c \in Callbacks : life'[c] = "live" => life[c] = "live"
      BY <1>17, <2>1 DEF RemoveUnlink, shared, IInv, TypeOK
    <3>2. \A u \in Threads :
            /\ pc'[u] \in {"stop_do", "stop_body", "ins_do", "ins_body", "ins_cas"} =>
                 pc'[u] = pc[u] /\ arg'[u] = arg[u]
            /\ pc[u] = "stop_do" => pc'[u] = pc[u] /\ arg'[u] = arg[u]
      BY <1>17, <2>1 DEF RemoveUnlink, Goto, Return, IInv, TypeOK
    <3>3. \A c \in Callbacks : life'[c] = "live" /\ Linked(c) => Linked(c)'
      <4>1. life'[arg[t]] = "dtor"
        BY <1>17 DEF RemoveUnlink, IInv, Ownership, InRemove
      <4>2. \A c \in Callbacks : Linked(c) /\ c # arg[t] => Linked(c)'
        BY <1>17, <2>1, UnlinkFirst, UnlinkList DEF IInv
      <4> QED BY <4>1, <4>2
    <3> QED BY <3>1, <3>2, <3>3 DEF IInv, Calls, CallbackCalls, ThreadCalls
  <2>2. CASE head[t] # arg[t]
    <3>1. /\ d_called' = d_called /\ ran' = ran
          /\ \A c \in Callbacks : life'[c] = "live" => life[c] = "live"
      BY <1>17, <2>2 DEF RemoveUnlink, shared, IInv, TypeOK
    <3>2. \A u \in Threads :
            /\ pc'[u] \in {"stop_do", "stop_body", "ins_do", "ins_body", "ins_cas"} =>
                 pc'[u] = pc[u] /\ arg'[u] = arg[u]
            /\ pc[u] = "stop_do" => pc'[u] = pc[u] /\ arg'[u] = arg[u]
      BY <1>17, <2>2 DEF RemoveUnlink, Goto, Return, IInv, TypeOK
    <3>3. \A c \in Callbacks : life'[c] = "live" /\ Linked(c) => Linked(c)'
      BY <1>17, <2>2 DEF RemoveUnlink, Linked
    <3> QED BY <3>1, <3>2, <3>3 DEF IInv, Calls, CallbackCalls, ThreadCalls
  <2> QED BY <2>1, <2>2
<1>18. ASSUME NEW t \in Threads, RemoveWalk(t) PROVE Calls'
  <2>1. CASE node[t] # End /\ d_next[node[t]] = arg[t]
    <3>1. /\ d_called' = d_called /\ ran' = ran
          /\ \A c \in Callbacks : life'[c] = "live" => life[c] = "live"
      BY <1>18, <2>1 DEF RemoveWalk, shared, IInv, TypeOK
    <3>2. \A u \in Threads :
            /\ pc'[u] \in {"stop_do", "stop_body", "ins_do", "ins_body", "ins_cas"} =>
                 pc'[u] = pc[u] /\ arg'[u] = arg[u]
            /\ pc[u] = "stop_do" => pc'[u] = pc[u] /\ arg'[u] = arg[u]
      BY <1>18, <2>1 DEF RemoveWalk, Goto, Return, IInv, TypeOK
    <3>3. \A c \in Callbacks : life'[c] = "live" /\ Linked(c) => Linked(c)'
      <4>1. life'[arg[t]] = "dtor"
        BY <1>18 DEF RemoveWalk, IInv, Ownership, InRemove
      <4>2. PICK k \in 1..(Len(nodes) - 1) :
              arg[t] = nodes[k + 1] /\ nodes' = Unlinked(nodes[k + 1])
        BY <1>18, <2>1, UnlinkLater
      <4>3. k + 1 \in 1..Len(nodes)
        BY DEF IInv, TypeOK
      <4>4. \A c \in Callbacks : Linked(c) /\ c # arg[t] => Linked(c)'
        BY <4>2, <4>3, UnlinkList DEF IInv
      <4> QED BY <4>1, <4>4
    <3> QED BY <3>1, <3>2, <3>3 DEF IInv, Calls, CallbackCalls, ThreadCalls
  <2>2. CASE ~(node[t] # End /\ d_next[node[t]] = arg[t])
    <3>1. /\ d_called' = d_called /\ ran' = ran
          /\ \A c \in Callbacks : life'[c] = "live" => life[c] = "live"
      BY <1>18, <2>2 DEF RemoveWalk, shared, IInv, TypeOK
    <3>2. \A u \in Threads :
            /\ pc'[u] \in {"stop_do", "stop_body", "ins_do", "ins_body", "ins_cas"} =>
                 pc'[u] = pc[u] /\ arg'[u] = arg[u]
            /\ pc[u] = "stop_do" => pc'[u] = pc[u] /\ arg'[u] = arg[u]
      BY <1>18, <2>2 DEF RemoveWalk, Goto, Return, IInv, TypeOK
    <3>3. \A c \in Callbacks : life'[c] = "live" /\ Linked(c) => Linked(c)'
      BY <1>18, <2>2 DEF RemoveWalk, Linked
    <3> QED BY <3>1, <3>2, <3>3 DEF IInv, Calls, CallbackCalls, ThreadCalls
  <2> QED BY <2>1, <2>2
<1>19. ASSUME NEW t \in Threads, RemoveStore(t) PROVE Calls'
    BY <1>19
       DEF RemoveStore, Calls, CallbackCalls, ThreadCalls, Ownership,
           InInsert, InRemove, Calling, IInv, TypeOK, Goto, Return, shared,
           Linked, LinkedNotDestroyed
<1>20. CASE UNCHANGED vars
    BY <1>20
       DEF vars, Calls, CallbackCalls, ThreadCalls, Ownership, InInsert,
           InRemove, Calling, IInv, TypeOK, Goto, Return, shared, Linked,
           LinkedNotDestroyed
<1> QED
    BY <1>1, <1>2, <1>3, <1>4, <1>5, <1>6, <1>7, <1>8, <1>9, <1>10, <1>11,
       <1>12, <1>13, <1>14, <1>15, <1>16, <1>17, <1>18, <1>19, <1>20 DEF
       Next, Continue

\* The links stay a list.
LEMMA ListStep == IInv /\ [Next]_vars => ListIntact'
<1> SUFFICES ASSUME IInv, [Next]_vars PROVE ListIntact'
    OBVIOUS
<1>1. ASSUME NEW t \in Threads, StopRequest(t) PROVE ListIntact'
    BY <1>1, PointersDiffer
       DEF StopRequest, ListIntact, At, IInv, TypeOK, MarkerExclusion, Holds,
           Holding, Goto, Return, shared
<1>2. ASSUME NEW t \in Threads, StopLoad(t) PROVE ListIntact'
    BY <1>2, PointersDiffer
       DEF StopLoad, ListIntact, At, IInv, TypeOK, MarkerExclusion, Holds,
           Holding, Goto, Return, shared
<1>3. ASSUME NEW t \in Threads, StopCas(t) PROVE ListIntact'
    BY <1>3, PointersDiffer
       DEF StopCas, ListIntact, At, IInv, TypeOK, MarkerExclusion, Holds,
           Holding, Goto, Return, shared
<1>4. ASSUME NEW t \in Threads, StopCall(t) PROVE ListIntact'
    BY SMTT(30), <1>4, PointersDiffer
       DEF StopCall, ListIntact, At, IInv, TypeOK, MarkerExclusion, Holds,
           Holding, Goto, Return, shared
<1>5. ASSUME NEW t \in Threads, StopEnd(t) PROVE ListIntact'
    BY <1>5, PointersDiffer
       DEF StopEnd, ListIntact, At, IInv, TypeOK, MarkerExclusion, Holds,
           Holding, Goto, Return, shared
<1>6. ASSUME NEW t \in Threads, DoCall(t) PROVE ListIntact'
    BY <1>6, PointersDiffer
       DEF DoCall, ListIntact, At, IInv, TypeOK, MarkerExclusion, Holds,
           Holding, Goto, Return, shared
<1>7. ASSUME NEW t \in Threads, StopBodyReturns(t) PROVE ListIntact'
    BY <1>7, PointersDiffer
       DEF StopBodyReturns, ListIntact, At, IInv, TypeOK, MarkerExclusion,
           Holds, Holding, Goto, Return, shared
<1>8. ASSUME NEW t \in Threads, StopBodyDestroysSelf(t) PROVE ListIntact'
    BY <1>8, PointersDiffer
       DEF StopBodyDestroysSelf, ListIntact, At, IInv, TypeOK,
           MarkerExclusion, Holds, Holding, Goto, Return, shared
<1>9. ASSUME NEW t \in Threads, InsertBodyReturns(t) PROVE ListIntact'
    BY <1>9, PointersDiffer
       DEF InsertBodyReturns, ListIntact, At, IInv, TypeOK, MarkerExclusion,
           Holds, Holding, Goto, Return, shared
<1>10. ASSUME NEW t \in Threads, NEW c \in Callbacks, InsertBegin(t, c)
      PROVE  ListIntact'
    BY <1>10, PointersDiffer
       DEF InsertBegin, ListIntact, At, IInv, TypeOK, MarkerExclusion, Holds,
           Holding, Goto, Return, shared
<1>11. ASSUME NEW t \in Threads, InsertCalls(t) PROVE ListIntact'
    BY <1>11, PointersDiffer
       DEF InsertCalls, ListIntact, At, IInv, TypeOK, MarkerExclusion, Holds,
           Holding, Goto, Return, shared
<1>12. ASSUME NEW t \in Threads, InsertCas(t) PROVE ListIntact'
  <2>1. CASE d_list = head[t]
    <3>1. /\ arg[t] \in Callbacks /\ Len(nodes) \in Nat
          /\ Len(nodes') = Len(nodes) + 1 /\ nodes'[1] = arg[t]
          /\ \A i \in 1..Len(nodes) : nodes'[i + 1] = nodes[i]
      BY <1>12, <2>1, InsertCasList
    <3>2. /\ d_list = At(1) /\ d_list' = arg[t] /\ d_next'[arg[t]] = d_list
          /\ \A c \in Callbacks : c # arg[t] => d_next'[c] = d_next[c]
      BY <1>12, <2>1, <3>1 DEF InsertCas, IInv, ListIntact, TypeOK
    <3>3. \A i \in 1..Len(nodes) : nodes[i] \in Callbacks /\ nodes[i] # arg[t]
      <4>1. ~Linked(arg[t])
        BY <1>12, <3>1
           DEF InsertCas, IInv, Ownership, InInsert, LinkedNotDestroyed
      <4> QED BY <4>1, ElementOfSeq DEF Linked, IInv, TypeOK
    <3>4. \A i \in 1..Len(nodes') : i = 1 \/ (i - 1 \in 1..Len(nodes) /\ nodes'[i] = nodes[i - 1])
      <4> TAKE i \in 1..Len(nodes')
      <4>1. CASE i # 1
        <5>1. i - 1 \in 1..Len(nodes) /\ (i - 1) + 1 = i
          BY <3>1, <4>1
        <5> QED BY <3>1, <5>1
      <4> QED BY <4>1
    <3>5. \A i, j \in 1..Len(nodes') : nodes'[i] = nodes'[j] => i = j
      <4> SUFFICES ASSUME NEW i \in 1..Len(nodes'), NEW j \in 1..Len(nodes'),
                          nodes'[i] = nodes'[j]
                   PROVE  i = j
          OBVIOUS
      <4>1. CASE i = 1 \/ j = 1
        BY <4>1, <3>1, <3>3, <3>4
      <4>2. CASE i # 1 /\ j # 1
        <5>1. i - 1 = j - 1
          BY <4>2, <3>4 DEF IInv, ListIntact
        <5> QED BY <5>1, <3>1
      <4> QED BY <4>1, <4>2
    <3>6. \A i \in 1..Len(nodes') : d_next'[nodes'[i]] = At(i + 1)'
      <4> TAKE i \in 1..Len(nodes')
      <4>1. CASE i = 1
        BY <4>1, <3>1, <3>2 DEF At
      <4>2. CASE i # 1
        <5>1. d_next'[nodes'[i]] = At(i)
          <6>1. d_next[nodes[i - 1]] = At((i - 1) + 1)
            BY <4>2, <3>4 DEF IInv, ListIntact
          <6>2. (i - 1) + 1 = i
            BY <3>1
          <6> QED BY <4>2, <3>2, <3>3, <3>4, <6>1, <6>2
        <5>2. At(i + 1)' = At(i)
          BY <4>2, <3>1 DEF At
        <5> QED BY <5>1, <5>2
      <4> QED BY <4>1, <4>2
    <3>7. \A u \in Threads : pc'[u] \notin Holding
      <4>1. d_list # Marker
        BY <1>12, <2>1 DEF InsertCas
      <4> QED BY <1>12, <2>1, <4>1 DEF InsertCas, Goto, Return, IInv, TypeOK,
              MarkerExclusion, Holds, Holding
    <3>8. At(1)' = arg[t] /\ arg[t] # Null
      BY <3>1, PointersDiffer DEF At
    <3> QED BY <3>2, <3>5, <3>6, <3>7, <3>8 DEF ListIntact, Holding
  <2>2. CASE d_list # head[t]
    <3>1. \A i \in 1..Len(nodes) : nodes[i] \in Callbacks /\ nodes[i] # arg[t]
      <4>1. arg[t] \in Callbacks /\ ~Linked(arg[t])
        BY <1>12 DEF InsertCas, IInv, Ownership, InInsert, LinkedNotDestroyed
      <4> QED BY <4>1, ElementOfSeq DEF Linked, IInv, TypeOK
    <3>2. \A i \in 1..Len(nodes) : d_next'[nodes[i]] = d_next[nodes[i]]
      BY <1>12, <2>2, <3>1 DEF InsertCas, IInv, TypeOK
    <3>3. /\ nodes' = nodes /\ d_list' = d_list /\ pc' = pc /\ node' = node
          /\ \A u \in Threads : u # t => head'[u] = head[u]
      BY <1>12, <2>2 DEF InsertCas, IInv, TypeOK
    <3>4. \A i : At(i)' = At(i)
      BY <3>3 DEF At
    <3>5. pc[t] = "ins_cas"
      BY <1>12 DEF InsertCas
    <3> QED BY <3>2, <3>3, <3>4, <3>5 DEF IInv, ListIntact
  <2> QED BY <2>1, <2>2
<1>13. ASSUME NEW t \in Threads, SpinOnMarker(t) PROVE ListIntact'
    BY <1>13
       DEF SpinOnMarker, vars, IInv, MarkerExclusion, Ownership, InInsert,
           InRemove, Calling, Request, InStop, LinkedNotDestroyed, Calls,
           CallbackCalls, ThreadCalls, Linked, ListIntact, At, Search
<1>14. ASSUME NEW t \in Threads, NEW c \in Callbacks, RemoveBegin(t, c)
      PROVE  ListIntact'
    BY <1>14, PointersDiffer
       DEF RemoveBegin, ListIntact, At, IInv, TypeOK, MarkerExclusion, Holds,
           Holding, Goto, Return, shared
<1>15. ASSUME NEW t \in Threads, RemoveLoad(t) PROVE ListIntact'
    BY <1>15, PointersDiffer
       DEF RemoveLoad, ListIntact, At, IInv, TypeOK, MarkerExclusion, Holds,
           Holding, Goto, Return, shared
<1>16. ASSUME NEW t \in Threads, RemoveCas(t) PROVE ListIntact'
  <2>1. CASE d_list = head[t]
    <3>1. head[t] = At(1)
      BY <1>16, <2>1 DEF RemoveCas, IInv, Request, ListIntact
    <3>2. \A i : At(i)' = At(i)
      BY <1>16 DEF RemoveCas, At
    <3>3. \A u \in Threads : u # t => ~Holds(u)
      BY <1>16, <2>1, PointersDiffer
         DEF RemoveCas, IInv, Request, MarkerExclusion
    <3>4. /\ pc'[t] = "rm_unlink" /\ head' = head
          /\ \A u \in Threads : u # t => pc'[u] = pc[u]
      BY <1>16, <2>1 DEF RemoveCas, Goto, IInv, TypeOK
    <3>5. /\ d_list' = Marker /\ nodes' = nodes /\ d_next' = d_next
      BY <1>16, <2>1 DEF RemoveCas
    <3> QED BY <3>1, <3>2, <3>3, <3>4, <3>5, PointersDiffer
            DEF IInv, ListIntact, Holds, Holding
  <2>2. CASE d_list # head[t]
    BY <1>16, <2>2 DEF RemoveCas, Goto, IInv, TypeOK, ListIntact, At
  <2> QED BY <2>1, <2>2
<1>17. ASSUME NEW t \in Threads, RemoveUnlink(t) PROVE ListIntact'
  <2>1. /\ d_list = Marker /\ d_list' = Marker /\ d_next' = d_next
        /\ \A u \in Threads : u # t => pc'[u] \notin Holding
    BY <1>17 DEF RemoveUnlink, Goto, shared, IInv, TypeOK, MarkerExclusion,
       Holds, Holding
  <2>2. CASE head[t] = arg[t]
    <3>1. 1 \in 1..Len(nodes) /\ arg[t] = nodes[1] /\ nodes' = Unlinked(nodes[1])
      BY <1>17, <2>2, UnlinkFirst
    <3>2. /\ Len(nodes) \in Nat \ {0} /\ Len(nodes') = Len(nodes) - 1
          /\ \A i \in 1..(Len(nodes) - 1) : nodes'[i] = nodes[i + 1]
      BY <3>1, UnlinkList DEF IInv
    <3>3. \A i \in 1..Len(nodes) : At(i)' = At(i + 1)
      BY <3>2 DEF At
    <3>4. \A i, j \in 1..Len(nodes') : nodes'[i] = nodes'[j] => i = j
      <4> SUFFICES ASSUME NEW i \in 1..Len(nodes'), NEW j \in 1..Len(nodes'),
                          nodes'[i] = nodes'[j]
                   PROVE  i = j
          OBVIOUS
      <4>1. i + 1 = j + 1
        BY <3>2 DEF IInv, ListIntact
      <4> QED BY <3>2, <4>1
    <3>5. \A i \in 1..Len(nodes') : d_next'[nodes'[i]] = At(i + 1)'
      <4> TAKE i \in 1..Len(nodes')
      <4>1. i + 1 \in 1..Len(nodes) /\ nodes'[i] = nodes[i + 1]
        BY <3>2
      <4>2. d_next[nodes[i + 1]] = At((i + 1) + 1)
        BY <4>1 DEF IInv, ListIntact
      <4> QED BY <2>1, <3>3, <4>1, <4>2
    <3>6. head'[t] = At(1)' /\ pc'[t] = "rm_store"
      <4>1. d_next[nodes[1]] = At(1 + 1)
        BY <3>1 DEF IInv, ListIntact
      <4> QED BY <1>17, <2>2, <3>1, <3>3, <4>1 DEF RemoveUnlink, Goto, IInv, TypeOK
    <3> QED BY <2>1, <3>4, <3>5, <3>6, PointersDiffer DEF ListIntact, Holding
  <2>3. CASE head[t] # arg[t]
    <3>1. /\ pc'[t] = "rm_walk" /\ head' = head /\ nodes' = nodes
      BY <1>17, <2>3 DEF RemoveUnlink, Goto, IInv, TypeOK
    <3>2. \A i : At(i)' = At(i)
      BY <3>1 DEF At
    <3>3. head[t] = At(1)
      BY <1>17 DEF RemoveUnlink, IInv, ListIntact
    <3> QED BY <2>1, <3>1, <3>2, <3>3, PointersDiffer DEF IInv, ListIntact, Holding
  <2> QED BY <2>2, <2>3
<1>18. ASSUME NEW t \in Threads, RemoveWalk(t) PROVE ListIntact'
  <2>1. /\ d_list = Marker /\ d_list' = Marker /\ head' = head
        /\ pc'[t] \in {"rm_walk", "rm_store"} /\ head[t] = At(1)
        /\ \A u \in Threads : u # t => pc'[u] \notin Holding
    BY <1>18
       DEF RemoveWalk, Goto, IInv, TypeOK, MarkerExclusion, Holds, Holding,
       ListIntact
  <2>2. CASE node[t] # End /\ d_next[node[t]] = arg[t]
    <3>1. PICK k \in 1..(Len(nodes) - 1) :
            /\ node[t] = nodes[k] /\ arg[t] = nodes[k + 1]
            /\ nodes' = Unlinked(nodes[k + 1])
      BY <1>18, <2>2, UnlinkLater
    <3>2. k \in Nat /\ k + 1 \in 1..Len(nodes) /\ k \in 1..Len(nodes)
      BY DEF IInv, TypeOK
    <3>3. /\ Len(nodes) \in Nat \ {0} /\ Len(nodes') = Len(nodes) - 1
          /\ \A i \in 1..(Len(nodes) - 1) :
               nodes'[i] = IF i < k + 1 THEN nodes[i] ELSE nodes[i + 1]
      BY <3>1, <3>2, UnlinkList DEF IInv
    <3>4. \A i \in 1..Len(nodes) : At(i)' = IF i < k + 1 THEN At(i) ELSE At(i + 1)
      BY <3>2, <3>3 DEF At
    <3>5. \A i, j \in 1..Len(nodes') : nodes'[i] = nodes'[j] => i = j
      <4> SUFFICES ASSUME NEW i \in 1..Len(nodes'), NEW j \in 1..Len(nodes'),
                          nodes'[i] = nodes'[j]
                   PROVE  i = j
          OBVIOUS
      <4> DEFINE p(n) == IF n < k + 1 THEN n ELSE n + 1
      <4>1. p(i) \in 1..Len(nodes) /\ p(j) \in 1..Len(nodes)
        BY <3>2, <3>3
      <4>2. nodes[p(i)] = nodes[p(j)]
        BY <3>2, <3>3
      <4>3. p(i) = p(j)
        BY <4>1, <4>2 DEF IInv, ListIntact
      <4> QED BY <4>3, <3>2, <3>3
    <3>6. /\ d_next'[nodes[k]] = d_next[nodes[k + 1]]
          /\ \A c \in Callbacks : c # nodes[k] => d_next'[c] = d_next[c]
      BY <1>18, <2>2, <3>1, <3>2, ElementOfSeq DEF RemoveWalk, IInv, TypeOK
    <3>7. \A i \in 1..Len(nodes') : d_next'[nodes'[i]] = At(i + 1)'
      <4> TAKE i \in 1..Len(nodes')
      <4>0. i \in Nat /\ i + 1 \in 1..Len(nodes) /\ i \in 1..Len(nodes)
        BY <3>3
      <4>1. CASE i < k
        <5>1. nodes'[i] = nodes[i] /\ At(i + 1)' = At(i + 1)
          BY <4>0, <4>1, <3>2, <3>3, <3>4
        <5>2. nodes[i] # nodes[k] /\ nodes[i] \in Callbacks
          BY <4>0, <4>1, <3>2, ElementOfSeq DEF IInv, ListIntact, TypeOK
        <5>3. d_next[nodes[i]] = At(i + 1)
          BY <4>0 DEF IInv, ListIntact
        <5> QED BY <5>1, <5>2, <5>3, <3>6
      <4>2. CASE i = k
        <5>1. nodes'[i] = nodes[k] /\ At(i + 1)' = At((k + 1) + 1)
          BY <4>0, <4>2, <3>2, <3>3, <3>4
        <5>2. d_next[nodes[k + 1]] = At((k + 1) + 1)
          BY <3>2 DEF IInv, ListIntact
        <5> QED BY <5>1, <5>2, <3>6
      <4>3. CASE i > k
        <5>1. nodes'[i] = nodes[i + 1] /\ At(i + 1)' = At((i + 1) + 1)
          BY <4>0, <4>3, <3>2, <3>3, <3>4
        <5>2. nodes[i + 1] # nodes[k] /\ nodes[i + 1] \in Callbacks
          <6>1. i + 1 # k
            BY <4>0, <4>3, <3>2
          <6> QED BY <6>1, <4>0, <3>2, ElementOfSeq DEF IInv, ListIntact, TypeOK
        <5>3. d_next[nodes[i + 1]] = At((i + 1) + 1)
          BY <4>0 DEF IInv, ListIntact
        <5> QED BY <5>1, <5>2, <5>3, <3>6
      <4> QED BY <4>0, <4>1, <4>2, <4>3, <3>2
    <3>8. At(1)' = At(1)
      BY <3>2, <3>3, <3>4
    <3> QED BY <2>1, <3>5, <3>7, <3>8, PointersDiffer DEF ListIntact, Holding
  <2>3. CASE ~(node[t] # End /\ d_next[node[t]] = arg[t])
    <3>1. nodes' = nodes /\ d_next' = d_next
      BY <1>18, <2>3 DEF RemoveWalk
    <3>2. \A i : At(i)' = At(i)
      BY <3>1 DEF At
    <3> QED BY <2>1, <3>1, <3>2, PointersDiffer DEF IInv, ListIntact, Holding
  <2> QED BY <2>2, <2>3
<1>19. ASSUME NEW t \in Threads, RemoveStore(t) PROVE ListIntact'
    BY <1>19, PointersDiffer
       DEF RemoveStore, ListIntact, At, IInv, TypeOK, MarkerExclusion, Holds,
           Holding, Goto, Return, shared
<1>20. CASE UNCHANGED vars
    BY <1>20, PointersDiffer
       DEF vars, ListIntact, At, IInv, TypeOK, MarkerExclusion, Holds,
           Holding, Goto, Return, shared
<1> QED
    BY <1>1, <1>2, <1>3, <1>4, <1>5, <1>6, <1>7, <1>8, <1>9, <1>10, <1>11,
       <1>12, <1>13, <1>14, <1>15, <1>16, <1>17, <1>18, <1>19, <1>20 DEF
       Next, Continue

\* The search of remove() stays on the list.
LEMMA SearchStep == IInv /\ [Next]_vars => Search'
<1> SUFFICES ASSUME IInv, [Next]_vars PROVE Search'
    OBVIOUS
<1>1. ASSUME NEW t \in Threads, StopRequest(t) PROVE Search'
    BY <1>1
       DEF StopRequest, Search, Linked, At, IInv, TypeOK, MarkerExclusion,
           Holds, Holding, Goto, Return, shared
<1>2. ASSUME NEW t \in Threads, StopLoad(t) PROVE Search'
    BY <1>2
       DEF StopLoad, Search, Linked, At, IInv, TypeOK, MarkerExclusion,
           Holds, Holding, Goto, Return, shared
<1>3. ASSUME NEW t \in Threads, StopCas(t) PROVE Search'
  <2>1. CASE d_list = head[t]
    <3>1. \A u \in Threads : pc'[u] \notin {"rm_walk", "rm_store"}
      <4>1. d_list # Marker
        BY <1>3, <2>1, PointersDiffer DEF StopCas, IInv, Request, InStop
      <4> QED BY <1>3, <2>1, <4>1 DEF StopCas, Goto, Return, IInv, TypeOK,
              MarkerExclusion, Holds, Holding
    <3> QED BY <3>1 DEF Search
  <2>2. CASE d_list # head[t]
    BY <1>3, <2>2 DEF StopCas, IInv, TypeOK, Search, Linked, At
  <2> QED BY <2>1, <2>2
<1>4. ASSUME NEW t \in Threads, StopCall(t) PROVE Search'
    BY <1>4
       DEF StopCall, Search, Linked, At, IInv, TypeOK, MarkerExclusion,
           Holds, Holding, Goto, Return, shared
<1>5. ASSUME NEW t \in Threads, StopEnd(t) PROVE Search'
    BY <1>5
       DEF StopEnd, Search, Linked, At, IInv, TypeOK, MarkerExclusion, Holds,
           Holding, Goto, Return, shared
<1>6. ASSUME NEW t \in Threads, DoCall(t) PROVE Search'
    BY <1>6
       DEF DoCall, Search, Linked, At, IInv, TypeOK, MarkerExclusion, Holds,
           Holding, Goto, Return, shared
<1>7. ASSUME NEW t \in Threads, StopBodyReturns(t) PROVE Search'
    BY <1>7
       DEF StopBodyReturns, Search, Linked, At, IInv, TypeOK,
           MarkerExclusion, Holds, Holding, Goto, Return, shared
<1>8. ASSUME NEW t \in Threads, StopBodyDestroysSelf(t) PROVE Search'
    BY <1>8
       DEF StopBodyDestroysSelf, Search, Linked, At, IInv, TypeOK,
           MarkerExclusion, Holds, Holding, Goto, Return, shared
<1>9. ASSUME NEW t \in Threads, InsertBodyReturns(t) PROVE Search'
    BY <1>9
       DEF InsertBodyReturns, Search, Linked, At, IInv, TypeOK,
           MarkerExclusion, Holds, Holding, Goto, Return, shared
<1>10. ASSUME NEW t \in Threads, NEW c \in Callbacks, InsertBegin(t, c)
      PROVE  Search'
    BY <1>10
       DEF InsertBegin, Search, Linked, At, IInv, TypeOK, MarkerExclusion,
           Holds, Holding, Goto, Return, shared
<1>11. ASSUME NEW t \in Threads, InsertCalls(t) PROVE Search'
    BY <1>11
       DEF InsertCalls, Search, Linked, At, IInv, TypeOK, MarkerExclusion,
           Holds, Holding, Goto, Return, shared
<1>12. ASSUME NEW t \in Threads, InsertCas(t) PROVE Search'
  <2>1. CASE d_list = head[t]
    <3>1. \A u \in Threads : pc'[u] \notin {"rm_walk", "rm_store"}
      <4>1. d_list # Marker
        BY <1>12, <2>1, PointersDiffer DEF InsertCas, IInv, Request, InStop
      <4> QED BY <1>12, <2>1, <4>1 DEF InsertCas, Goto, Return, IInv, TypeOK,
              MarkerExclusion, Holds, Holding
    <3> QED BY <3>1 DEF Search
  <2>2. CASE d_list # head[t]
    BY <1>12, <2>2 DEF InsertCas, IInv, TypeOK, Search, Linked, At
  <2> QED BY <2>1, <2>2
<1>13. ASSUME NEW t \in Threads, SpinOnMarker(t) PROVE Search'
    BY <1>13
       DEF SpinOnMarker, vars, IInv, MarkerExclusion, Ownership, InInsert,
           InRemove, Calling, Request, InStop, LinkedNotDestroyed, Calls,
           CallbackCalls, ThreadCalls, Linked, ListIntact, At, Search
<1>14. ASSUME NEW t \in Threads, NEW c \in Callbacks, RemoveBegin(t, c)
      PROVE  Search'
  <2>1. CASE d_called[c]
    <3>1. /\ nodes' = nodes
          /\ \A u \in Threads : pc'[u] \in {"rm_walk", "rm_store"} =>
               pc'[u] = pc[u] /\ node'[u] = node[u] /\ arg'[u] = arg[u]
      BY <1>14, <2>1 DEF RemoveBegin, Goto, Return, IInv, TypeOK
    <3> QED BY <3>1 DEF IInv, Search, Linked, At
  <2>2. CASE ~d_called[c]
    <3>1. /\ nodes' = nodes
          /\ \A u \in Threads : pc'[u] \in {"rm_walk", "rm_store"} =>
               pc'[u] = pc[u] /\ node'[u] = node[u] /\ arg'[u] = arg[u]
      BY <1>14, <2>2 DEF RemoveBegin, Goto, Return, IInv, TypeOK
    <3> QED BY <3>1 DEF IInv, Search, Linked, At
  <2> QED BY <2>1, <2>2
<1>15. ASSUME NEW t \in Threads, RemoveLoad(t) PROVE Search'
  <2>1. CASE d_list = Null
    <3>1. /\ nodes' = nodes
          /\ \A u \in Threads : pc'[u] \in {"rm_walk", "rm_store"} =>
               pc'[u] = pc[u] /\ node'[u] = node[u] /\ arg'[u] = arg[u]
      BY <1>15, <2>1 DEF RemoveLoad, Goto, Return, IInv, TypeOK
    <3> QED BY <3>1 DEF IInv, Search, Linked, At
  <2>2. CASE d_list # Null
    <3>1. /\ nodes' = nodes
          /\ \A u \in Threads : pc'[u] \in {"rm_walk", "rm_store"} =>
               pc'[u] = pc[u] /\ node'[u] = node[u] /\ arg'[u] = arg[u]
      BY <1>15, <2>2 DEF RemoveLoad, Goto, Return, IInv, TypeOK
    <3> QED BY <3>1 DEF IInv, Search, Linked, At
  <2> QED BY <2>1, <2>2
<1>16. ASSUME NEW t \in Threads, RemoveCas(t) PROVE Search'
    BY <1>16
       DEF RemoveCas, Search, Linked, At, IInv, TypeOK, MarkerExclusion,
           Holds, Holding, Goto, Return, shared
<1>17. ASSUME NEW t \in Threads, RemoveUnlink(t) PROVE Search'
  <2>1. \A u \in Threads : u # t => pc'[u] \notin {"rm_walk", "rm_store"}
    BY <1>17
       DEF RemoveUnlink, Goto, IInv, TypeOK, MarkerExclusion, Holds, Holding
  <2>2. CASE head[t] = arg[t]
    <3>1. pc'[t] = "rm_store" /\ arg'[t] = arg[t] /\ arg[t] \in Callbacks
      BY <1>17, <2>2 DEF RemoveUnlink, Goto, IInv, TypeOK, Ownership, InRemove
    <3>2. ~Linked(arg[t])'
      BY <1>17, <2>2, <3>1, UnlinkFirst, UnlinkList DEF IInv
    <3> QED BY <2>1, <3>1, <3>2 DEF Search
  <2>3. CASE head[t] # arg[t]
    <3>1. /\ pc'[t] = "rm_walk" /\ node'[t] = head[t] /\ arg' = arg
          /\ nodes' = nodes /\ head[t] = At(1) /\ Len(nodes) \in Nat
      BY <1>17, <2>3 DEF RemoveUnlink, Goto, IInv, TypeOK, ListIntact
    <3>2. \A i \in 1..Len(nodes) : i <= 1 => nodes[i] # arg[t]
      BY <2>3, <3>1 DEF At
    <3>3. 1 \in 1..(Len(nodes) + 1) /\ node'[t] = At(1)'
      BY <3>1 DEF At
    <3> QED BY <2>1, <3>1, <3>2, <3>3 DEF Search
  <2> QED BY <2>2, <2>3
<1>18. ASSUME NEW t \in Threads, RemoveWalk(t) PROVE Search'
  <2>1. \A u \in Threads : u # t => pc'[u] \notin {"rm_walk", "rm_store"}
    BY <1>18
       DEF RemoveWalk, Goto, IInv, TypeOK, MarkerExclusion, Holds, Holding
  <2>2. arg' = arg /\ arg[t] \in Callbacks /\ Len(nodes) \in Nat
    BY <1>18 DEF RemoveWalk, IInv, TypeOK, Ownership, InRemove
  <2>3. PICK k \in 1..(Len(nodes) + 1) :
          /\ node[t] = At(k)
          /\ \A i \in 1..Len(nodes) : i <= k => nodes[i] # arg[t]
    BY <1>18 DEF RemoveWalk, IInv, Search
  <2>4. CASE node[t] = End
    <3>1. k = Len(nodes) + 1
      BY <2>2, <2>3, <2>4, ElementOfSeq, PointersDiffer DEF At, IInv, TypeOK
    <3>2. pc'[t] = "rm_store" /\ nodes' = nodes
      BY <1>18, <2>4 DEF RemoveWalk, Goto, IInv, TypeOK
    <3>3. ~Linked(arg[t])'
      BY <2>2, <2>3, <3>1, <3>2 DEF Linked
    <3> QED BY <2>1, <2>2, <3>2, <3>3 DEF Search
  <2>5. CASE node[t] # End /\ d_next[node[t]] = arg[t]
    <3>1. pc'[t] = "rm_store"
      BY <1>18, <2>5 DEF RemoveWalk, Goto, IInv, TypeOK
    <3>2. PICK n \in 1..(Len(nodes) - 1) :
            arg[t] = nodes[n + 1] /\ nodes' = Unlinked(nodes[n + 1])
      BY <1>18, <2>5, UnlinkLater
    <3>3. n + 1 \in 1..Len(nodes)
      BY <2>2
    <3>4. ~Linked(arg[t])'
      BY <2>2, <3>2, <3>3, UnlinkList DEF IInv
    <3> QED BY <2>1, <2>2, <3>1, <3>4 DEF Search
  <2>6. CASE node[t] # End /\ d_next[node[t]] # arg[t]
    <3>1. pc'[t] = "rm_walk" /\ nodes' = nodes /\ node'[t] = d_next[node[t]]
      BY <1>18, <2>6 DEF RemoveWalk, IInv, TypeOK
    <3>2. k \in 1..Len(nodes) /\ node[t] = nodes[k]
      BY <2>2, <2>3, <2>6 DEF At
    <3>3. node'[t] = At(k + 1) /\ k + 1 \in 1..(Len(nodes) + 1)
      BY <2>2, <3>1, <3>2 DEF IInv, ListIntact
    <3>4. \A i \in 1..Len(nodes) : i <= k + 1 => nodes[i] # arg[t]
      <4> SUFFICES ASSUME NEW i \in 1..Len(nodes), i <= k + 1
      PROVE  nodes[i] # arg[t]
          OBVIOUS
      <4>1. CASE i <= k
        BY <2>3, <4>1
      <4>2. CASE i = k + 1
        BY <2>6, <3>1, <3>3, <4>2 DEF At
      <4> QED BY <4>1, <4>2, <2>2, <3>2
    <3>5. At(k + 1)' = At(k + 1)
      BY <3>1 DEF At
    <3> QED BY <2>1, <2>2, <3>1, <3>3, <3>4, <3>5 DEF Search
  <2> QED BY <2>4, <2>5, <2>6
<1>19. ASSUME NEW t \in Threads, RemoveStore(t) PROVE Search'
    BY <1>19
       DEF RemoveStore, Search, Linked, At, IInv, TypeOK, MarkerExclusion,
           Holds, Holding, Goto, Return, shared
<1>20. CASE UNCHANGED vars
    BY <1>20
       DEF vars, Search, Linked, At, IInv, TypeOK, MarkerExclusion, Holds,
           Holding, Goto, Return, shared
<1> QED
    BY <1>1, <1>2, <1>3, <1>4, <1>5, <1>6, <1>7, <1>8, <1>9, <1>10, <1>11,
       <1>12, <1>13, <1>14, <1>15, <1>16, <1>17, <1>18, <1>19, <1>20 DEF
       Next, Continue

-----------------------------------------------------------------------------
(* The invariant and what follows from it.                                 *)

\* A source without callbacks satisfies the invariant.
LEMMA InitInvariant == Init => IInv
<1> SUFFICES ASSUME Init PROVE IInv
    OBVIOUS
<1> USE DEF Init
<1>1. TypeOK
  <2>1. nodes \in Seq(Callbacks)
    BY EmptySeq
  <2> QED BY <2>1 DEF TypeOK, PC, Pointer
<1>2. MarkerExclusion
    BY PointersDiffer DEF MarkerExclusion, Holds, Holding
<1>3. ListIntact
    BY DEF ListIntact, At
<1>4. LinkedNotDestroyed /\ Search
    BY DEF LinkedNotDestroyed, Linked, Search
<1>5. Ownership
    BY DEF Ownership, InInsert, InRemove, Calling
<1>6. Request
    BY PointersDiffer DEF Request, InStop
<1>7. Calls
    BY DEF Calls, CallbackCalls, ThreadCalls
<1> QED BY <1>1, <1>2, <1>3, <1>4, <1>5, <1>6, <1>7 DEF IInv

\* Every reachable state satisfies the inductive invariant.
THEOREM Invariant == Spec => []IInv
<1>1. IInv /\ [Next]_vars => IInv'
    BY TypeStep, MarkerStep, ListStep, LinkedStep, OwnershipStep, RequestStep,
       SearchStep, CallsStep DEF IInv
<1> QED BY InitInvariant, <1>1, PTL DEF Spec

\* The values of all variables stay within their types.
THEOREM TypeCorrect == Spec => []TypeOK
<1>1. IInv => TypeOK
    BY DEF IInv
<1> QED BY Invariant, <1>1, PTL

\* The marker is a lock: at most one stop() or remove() works on the list.
THEOREM MutualExclusion == Spec => []MarkerExclusion
<1>1. IInv => MarkerExclusion
    BY DEF IInv
<1> QED BY Invariant, <1>1, PTL

\* The links always form a list of exactly the registered callbacks, none of
\* which was destroyed or called.
THEOREM ListSafety == Spec => [](ListIntact /\ LinkedNotDestroyed)
<1>1. IInv => ListIntact /\ LinkedNotDestroyed
    BY DEF IInv
<1> QED BY Invariant, <1>1, PTL

\* No registration is called twice.
THEOREM AtMostOnce == Spec => []RunOnce
<1>1. IInv => RunOnce
    BY DEF IInv, Calls, CallbackCalls, RunOnce
<1> QED BY Invariant, <1>1, PTL

\* After stop() closed the list no registered callback is left uncalled.
THEOREM NoneMissed == Spec => []NoMissedCallback
<1>1. IInv => NoMissedCallback
  <2> SUFFICES ASSUME IInv, d_list = Null, NEW c \in Callbacks, life[c] = "live"
               PROVE  ran[c] = 1
      BY DEF NoMissedCallback
  <2>1. ~Linked(c)
      BY DEF IInv, ListIntact, Linked
  <2>2. \A t \in Threads : pc[t] # "stop_do"
      BY PointersDiffer DEF IInv, MarkerExclusion, Holds, Holding
  <2> QED BY <2>1, <2>2 DEF IInv, Calls, CallbackCalls
<1> QED BY Invariant, <1>1, PTL

\* A closed list is never opened again.
THEOREM StaysClosed == Spec => ClosedForGood
<1>1. IInv /\ [Next]_vars => [d_list = Null => d_list' = Null]_vars
  <2> SUFFICES ASSUME IInv, Next, d_list = Null PROVE d_list' = Null
      OBVIOUS
  <2>1. \A t \in Threads : ~Holds(t)
      BY PointersDiffer DEF IInv, MarkerExclusion
  <2>2. PICK t \in Threads :
          \/ StopRequest(t)
          \/ \E c \in Callbacks : InsertBegin(t, c) \/ RemoveBegin(t, c)
          \/ Continue(t)
      BY DEF Next
  <2>3. CASE StopRequest(t) \/ \E c \in Callbacks : InsertBegin(t, c) \/ RemoveBegin(t, c)
      BY <2>3 DEF StopRequest, InsertBegin, RemoveBegin, shared
  <2>4. CASE StopLoad(t) \/ StopCas(t) \/ StopCall(t) \/ StopEnd(t)
      BY <2>4, <2>1 DEF StopLoad, StopCas, StopCall, StopEnd, shared
  <2>5. CASE \/ DoCall(t) \/ StopBodyReturns(t) \/ StopBodyDestroysSelf(t)
             \/ InsertBodyReturns(t) \/ InsertCalls(t) \/ SpinOnMarker(t)
      BY <2>5 DEF DoCall, StopBodyReturns, StopBodyDestroysSelf,
         InsertBodyReturns, InsertCalls, SpinOnMarker, shared, vars
  <2>6. CASE InsertCas(t)
      BY <2>6 DEF InsertCas
  <2>7. CASE RemoveLoad(t) \/ RemoveUnlink(t) \/ RemoveWalk(t)
      BY <2>7 DEF RemoveLoad, RemoveUnlink, RemoveWalk, shared
  <2>8. CASE RemoveCas(t)
      BY <2>8 DEF RemoveCas, IInv, Request
  <2>9. CASE RemoveStore(t)
      BY <2>9, <2>1 DEF RemoveStore, Holds, Holding
  <2> QED BY <2>2, <2>3, <2>4, <2>5, <2>6, <2>7, <2>8, <2>9 DEF Continue
<1> QED BY Invariant, <1>1, PTL DEF Spec, ClosedForGood

-----------------------------------------------------------------------------
(* Refinement: each step is a step of StopSource or changes nothing there. *)

\* What each step means for the abstract stop source.
LEMMA PromiseStep ==
    IInv /\ [Next]_vars => [Promise!Next]_(Promise!vars)
<1> SUFFICES ASSUME IInv, [Next]_vars PROVE [Promise!Next]_(Promise!vars)
    OBVIOUS
<1>1. ASSUME NEW t \in Threads, StopRequest(t) PROVE [Promise!Next]_(Promise!vars)
  <2>1. PhaseOf' = PhaseOf
    BY <1>1 DEF StopRequest, PhaseOf, Linked
  <2> QED BY <1>1, <2>1 DEF StopRequest, Promise!Next, Promise!Request
<1>2. ASSUME NEW t \in Threads, StopLoad(t) PROVE [Promise!Next]_(Promise!vars)
    BY <1>2 DEF StopLoad, PhaseOf, Linked, Promise!vars, shared, IInv, TypeOK
<1>3. ASSUME NEW t \in Threads, StopCas(t) PROVE [Promise!Next]_(Promise!vars)
  <2>1. PhaseOf' = PhaseOf
    BY <1>3 DEF StopCas, PhaseOf, Linked
  <2>2. d_stop_requested' = d_stop_requested /\ ((d_list = Null)' <=> (d_list = Null))
    BY <1>3, PointersDiffer DEF StopCas
  <2> QED BY <2>1, <2>2 DEF Promise!vars
<1>4. ASSUME NEW t \in Threads, StopCall(t) PROVE [Promise!Next]_(Promise!vars)
  <2>1. node[t] \in Callbacks /\ Linked(node[t])
    <3>1. node[t] \in Callbacks
      BY <1>4 DEF StopCall
    <3>2. Linked(node[t])
      BY <1>4, StopCallList DEF Linked
    <3> QED BY <3>1, <3>2
  <2>2. /\ \A c \in Callbacks : Linked(c)' <=> (Linked(c) /\ c # node[t])
        /\ ~d_called[node[t]] /\ life[node[t]] # "raw"
    BY <1>4, <2>1, StopCallList DEF IInv, LinkedNotDestroyed
  <2>8. PhaseOf' = [PhaseOf EXCEPT ![node[t]] = "invoked"]
    <3> SUFFICES ASSUME NEW d \in Callbacks
                
      PROVE   PhaseOf'[d] = IF d = node[t] THEN "invoked" ELSE PhaseOf[d]
        BY <2>1 DEF PhaseOf
    <3> QED BY <1>4, <2>1, <2>2 DEF StopCall, PhaseOf, IInv, TypeOK, shared
  <2>9. PhaseOf[node[t]] # "invoked" /\ d_stop_requested
    BY <1>4, <2>1, <2>2 DEF StopCall, PhaseOf, IInv, Request, InStop
  <2> QED BY <1>4, <2>1, <2>8, <2>9 DEF StopCall, Promise!Next, Promise!Invoke
<1>5. ASSUME NEW t \in Threads, StopEnd(t) PROVE [Promise!Next]_(Promise!vars)
  <2>1. PhaseOf' = PhaseOf
    BY <1>5 DEF StopEnd, PhaseOf, Linked
  <2>2. \A c \in Callbacks : PhaseOf[c] \notin {"registered", "again"}
    <3>1. End \notin Callbacks /\ At(1) = End
      BY <1>5, PointersDiffer DEF StopEnd, IInv, ListIntact
    <3>2. Len(nodes) \in Nat /\ (Len(nodes) > 0 => nodes[1] \in Callbacks)
      BY ElementOfSeq DEF IInv, TypeOK
    <3>3. \A c \in Callbacks : ~Linked(c)
      BY <3>1, <3>2 DEF At, Linked
    <3> QED BY <3>3 DEF PhaseOf
  <2>3. d_stop_requested
    BY <1>5 DEF StopEnd, IInv, Request, InStop
  <2> QED BY <1>5, <2>1, <2>2, <2>3 DEF StopEnd, Promise!Next, Promise!Complete
<1>6. ASSUME NEW t \in Threads, DoCall(t) PROVE [Promise!Next]_(Promise!vars)
    BY <1>6 DEF DoCall, PhaseOf, Linked, Promise!vars, shared, IInv, TypeOK
<1>7. ASSUME NEW t \in Threads, StopBodyReturns(t) PROVE [Promise!Next]_(Promise!vars)
    BY <1>7
       DEF StopBodyReturns, PhaseOf, Linked, Promise!vars, shared, IInv,
           TypeOK
<1>8. ASSUME NEW t \in Threads, StopBodyDestroysSelf(t) PROVE [Promise!Next]_(Promise!vars)
  <2>1. arg[t] \in Callbacks
    BY <1>8 DEF StopBodyDestroysSelf, IInv, Ownership, Calling
  <2>2. \A c \in Callbacks : Linked(c)' <=> Linked(c)
    BY <1>8 DEF StopBodyDestroysSelf, Linked
  <2>8. PhaseOf' = [PhaseOf EXCEPT ![arg[t]] = "none"]
    <3> SUFFICES ASSUME NEW d \in Callbacks
                
      PROVE   PhaseOf'[d] = IF d = arg[t] THEN "none" ELSE PhaseOf[d]
        BY <2>1 DEF PhaseOf
    <3> QED BY <1>8, <2>1, <2>2 DEF StopBodyDestroysSelf, PhaseOf, IInv, TypeOK, shared
  <2> QED BY <1>8, <2>1, <2>8
          DEF StopBodyDestroysSelf, shared, Promise!Next, Promise!Drop
<1>9. ASSUME NEW t \in Threads, InsertBodyReturns(t) PROVE [Promise!Next]_(Promise!vars)
  <2>1. PhaseOf' = PhaseOf
    <3>1. arg[t] \in Callbacks /\ life[arg[t]] = "ctor"
      BY <1>9 DEF InsertBodyReturns, IInv, Ownership, InInsert
    <3>2. \A c \in Callbacks : Linked(c)' <=> Linked(c)
      BY <1>9 DEF InsertBodyReturns, Linked
    <3> QED BY <1>9, <3>1, <3>2 DEF InsertBodyReturns, PhaseOf, IInv, TypeOK, shared
  <2> QED BY <1>9, <2>1 DEF InsertBodyReturns, Promise!vars, shared
<1>10. ASSUME NEW t \in Threads, NEW c \in Callbacks, InsertBegin(t, c)
      PROVE  [Promise!Next]_(Promise!vars)
  <2>1. PhaseOf' = PhaseOf
    <3>1. ~Linked(c)
      BY <1>10 DEF InsertBegin, IInv, LinkedNotDestroyed
    <3>2. \A d \in Callbacks : Linked(d)' <=> Linked(d)
      BY <1>10 DEF InsertBegin, Linked
    <3> QED BY <1>10, <3>1, <3>2 DEF InsertBegin, PhaseOf, IInv, TypeOK
  <2> QED BY <1>10, <2>1 DEF InsertBegin, Promise!vars
<1>11. ASSUME NEW t \in Threads, InsertCalls(t) PROVE [Promise!Next]_(Promise!vars)
  <2>1. arg[t] \in Callbacks /\ life[arg[t]] = "ctor" /\ ~d_called[arg[t]]
    BY <1>11 DEF InsertCalls, IInv, Ownership, InInsert, Calls, ThreadCalls
  <2>2. \A c \in Callbacks : Linked(c)' <=> Linked(c)
    BY <1>11 DEF InsertCalls, Linked
  <2>8. PhaseOf' = [PhaseOf EXCEPT ![arg[t]] = "invoked"]
    <3> SUFFICES ASSUME NEW d \in Callbacks
                
      PROVE   PhaseOf'[d] = IF d = arg[t] THEN "invoked" ELSE PhaseOf[d]
        BY <2>1 DEF PhaseOf
    <3> QED BY <1>11, <2>1, <2>2 DEF InsertCalls, PhaseOf, IInv, TypeOK, shared
  <2>9. PhaseOf[arg[t]] # "invoked" /\ d_stop_requested
    BY <1>11, <2>1 DEF InsertCalls, PhaseOf, IInv, Request
  <2> QED BY <1>11, <2>1, <2>8, <2>9 DEF InsertCalls, Promise!Next, Promise!Invoke
<1>12. ASSUME NEW t \in Threads, InsertCas(t) PROVE [Promise!Next]_(Promise!vars)
  <2>1. CASE d_list = head[t]
    <3>1. /\ arg[t] \in Callbacks /\ life[arg[t]] = "ctor"
          /\ ~d_called[arg[t]] /\ ~Linked(arg[t])
      BY <1>12 DEF InsertCas, IInv, Ownership, InInsert, Calls, ThreadCalls,
         LinkedNotDestroyed
    <3>2. \A c \in Callbacks : Linked(c)' <=> (Linked(c) \/ c = arg[t])
      BY <1>12, <2>1, InsertCasList
    <3>8. PhaseOf' = [PhaseOf EXCEPT ![arg[t]] = "registered"]
      <4> SUFFICES ASSUME NEW d \in Callbacks
                  
      PROVE   PhaseOf'[d] = IF d = arg[t] THEN "registered" ELSE PhaseOf[d]
          BY <3>1 DEF PhaseOf
      <4> QED BY <1>12, <2>1, <3>1, <3>2 DEF InsertCas, PhaseOf, IInv, TypeOK, shared
    <3>9. PhaseOf[arg[t]] = "none" /\ d_list # Null /\ d_list' # Null
      BY <1>12, <2>1, <3>1, PointersDiffer DEF InsertCas, PhaseOf
    <3> QED BY <1>12, <3>1, <3>8, <3>9 DEF InsertCas, Promise!Next, Promise!Register
  <2>2. CASE d_list # head[t]
    BY <1>12, <2>2 DEF InsertCas, PhaseOf, Linked, Promise!vars
  <2> QED BY <2>1, <2>2
<1>13. ASSUME NEW t \in Threads, SpinOnMarker(t) PROVE [Promise!Next]_(Promise!vars)
    BY <1>13 DEF SpinOnMarker, vars, PhaseOf, Linked, Promise!vars
<1>14. ASSUME NEW t \in Threads, NEW c \in Callbacks, RemoveBegin(t, c)
      PROVE  [Promise!Next]_(Promise!vars)
  <2>1. CASE d_called[c]
    <3>1. c \in Callbacks
      OBVIOUS
    <3>2. \A d \in Callbacks : Linked(d)' <=> Linked(d)
      BY <1>14 DEF RemoveBegin, Linked
    <3>8. PhaseOf' = [PhaseOf EXCEPT ![c] = "none"]
      <4> SUFFICES ASSUME NEW d \in Callbacks
                   PROVE  PhaseOf'[d] = IF d = c THEN "none" ELSE PhaseOf[d]
          BY <3>1 DEF PhaseOf
      <4> QED BY <1>14, <2>1, <3>1, <3>2 DEF RemoveBegin, PhaseOf, IInv, TypeOK, shared
    <3> QED BY <1>14, <3>8 DEF RemoveBegin, shared, Promise!Next, Promise!Drop
  <2>2. CASE ~d_called[c]
    <3>1. \A d \in Callbacks : Linked(d)' <=> Linked(d)
      BY <1>14 DEF RemoveBegin, Linked
    <3>2. PhaseOf' = PhaseOf
      BY <1>14, <2>2, <3>1 DEF RemoveBegin, PhaseOf, IInv, TypeOK, shared
    <3> QED BY <1>14, <3>2 DEF RemoveBegin, shared, Promise!vars
  <2> QED BY <2>1, <2>2
<1>15. ASSUME NEW t \in Threads, RemoveLoad(t) PROVE [Promise!Next]_(Promise!vars)
  <2>1. CASE d_list = Null
    <3>1. arg[t] \in Callbacks
      BY <1>15 DEF RemoveLoad, IInv, Ownership, InRemove
    <3>2. \A c \in Callbacks : Linked(c)' <=> Linked(c)
      BY <1>15 DEF RemoveLoad, Linked
    <3>8. PhaseOf' = [PhaseOf EXCEPT ![arg[t]] = "none"]
      <4> SUFFICES ASSUME NEW d \in Callbacks
                  
      PROVE   PhaseOf'[d] = IF d = arg[t] THEN "none" ELSE PhaseOf[d]
          BY <3>1 DEF PhaseOf
      <4> QED BY <1>15, <2>1, <3>1, <3>2 DEF RemoveLoad, PhaseOf, IInv, TypeOK, shared
    <3> QED BY <1>15, <3>1, <3>8 DEF RemoveLoad, shared, Promise!Next, Promise!Drop
  <2>2. CASE d_list # Null
    BY <1>15, <2>2 DEF RemoveLoad, PhaseOf, Linked, Promise!vars, shared
  <2> QED BY <2>1, <2>2
<1>16. ASSUME NEW t \in Threads, RemoveCas(t) PROVE [Promise!Next]_(Promise!vars)
  <2>1. PhaseOf' = PhaseOf
    BY <1>16 DEF RemoveCas, PhaseOf, Linked
  <2>2. d_stop_requested' = d_stop_requested /\ ((d_list = Null)' <=> (d_list = Null))
    BY <1>16, PointersDiffer DEF RemoveCas, IInv, Request
  <2> QED BY <2>1, <2>2 DEF Promise!vars
<1>17. ASSUME NEW t \in Threads, RemoveUnlink(t) PROVE [Promise!Next]_(Promise!vars)
  <2>1. CASE head[t] = arg[t]
    <3>1. arg[t] \in Callbacks /\ Linked(arg[t]) /\ ~d_called[arg[t]]
      <4>1. arg[t] \in Callbacks /\ Linked(arg[t])
        BY <1>17, <2>1, UnlinkFirst
           DEF Linked, RemoveUnlink, IInv, Ownership, InRemove
      <4> QED BY <4>1 DEF IInv, LinkedNotDestroyed
    <3>2. \A d \in Callbacks : Linked(d)' <=> (Linked(d) /\ d # arg[t])
      BY <1>17, <2>1, UnlinkFirst, UnlinkList DEF IInv
    <3>8. PhaseOf' = [PhaseOf EXCEPT ![arg[t]] = "none"]
      <4> SUFFICES ASSUME NEW d \in Callbacks
                  
      PROVE   PhaseOf'[d] = IF d = arg[t] THEN "none" ELSE PhaseOf[d]
          BY <3>1 DEF PhaseOf
      <4> QED BY <1>17, <2>1, <3>1, <3>2 DEF RemoveUnlink, PhaseOf, IInv, TypeOK, shared
    <3> QED BY <1>17, <3>1, <3>8 DEF RemoveUnlink, shared, Promise!Next, Promise!Drop
  <2>2. CASE head[t] # arg[t]
    BY <1>17, <2>2 DEF RemoveUnlink, PhaseOf, Linked, Promise!vars, shared
  <2> QED BY <2>1, <2>2
<1>18. ASSUME NEW t \in Threads, RemoveWalk(t) PROVE [Promise!Next]_(Promise!vars)
  <2>1. CASE node[t] # End /\ d_next[node[t]] = arg[t]
    <3>0. PICK k \in 1..(Len(nodes) - 1) :
            arg[t] = nodes[k + 1] /\ nodes' = Unlinked(nodes[k + 1])
      BY <1>18, <2>1, UnlinkLater
    <3>a. k + 1 \in 1..Len(nodes)
      BY DEF IInv, TypeOK
    <3>1. arg[t] \in Callbacks /\ Linked(arg[t]) /\ ~d_called[arg[t]]
      <4>1. arg[t] \in Callbacks /\ Linked(arg[t])
        BY <1>18, <3>0, <3>a DEF Linked, RemoveWalk, IInv, Ownership, InRemove
      <4> QED BY <4>1 DEF IInv, LinkedNotDestroyed
    <3>2. \A d \in Callbacks : Linked(d)' <=> (Linked(d) /\ d # arg[t])
      BY <3>0, <3>a, UnlinkList DEF IInv
    <3>8. PhaseOf' = [PhaseOf EXCEPT ![arg[t]] = "none"]
      <4> SUFFICES ASSUME NEW d \in Callbacks
                  
      PROVE   PhaseOf'[d] = IF d = arg[t] THEN "none" ELSE PhaseOf[d]
          BY <3>1 DEF PhaseOf
      <4> QED BY <1>18, <2>1, <3>1, <3>2 DEF RemoveWalk, PhaseOf, IInv, TypeOK, shared
    <3> QED BY <1>18, <3>1, <3>8 DEF RemoveWalk, Promise!Next, Promise!Drop
  <2>2. CASE ~(node[t] # End /\ d_next[node[t]] = arg[t])
    BY <1>18, <2>2 DEF RemoveWalk, PhaseOf, Linked, Promise!vars
  <2> QED BY <2>1, <2>2
<1>19. ASSUME NEW t \in Threads, RemoveStore(t) PROVE [Promise!Next]_(Promise!vars)
  <2>1. arg[t] \in Callbacks
    BY <1>19 DEF RemoveStore, IInv, Ownership, InRemove
  <2>2. \A c \in Callbacks : Linked(c)' <=> Linked(c)
    BY <1>19 DEF RemoveStore, Linked
  <2>8. PhaseOf' = [PhaseOf EXCEPT ![arg[t]] = "none"]
    <3> SUFFICES ASSUME NEW d \in Callbacks
                
      PROVE   PhaseOf'[d] = IF d = arg[t] THEN "none" ELSE PhaseOf[d]
        BY <2>1 DEF PhaseOf
    <3> QED BY <1>19, <2>1, <2>2 DEF RemoveStore, PhaseOf, IInv, TypeOK, shared
  <2>9. d_list # Null /\ d_list' # Null
    BY <1>19, AtType, PointersDiffer
       DEF RemoveStore, IInv, MarkerExclusion, Holds, Holding, ListIntact
  <2> QED BY <1>19, <2>1, <2>8, <2>9 DEF RemoveStore, Promise!Next, Promise!Drop
<1>20. CASE UNCHANGED vars
    BY <1>20 DEF vars, PhaseOf, Linked, Promise!vars
<1> QED
    BY <1>1, <1>2, <1>3, <1>4, <1>5, <1>6, <1>7, <1>8, <1>9, <1>10, <1>11,
       <1>12, <1>13, <1>14, <1>15, <1>16, <1>17, <1>18, <1>19, <1>20 DEF
       Next, Continue

\* The source implements the abstract stop source.
THEOREM Refinement == Spec => KeepsPromise
<1>1. Init => Promise!Init
    BY PointersDiffer DEF Init, Promise!Init, PhaseOf
<1> QED BY <1>1, Invariant, PromiseStep, PTL DEF Spec, KeepsPromise, Promise!Spec

=============================================================================
