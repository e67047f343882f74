---------------------- MODULE RepeatEffectUntil_proofs ----------------------
(***************************************************************************)
(* Proofs about RepeatEffectUntil, for every set of threads and every      *)
(* number of rounds.                                                       *)
(***************************************************************************)
EXTENDS RepeatEffectUntil, SequenceTheorems, TLAPS

Labels == {"starting", "enter", "note", "loop", "body", "unlock"}
Frame == [at : Labels, round : 0..MaxRounds]

\* The frames of the loop in next().
Looping == {"loop", "body", "unlock"}

\* A start() is called by the loop, or by the start() of the whole operation,
\* which is the outermost frame; next() is called by a start() or from outside,
\* and only the innermost next() does anything.
Nested(s) ==
    /\ \A i \in 2..Len(s) : s[i].at \in {"starting", "loop"}
    /\ \A i \in 2..Len(s) : s[i].at = "loop" => s[i - 1].at = "starting"
    /\ \A i \in 1..(Len(s) - 1) : s[i].at = "starting" => s[i + 1].at = "loop"

\* Frame i of the stack s is the loop.
LoopAt(s, i) == i \in 1..Len(s) /\ s[i].at \in Looping

Shape == \A t \in Threads : Nested(stack[t])

\* There is one loop at most, and d_running says whether there is one.
OneLoop ==
    /\ \A t, u \in Threads : \A i, j \in Nat :
         LoopAt(stack[t], i) /\ LoopAt(stack[u], j) => t = u /\ i = j
    /\ \A t \in Threads : \A i \in Nat : LoopAt(stack[t], i) => d_running

\* A next() that has not found out yet whether the loop is running or has not
\* left its note.
Entering(t) == Top(t, "enter") \/ Top(t, "note")

\* The turn to go on is with the inner operation while it runs, with the
\* next() it calls, in d_ready, with the body of the loop, or spent when the
\* receiver is completed: never in two of these places.
Turn ==
    /\ \A t, u \in Threads : Entering(t) /\ Entering(u) => t = u
    /\ \A t, u \in Threads : Entering(t) => ~Top(u, "body")
    /\ \A t \in Threads : Entering(t) \/ Top(t, "body") =>
         inner = "done" /\ ~d_ready /\ outcome = "pending"
    /\ d_ready => inner = "done" /\ outcome = "pending"
    /\ outcome # "pending" => inner \in {"done", "destroyed"}
    /\ inner # "none" <=> round > 0

IInv == TypeOK /\ Shape /\ OneLoop /\ Turn


-----------------------------------------------------------------------------
(* What the operations on a stack do to its frames.                        *)

\* The frames that are pushed are frames.
LEMMA Frames1 ==
    /\ \A l \in Labels : At(l) \in Frame /\ At(l).at = l
    /\ \A k \in 0..MaxRounds : Starting(k) \in Frame /\ Starting(k).at = "starting"
BY RoundsAssumption DEF At, Starting, Frame, Labels

\* The innermost frame returns.
LEMMA PopFacts ==
    ASSUME NEW s \in Seq(Frame), s # <<>>, Nested(s)
    PROVE  /\ Tail(s) \in Seq(Frame)
           /\ Nested(Tail(s))
           /\ \A i \in Nat : LoopAt(Tail(s), i) <=> i > 0 /\ LoopAt(s, i + 1)
           /\ Tail(s) # <<>> => Head(Tail(s)).at \in {"starting", "loop"}
<1>1. /\ Tail(s) \in Seq(Frame) /\ Len(Tail(s)) = Len(s) - 1 /\ Len(s) \in Nat \ {0}
      /\ \A i \in 1..(Len(s) - 1) : Tail(s)[i] = s[i + 1]
  OBVIOUS
<1>2. Nested(Tail(s))
  <2>1. ASSUME NEW i \in 2..(Len(s) - 1)
        PROVE  /\ Tail(s)[i].at \in {"starting", "loop"}
               /\ Tail(s)[i].at = "loop" => Tail(s)[i - 1].at = "starting"
    <3>1. i + 1 \in 2..Len(s) /\ Tail(s)[i] = s[i + 1] /\ Tail(s)[i - 1] = s[(i + 1) - 1]
      BY <1>1
    <3> QED BY <3>1 DEF Nested
  <2>2. ASSUME NEW i \in 1..(Len(s) - 2), Tail(s)[i].at = "starting"
        PROVE  Tail(s)[i + 1].at = "loop"
    <3>1. /\ i + 1 \in 1..(Len(s) - 1) /\ Tail(s)[i] = s[i + 1]
          /\ Tail(s)[i + 1] = s[(i + 1) + 1]
      BY <1>1
    <3> QED BY <2>2, <3>1 DEF Nested
  <2> QED BY <1>1, <2>1, <2>2 DEF Nested
<1>3. ASSUME NEW i \in Nat
      PROVE  LoopAt(Tail(s), i) <=> i > 0 /\ LoopAt(s, i + 1)
  BY <1>1 DEF LoopAt
<1>4. Tail(s) # <<>> => Head(Tail(s)).at \in {"starting", "loop"}
  <2> SUFFICES ASSUME Tail(s) # <<>>
               PROVE  Head(Tail(s)).at \in {"starting", "loop"}
    OBVIOUS
  <2>1. Len(s) - 1 > 0 /\ Head(Tail(s)) = Tail(s)[1]
    BY <1>1
  <2>2. 2 \in 2..Len(s) /\ Tail(s)[1] = s[2]
    BY <1>1, <2>1
  <2> QED BY <2>1, <2>2 DEF Nested
<1> QED BY <1>1, <1>2, <1>3, <1>4

\* The innermost frame goes on.
LEMMA GotoFacts ==
    ASSUME NEW s \in Seq(Frame), s # <<>>, Nested(s), Head(s).at # "starting",
           NEW x \in Frame, x.at # "starting",
           NEW r, r = <<x>> \o Tail(s)
    PROVE  /\ r \in Seq(Frame) /\ r # <<>> /\ Head(r) = x
           /\ Nested(r)
           /\ \A i \in Nat : LoopAt(r, i) <=>
                IF i = 1 THEN x.at \in Looping ELSE LoopAt(s, i)
<1>1. /\ Tail(s) \in Seq(Frame) /\ Len(Tail(s)) = Len(s) - 1 /\ Len(s) \in Nat \ {0}
      /\ \A i \in 1..(Len(s) - 1) : Tail(s)[i] = s[i + 1]
      /\ Head(s) = s[1]
  OBVIOUS
<1>2. /\ <<x>> \in Seq(Frame) /\ Len(<<x>>) = 1 /\ <<x>>[1] = x
  OBVIOUS
<1>3. /\ r \in Seq(Frame) /\ Len(r) = Len(s)
      /\ \A i \in 1..Len(s) : r[i] = IF i <= 1 THEN x ELSE Tail(s)[i - 1]
  BY <1>1, <1>2, ConcatProperties
<1>4. /\ r # <<>> /\ Head(r) = x /\ r[1] = x
      /\ \A i \in 2..Len(s) : r[i] = s[i]
  BY <1>1, <1>3
<1>5. Nested(r)
  <2>1. \A i \in 2..Len(r) : r[i].at \in {"starting", "loop"}
    BY <1>3, <1>4 DEF Nested
  <2>2. ASSUME NEW i \in 2..Len(r), r[i].at = "loop"
        PROVE  r[i - 1].at = "starting"
    <3>1. s[i].at = "loop" /\ s[i - 1].at = "starting"
      BY <1>3, <1>4, <2>2 DEF Nested
    <3>2. i - 1 # 1
      BY <1>1, <3>1
    <3> QED BY <1>3, <1>4, <3>1, <3>2
  <2>3. ASSUME NEW i \in 1..(Len(r) - 1), r[i].at = "starting"
        PROVE  r[i + 1].at = "loop"
    <3>1. i \in 2..Len(s) /\ i + 1 \in 2..Len(s) /\ i \in 1..(Len(s) - 1)
      BY <1>3, <1>4, <2>3
    <3> QED BY <1>4, <2>3, <3>1 DEF Nested
  <2> QED BY <2>1, <2>2, <2>3 DEF Nested
<1>6. ASSUME NEW i \in Nat
      PROVE  LoopAt(r, i) <=> IF i = 1 THEN x.at \in Looping ELSE LoopAt(s, i)
  BY <1>1, <1>3, <1>4 DEF LoopAt
<1> QED BY <1>3, <1>4, <1>5, <1>6

\* The receiver of the inner operation calls next().
LEMMA PushFacts ==
    ASSUME NEW s \in Seq(Frame), Nested(s), s # <<>> => Head(s).at = "starting",
           NEW r, r = <<At("enter")>> \o s
    PROVE  /\ r \in Seq(Frame) /\ r # <<>> /\ Head(r).at = "enter"
           /\ Nested(r)
           /\ \A i \in Nat : LoopAt(r, i) <=> i > 1 /\ LoopAt(s, i - 1)
<1> DEFINE x == At("enter")
<1>1. x \in Frame /\ x.at = "enter"
  BY Frames1 DEF Labels
<1> HIDE DEF x
<1>2. /\ <<x>> \in Seq(Frame) /\ Len(<<x>>) = 1 /\ <<x>>[1] = x /\ Len(s) \in Nat
  BY <1>1
<1>3. /\ r \in Seq(Frame) /\ Len(r) = 1 + Len(s)
      /\ \A i \in 1..(1 + Len(s)) : r[i] = IF i <= 1 THEN x ELSE s[i - 1]
  BY <1>2, ConcatProperties DEF x
<1>4. /\ r # <<>> /\ Head(r) = x /\ r[1] = x
      /\ \A i \in 2..(Len(s) + 1) : r[i] = s[i - 1]
  BY <1>2, <1>3
<1>5. Nested(r)
  <2>1. ASSUME NEW i \in 2..Len(r)
        PROVE  /\ r[i].at \in {"starting", "loop"}
               /\ r[i].at = "loop" => r[i - 1].at = "starting"
    <3>1. CASE i = 2
      BY <1>3, <1>4, <3>1
    <3>2. CASE i # 2
      <4>1. i - 1 \in 2..Len(s) /\ r[i] = s[i - 1] /\ r[i - 1] = s[(i - 1) - 1]
        BY <1>2, <1>3, <1>4, <3>2
      <4> QED BY <4>1 DEF Nested
    <3> QED BY <3>1, <3>2
  <2>2. ASSUME NEW i \in 1..(Len(r) - 1), r[i].at = "starting"
        PROVE  r[i + 1].at = "loop"
    <3>1. i # 1
      BY <1>1, <1>4, <2>2
    <3>2. /\ i - 1 \in 1..(Len(s) - 1) /\ r[i] = s[i - 1]
          /\ r[i + 1] = s[(i - 1) + 1]
      BY <1>2, <1>3, <1>4, <3>1
    <3> QED BY <2>2, <3>2 DEF Nested
  <2> QED BY <2>1, <2>2 DEF Nested
<1>6. ASSUME NEW i \in Nat PROVE LoopAt(r, i) <=> i > 1 /\ LoopAt(s, i - 1)
  BY <1>1, <1>2, <1>3, <1>4 DEF LoopAt, Looping
<1> QED BY <1>1, <1>3, <1>4, <1>5, <1>6

\* The loop starts the inner operation once more.
LEMMA RepeatFacts ==
    ASSUME NEW s \in Seq(Frame), s # <<>>, Nested(s), Head(s).at = "body",
           NEW k \in 0..MaxRounds,
           NEW r, r = <<Starting(k), At("loop")>> \o Tail(s)
    PROVE  /\ r \in Seq(Frame) /\ r # <<>> /\ Head(r).at = "starting"
           /\ Nested(r)
           /\ \A i \in Nat : LoopAt(r, i) <=> i = 2 \/ (i > 2 /\ LoopAt(s, i - 1))
<1> DEFINE x == Starting(k)
           y == At("loop")
<1>1. x \in Frame /\ y \in Frame /\ x.at = "starting" /\ y.at = "loop"
  BY Frames1 DEF Labels
<1> HIDE DEF x, y
<1>2. /\ <<x, y>> \in Seq(Frame) /\ Len(<<x, y>>) = 2
      /\ <<x, y>>[1] = x /\ <<x, y>>[2] = y
  BY <1>1
<1>3. /\ Tail(s) \in Seq(Frame) /\ Len(Tail(s)) = Len(s) - 1 /\ Len(s) \in Nat \ {0}
      /\ \A i \in 1..(Len(s) - 1) : Tail(s)[i] = s[i + 1]
      /\ Head(s) = s[1]
  OBVIOUS
<1>4. /\ r \in Seq(Frame) /\ Len(r) = 2 + (Len(s) - 1)
      /\ \A i \in 1..(2 + (Len(s) - 1)) :
           r[i] = IF i <= 2 THEN <<x, y>>[i] ELSE Tail(s)[i - 2]
  BY <1>2, <1>3, ConcatProperties DEF x, y
<1>5. /\ Len(r) = Len(s) + 1 /\ r # <<>> /\ r[1] = x /\ r[2] = y /\ Head(r) = x
      /\ \A i \in 3..(Len(s) + 1) : r[i] = s[i - 1]
  <2>1. \A i \in 3..(Len(s) + 1) : r[i] = Tail(s)[i - 2] /\ i - 2 \in 1..(Len(s) - 1)
    BY <1>3, <1>4
  <2>2. \A i \in 3..(Len(s) + 1) : (i - 2) + 1 = i - 1
    OBVIOUS
  <2>3. \A i \in 3..(Len(s) + 1) : r[i] = s[i - 1]
    BY <1>3, <2>1, <2>2
  <2> QED BY <1>2, <1>3, <1>4, <2>3
<1>6. Nested(r)
  <2>1. ASSUME NEW i \in 2..Len(r)
        PROVE  /\ r[i].at \in {"starting", "loop"}
               /\ r[i].at = "loop" => r[i - 1].at = "starting"
    <3>1. CASE i = 2
      BY <1>1, <1>5, <3>1
    <3>2. CASE i = 3
      <4>1. 2 \in 2..Len(s) /\ r[3] = s[2]
        BY <1>3, <1>5, <3>2
      <4>2. s[2].at \in {"starting", "loop"} /\ s[2].at # "loop"
        BY <1>3, <4>1 DEF Nested
      <4> QED BY <3>2, <4>1, <4>2
    <3>3. CASE i > 3
      <4>1. i - 1 \in 2..Len(s) /\ r[i] = s[i - 1] /\ r[i - 1] = s[(i - 1) - 1]
        BY <1>3, <1>5, <3>3
      <4> QED BY <4>1 DEF Nested
    <3>4. i = 2 \/ i = 3 \/ i > 3
      OBVIOUS
    <3> QED BY <3>1, <3>2, <3>3, <3>4
  <2>2. ASSUME NEW i \in 1..(Len(r) - 1), r[i].at = "starting"
        PROVE  r[i + 1].at = "loop"
    <3>1. CASE i = 1
      BY <1>1, <1>5, <3>1
    <3>2. CASE i > 1
      <4>1. i # 2
        BY <1>1, <1>5, <2>2
      <4>2. /\ i - 1 \in 1..(Len(s) - 1) /\ r[i] = s[i - 1]
            /\ r[i + 1] = s[(i - 1) + 1]
        BY <1>3, <1>5, <3>2, <4>1
      <4> QED BY <2>2, <4>2 DEF Nested
    <3> QED BY <3>1, <3>2
  <2> QED BY <2>1, <2>2 DEF Nested
<1>7. ASSUME NEW i \in Nat
      PROVE  LoopAt(r, i) <=> i = 2 \/ (i > 2 /\ LoopAt(s, i - 1))
  BY <1>1, <1>3, <1>5 DEF LoopAt, Looping
<1> QED BY <1>1, <1>4, <1>5, <1>6, <1>7

\* A stack with one loop is no deeper than four frames.
LEMMA DepthFacts ==
    ASSUME NEW s \in Seq(Frame), Nested(s),
           \A i, j \in Nat : LoopAt(s, i) /\ LoopAt(s, j) => i = j
    PROVE  Len(s) <= 4
<1> SUFFICES ASSUME Len(s) >= 5 PROVE FALSE
  OBVIOUS
<1>1. /\ 2 \in 2..Len(s) /\ 3 \in 2..Len(s) /\ 4 \in 2..Len(s) /\ 5 \in 2..Len(s)
      /\ 2 \in 1..(Len(s) - 1) /\ 3 \in 1..(Len(s) - 1) /\ 4 \in 1..(Len(s) - 1)
  OBVIOUS
<1>2. /\ s[2].at \in {"starting", "loop"} /\ s[3].at \in {"starting", "loop"}
      /\ s[4].at \in {"starting", "loop"} /\ s[5].at \in {"starting", "loop"}
  BY <1>1 DEF Nested
<1>3. /\ s[2].at = "starting" => s[2 + 1].at = "loop"
      /\ s[3].at = "starting" => s[3 + 1].at = "loop"
      /\ s[4].at = "starting" => s[4 + 1].at = "loop"
  BY <1>1 DEF Nested
<1>4. /\ s[3].at = "loop" => s[3 - 1].at = "starting"
      /\ s[4].at = "loop" => s[4 - 1].at = "starting"
      /\ s[5].at = "loop" => s[5 - 1].at = "starting"
  BY <1>1 DEF Nested
<1>5. \/ s[2].at = "loop" /\ s[4].at = "loop"
      \/ s[3].at = "loop" /\ s[5].at = "loop"
  BY <1>2, <1>3, <1>4
<1>6. \/ LoopAt(s, 2) /\ LoopAt(s, 4)
      \/ LoopAt(s, 3) /\ LoopAt(s, 5)
  BY <1>5 DEF LoopAt, Looping
<1> QED BY <1>6


-----------------------------------------------------------------------------
(* The steps                                                               *)

\* Initially nothing runs.
LEMMA InitIInv == Init => IInv
<1> SUFFICES ASSUME Init PROVE IInv
  OBVIOUS
<1>1. \A t \in Threads : stack[t] = <<>> /\ Len(stack[t]) = 0
  BY DEF Init
<1>2. stack \in [Threads -> Seq(Frame)]
  BY DEF Init
<1>3. TypeOK
  <2>1. round \in 0..MaxRounds
    BY RoundsAssumption DEF Init
  <2> QED BY <1>2, <2>1 DEF Init, TypeOK, Frame, Labels
<1>4. Shape
  BY <1>1 DEF Shape, Nested
<1>5. OneLoop
  BY <1>1 DEF OneLoop, LoopAt
<1>6. Turn
  BY <1>1 DEF Init, Turn, Entering, Top
<1> QED BY <1>3, <1>4, <1>5, <1>6 DEF IInv

\* What is known of a stack.
LEMMA StackFacts ==
    ASSUME IInv, NEW t \in Threads
    PROVE  /\ stack[t] \in Seq(Frame) /\ Nested(stack[t])
           /\ stack[t] # <<>> => (LoopAt(stack[t], 1) <=> Head(stack[t]).at \in Looping)
           /\ \A i, j \in Nat : LoopAt(stack[t], i) /\ LoopAt(stack[t], j) => i = j
<1>1. stack[t] \in Seq(Frame)
  BY DEF IInv, TypeOK, Frame, Labels
<1>2. stack[t] # <<>> => (LoopAt(stack[t], 1) <=> Head(stack[t]).at \in Looping)
  <2> SUFFICES ASSUME stack[t] # <<>>
               PROVE  LoopAt(stack[t], 1) <=> Head(stack[t]).at \in Looping
    OBVIOUS
  <2>1. 1 \in 1..Len(stack[t]) /\ Head(stack[t]) = stack[t][1]
    BY <1>1
  <2> QED BY <2>1 DEF LoopAt
<1> QED BY <1>1, <1>2 DEF IInv, Shape, OneLoop

\* A step of thread t replaces its stack by r and leaves the others alone.
LEMMA StackStep ==
    ASSUME IInv, NEW t \in Threads, NEW r \in Seq(Frame), Nested(r),
           stack' = [stack EXCEPT ![t] = r]
    PROVE  /\ stack' \in [Threads -> Seq(Frame)]
           /\ stack'[t] = r
           /\ Shape'
           /\ \A u \in Threads : u # t => stack'[u] = stack[u]
           /\ \A u \in Threads : u # t =>
                (Entering(u)' <=> Entering(u)) /\ (Top(u, "body")' <=> Top(u, "body"))
<1>1. stack \in [Threads -> Seq(Frame)]
  BY DEF IInv, TypeOK, Frame, Labels
<1>2. stack'[t] = r /\ \A u \in Threads : u # t => stack'[u] = stack[u]
  BY <1>1
<1>3. stack' \in [Threads -> Seq(Frame)]
  BY <1>1
<1>4. Shape'
  BY <1>2 DEF IInv, Shape
<1> QED BY <1>2, <1>3, <1>4 DEF Entering, Top

\* A step that adds no loop keeps the only one.
LEMMA LoopKept ==
    ASSUME IInv, NEW t \in Threads, NEW r,
           stack'[t] = r, \A u \in Threads : u # t => stack'[u] = stack[u],
           \A i, j \in Nat : LoopAt(r, i) /\ LoopAt(r, j) => i = j,
           \A i \in Nat : LoopAt(r, i) => \E j \in Nat : LoopAt(stack[t], j),
           d_running' = d_running
    PROVE  OneLoop'
<1>1. ASSUME NEW u \in Threads, NEW v \in Threads, NEW i \in Nat, NEW j \in Nat,
             LoopAt(stack'[u], i), LoopAt(stack'[v], j)
      PROVE  u = v /\ i = j /\ d_running
  <2>1. (\E k \in Nat : LoopAt(stack[u], k)) /\ (\E k \in Nat : LoopAt(stack[v], k))
    BY <1>1
  <2>2. u = v /\ d_running
    BY <2>1 DEF IInv, OneLoop
  <2>3. CASE u = t
    BY <1>1, <2>2, <2>3
  <2>4. CASE u # t
    BY <1>1, <2>2, <2>4 DEF IInv, OneLoop
  <2> QED BY <2>2, <2>3, <2>4
<1> QED BY <1>1 DEF OneLoop, LoopAt

\* The loop is left.
LEMMA LoopLeft ==
    ASSUME IInv, NEW t \in Threads, stack[t] # <<>>, Head(stack[t]).at \in Looping,
           stack'[t] = Tail(stack[t]),
           \A u \in Threads : u # t => stack'[u] = stack[u]
    PROVE  \A u \in Threads, i \in Nat : ~LoopAt(stack'[u], i)
<1>1. /\ stack[t] \in Seq(Frame) /\ Nested(stack[t]) /\ LoopAt(stack[t], 1)
  BY StackFacts
<1>2. \A i \in Nat : LoopAt(Tail(stack[t]), i) =>
        i + 1 \in Nat /\ i + 1 # 1 /\ LoopAt(stack[t], i + 1)
  BY <1>1, PopFacts
<1>3. \A i \in Nat : ~LoopAt(stack'[t], i)
  BY <1>1, <1>2, StackFacts
<1>4. \A u \in Threads, i \in Nat : u # t => ~LoopAt(stack'[u], i)
  BY <1>1 DEF IInv, OneLoop
<1> QED BY <1>3, <1>4


\* A start() returns to the loop or to the caller of the operation.
LEMMA StartReturnsStep ==
    ASSUME IInv, NEW t \in Threads, StartReturns(t)
    PROVE  IInv'
<1> DEFINE s == stack[t]
<1>1. s \in Seq(Frame) /\ Nested(s) /\ s # <<>> /\ Head(s).at = "starting"
  BY StackFacts DEF StartReturns, Top
<1>2. stack' = [stack EXCEPT ![t] = Tail(s)]
  BY DEF StartReturns, Pop
<1>3. /\ stack' \in [Threads -> Seq(Frame)] /\ stack'[t] = Tail(s) /\ Shape'
      /\ \A u \in Threads : u # t => stack'[u] = stack[u]
      /\ \A u \in Threads : u # t =>
           (Entering(u)' <=> Entering(u)) /\ (Top(u, "body")' <=> Top(u, "body"))
  BY <1>1, <1>2, PopFacts, StackStep
<1>4. TypeOK'
  BY <1>3 DEF StartReturns, IInv, TypeOK, Frame, Labels
<1>5. OneLoop'
  <2>1. \A i \in Nat : LoopAt(Tail(s), i) => i + 1 \in Nat /\ LoopAt(s, i + 1)
    BY <1>1, PopFacts
  <2>2. \A i, j \in Nat : LoopAt(Tail(s), i) /\ LoopAt(Tail(s), j) => i + 1 = j + 1
    BY <2>1, StackFacts
  <2>3. \A i, j \in Nat : i + 1 = j + 1 => i = j
    OBVIOUS
  <2>4. /\ \A i \in Nat : LoopAt(Tail(s), i) => \E j \in Nat : LoopAt(s, j)
        /\ \A i, j \in Nat : LoopAt(Tail(s), i) /\ LoopAt(Tail(s), j) => i = j
    BY <2>1, <2>2, <2>3
  <2>5. d_running' = d_running
    BY DEF StartReturns
  <2> QED BY <1>3, <2>4, <2>5, LoopKept
<1>6. Turn'
  <2>1. ~Entering(t)' /\ ~Top(t, "body")'
    BY <1>1, <1>3, PopFacts DEF Entering, Top
  <2> QED BY <1>3, <2>1 DEF StartReturns, IInv, Turn
<1> QED BY <1>3, <1>4, <1>5, <1>6 DEF IInv

\* The turn passes from next() to d_ready.
LEMMA NoteStep ==
    ASSUME IInv, NEW t \in Threads, Note(t)
    PROVE  IInv'
<1> DEFINE s == stack[t]
<1>1. s \in Seq(Frame) /\ Nested(s) /\ s # <<>> /\ Head(s).at = "note"
  BY StackFacts DEF Note, Top
<1>2. stack' = [stack EXCEPT ![t] = Tail(s)]
  BY DEF Note, Pop
<1>3. /\ stack' \in [Threads -> Seq(Frame)] /\ stack'[t] = Tail(s) /\ Shape'
      /\ \A u \in Threads : u # t => stack'[u] = stack[u]
      /\ \A u \in Threads : u # t =>
           (Entering(u)' <=> Entering(u)) /\ (Top(u, "body")' <=> Top(u, "body"))
  BY <1>1, <1>2, PopFacts, StackStep
<1>4. TypeOK'
  BY <1>3 DEF Note, IInv, TypeOK, Frame, Labels
<1>5. OneLoop'
  <2>1. \A i \in Nat : LoopAt(Tail(s), i) => i + 1 \in Nat /\ LoopAt(s, i + 1)
    BY <1>1, PopFacts
  <2>2. \A i, j \in Nat : LoopAt(Tail(s), i) /\ LoopAt(Tail(s), j) => i + 1 = j + 1
    BY <2>1, StackFacts
  <2>3. \A i, j \in Nat : i + 1 = j + 1 => i = j
    OBVIOUS
  <2>4. /\ \A i \in Nat : LoopAt(Tail(s), i) => \E j \in Nat : LoopAt(s, j)
        /\ \A i, j \in Nat : LoopAt(Tail(s), i) /\ LoopAt(Tail(s), j) => i = j
    BY <2>1, <2>2, <2>3
  <2>5. d_running' = d_running
    BY DEF Note
  <2> QED BY <1>3, <2>4, <2>5, LoopKept
<1>6. Turn'
  <2>1. ~Entering(t)' /\ ~Top(t, "body")'
    BY <1>1, <1>3, PopFacts DEF Entering, Top
  <2>2. Entering(t)
    BY DEF Note, Entering
  <2> QED BY <1>3, <2>1, <2>2 DEF Note, IInv, Turn
<1> QED BY <1>3, <1>4, <1>5, <1>6 DEF IInv

\* One thread at most is in the body of the loop.
LEMMA OneBody ==
    ASSUME IInv, NEW t \in Threads, NEW u \in Threads, Top(t, "body"), Top(u, "body")
    PROVE  t = u
<1>1. LoopAt(stack[t], 1) /\ LoopAt(stack[u], 1)
  BY StackFacts DEF Top, Looping
<1> QED BY <1>1 DEF IInv, OneLoop


\* The loop ends.
LEMMA UnlockStep ==
    ASSUME IInv, NEW t \in Threads, Unlock(t)
    PROVE  IInv'
<1> DEFINE s == stack[t]
<1>1. s \in Seq(Frame) /\ Nested(s) /\ s # <<>> /\ Head(s).at = "unlock"
  BY StackFacts DEF Unlock, Top
<1>2. stack' = [stack EXCEPT ![t] = Tail(s)]
  BY DEF Unlock, Pop
<1>3. /\ stack' \in [Threads -> Seq(Frame)] /\ stack'[t] = Tail(s) /\ Shape'
      /\ \A u \in Threads : u # t => stack'[u] = stack[u]
      /\ \A u \in Threads : u # t =>
           (Entering(u)' <=> Entering(u)) /\ (Top(u, "body")' <=> Top(u, "body"))
  BY <1>1, <1>2, PopFacts, StackStep
<1>4. TypeOK'
  BY <1>3 DEF Unlock, IInv, TypeOK, Frame, Labels
<1>5. OneLoop'
  <2>1. \A u \in Threads, i \in Nat : ~LoopAt(stack'[u], i)
    BY <1>1, <1>3, LoopLeft DEF Looping
  <2> QED BY <2>1 DEF OneLoop, LoopAt
<1>6. Turn'
  <2>1. ~Entering(t)' /\ ~Top(t, "body")'
    BY <1>1, <1>3, PopFacts DEF Entering, Top
  <2> QED BY <1>3, <2>1 DEF Unlock, IInv, Turn
<1> QED BY <1>3, <1>4, <1>5, <1>6 DEF IInv

\* The loop is left by an exception of the predicate.
LEMMA PredicateThrowsStep ==
    ASSUME IInv, NEW t \in Threads, PredicateThrows(t)
    PROVE  IInv'
<1> DEFINE s == stack[t]
<1>1. s \in Seq(Frame) /\ Nested(s) /\ s # <<>> /\ Head(s).at = "body"
  BY StackFacts DEF PredicateThrows, Throws, Top
<1>2. stack' = [stack EXCEPT ![t] = Tail(s)]
  BY DEF PredicateThrows, Throws, Pop
<1>3. /\ stack' \in [Threads -> Seq(Frame)] /\ stack'[t] = Tail(s) /\ Shape'
      /\ \A u \in Threads : u # t => stack'[u] = stack[u]
      /\ \A u \in Threads : u # t =>
           (Entering(u)' <=> Entering(u)) /\ (Top(u, "body")' <=> Top(u, "body"))
  BY <1>1, <1>2, PopFacts, StackStep
<1>4. TypeOK'
  BY <1>3 DEF PredicateThrows, Throws, IInv, TypeOK, Frame, Labels
<1>5. OneLoop'
  <2>1. \A u \in Threads, i \in Nat : ~LoopAt(stack'[u], i)
    BY <1>1, <1>3, LoopLeft DEF Looping
  <2> QED BY <2>1 DEF OneLoop, LoopAt
<1>6. Turn'
  <2>1. ~Entering(t)' /\ ~Top(t, "body")'
    BY <1>1, <1>3, PopFacts DEF Entering, Top
  <2>2. /\ Top(t, "body") /\ ~d_ready /\ inner = "done"
        /\ \A u \in Threads : ~Entering(u)
    BY DEF PredicateThrows, Throws, IInv, Turn
  <2>3. \A u \in Threads : Top(u, "body") => u = t
    BY <2>2, OneBody
  <2> QED BY <1>3, <2>1, <2>2, <2>3 DEF PredicateThrows, Throws, IInv, Turn
<1> QED BY <1>3, <1>4, <1>5, <1>6 DEF IInv

\* The loop is left by an exception of the construction of the next inner
\* operation.
LEMMA ConnectThrowsStep ==
    ASSUME IInv, NEW t \in Threads, ConnectThrows(t)
    PROVE  IInv'
<1> DEFINE s == stack[t]
<1>1. s \in Seq(Frame) /\ Nested(s) /\ s # <<>> /\ Head(s).at = "body"
  BY StackFacts DEF ConnectThrows, Throws, Top
<1>2. stack' = [stack EXCEPT ![t] = Tail(s)]
  BY DEF ConnectThrows, Throws, Pop
<1>3. /\ stack' \in [Threads -> Seq(Frame)] /\ stack'[t] = Tail(s) /\ Shape'
      /\ \A u \in Threads : u # t => stack'[u] = stack[u]
      /\ \A u \in Threads : u # t =>
           (Entering(u)' <=> Entering(u)) /\ (Top(u, "body")' <=> Top(u, "body"))
  BY <1>1, <1>2, PopFacts, StackStep
<1>4. TypeOK'
  BY <1>3 DEF ConnectThrows, Throws, IInv, TypeOK, Frame, Labels
<1>5. OneLoop'
  <2>1. \A u \in Threads, i \in Nat : ~LoopAt(stack'[u], i)
    BY <1>1, <1>3, LoopLeft DEF Looping
  <2> QED BY <2>1 DEF OneLoop, LoopAt
<1>6. Turn'
  <2>1. ~Entering(t)' /\ ~Top(t, "body")'
    BY <1>1, <1>3, PopFacts DEF Entering, Top
  <2>2. /\ Top(t, "body") /\ ~d_ready /\ inner = "done"
        /\ \A u \in Threads : ~Entering(u)
    BY DEF ConnectThrows, Throws, IInv, Turn
  <2>3. \A u \in Threads : Top(u, "body") => u = t
    BY <2>2, OneBody
  <2> QED BY <1>3, <2>1, <2>2, <2>3 DEF ConnectThrows, Throws, IInv, Turn
<1> QED BY <1>3, <1>4, <1>5, <1>6 DEF IInv

\* The turn passes from d_ready to the body of the loop.
LEMMA LoopStep ==
    ASSUME IInv, NEW t \in Threads, Loop(t)
    PROVE  IInv'
<1> DEFINE s == stack[t]
<1>1. s \in Seq(Frame) /\ Nested(s) /\ s # <<>> /\ Head(s).at = "loop"
  BY StackFacts DEF Loop, Top
<1>2. PICK x \in Frame : /\ stack' = [stack EXCEPT ![t] = <<x>> \o Tail(s)]
                         /\ x.at = IF d_ready THEN "body" ELSE "unlock"
  BY Frames1 DEF Loop, Goto, Labels
<1>3. PICK r : r = <<x>> \o Tail(s)
  OBVIOUS
<1>4. /\ r \in Seq(Frame) /\ r # <<>> /\ Head(r) = x /\ Nested(r)
      /\ \A i \in Nat : LoopAt(r, i) => i = 1 \/ LoopAt(s, i)
  <2>1. Head(s).at # "starting" /\ x.at # "starting"
    BY <1>1, <1>2
  <2> HIDE DEF s
  <2>2. /\ r \in Seq(Frame) /\ r # <<>> /\ Head(r) = x
        /\ Nested(r)
        /\ \A i \in Nat : LoopAt(r, i) <=>
             IF i = 1 THEN x.at \in Looping ELSE LoopAt(s, i)
    BY <1>1, <1>3, <2>1, GotoFacts
  <2> QED BY <2>2
<1>5. /\ stack' \in [Threads -> Seq(Frame)] /\ stack'[t] = r /\ Shape'
      /\ \A u \in Threads : u # t => stack'[u] = stack[u]
      /\ \A u \in Threads : u # t =>
           (Entering(u)' <=> Entering(u)) /\ (Top(u, "body")' <=> Top(u, "body"))
  BY <1>2, <1>3, <1>4, StackStep
<1>6. TypeOK'
  BY <1>5 DEF Loop, IInv, TypeOK, Frame, Labels
<1>7. OneLoop'
  <2>1. LoopAt(s, 1)
    BY <1>1, StackFacts DEF Looping
  <2>2. \A i \in Nat : LoopAt(r, i) => LoopAt(s, i)
    BY <1>4, <2>1
  <2>3. \A i, j \in Nat : LoopAt(r, i) /\ LoopAt(r, j) => i = j
    BY <2>2, StackFacts
  <2> QED BY <1>5, <2>2, <2>3, LoopKept DEF Loop
<1>8. Turn'
  <2>1. ~Entering(t)' /\ (Top(t, "body")' <=> d_ready)
    BY <1>2, <1>4, <1>5 DEF Entering, Top
  <2>2. d_ready => inner = "done" /\ outcome = "pending" /\ \A u \in Threads : ~Entering(u)
    BY DEF IInv, Turn
  <2> QED BY <1>5, <2>1, <2>2 DEF Loop, IInv, Turn
<1> QED BY <1>5, <1>6, <1>7, <1>8 DEF IInv

\* The turn is spent.
LEMMA BodyCompletesStep ==
    ASSUME IInv, NEW t \in Threads, BodyCompletes(t)
    PROVE  IInv'
<1> DEFINE s == stack[t]
<1>1. s \in Seq(Frame) /\ Nested(s) /\ s # <<>> /\ Head(s).at = "body"
  BY StackFacts DEF BodyCompletes, Top
<1>2. PICK x \in Frame : /\ stack' = [stack EXCEPT ![t] = <<x>> \o Tail(s)]
                         /\ x.at = "unlock"
  BY Frames1 DEF BodyCompletes, Goto, Labels
<1>3. PICK r : r = <<x>> \o Tail(s)
  OBVIOUS
<1>4. /\ r \in Seq(Frame) /\ r # <<>> /\ Head(r) = x /\ Nested(r)
      /\ \A i \in Nat : LoopAt(r, i) => i = 1 \/ LoopAt(s, i)
  <2>1. Head(s).at # "starting" /\ x.at # "starting"
    BY <1>1, <1>2
  <2> HIDE DEF s
  <2>2. /\ r \in Seq(Frame) /\ r # <<>> /\ Head(r) = x
        /\ Nested(r)
        /\ \A i \in Nat : LoopAt(r, i) <=>
             IF i = 1 THEN x.at \in Looping ELSE LoopAt(s, i)
    BY <1>1, <1>3, <2>1, GotoFacts
  <2> QED BY <2>2
<1>5. /\ stack' \in [Threads -> Seq(Frame)] /\ stack'[t] = r /\ Shape'
      /\ \A u \in Threads : u # t => stack'[u] = stack[u]
      /\ \A u \in Threads : u # t =>
           (Entering(u)' <=> Entering(u)) /\ (Top(u, "body")' <=> Top(u, "body"))
  BY <1>2, <1>3, <1>4, StackStep
<1>6. TypeOK'
  BY <1>5 DEF BodyCompletes, IInv, TypeOK, Frame, Labels
<1>7. OneLoop'
  <2>1. LoopAt(s, 1)
    BY <1>1, StackFacts DEF Looping
  <2>2. \A i \in Nat : LoopAt(r, i) => LoopAt(s, i)
    BY <1>4, <2>1
  <2>3. \A i, j \in Nat : LoopAt(r, i) /\ LoopAt(r, j) => i = j
    BY <2>2, StackFacts
  <2> QED BY <1>5, <2>2, <2>3, LoopKept DEF BodyCompletes
<1>8. Turn'
  <2>1. ~Entering(t)' /\ ~Top(t, "body")'
    BY <1>2, <1>4, <1>5 DEF Entering, Top
  <2>2. /\ Top(t, "body") /\ ~d_ready /\ inner = "done"
        /\ \A u \in Threads : ~Entering(u)
    BY DEF BodyCompletes, IInv, Turn
  <2>3. \A u \in Threads : Top(u, "body") => u = t
    BY <2>2, OneBody
  <2> QED BY <1>5, <2>1, <2>2, <2>3 DEF BodyCompletes, IInv, Turn
<1> QED BY <1>5, <1>6, <1>7, <1>8 DEF IInv

\* The first round is started outside the loop.
LEMMA StartStep ==
    ASSUME IInv, NEW t \in Threads, Start(t)
    PROVE  IInv'
<1>1. PICK r : r = <<Starting(1)>>
  OBVIOUS
<1>2. 1 \in 0..MaxRounds /\ Starting(1) \in Frame /\ Starting(1).at = "starting"
  BY RoundsAssumption, Frames1
<1>3. /\ r \in Seq(Frame) /\ Len(r) = 1 /\ r[1].at = "starting" /\ r # <<>>
      /\ Head(r).at = "starting"
  BY <1>1, <1>2
<1>4. Nested(r) /\ \A i \in Nat : ~LoopAt(r, i)
  BY <1>3 DEF Nested, LoopAt, Looping
<1>5. /\ stack' \in [Threads -> Seq(Frame)] /\ stack'[t] = r /\ Shape'
      /\ \A u \in Threads : u # t => stack'[u] = stack[u]
      /\ \A u \in Threads : u # t =>
           (Entering(u)' <=> Entering(u)) /\ (Top(u, "body")' <=> Top(u, "body"))
  BY <1>1, <1>3, <1>4, StackStep DEF Start
<1>6. TypeOK'
  BY <1>2, <1>5 DEF Start, IInv, TypeOK, Frame, Labels
<1>7. OneLoop'
  <2>1. d_running' = d_running
    BY DEF Start
  <2> QED BY <1>4, <1>5, <2>1, LoopKept
<1>8. Turn'
  <2>1. ~Entering(t)' /\ ~Top(t, "body")'
    BY <1>3, <1>5 DEF Entering, Top
  <2>2. /\ \A u \in Threads : ~Entering(u) /\ ~Top(u, "body")
        /\ ~d_ready /\ outcome = "pending"
    BY DEF Start, IInv, TypeOK, Turn
  <2> QED BY <1>5, <2>1, <2>2 DEF Start, IInv, Turn
<1> QED BY <1>5, <1>6, <1>7, <1>8 DEF IInv

\* The turn passes from the inner operation to next().
LEMMA SetValueStep ==
    ASSUME IInv, NEW t \in Threads, SetValue(t)
    PROVE  IInv'
<1> DEFINE s == stack[t]
<1>1. s \in Seq(Frame) /\ Nested(s) /\ (s # <<>> => Head(s).at = "starting")
  <2>1. round \in 0..MaxRounds
    BY DEF IInv, TypeOK
  <2> QED BY <2>1, StackFacts, Frames1 DEF SetValue, Completes
<1>2. PICK r : r = <<At("enter")>> \o s
  OBVIOUS
<1>3. /\ r \in Seq(Frame) /\ r # <<>> /\ Head(r).at = "enter" /\ Nested(r)
      /\ \A i \in Nat : LoopAt(r, i) => i - 1 \in Nat /\ LoopAt(s, i - 1)
  <2> HIDE DEF s
  <2>1. /\ r \in Seq(Frame) /\ r # <<>> /\ Head(r).at = "enter" /\ Nested(r)
        /\ \A i \in Nat : LoopAt(r, i) <=> i > 1 /\ LoopAt(s, i - 1)
    BY <1>1, <1>2, PushFacts
  <2>2. \A i \in Nat : i > 1 => i - 1 \in Nat
    OBVIOUS
  <2> QED BY <2>1, <2>2
<1>4. /\ stack' \in [Threads -> Seq(Frame)] /\ stack'[t] = r /\ Shape'
      /\ \A u \in Threads : u # t => stack'[u] = stack[u]
      /\ \A u \in Threads : u # t =>
           (Entering(u)' <=> Entering(u)) /\ (Top(u, "body")' <=> Top(u, "body"))
  BY <1>2, <1>3, StackStep DEF SetValue
<1>5. TypeOK'
  BY <1>4 DEF SetValue, Completes, IInv, TypeOK, Frame, Labels
<1>6. OneLoop'
  <2>1. \A i, j \in Nat : LoopAt(r, i) /\ LoopAt(r, j) => i - 1 = j - 1
    BY <1>3, StackFacts
  <2>2. \A i, j \in Nat : i - 1 = j - 1 => i = j
    OBVIOUS
  <2>3. /\ \A i \in Nat : LoopAt(r, i) => \E j \in Nat : LoopAt(s, j)
        /\ \A i, j \in Nat : LoopAt(r, i) /\ LoopAt(r, j) => i = j
    BY <1>3, <2>1, <2>2
  <2>4. d_running' = d_running
    BY DEF SetValue
  <2> QED BY <1>4, <2>3, <2>4, LoopKept
<1>7. Turn'
  <2>1. Entering(t)' /\ ~Top(t, "body")'
    BY <1>3, <1>4 DEF Entering, Top
  <2>2. /\ inner = "running" /\ inner' = "done"
        /\ UNCHANGED <<d_ready, outcome, round>>
    BY DEF SetValue, Completes
  <2>3. /\ \A u \in Threads : ~Entering(u) /\ ~Top(u, "body")
        /\ ~d_ready /\ outcome = "pending" /\ round > 0
    BY <2>2 DEF IInv, Turn
  <2> QED BY <1>4, <2>1, <2>2, <2>3 DEF Turn
<1> QED BY <1>4, <1>5, <1>6, <1>7 DEF IInv

\* The turn is spent without the loop.
LEMMA SetErrorOrStoppedStep ==
    ASSUME IInv, NEW t \in Threads, NEW kind \in {"error", "stopped"},
           SetErrorOrStopped(t, kind)
    PROVE  IInv'
<1>1. TypeOK'
  BY DEF SetErrorOrStopped, Completes, IInv, TypeOK
<1>2. Shape' /\ OneLoop'
  BY DEF SetErrorOrStopped, IInv, Shape, OneLoop
<1>3. Turn'
  <2>1. /\ inner = "running" /\ inner' = "done"
        /\ UNCHANGED <<d_ready, stack, round>>
    BY DEF SetErrorOrStopped, Completes
  <2>2. /\ \A u \in Threads : ~Entering(u) /\ ~Top(u, "body")
        /\ ~d_ready /\ round > 0
    BY <2>1 DEF IInv, Turn
  <2> QED BY <2>1, <2>2 DEF Turn, Entering, Top
<1> QED BY <1>1, <1>2, <1>3 DEF IInv


\* next() keeps the turn, or becomes the loop and puts it into d_ready.
LEMMA EnterStep ==
    ASSUME IInv, NEW t \in Threads, Enter(t)
    PROVE  IInv'
<1> DEFINE s == stack[t]
<1>1. s \in Seq(Frame) /\ Nested(s) /\ s # <<>> /\ Head(s).at = "enter"
  BY StackFacts DEF Enter, Top
<1>2. PICK x \in Frame : /\ stack' = [stack EXCEPT ![t] = <<x>> \o Tail(s)]
                         /\ x.at = IF d_running THEN "note" ELSE "loop"
  BY Frames1 DEF Enter, Goto, Labels
<1>3. PICK r : r = <<x>> \o Tail(s)
  OBVIOUS
<1>4. /\ r \in Seq(Frame) /\ r # <<>> /\ Head(r) = x /\ Nested(r)
      /\ \A i \in Nat : LoopAt(r, i) <=>
           IF i = 1 THEN x.at \in Looping ELSE LoopAt(s, i)
  <2>1. Head(s).at # "starting" /\ x.at # "starting"
    BY <1>1, <1>2
  <2> HIDE DEF s
  <2> QED BY <1>1, <1>3, <2>1, GotoFacts
<1>5. /\ stack' \in [Threads -> Seq(Frame)] /\ stack'[t] = r /\ Shape'
      /\ \A u \in Threads : u # t => stack'[u] = stack[u]
      /\ \A u \in Threads : u # t =>
           (Entering(u)' <=> Entering(u)) /\ (Top(u, "body")' <=> Top(u, "body"))
  BY <1>2, <1>3, <1>4, StackStep
<1>6. TypeOK'
  BY <1>5 DEF Enter, IInv, TypeOK, Frame, Labels
<1>7. OneLoop'
  <2>1. CASE d_running
    <3>1. \A i \in Nat : LoopAt(r, i) => LoopAt(s, i)
      BY <1>2, <1>4, <2>1 DEF Looping
    <3>2. \A i, j \in Nat : LoopAt(r, i) /\ LoopAt(r, j) => i = j
      BY <3>1, StackFacts
    <3>3. d_running' = d_running
      BY <2>1 DEF Enter
    <3> QED BY <1>5, <3>1, <3>2, <3>3, LoopKept
  <2>2. CASE ~d_running
    <3>1. \A u \in Threads, i \in Nat : ~LoopAt(stack[u], i)
      BY <2>2 DEF IInv, OneLoop
    <3>2. \A u \in Threads, i \in Nat : LoopAt(stack'[u], i) => u = t /\ i = 1
      BY <1>4, <1>5, <3>1
    <3>3. d_running'
      BY <2>2 DEF Enter
    <3> QED BY <3>2, <3>3 DEF OneLoop, LoopAt
  <2> QED BY <2>1, <2>2
<1>8. Turn'
  <2>1. (Entering(t)' <=> d_running) /\ ~Top(t, "body")'
    BY <1>2, <1>4, <1>5 DEF Entering, Top
  <2>2. /\ inner = "done" /\ ~d_ready /\ outcome = "pending"
        /\ \A u \in Threads : ~Top(u, "body") /\ (Entering(u) => u = t)
    BY DEF Enter, IInv, Turn, Entering
  <2>3. d_ready' <=> ~d_running
    BY <2>2 DEF Enter
  <2> QED BY <1>5, <2>1, <2>2, <2>3 DEF Enter, IInv, Turn
<1> QED BY <1>5, <1>6, <1>7, <1>8 DEF IInv

\* The turn passes from the body of the loop to the next inner operation.
LEMMA BodyRepeatsStep ==
    ASSUME IInv, NEW t \in Threads, BodyRepeats(t)
    PROVE  IInv'
<1> DEFINE s == stack[t]
<1>1. s \in Seq(Frame) /\ Nested(s) /\ s # <<>> /\ Head(s).at = "body"
  BY StackFacts DEF BodyRepeats, Top
<1>2. PICK k \in 0..MaxRounds : k = round + 1
  BY RoundsAssumption DEF BodyRepeats, IInv, TypeOK
<1>3. PICK r : r = <<Starting(k), At("loop")>> \o Tail(s)
  OBVIOUS
<1>4. /\ r \in Seq(Frame) /\ r # <<>> /\ Head(r).at = "starting" /\ Nested(r)
      /\ \A i \in Nat : LoopAt(r, i) <=> i = 2 \/ (i > 2 /\ LoopAt(s, i - 1))
  <2> HIDE DEF s
  <2> QED BY <1>1, <1>3, RepeatFacts
<1>5. /\ stack' \in [Threads -> Seq(Frame)] /\ stack'[t] = r /\ Shape'
      /\ \A u \in Threads : u # t => stack'[u] = stack[u]
      /\ \A u \in Threads : u # t =>
           (Entering(u)' <=> Entering(u)) /\ (Top(u, "body")' <=> Top(u, "body"))
  BY <1>2, <1>3, <1>4, StackStep DEF BodyRepeats
<1>6. TypeOK'
  BY <1>2, <1>5 DEF BodyRepeats, IInv, TypeOK, Frame, Labels
<1>7. OneLoop'
  <2>1. LoopAt(s, 1)
    BY <1>1, StackFacts DEF Looping
  <2>2. \A i \in Nat : LoopAt(s, i) => i = 1
    BY <2>1, StackFacts
  <2>3. \A i \in Nat : i > 2 => i - 1 \in Nat /\ i - 1 # 1
    OBVIOUS
  <2>4. \A i \in Nat : LoopAt(r, i) => i = 2
    BY <1>4, <2>2, <2>3
  <2>5. d_running' = d_running
    BY DEF BodyRepeats
  <2> QED BY <1>5, <2>1, <2>4, <2>5, LoopKept
<1>8. Turn'
  <2>1. ~Entering(t)' /\ ~Top(t, "body")'
    BY <1>4, <1>5 DEF Entering, Top
  <2>2. /\ Top(t, "body") /\ ~d_ready /\ outcome = "pending"
        /\ \A u \in Threads : ~Entering(u)
    BY DEF BodyRepeats, IInv, Turn
  <2>3. \A u \in Threads : Top(u, "body") => u = t
    BY <2>2, OneBody
  <2>4. round' > 0 /\ inner' = "running" /\ UNCHANGED <<d_ready, outcome>>
    BY DEF BodyRepeats, IInv, TypeOK
  <2> QED BY <1>5, <2>1, <2>2, <2>3, <2>4 DEF Turn
<1> QED BY <1>5, <1>6, <1>7, <1>8 DEF IInv

-----------------------------------------------------------------------------

\* The invariant is inductive.
THEOREM Invariant == Spec => []IInv
<1>1. IInv /\ [Next]_vars => IInv'
  <2> SUFFICES ASSUME IInv, [Next]_vars PROVE IInv'
    OBVIOUS
  <2>1. CASE RequestStop
    <3>1. TypeOK'
      BY <2>1 DEF RequestStop, IInv, TypeOK
    <3>2. Shape' /\ OneLoop' /\ Turn'
      BY <2>1 DEF RequestStop, IInv, Shape, OneLoop, Turn, Entering, Top
    <3> QED BY <3>1, <3>2 DEF IInv
  <2>2. CASE UNCHANGED vars
    <3>1. TypeOK'
      BY <2>2 DEF vars, IInv, TypeOK
    <3>2. Shape' /\ OneLoop' /\ Turn'
      BY <2>2 DEF vars, IInv, Shape, OneLoop, Turn, Entering, Top
    <3> QED BY <3>1, <3>2 DEF IInv
  <2>3. ASSUME NEW t \in Threads, Start(t) \/ Steps(t) \/ InnerCompletes(t)
        PROVE  IInv'
    BY <2>3, StartStep, StartReturnsStep, EnterStep, NoteStep, LoopStep,
       BodyCompletesStep, PredicateThrowsStep, ConnectThrowsStep, BodyRepeatsStep,
       UnlockStep, SetValueStep, SetErrorOrStoppedStep
       DEF Steps, Body, InnerCompletes
  <2> QED BY <2>1, <2>2, <2>3 DEF Next
<1> QED BY InitIInv, <1>1, PTL DEF Spec

\* The members of the operation state and the frames have their types.
THEOREM TypeCorrect == Spec => []TypeOK
<1>1. IInv => TypeOK
  BY DEF IInv
<1> QED BY Invariant, <1>1, PTL

\* Frames that are not on top are those of start() and of the loop.
LEMMA OnTop ==
    ASSUME IInv, NEW t \in Threads, NEW l \in Labels \ {"starting", "loop"},
           At(l) \in Frames(t)
    PROVE  Top(t, l)
<1>1. PICK i \in 1..Len(stack[t]) : stack[t][i] = At(l)
  BY StackFacts DEF Frames, ToSet
<1>2. stack[t][i].at = l
  BY <1>1, Frames1
<1>3. i = 1
  BY <1>2, StackFacts DEF Nested
<1> QED BY <1>1, <1>2, <1>3, StackFacts DEF Top

\* Whatever threads the completions arrive on, the loop destroys only an inner
\* operation that has completed, and there is one loop.
THEOREM DestroysDone == Spec => []InnerDestroyedDone
<1>1. IInv => InnerDestroyedDone
  <2> SUFFICES ASSUME IInv PROVE InnerDestroyedDone
    OBVIOUS
  <2>1. \A t \in Threads : Top(t, "body") => inner = "done"
    BY DEF IInv, Turn
  <2>2. ASSUME NEW t \in Threads, NEW l \in {"loop", "body"}, At(l) \in Frames(t)
        PROVE  \E i \in Nat : LoopAt(stack[t], i)
    <3>1. PICK i \in 1..Len(stack[t]) : stack[t][i] = At(l)
      BY <2>2, StackFacts DEF Frames, ToSet
    <3>2. i \in Nat /\ LoopAt(stack[t], i)
      BY <3>1, StackFacts, Frames1 DEF LoopAt, Looping, Labels
    <3> QED BY <3>2
  <2>3. ASSUME NEW t \in Threads, NEW u \in Threads, At("body") \in Frames(t),
               Frames(u) \cap {At("loop"), At("body")} # {}
        PROVE  t = u
    <3>1. \E i \in Nat : LoopAt(stack[t], i)
      BY <2>2, <2>3
    <3>2. \E i \in Nat : LoopAt(stack[u], i)
      BY <2>2, <2>3
    <3> QED BY <3>1, <3>2 DEF IInv, OneLoop
  <2> QED BY <2>1, <2>3 DEF InnerDestroyedDone
<1> QED BY Invariant, <1>1, PTL

\* The stack does not grow with the number of rounds.
THEOREM Depth == Spec => []BoundedNesting
<1>1. IInv => BoundedNesting
  BY StackFacts, DepthFacts DEF BoundedNesting
<1> QED BY Invariant, <1>1, PTL

\* When the receiver is completed nothing is left that could start a round or
\* complete it again.
THEOREM Quiet == Spec => []QuietAfterCompletion
<1>1. IInv => QuietAfterCompletion
  <2> SUFFICES ASSUME IInv, outcome # "pending"
               PROVE  /\ inner # "running" /\ ~d_ready
                      /\ \A t \in Threads :
                           Frames(t) \cap {At("enter"), At("note"), At("body")} = {}
    BY DEF QuietAfterCompletion
  <2>1. inner # "running" /\ ~d_ready
    BY DEF IInv, Turn
  <2>2. \A t \in Threads : ~Top(t, "enter") /\ ~Top(t, "note") /\ ~Top(t, "body")
    BY DEF IInv, Turn, Entering
  <2>3. \A t \in Threads : /\ At("enter") \notin Frames(t) /\ At("note") \notin Frames(t)
                           /\ At("body") \notin Frames(t)
    BY <2>2, OnTop DEF Labels
  <2> QED BY <2>1, <2>3
<1> QED BY Invariant, <1>1, PTL


\* The receiver is completed once: no step changes how it was completed.
THEOREM CompletedOnce == Spec => [][outcome # "pending" => outcome' = outcome]_vars
<1>1. IInv /\ [Next]_vars => [outcome # "pending" => outcome' = outcome]_vars
  <2> SUFFICES ASSUME IInv, Next, outcome # "pending" PROVE outcome' = outcome
    OBVIOUS
  <2>1. inner # "running" /\ \A t \in Threads : ~Top(t, "body")
    BY DEF IInv, Turn
  <2>2. ASSUME NEW t \in Threads, Start(t) \/ Steps(t) \/ InnerCompletes(t)
        PROVE  outcome' = outcome
    BY <2>1, <2>2
       DEF Steps, Body, InnerCompletes, Start, StartReturns, Enter, Note,
       Loop, BodyCompletes, PredicateThrows, ConnectThrows, Throws, BodyRepeats,
       Unlock, SetValue, SetErrorOrStopped, Completes
  <2> QED BY <2>2 DEF Next, RequestStop
<1> QED BY Invariant, <1>1, PTL DEF Spec

-----------------------------------------------------------------------------
(* The turn is not lost                                                    *)

\* The innermost frame after a step of thread t.
LEMMA TopAfter ==
    ASSUME IInv, NEW t \in Threads, NEW r, stack' = [stack EXCEPT ![t] = r]
    PROVE  /\ stack'[t] = r
           /\ \A l : Top(t, l)' <=> r # <<>> /\ Head(r).at = l
           /\ \A u \in Threads : u # t => \A l : Top(u, l)' <=> Top(u, l)
<1>1. \A u \in Threads : stack'[u] = IF u = t THEN r ELSE stack[u]
  BY DEF IInv, TypeOK
<1> QED BY <1>1 DEF Top

\* next() goes on to the label.
LEMMA GotoTop ==
    ASSUME IInv, NEW t \in Threads, NEW l \in Labels, NEW k \in Labels,
           Top(t, k), Goto(t, l)
    PROVE  Top(t, l)' /\ \A u \in Threads : u # t => \A m : Top(u, m)' <=> Top(u, m)
<1>1. PICK x \in Frame : x = At(l) /\ x.at = l
  BY Frames1
<1>2. PICK q : q = Tail(stack[t])
  OBVIOUS
<1>3. q \in Seq(Frame)
  BY <1>2, StackFacts DEF Top
<1>4. PICK r : r = <<x>> \o q
  OBVIOUS
<1>5. r # <<>> /\ Head(r) = x
  BY <1>3, <1>4
<1>6. stack' = [stack EXCEPT ![t] = r]
  BY <1>1, <1>2, <1>4 DEF Goto
<1> QED BY <1>1, <1>5, <1>6, TopAfter

\* Who has the turn.
HasTurn(t) == Top(t, "enter") \/ Top(t, "note") \/ Top(t, "body")

\* While the receiver is not completed the turn is in one of its places, on any
\* number of threads.
THEOREM TurnKept == Spec => []TurnIsSomewhere
<1>1. Init => TurnIsSomewhere
  BY DEF Init, TurnIsSomewhere
<1>2. IInv /\ TurnIsSomewhere /\ [Next]_vars => TurnIsSomewhere'
  <2> SUFFICES ASSUME IInv, TurnIsSomewhere, [Next]_vars, round' > 0, outcome' = "pending"
               PROVE  inner' = "running" \/ d_ready' \/ \E u \in Threads : HasTurn(u)'
    BY DEF TurnIsSomewhere, HasTurn
  <2>0. outcome = "pending" /\ round > 0 =>
          inner = "running" \/ d_ready \/ \E u \in Threads : HasTurn(u)
    BY DEF TurnIsSomewhere, HasTurn
  <2>1. CASE UNCHANGED vars \/ RequestStop
    BY <2>0, <2>1 DEF vars, RequestStop, HasTurn, Top
  <2>2. ASSUME NEW t \in Threads, Start(t) \/ BodyRepeats(t) PROVE inner' = "running"
    BY <2>2 DEF Start, BodyRepeats
  <2>3. ASSUME NEW t \in Threads, NEW l, Pop(t), Top(t, l), l \in {"starting", "unlock"},
               UNCHANGED <<d_ready, round, inner, outcome>>
        PROVE  inner' = "running" \/ d_ready' \/ \E u \in Threads : HasTurn(u)'
    <3>1. \A u \in Threads : HasTurn(u) => u # t
      BY <2>3 DEF HasTurn, Top
    <3>2. \A u \in Threads : u # t => (HasTurn(u)' <=> HasTurn(u))
      BY <2>3, TopAfter DEF Pop, HasTurn
    <3> QED BY <2>0, <2>3, <3>1, <3>2
  <2>4. ASSUME NEW t \in Threads, Enter(t)
        PROVE  d_ready' \/ \E u \in Threads : HasTurn(u)'
    <3>1. CASE d_running
      <4>1. Top(t, "note")'
        BY <2>4, <3>1, GotoTop DEF Enter, Labels
      <4> QED BY <4>1 DEF HasTurn
    <3>2. CASE ~d_running
      BY <2>4, <3>2 DEF Enter
    <3> QED BY <3>1, <3>2
  <2>5. ASSUME NEW t \in Threads, Note(t) PROVE d_ready'
    BY <2>5 DEF Note
  <2>6. ASSUME NEW t \in Threads, Loop(t)
        PROVE  inner' = "running" \/ \E u \in Threads : HasTurn(u)'
    <3>1. PICK l \in {"body", "unlock"} : Goto(t, l) /\ (d_ready => l = "body")
      BY <2>6 DEF Loop
    <3>2. Top(t, l)' /\ \A u \in Threads : u # t => \A m : Top(u, m)' <=> Top(u, m)
      BY <2>6, <3>1, GotoTop DEF Loop, Labels
    <3>3. CASE d_ready
      BY <3>1, <3>2, <3>3 DEF HasTurn
    <3>4. CASE ~d_ready
      <4>1. ~HasTurn(t)
        BY <2>6 DEF Loop, Top, HasTurn
      <4>2. UNCHANGED <<round, inner, outcome>>
        BY <2>6 DEF Loop
      <4> QED BY <2>0, <3>2, <3>4, <4>1, <4>2 DEF HasTurn
    <3> QED BY <3>3, <3>4
  <2>7. ASSUME NEW t \in Threads, SetValue(t) PROVE \E u \in Threads : HasTurn(u)'
    <3>1. PICK x \in Frame : x = At("enter") /\ x.at = "enter"
      BY Frames1 DEF Labels
    <3>2. PICK q : q = stack[t] /\ q \in Seq(Frame)
      BY StackFacts
    <3>3. PICK r : r = <<x>> \o q
      OBVIOUS
    <3>4. r # <<>> /\ Head(r) = x
      BY <3>2, <3>3
    <3>5. stack' = [stack EXCEPT ![t] = r]
      BY <2>7, <3>1, <3>2, <3>3 DEF SetValue
    <3>6. Top(t, "enter")'
      BY <3>1, <3>4, <3>5, TopAfter
    <3> QED BY <3>6 DEF HasTurn
  <2>8. ASSUME NEW t \in Threads,
               \/ BodyCompletes(t) \/ PredicateThrows(t) \/ ConnectThrows(t)
               \/ \E kind \in {"error", "stopped"} : SetErrorOrStopped(t, kind)
        PROVE  FALSE
    BY <2>8 DEF BodyCompletes, PredicateThrows, ConnectThrows, Throws, SetErrorOrStopped
  <2>9. ASSUME NEW t \in Threads, StartReturns(t) \/ Unlock(t)
        PROVE  inner' = "running" \/ d_ready' \/ \E u \in Threads : HasTurn(u)'
    BY <2>3, <2>9 DEF StartReturns, Unlock
  <2> QED BY <2>1, <2>2, <2>4, <2>5, <2>6, <2>7, <2>8, <2>9
          DEF Next, Steps, Body, InnerCompletes
<1> QED BY <1>1, <1>2, Invariant, PTL DEF Spec

-----------------------------------------------------------------------------
(* On one thread a note is read                                            *)

\* There is a loop that is going to look at d_ready.
LoopWaits(s) == \E i \in 1..Len(s) : s[i].at = "loop"

\* The loop stays when a frame around it returns or goes on, or is added.
LEMMA LoopWaitsFacts ==
    ASSUME NEW s \in Seq(Frame)
    PROVE  /\ s # <<>> /\ LoopWaits(s) /\ Head(s).at # "loop" => LoopWaits(Tail(s))
           /\ \A x \in Frame : LoopWaits(s) \/ x.at = "loop" => LoopWaits(<<x>> \o s)
<1>1. ASSUME s # <<>>, LoopWaits(s), Head(s).at # "loop" PROVE LoopWaits(Tail(s))
  <2>1. PICK i \in 1..Len(s) : s[i].at = "loop"
    BY <1>1 DEF LoopWaits
  <2>2. /\ Len(Tail(s)) = Len(s) - 1 /\ Len(s) \in Nat /\ Head(s) = s[1]
        /\ \A j \in 1..(Len(s) - 1) : Tail(s)[j] = s[j + 1]
    BY <1>1
  <2>3. i # 1
    BY <1>1, <2>1, <2>2
  <2>4. i - 1 \in 1..(Len(s) - 1) /\ (i - 1) + 1 = i
    BY <2>2, <2>3
  <2>5. Tail(s)[i - 1] = s[i]
    BY <2>2, <2>4
  <2> QED BY <2>1, <2>2, <2>4, <2>5 DEF LoopWaits
<1>2. ASSUME NEW x \in Frame, LoopWaits(s) \/ x.at = "loop" PROVE LoopWaits(<<x>> \o s)
  <2>1. PICK r : r = <<x>> \o s
    OBVIOUS
  <2>2. /\ Len(s) \in Nat /\ Len(r) = Len(s) + 1 /\ r[1] = x
        /\ \A i \in 1..Len(s) : r[i + 1] = s[i]
    BY <2>1
  <2>3. CASE x.at = "loop"
    BY <2>1, <2>2, <2>3 DEF LoopWaits
  <2>4. CASE LoopWaits(s)
    <3>1. PICK i \in 1..Len(s) : s[i].at = "loop"
      BY <2>4 DEF LoopWaits
    <3>2. i + 1 \in 1..Len(r) /\ r[i + 1].at = "loop"
      BY <2>2, <3>1
    <3> QED BY <2>1, <3>2 DEF LoopWaits
  <2> QED BY <1>2, <2>3, <2>4
<1> QED BY <1>1, <1>2

\* What is known with one thread: d_running is set only while there is a loop,
\* and a loop that gets a note, or has got one, waits below.
Noticed(t) ==
    /\ d_running => \E i \in Nat : LoopAt(stack[t], i)
    /\ d_ready \/ Top(t, "note") => LoopWaits(stack[t])

\* The loop is not the frame on top: it waits.
LEMMA BelowWaits ==
    ASSUME IInv, NEW t \in Threads, NEW i \in Nat, LoopAt(stack[t], i),
           stack[t] # <<>>, Head(stack[t]).at \notin Looping
    PROVE  LoopWaits(stack[t])
<1>1. stack[t] \in Seq(Frame) /\ Nested(stack[t])
  BY StackFacts
<1>2. i \in 1..Len(stack[t]) /\ stack[t][i].at \in Looping
  BY DEF LoopAt
<1>3. i # 1
  BY <1>1, <1>2
<1>4. i \in 2..Len(stack[t])
  BY <1>1, <1>2, <1>3
<1>5. stack[t][i].at = "loop"
  BY <1>1, <1>2, <1>4 DEF Nested, Looping
<1> QED BY <1>2, <1>5 DEF LoopWaits

\* A loop that is on top, but not at its condition, is the only one: none waits.
LEMMA NoneWaits ==
    ASSUME IInv, NEW t \in Threads, NEW l \in {"body", "unlock"}, Top(t, l)
    PROVE  ~LoopWaits(stack[t])
<1> SUFFICES ASSUME NEW i \in 1..Len(stack[t]), stack[t][i].at = "loop" PROVE FALSE
  BY DEF LoopWaits
<1>1. LoopAt(stack[t], 1) /\ stack[t] \in Seq(Frame) /\ Head(stack[t]) = stack[t][1]
  BY StackFacts DEF Top, Looping
<1>2. i \in Nat /\ LoopAt(stack[t], i)
  BY <1>1 DEF LoopAt, Looping
<1>3. i = 1
  BY <1>1, <1>2, StackFacts
<1> QED BY <1>1, <1>3 DEF Top

\* The steps of the only thread.
LEMMA NoticedStep ==
    ASSUME IInv, NEW t \in Threads, Noticed(t), Start(t) \/ Steps(t) \/ SetValue(t)
    PROVE  Noticed(t)'
<1>0. PICK s : s = stack[t] /\ s \in Seq(Frame) /\ Nested(s)
  BY StackFacts
<1>1. CASE Start(t)
  <2>1. s = <<>> /\ UNCHANGED <<d_running, d_ready>>
    BY <1>0, <1>1 DEF Start
  <2>2. ~d_running /\ ~d_ready
    BY <1>0, <2>1 DEF Noticed, LoopAt, LoopWaits
  <2>3. PICK r : r = <<Starting(1)>> /\ stack' = [stack EXCEPT ![t] = r]
    BY <1>1 DEF Start
  <2>4. r # <<>> /\ Head(r).at = "starting"
    BY <2>3 DEF Starting
  <2>5. ~Top(t, "note")'
    BY <2>3, <2>4, TopAfter
  <2> QED BY <2>1, <2>2, <2>5 DEF Noticed
<1>2. ASSUME Pop(t), s # <<>>, Head(s).at \notin Looping
      PROVE  /\ \A i \in Nat : LoopAt(s, i) => \E j \in Nat : LoopAt(stack'[t], j)
             /\ LoopWaits(s) => LoopWaits(stack'[t])
             /\ ~Top(t, "note")'
  <2>1. stack'[t] = Tail(s) /\ stack' = [stack EXCEPT ![t] = Tail(s)]
    BY <1>0, <1>2, TopAfter DEF Pop
  <2>2. /\ \A i \in Nat : LoopAt(Tail(s), i) <=> i > 0 /\ LoopAt(s, i + 1)
        /\ Tail(s) # <<>> => Head(Tail(s)).at \in {"starting", "loop"}
    BY <1>0, <1>2, PopFacts
  <2>3. ~Top(t, "note")'
    BY <2>1, <2>2, TopAfter
  <2>4. LoopWaits(s) => LoopWaits(stack'[t])
    BY <1>0, <1>2, <2>1, LoopWaitsFacts DEF Looping
  <2>5. ASSUME NEW i \in Nat, LoopAt(s, i) PROVE \E j \in Nat : LoopAt(stack'[t], j)
    <3>1. i # 1 /\ i # 0
      BY <1>0, <1>2, <2>5 DEF LoopAt
    <3>2. i - 1 \in Nat /\ i - 1 > 0 /\ (i - 1) + 1 = i
      BY <3>1
    <3>3. LoopAt(Tail(s), i - 1)
      BY <2>2, <2>5, <3>2
    <3> QED BY <2>1, <3>2, <3>3
  <2> QED BY <2>3, <2>4, <2>5
<1>3. CASE StartReturns(t)
  <2>1. Pop(t) /\ s # <<>> /\ Head(s).at \notin Looping /\ UNCHANGED <<d_running, d_ready>>
    BY <1>0, <1>3 DEF StartReturns, Top, Looping
  <2> QED BY <1>0, <1>2, <2>1 DEF Noticed
<1>4. CASE Note(t)
  <2>1. /\ Pop(t) /\ s # <<>> /\ Head(s).at \notin Looping
        /\ UNCHANGED d_running /\ Top(t, "note")
    BY <1>0, <1>4 DEF Note, Top, Looping
  <2> QED BY <1>0, <1>2, <2>1 DEF Noticed
<1>5. ASSUME NEW l \in Labels \ {"starting"}, Goto(t, l), s # <<>>, Head(s).at # "starting"
      PROVE  /\ Top(t, l)'
             /\ l \in Looping => \E i \in Nat : LoopAt(stack'[t], i)
             /\ \A i \in Nat : LoopAt(s, i) /\ i # 1 => LoopAt(stack'[t], i)
             /\ LoopWaits(s) /\ Head(s).at # "loop" => LoopWaits(stack'[t])
             /\ l = "loop" => LoopWaits(stack'[t])
  <2>1. PICK x \in Frame : x = At(l) /\ x.at = l
    BY Frames1
  <2>2. PICK r : r = <<x>> \o Tail(s)
    OBVIOUS
  <2>3. stack' = [stack EXCEPT ![t] = r]
    BY <1>0, <1>5, <2>1, <2>2 DEF Goto
  <2>4. /\ r # <<>> /\ Head(r) = x
        /\ \A i \in Nat : LoopAt(r, i) <=> IF i = 1 THEN x.at \in Looping ELSE LoopAt(s, i)
    <3>1. x.at # "starting"
      BY <2>1
    <3> QED BY <1>0, <1>5, <2>2, <3>1, GotoFacts
  <2>5. stack'[t] = r /\ Top(t, l)'
    BY <2>1, <2>3, <2>4, TopAfter
  <2>6. Tail(s) \in Seq(Frame)
    BY <1>0, <1>5
  <2>7. LoopWaits(s) /\ Head(s).at # "loop" => LoopWaits(r)
    BY <1>0, <1>5, <2>2, <2>6, LoopWaitsFacts
  <2>8. l = "loop" => LoopWaits(r)
    BY <2>1, <2>2, <2>6, LoopWaitsFacts
  <2> QED BY <2>1, <2>4, <2>5, <2>7, <2>8
<1>6. CASE Enter(t)
  <2>1. s # <<>> /\ Head(s).at = "enter" /\ Top(t, "enter")
    BY <1>0, <1>6 DEF Enter, Top
  <2>2. CASE d_running
    <3>1. Goto(t, "note") /\ UNCHANGED <<d_running, d_ready>>
      BY <1>6, <2>2 DEF Enter
    <3>2. PICK i \in Nat : LoopAt(s, i)
      BY <1>0, <2>2 DEF Noticed
    <3>3. LoopWaits(s)
      BY <1>0, <2>1, <3>2, BelowWaits DEF Looping
    <3>4. i # 1
      BY <1>0, <2>1, <3>2 DEF LoopAt, Looping
    <3>5. LoopAt(stack'[t], i) /\ LoopWaits(stack'[t])
      BY <1>5, <2>1, <3>1, <3>2, <3>3, <3>4 DEF Labels
    <3> QED BY <3>5 DEF Noticed
  <2>3. CASE ~d_running
    <3>1. Goto(t, "loop")
      BY <1>6, <2>3 DEF Enter
    <3>2. (\E i \in Nat : LoopAt(stack'[t], i)) /\ LoopWaits(stack'[t])
      BY <1>5, <2>1, <3>1 DEF Labels, Looping
    <3> QED BY <3>2 DEF Noticed
  <2> QED BY <2>2, <2>3
<1>7. CASE Loop(t)
  <2>1. /\ s # <<>> /\ Head(s).at = "loop" /\ ~d_ready'
    BY <1>0, <1>7 DEF Loop, Top
  <2>2. PICK l \in {"body", "unlock"} : Goto(t, l)
    BY <1>7 DEF Loop
  <2>3. Top(t, l)' /\ \E i \in Nat : LoopAt(stack'[t], i)
    BY <1>5, <2>1, <2>2 DEF Labels, Looping
  <2>4. ~Top(t, "note")'
    BY <2>3 DEF Top
  <2> QED BY <2>1, <2>3, <2>4 DEF Noticed
<1>8. CASE BodyCompletes(t)
  <2>1. /\ s # <<>> /\ Head(s).at = "body" /\ Goto(t, "unlock") /\ UNCHANGED d_ready
        /\ Top(t, "body")
    BY <1>0, <1>8 DEF BodyCompletes, Top
  <2>2. ~d_ready
    BY <2>1 DEF IInv, Turn
  <2>3. Top(t, "unlock")' /\ \E i \in Nat : LoopAt(stack'[t], i)
    BY <1>5, <2>1 DEF Labels, Looping
  <2>4. ~Top(t, "note")'
    BY <2>3 DEF Top
  <2> QED BY <2>1, <2>2, <2>3, <2>4 DEF Noticed
<1>9. CASE PredicateThrows(t) \/ ConnectThrows(t) \/ Unlock(t)
  <2>1. PICK l \in {"body", "unlock"} :
          /\ Top(t, l) /\ Pop(t) /\ s # <<>> /\ ~d_running' /\ UNCHANGED d_ready
    BY <1>0, <1>9 DEF PredicateThrows, ConnectThrows, Throws, Unlock, Top
  <2>2. ~d_ready
    <3>1. ~LoopWaits(stack[t])
      BY <2>1, NoneWaits
    <3> QED BY <3>1 DEF Noticed
  <2>3. ~Top(t, "note")'
    <3>1. Tail(s) # <<>> => Head(Tail(s)).at \in {"starting", "loop"}
      BY <1>0, <2>1, PopFacts
    <3>2. PICK r : r = Tail(s) /\ stack' = [stack EXCEPT ![t] = r]
      BY <1>0, <2>1 DEF Pop
    <3>3. Top(t, "note")' <=> r # <<>> /\ Head(r).at = "note"
      BY <3>2, TopAfter
    <3> QED BY <3>1, <3>2, <3>3
  <2> QED BY <2>1, <2>2, <2>3 DEF Noticed
<1>10. CASE BodyRepeats(t)
  <2>1. /\ s # <<>> /\ Head(s).at = "body" /\ Top(t, "body") /\ UNCHANGED d_ready
        /\ round < MaxRounds
    BY <1>0, <1>10 DEF BodyRepeats, Top
  <2>2. ~d_ready
    BY <2>1 DEF IInv, Turn
  <2>3. PICK k \in 0..MaxRounds : k = round + 1
    BY <2>1, RoundsAssumption DEF IInv, TypeOK
  <2>4. PICK r : r = <<Starting(k), At("loop")>> \o Tail(s)
    OBVIOUS
  <2>5. stack' = [stack EXCEPT ![t] = r]
    BY <1>0, <1>10, <2>3, <2>4 DEF BodyRepeats
  <2>6. /\ Head(r).at = "starting"
        /\ \A i \in Nat : LoopAt(r, i) <=> i = 2 \/ (i > 2 /\ LoopAt(s, i - 1))
    BY <1>0, <2>1, <2>4, RepeatFacts
  <2>7. LoopAt(stack'[t], 2) /\ ~Top(t, "note")'
    <3>1. stack'[t] = r /\ (Top(t, "note")' <=> r # <<>> /\ Head(r).at = "note")
      BY <2>5, TopAfter
    <3>2. LoopAt(r, 2)
      BY <2>6
    <3> QED BY <2>6, <3>1, <3>2
  <2> QED BY <2>1, <2>2, <2>7 DEF Noticed
<1>11. CASE SetValue(t)
  <2>1. PICK x \in Frame : x = At("enter") /\ x.at = "enter"
    BY Frames1 DEF Labels
  <2>2. PICK r : r = <<x>> \o s
    OBVIOUS
  <2>3. stack' = [stack EXCEPT ![t] = r] /\ UNCHANGED <<d_running, d_ready>>
    BY <1>0, <1>11, <2>1, <2>2 DEF SetValue
  <2>4. s # <<>> => Head(s).at = "starting"
    <3>1. round \in 0..MaxRounds
      BY DEF IInv, TypeOK
    <3> QED BY <1>0, <1>11, <3>1, Frames1 DEF SetValue, Completes
  <2>5. /\ r # <<>> /\ Head(r).at = "enter"
        /\ \A i \in Nat : LoopAt(r, i) <=> i > 1 /\ LoopAt(s, i - 1)
    BY <1>0, <2>1, <2>2, <2>4, PushFacts
  <2>6. stack'[t] = r /\ ~Top(t, "note")'
    BY <2>3, <2>5, TopAfter
  <2>7. LoopWaits(s) => LoopWaits(r)
    BY <1>0, <2>1, <2>2, LoopWaitsFacts
  <2>8. ASSUME NEW i \in Nat, LoopAt(s, i) PROVE \E j \in Nat : LoopAt(r, j)
    <3>1. i # 0
      BY <2>8 DEF LoopAt
    <3>2. i + 1 \in Nat /\ i + 1 > 1 /\ (i + 1) - 1 = i
      BY <3>1
    <3>3. LoopAt(r, i + 1)
      BY <2>5, <2>8, <3>2
    <3> QED BY <3>2, <3>3
  <2> QED BY <1>0, <2>3, <2>6, <2>7, <2>8 DEF Noticed
<1> QED BY <1>1, <1>3, <1>4, <1>6, <1>7, <1>8, <1>9, <1>10, <1>11 DEF Steps, Body

\* When all completions happen on one thread a note left for the loop is read:
\* with TurnKept, none of an inner operation is forgotten.
THEOREM NoteRead ==
    ASSUME NEW t \in Threads
    PROVE  Spec /\ []OnlyThread(t) => []NoteIsRead(t)
<1>1. Init => Noticed(t)
  BY DEF Init, Noticed, Top
<1>2. IInv /\ Noticed(t) /\ OnlyThread(t) /\ OnlyThread(t)' /\ [Next]_vars => Noticed(t)'
  <2> SUFFICES ASSUME IInv, Noticed(t), OnlyThread(t), OnlyThread(t)', [Next]_vars
               PROVE  Noticed(t)'
    OBVIOUS
  <2>1. ASSUME UNCHANGED <<d_running, d_ready, stack>> PROVE Noticed(t)'
    BY <2>1 DEF Noticed, Top
  <2>2. CASE UNCHANGED vars \/ RequestStop
    BY <2>1, <2>2 DEF vars, RequestStop
  <2>3. ASSUME NEW u \in Threads, NEW kind, SetErrorOrStopped(u, kind) PROVE Noticed(t)'
    BY <2>1, <2>3 DEF SetErrorOrStopped
  <2>4. ASSUME NEW u \in Threads, Start(u) \/ Steps(u) \/ SetValue(u) PROVE u = t
    <3> SUFFICES ASSUME u # t PROVE FALSE
      OBVIOUS
    <3>1. stack[u] = <<>> /\ stack'[u] = <<>>
      BY DEF OnlyThread
    <3>2. ~Steps(u)
      BY <3>1 DEF Steps, Body, StartReturns, Enter, Note, Loop, BodyCompletes, PredicateThrows,
         ConnectThrows, Throws, BodyRepeats, Unlock, Top
    <3>3. CASE Start(u)
      <4>1. stack'[u] = <<Starting(1)>>
        BY <3>3, TopAfter DEF Start
      <4> QED BY <3>1, <4>1
    <3>4. CASE SetValue(u)
      <4>1. stack'[u] = <<At("enter")>> \o <<>>
        BY <3>1, <3>4, TopAfter DEF SetValue
      <4>2. PICK x \in Frame : x = At("enter")
        BY Frames1 DEF Labels
      <4>3. <<x>> \o <<>> # <<>>
        OBVIOUS
      <4> QED BY <3>1, <4>1, <4>2, <4>3
    <3> QED BY <2>4, <3>2, <3>3, <3>4
  <2>5. ASSUME NEW u \in Threads, Start(u) \/ Steps(u) \/ SetValue(u) PROVE Noticed(t)'
    BY <2>4, <2>5, NoticedStep
  <2> QED BY <2>2, <2>3, <2>5 DEF Next, InnerCompletes
<1>3. Noticed(t) => NoteIsRead(t)
  BY DEF Noticed, NoteIsRead, LoopWaits
<1> QED BY <1>1, <1>2, <1>3, Invariant, PTL DEF Spec

=============================================================================
